SPECIFICATION MCSpec
CONSTANTS
  Letters = {46}
  MaxHeld = 2
  UsbKeys = {20, 57}
  SLOTS = 2
  Axes = {"y"}
  Size <- MCSize
  CURSOR = 1
  Rels <- MCRels
  Deltas <- MCDeltas
  WideDeltas <- MCWideDeltas
  Places = {7}
  Sensitivities = {4}
  Callbacks = {"c", "d", "e"}
  Intervals = {1, 7}
  Repeats = {TRUE, FALSE}
  Unsubscribes = TRUE
  MAX_EVENT_SUBSCRIBERS = 2
  MaxTicks = 4
  Rows = 2
  Cols = 3
  Wrap = 8
  Glyphs = {"a"}
  Outputs <- MCOutputs
  Prompt = "a"
  MAX_INPUT_LEN = 2
  MaxEarly = 2
INVARIANTS KeysRight PointersRight BackgroundRestored SubscribersServed TextShown
CHECK_DEADLOCK FALSE
