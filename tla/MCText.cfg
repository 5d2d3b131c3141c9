SPECIFICATION MCSpec
CONSTANTS
  Fds = {3, 4}
  Bytes = {"a", "b"}
  Data <- MCData
  Counts = {0, 3}
  Offsets = {0, 1, 3}
  BLOCK = 2
  MaxPos = 4
  EditKeys = {"a", "b"}
  Files <- MCFiles
  MAX_LINES = 3
  MAX_LINE_LEN = 3
  MaxText = 4
  Keys = {"a", "&", " "}
  MAX_INPUT_LEN = 8
  MAX_HISTORY = 2
  MAX_CHAINED_CMDS = 2
  MAX_NAME = 2
  TAB = 2
  Garbage <- MCGarbage
  MaxEntered = 4
  MaxTyped = 7
  Terms = {1, 2}
  TermKeys = {"r", "d"}
  Printable = {"r", "d", "$", "/", "o", "u", "t", "?"}
  GUI_OUTPUT_LINES = 3
  GUI_OUTPUT_COLS = 5
  Prompts <- MCPrompts
  TermCommands <- MCTermCommands
  NotFound <- MCNotFound
  Widths = {1, 2}
  PROMPT_SIZE = 3
  MaxTermKeys = 7
INVARIANTS BufferOwned CursorInside LinesKept RunsParts TerminalKeeps
PROPERTIES ImplementsFile EditsAtPoint LoadsAndSaves
CHECK_DEADLOCK FALSE
