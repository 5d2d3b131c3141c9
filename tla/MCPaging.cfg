SPECIFICATION PagingSpec
CONSTANTS
  MemMaps <- MCMemMaps
  Track = 1
  HighBase = 13
  MidBase = 1
  StartSearch = 3
  Counts = {0, 2}
  MaxOthers = 1
  R = 3
  Root = 9
  Hhdm = 27
  BootTables <- MCBootTables
  BootHuge <- MCBootHuge
  Regions <- MCRegions
  Devices <- MCDevices
INVARIANTS FramesSound ScanIsFirstFit MappingsSound
PROPERTIES MappingEnds
CHECK_DEADLOCK FALSE
