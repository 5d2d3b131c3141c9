SPECIFICATION MCSpec
CONSTANTS
  Letters = {"ice", "a", "t", "l"}
  Paths <- MCPaths
  Targets <- MCTargets
  DevNames <- MCDevNames
  MaxMnts = 3
  MaxFds = 5
  NAME_LEN = 3
  FS_MAX_PATH = 5
  MaxNodes = 8
  BootDirs <- MCBootDirs
  LogPath <- MCLogPath
  DevMount <- MCDevMount
  Args <- MCArgs
  MAX_ENTRIES = 3
  MAX_PATH_LEN = 7
INVARIANTS NoFileLeaked
PROPERTIES ResolutionStable CreatedResolves PathsMeant
CHECK_DEADLOCK FALSE
