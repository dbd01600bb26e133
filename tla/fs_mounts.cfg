SPECIFICATION Spec
CONSTANTS
  Name <- MCName
  Paths <- MCPaths
  MountPoints <- SlashPoints
  Images = {"a", "u", "s", "k", "b"}
  Status <- MCStatus
  Files <- MCFiles
  Dirs <- MCDirs
  HostFiles = {"package", "plain", "gone"}
  Host <- MCHost
  Word = 16
  Offsets = {0, 1, 2, 4, 15}
  SeekArgs <- MCSeekArgs
  FdFlag = 4
  FdMax = 3
  MaxHandles = 3
  MaxFds = 1
  MaxDirs = 1
INVARIANTS
  DispatchUnambiguous
  CompatIsFirst
  RegionsChecked
PROPERTIES
  HandlesNeverReused
