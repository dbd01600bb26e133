SPECIFICATION Spec
CONSTANTS
  Name <- MCName
  Paths <- FewPaths
  MountPoints <- NestedPoints
  Images = {"a", "b"}
  Status <- MCStatus
  Files <- MCFiles
  Dirs <- MCDirs
  HostFiles = {}
  Host <- MCHost
  Word = 16
  Offsets = {0}
  SeekArgs <- MCSeekArgs
  FdFlag = 4
  FdMax = 2
  MaxHandles = 3
  MaxFds = 4
  MaxDirs = 3
VIEW WithoutResults
INVARIANTS
  TypeOK
  DescriptorsOwned
  OrphansStayInvalid
  CounterAboveFds
  CookieIsOrdinal
  ShadowedOnlyByNewer
PROPERTIES
  OthersUndisturbed
