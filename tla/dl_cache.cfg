SPECIFICATION Spec
CONSTANTS
  MountPoints <- MCMountPoints
  Images <- MCImages
  Files <- MCFiles
  Paths <- MCPaths
VIEW Live
INVARIANTS
  CachedFilesKept
  LeftoversRewritten
PROPERTIES
  ReturnsOwnersFile
CHECK_DEADLOCK FALSE
