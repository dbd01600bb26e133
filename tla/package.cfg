SPECIFICATION Spec
CONSTANTS
  Editors = {"a", "b"}
  Runtimes = {"boot", "runtime"}
  Images = {"i", "j"}
  Size <- MCSize
  Mounts <- MCMounts
  MaxSlots = 3
  MaxEdits = 3
INVARIANTS
  TypeOK
  ManifestFits
  DefaultMountsMoveDown
PROPERTIES
  EditIsExact
CHECK_DEADLOCK FALSE
