SPECIFICATION Spec
CONSTANTS
  HeaderSize = 2
  SlotSize = 2
  MaxSlots = 2
  MaxFormat = 1
  Word = 16
  Junk <- MCJunk
  Binaries <- MCBinaries
  File <- MCFile
  Swaps <- MCSwaps
  Edits <- MCEdits
  MaxCalls = 4
VIEW MCView
INVARIANTS
  TypeOK
  PartsOfPayload
PROPERTIES
  RoundTrip
  PicksUpParts
CHECK_DEADLOCK FALSE
