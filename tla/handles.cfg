SPECIFICATION Spec
CONSTANTS
  Backends = {"zip", "dwarfs", "squashfs"}
  MaxSize = 4
  Counts = {0, 1, 2, 4, 5}
  SeekBy <- MCSeekBy
  Word32 = 8
INVARIANTS
  TypeOK
  EofAtEnd
  StreamInStep
PROPERTIES
  Implements
