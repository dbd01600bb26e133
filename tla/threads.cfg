CONSTANTS
  Threads = {t1, t2}
  NoThread = NoThread
SPECIFICATION Spec
CHECK_DEADLOCK FALSE
INVARIANTS
  TypeOK
  ArchiveOpenInUse
  ApiNeverWaits
  
  NothingHeldAfterCall
PROPERTY
  LocksReleased
