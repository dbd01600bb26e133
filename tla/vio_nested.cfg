CONSTANTS
  Threads = {t1, t2}
  NoThread = NoThread
SPECIFICATION Spec
CHECK_DEADLOCK FALSE
PROPERTY
  EveryLockReleased
