CONSTANTS
  Threads = {t1, t2}
  None = None
  MaxObjects = 1
  MaxInits = 1

SPECIFICATION Spec

CONSTRAINT OneHost
SYMMETRY ThreadSymmetry

INVARIANTS
  UpBeforeUse
  ReadyMeansInside
  NoOtherDeadlock

PROPERTY
  HostKept

CHECK_DEADLOCK FALSE
