SPECIFICATION FairSpec
CONSTANTS
  Services = {s1, s2}
  SelfEnding = {s2}
  RegisterMayFail = {s2}
  NoControl = NoControl
INVARIANTS HandlerReady StoppedWhenDone
PROPERTIES LifeImplemented StopHonoured
\* A service that could not be registered at all stays a zombie.
CHECK_DEADLOCK FALSE
