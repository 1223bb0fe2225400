SPECIFICATION Spec
CONSTANTS
  Services = {s1, s2}
  SelfEnding = {}
  RegisterMayFail = {}
  NoControl = NoControl
INVARIANTS NoHandleYet
\* A service that could not be registered at all stays a zombie.
CHECK_DEADLOCK FALSE
