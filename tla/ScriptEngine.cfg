SPECIFICATION Spec
CONSTANTS
  Blocks = {b1, b2, b3}
  Persistent = {b2}
  BadSyntax = {b3}
  Names = {i1, i2}
  KeptItems = {i1}
  Sources = {i1, i2}
  MaxStack = 3
INVARIANTS QuietAtRest RanOnce Bracketed UnlessMeddled
PROPERTIES ClosedIsFinal
