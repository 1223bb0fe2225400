CONSTANTS
  Main = Main
  Workers = {w1}
  MaxMessages = 3
  FlushMax = 2
  MaxDepth = 2

SPECIFICATION Spec

INVARIANTS
  Accounted
  InOrder

PROPERTIES
  ShownStays
  TextAppears

CHECK_DEADLOCK FALSE
