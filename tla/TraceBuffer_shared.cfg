SPECIFICATION Spec
CONSTANTS
  w1 = w1
  w2 = w2
  Writers = {w1, w2}
  Readers = {r1}
  BufferSize = 4
  HeaderSize = 1
  WordSpan = 64
  MaxUnits = 2
  Budget <- Even
  None = None
  Blank = Blank
  MutexMayTimeOut = TRUE
  MallocMayFail = FALSE
  MayCrash = FALSE
INVARIANT MutualExclusion
\* Writers run out of units; a reader may then block for good.
CHECK_DEADLOCK FALSE
