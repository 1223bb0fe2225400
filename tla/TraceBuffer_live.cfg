SPECIFICATION FairSpec
CONSTANTS
  w1 = w1
  w2 = w2
  Writers = {w1, w2}
  Readers = {r1}
  BufferSize = 4
  HeaderSize = 1
  WordSpan = 64
  MaxUnits = 3
  Budget <- LongAndShort
  None = None
  Blank = Blank
  MutexMayTimeOut = FALSE
  MallocMayFail = FALSE
  MayCrash = FALSE
INVARIANTS MutualExclusion TextAnnounced
PROPERTIES WritesReturn BlockedReaderWakes TextLeaves
\* Writers run out of units; a reader may then block for good.
CHECK_DEADLOCK FALSE
