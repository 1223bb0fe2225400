SPECIFICATION FairSpec
CONSTANTS
  Workers = {w1, w2}
  Requests = {r1, r2, r3}
  None = None
  TokenMayFail = TRUE
  MayBeLate = TRUE
INVARIANTS ActsForItsUser InOnePlace ShutdownForEach
PROPERTIES WorkersEnd RequestServed
\* The extension is terminated once.
CHECK_DEADLOCK FALSE
