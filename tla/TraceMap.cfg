SPECIFICATION Spec
CONSTANTS
  p1 = p1
  p2 = p2
  t1 = t1
  t2 = t2
  Procs = {p1, p2}
  Threads = {t1, t2}
  ProcOf <- Apart
  Values = {v1, v2, v3}
  MaxSections = 3
  Null = Null
  Free = Free
  Alien = Alien
  MayBePoor = {p2}
CONSTRAINT PoorAlone
SYMMETRY ValueSymmetry
INVARIANTS NothingAdrift OneSection
PROPERTY AlienHandlesKept
