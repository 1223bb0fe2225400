SPECIFICATION ImportSpec
CONSTANTS
  p1 = p1
  p2 = p2
  p3 = p3
  s1 = s1
  s2 = s2
  Importers = {p1, p2, p3}
  Session <- Sessions
  Elevated = {p1, p3}
  Global = Global
INVARIANTS SessionConnected
