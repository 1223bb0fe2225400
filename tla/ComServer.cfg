CONSTANTS
  Clients = {c1, c2}
  Gateways = {g1, g2}
  None = None
  Quit = Quit

SPECIFICATION Spec

INVARIANTS
  CountHeld
  NoUseAfterDelete

PROPERTIES
  QuitWhenUnused
  UnusedServerEnds
