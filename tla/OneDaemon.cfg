SPECIFICATION Spec
CONSTANTS
  h1 = h1
  h2 = h2
  c1 = c1
  c2 = c2
  None = None
  Hosts = {h1, h2}
  Clients = {c1, c2}
  MaxStops = 1
CHECK_DEADLOCK FALSE
INVARIANTS
  OneDaemonPerWorkspace
