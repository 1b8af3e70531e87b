SPECIFICATION Spec
CONSTANTS
  Handlers = {h1, h2}
  h1 = h1
  h2 = h2
  Pty = FALSE
  Daemon = FALSE
  Kinds = {"stop", "archive"}
  Early = FALSE
  MaxHostCrashes = 0
  MaxWorkerCrashes = 0
\* A session that ended and a host without requests are at rest.
CHECK_DEADLOCK FALSE
SYMMETRY HandlerSymmetry
INVARIANTS
  KillEvidence
