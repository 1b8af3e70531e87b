SPECIFICATION Spec
CONSTANTS
  Handlers = {h1}
  h1 = h1
  Pty = TRUE
  Daemon = TRUE
  Kinds = {"stop", "kill", "archive", "purge"}
  Early = TRUE
  MaxHostCrashes = 1
  MaxWorkerCrashes = 1
\* A session that ended and a host without requests are at rest.
CHECK_DEADLOCK FALSE
INVARIANTS
  ReconcileSparesLive
  DeadAtBootIsTerminal
  OrphanedMeansNoWorker
  KillPutsChildDown
  StopNamesAProcess
