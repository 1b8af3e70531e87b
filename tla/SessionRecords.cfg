SPECIFICATION Spec
CONSTANTS
  c1 = c1
  c2 = c2
  k1 = k1
  Clients = {c1, c2}
  Keys = {k1}
  NoKey = NoKey
  Kinds = {"unread"}
  MaxMarks = 2
  MaxCalls = 3
  MaxCrashes = 2
\* A session that ended and clients without requests are at rest.
CHECK_DEADLOCK FALSE
SYMMETRY ClientSymmetry
INVARIANTS
  DedupeIsUnique
PROPERTIES
  DoctorSparesLive
  RepairableIsRepaired
