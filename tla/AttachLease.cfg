SPECIFICATION Spec
CONSTANTS
  Streams = {s1, s2}
  s1 = s1
  s2 = s2
  NoStream = NoStream
  Senders = {q1}
  q1 = q1
  QueueCapacity = 1
  MaxAccepted = 2
  MaxFrames = 2
  MaxActing = 1
  Updates = {"kill"}
\* The worker's process ends.
CHECK_DEADLOCK FALSE
SYMMETRY StreamSymmetry
INVARIANTS
  OwnerIsAttached
  LateInputAtMostOne
PROPERTIES
  LeaseSpec
