SPECIFICATION FairSpec
CONSTANTS
  Streams = {s1}
  s1 = s1
  NoStream = NoStream
  Senders = {}
  QueueCapacity = 1
  MaxAccepted = 2
  MaxFrames = 3
  MaxActing = 2
  Updates = {"running", "exit", "kill"}
\* The worker's process ends.
CHECK_DEADLOCK FALSE
INVARIANTS
  DeliveredBeforeRelease
  ClosedTypesAtMostOne
PROPERTIES
  HangupReleases
