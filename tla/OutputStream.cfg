SPECIFICATION FairSpec
CONSTANTS
  Observers = {o1}
  o1 = o1
  QueueCapacity = 2
  RingCapacity = 2
  CloseAfter = 3
  MaxChunk = 2
  MaxOutput = 6
\* The worker's process ends.
CHECK_DEADLOCK FALSE
INVARIANTS
  NoticesAreTrue
  LiveStreamJoins
  ReplayMeetsLive
PROPERTIES
  DropsAreAnnounced
