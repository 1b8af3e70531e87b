SPECIFICATION FairSpec
CONSTANTS
  c1 = c1
  Followers = {c1}
  Clients = {c1}
  Records <- MCRecords
  MaxRecords = 2
  ReplayLimits = {0, 1}
  QueueLimit = 1
  MaxLines = 2
  MaxFrames = 2
  Capacity = 2
CHECK_DEADLOCK FALSE
INVARIANTS
  SubscriptionHasNoGap
  FollowerMissesNothing
  AttachIsAccounted
  LinesArriveInOrder
  FramesArriveInOrder
PROPERTIES
  EachEventOnceInOrder
  EndedSessionClosesStreams
  AbandonedSubscriptionEnds
  LeavingReleasesProxy
