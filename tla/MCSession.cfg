CONSTANTS
  Peer = {p1, p2}
  Client = {c1, c2}
  NULL = NULL
  MaxConnections = 2
  MaxPackets = 3
  Address = {"wellformed"}
  MaxArrivals = 1
  MaxConnects = 1
SPECIFICATION FairSessionSpec
INVARIANTS ServerInv AnsweredOnce OneHandshake StageMeansAnswered
PROPERTIES EventsAreServed ReachesStageOne GoneClientIsDeleted ImplementsAdmission
CHECK_DEADLOCK FALSE
