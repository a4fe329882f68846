CONSTANTS
  c1 = c1
  c2 = c2
  Connections = {c1, c2}
  MaxProtocols = 2
  MaxQuestions = 0
  Batches <- FrontBatches
  Enders = {c1}
  Restarts = FALSE
  HasBackend = FALSE
  MaxBroadcasts = 0
  BackendEnds = FALSE
  IntCap = 1
SPECIFICATION FairSpec
INVARIANT OneHandover
PROPERTY ImplementsDelivery
PROPERTY StatusesTransported
PROPERTY TerminationStopsBot
CHECK_DEADLOCK FALSE
