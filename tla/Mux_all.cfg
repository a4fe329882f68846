CONSTANTS
  c1 = c1
  Connections = {c1}
  MaxProtocols = 2
  MaxQuestions = 1
  Batches <- AllBatches
  Enders = {c1}
  Restarts = TRUE
  HasBackend = TRUE
  MaxBroadcasts = 2
  BackendEnds = TRUE
  IntCap = 1
SPECIFICATION Spec
INVARIANT TypeOK
INVARIANT OwnInv
INVARIANT NoStaleIDs
PROPERTY OwnMessagesDiscarded
CHECK_DEADLOCK FALSE
