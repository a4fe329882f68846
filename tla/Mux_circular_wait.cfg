CONSTANTS
  c1 = c1
  Connections = {c1}
  MaxProtocols = 3
  MaxQuestions = 0
  Batches <- BackBatches
  Enders = {}
  Restarts = FALSE
  HasBackend = TRUE
  MaxBroadcasts = 0
  BackendEnds = FALSE
  IntCap = 1
SPECIFICATION FairSpec
PROPERTY StatusesTransported
CHECK_DEADLOCK FALSE
