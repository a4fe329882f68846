CONSTANTS
  u1 = u1
  ticker = ticker
  k1 = k1
  v1 = v1
  v2 = v2
  Absent = Absent
  Clients = {u1, ticker}
  Keys = {k1}
  Values = {v1}
  MayCall <- AllCalls
  MaxSeconds = 2
  MaxCrashes = 1
  Failures = {"open", "buckets", "getAll", "close", "copy", "remove"}
SPECIFICATION FairSpec
INVARIANT TypeOK
INVARIANT CleanIsBackedUp
INVARIANT BackupsWhole
PROPERTY ImplementsKVStore
PROPERTY CallsReturn
PROPERTY ChangesBackedUp
