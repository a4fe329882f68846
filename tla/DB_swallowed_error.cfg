CONSTANTS
  u1 = u1
  ticker = ticker
  k1 = k1
  v1 = v1
  v2 = v2
  Absent = Absent
  Clients = {u1, ticker}
  Keys = {k1}
  Values = {v1, v2}
  MayCall <- FewCalls
  MaxSeconds = 1
  MaxCrashes = 0
  Failures = {"add"}
SPECIFICATION Spec
PROPERTY AcknowledgedDone
