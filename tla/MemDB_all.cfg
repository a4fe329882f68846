CONSTANTS
  u1 = u1
  u2 = u2
  k1 = k1
  k2 = k2
  v1 = v1
  v2 = v2
  Absent = Absent
  Clients = {u1, u2}
  Keys = {k1, k2}
  Values = {v1, v2}
  MayCall <- AllCalls
SPECIFICATION Spec
INVARIANT TypeOK
INVARIANT MapExclusive
PROPERTY ImplementsKVStore
