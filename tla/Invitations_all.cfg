CONSTANTS
  Handles = {"i", "j"}
  Keys = {"k1", "k2"}
  Infos <- MCInfos
  Received <- MCReceived
SPECIFICATION Spec
INVARIANTS TypeOK KeysKept ReturnsB58
