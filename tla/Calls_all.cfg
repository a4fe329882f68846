SPECIFICATION FairSpec
CONSTANTS
  Clients = {"c"}
  Users = {"ann"}
  Root = "root"
  Secrets = {"secret"}
  DefaultKey = "default"
  Invitations = {"i"}
  Configs <- MCConfigs
  Types = {"DIDEXCHANGE", "BASIC_MESSAGE"}
  Others <- MCOthers
  Lifetime = 0
  MaxTime = 1
  MaxProtocols = 1
  MaxStates = 2
INVARIANTS
  TypeOK
  HeardIsTold
  AgencyKnowsConnection
PROPERTIES
  ServedWhileValid
  CallsReturn
