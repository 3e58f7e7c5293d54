\* An unregistration that overtakes the registration leaves a ghost client.
SPECIFICATION Spec
CONSTANTS
  Node = {"g1"}
  Conn = {1, 2, 3}
  NodeOf <- OneNode
  UserOf <- MixedUsers
  PlatformOf <- OnePlatform
  User = {"u", "v"}
  Platform = {"ios"}
  ClassOf <- Classes
  Object <- TwoObjects
  Policy = "SameTerm"
  ChanCap = 3
  MaxConn = 3
  RegisterFirst = FALSE
  LockKept = TRUE
  RpcFails = FALSE
  None = none
INVARIANTS OwnClients
CHECK_DEADLOCK FALSE
