\* One gateway, two users, policy 5 (one login outside the PC); client objects
\* are reused.
SPECIFICATION FairSpec
CONSTANTS
  Node = {"g1"}
  Conn = {1, 2, 3}
  NodeOf <- OneNode
  UserOf <- MixedUsers
  PlatformOf <- MixedPlatforms
  User = {"u", "v"}
  Platform = {"ios", "android", "windows"}
  ClassOf <- Classes
  Object <- TwoObjects
  Policy = "PCAndOther"
  ChanCap = 1
  MaxConn = 2
  RegisterFirst = TRUE
  LockKept = TRUE
  RpcFails = FALSE
  None = none
INVARIANTS Roster OwnClients
PROPERTIES ClosedLeaves LoopReturns
CHECK_DEADLOCK FALSE
