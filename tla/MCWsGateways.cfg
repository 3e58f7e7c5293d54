\* Two gateways, policy 1, logins of one user on one platform; the event loop
\* takes its channels in any order.
SPECIFICATION Spec
CONSTANTS
  Node = {"g1", "g2"}
  Conn = {1, 2, 3}
  NodeOf <- TwoNodes
  UserOf <- OneUser
  PlatformOf <- OnePlatform
  User = {"u"}
  Platform = {"ios"}
  ClassOf <- Classes
  Object <- OneObject
  Policy = "SameTerm"
  ChanCap = 3
  MaxConn = 3
  RegisterFirst = FALSE
  LockKept = TRUE
  RpcFails = FALSE
  None = none
INVARIANTS ConnCount Associated OneInstance
CHECK_DEADLOCK FALSE
