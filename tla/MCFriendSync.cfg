\* Two calls at a time on two friends, one device.
SPECIFICATION FairSpec
CONSTANTS
  Writer = {w1, w2}
  Client = {c}
  Friend = {"e", "f"}
  Sort = sort
  None = none
  Limit = 2
  MaxCalls = 3
  Changes <- AnyAndAdd
INVARIANTS TypeOK NothingMissed CacheFresh
PROPERTIES VersionForward Converges
CHECK_DEADLOCK FALSE
