\* msgtransfer's configuration, with syncWait; each key has a worker of its own.
SPECIFICATION FairSpec
CONSTANTS
  Item = {1, 2, 3, 4}
  Key <- Keys
  KeyOf <- KeyOf4
  Worker = {1, 2}
  Shard <- OwnWorker
  Size = 2
  DataBuffer = 2
  Buffer = 1
  SyncWait = TRUE
  Nil = nil
INVARIANTS CloseDrains
PROPERTIES InOrder CompleteAfterDo AcceptedIsHandled CloseReturns
CHECK_DEADLOCK FALSE
