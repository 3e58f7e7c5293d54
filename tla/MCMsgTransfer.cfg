\* Two processes, topics of two or three messages, a failing call, a crash or a
\* move of the partition, batches that may be larger than the limit.
SPECIFICATION Spec
CONSTANTS
  Proc = {p, q}
  Topics <- AllTopics
  User = {"u", "v"}
  BatchSize = 3
  Limit = 2
  MaxFailures = 1
  MaxCuts = 1
SYMMETRY Procs
INVARIANTS NothingLost StoredOnce OwnMessagesRead OneMessagePerSeq PushOrder PushedIsFound
CHECK_DEADLOCK FALSE
