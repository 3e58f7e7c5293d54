\* A batch larger than what BatchInsertChat2Cache takes; no fault.
SPECIFICATION Spec
CONSTANTS
  Proc = {p, q}
  Topics <- OneChat
  User = {"u", "v"}
  BatchSize = 2
  Limit = 1
  MaxFailures = 0
  MaxCuts = 0
SYMMETRY Procs
INVARIANTS AnyBatchStored
CHECK_DEADLOCK FALSE
