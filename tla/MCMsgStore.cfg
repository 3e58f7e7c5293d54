\* Three messages in documents of two, two consumers, two calls that mark and two
\* readers.
SPECIFICATION Spec
CONSTANTS
  Consumer = {c1, c2}
  Marker = {m1, m2}
  Reader = {r1, r2}
  None = none
  DocSize = 2
  LastSeq = 3
  MaxBatch = 3
  Budgets <- MCBudgets
SYMMETRY Symmetric
INVARIANTS TypeOK BatchStored CacheAgrees NotHidden
PROPERTIES Implements
CHECK_DEADLOCK FALSE
