\* Slow, dead and colliding lock holders; Redis drops the hash at any time.
SPECIFICATION FairSpec
CONSTANTS
  Caller = {a, b}
  NoCaller = none
  Size = {0, 1, 2}
  Basic = 1
  LockValue = {v}
  NoLock = noLock
  Retries = 2
  SeqBound = 2
INVARIANTS TypeOK WithinCounter OneOwner MaxSeqCovers
PROPERTIES LockReleased
