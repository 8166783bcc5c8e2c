\* Two threads, two pointers, every member function; and the machine-level
\* operations, two at a time.
CONSTANTS
  Thread = {t1, t2}
  v1 = v1
  v2 = v2
  Ptr <- TwoPtrs
  Val = {v1, v2}
  Start <- TwoStart
  Kinds <- AllKinds
  MaxCalls = 2
  u1 = u1
  u2 = u2
  Types = {"int", "ptr"}
  OrderedOps = {"add", "cmpset", "load", "store"}
  MaxLost = 1
  ATOMIC_NULL = ATOMIC_NULL
  Failed = Failed
  Done = Done
  NoCall = NoCall
SPECIFICATION MCSpec
INVARIANTS IInv AsIfInOrder ReleasePublishes
PROPERTIES Linearizable EveryOperationReturns
