\* Six keys make three levels of nodes of order 3.  One key is inserted with
\* two values, so that a duplicate changes something.
SPECIFICATION Spec
CONSTANTS
  Key = {1, 2, 3, 4, 5, 6}
  Value = {v, w}
  Usual = v
  Repeated = {3}
  Absent = Absent
  Orders = {3, 4, 5}
  PoolSize = 10
INVARIANTS
  Shape
  SearchFinds
  ChainAscends
  NoNodeLostOrShared
PROPERTY
  ImplementsDictionary
