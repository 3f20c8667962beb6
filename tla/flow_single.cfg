CONSTANTS
  p1 = p1
  p2 = p2
  t1 = t1
  t2 = t2
  Path <- OnePath
  Thread <- OneThread
  Nodes = 3
  MaxTrail = 4
SPECIFICATION Spec
INVARIANTS TypeOK
PROPERTIES ImplementsLeakPath
\* The program stops when its trails are full.
CHECK_DEADLOCK FALSE
