CONSTANTS
  p1 = p1
  p2 = p2
  t1 = t1
  t2 = t2
  Path <- TwoPaths
  Thread <- OneThread
  Nodes = 2
  MaxTrail = 2
SPECIFICATION Spec
INVARIANTS RefusalIsDeserved
\* The program stops when its trails are full.
CHECK_DEADLOCK FALSE
