CONSTANTS
  t1 = t1
  Path <- PathIds
  Thread <- OneThread
  Nodes = 2
  MaxTrail = 3
  MaxPaths = 3
  Programs <- SmallPrograms
  Plans <- SmallPlans
SPECIFICATION InSpec
INVARIANTS InTypeOK CallsAreAtTheirStatement SinksAreGuarded RefusedAfterSource
\* The program stops at an exception, or when its trails are full.
CHECK_DEADLOCK FALSE
