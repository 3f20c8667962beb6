CONSTANTS
  N = 3
  Policy = 1
  Mode = "coco"
  Ages <- OneAge
  MaxSons = 2
  Nodes = 2
SPECIFICATION FairSpec
INVARIANTS TypeOK RunningIsAccurate NoThreadLost NoStaleSons WaitsForASon AdminHasWork
PROPERTIES Settles NoStarvation ImplementsForkJoin
\* The analyser stops when the analysis is over or was cut short.
CHECK_DEADLOCK FALSE
