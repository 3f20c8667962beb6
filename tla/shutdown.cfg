CONSTANTS
  N = 3
  Policy = 1
  Mode = "coco"
  Ages <- OneAge
  MaxSons = 2
  Nodes = 1
SPECIFICATION ShutSpec
PROPERTIES StoppingEnds SleepersAreWoken StoppedLeavesForGood
\* The analyser stops when the analysis is over or was cut short.
CHECK_DEADLOCK FALSE
