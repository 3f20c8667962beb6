CONSTANTS
  s1 = s1
  q1 = q1
  q2 = q2
  a1 = a1
  a2 = a2
  h1 = h1
  h2 = h2
  Script = {s1}
  Ask = {q1, q2}
  Answer = {a1, a2}
  Handler = {h1, h2}
  MaxFuncs = 2
  EventMaxTime = 0
SYMMETRY MCSymmetry
SPECIFICATION Spec
INVARIANTS TypeOK InOnePlace OneAnswerPerCallback RequestsArrive AllFunctionsCalled
\* The application comes to its end.
CHECK_DEADLOCK FALSE
