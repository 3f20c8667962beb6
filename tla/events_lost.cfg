CONSTANTS
  s1 = s1
  s2 = s2
  q1 = q1
  q2 = q2
  a1 = a1
  a2 = a2
  h1 = h1
  h2 = h2
  Script = {s1, s2}
  Ask = {q1}
  Answer = {a1}
  Handler = {h1, h2}
  MaxFuncs = 2
  EventMaxTime = 0
SPECIFICATION Spec
INVARIANTS StoredHaveNoListener
\* The application comes to its end.
CHECK_DEADLOCK FALSE
