CONSTANTS
  a = a
  b = b
  c = c
  Objects = {a, b, c}
  MaxPerSide = 2
  MaxRight = 1
  MaxIfs = 3
  MaxElems = 2
  MaxDepth = 2
SYMMETRY ObjectSymmetry
SPECIFICATION Spec
INVARIANTS MergeTypeOK LookupIsExact DeletionsCancel VerdictsAreRight
\* A program ends when it has no more ifs or assignments.
CHECK_DEADLOCK FALSE
