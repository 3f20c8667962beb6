CONSTANTS
  t1 = t1
  t2 = t2
  c1 = c1
  c2 = c2
  c3 = c3
  c4 = c4
  None = None
  Poison = Poison
  Task <- TwoTasks
  Cred <- FourCreds
  FileNames <- Names
  Stored <- TwoDigits
  MarkMod = 16
SPECIFICATION Spec
INVARIANTS TypeOK Owned NoTaskKeepsProgramMarks MarkIsAttribute
SYMMETRY Symmetry
