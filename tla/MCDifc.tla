------------------------------- MODULE MCDifc -------------------------------
(* Two tasks: enough for a thread, a child, and two hooks on one inode.    *)
EXTENDS Difc, TLC

CONSTANTS t1, t2, c1, c2, c3, c4

TwoTasks == {t1, t2}
FourCreds == {c1, c2, c3, c4}
Names == {{}, {"gedit", "vi"}, {"pool"}}
TwoDigits == {[number |-> 20, tens |-> 100]}
Symmetry == Permutations(TwoTasks) \cup Permutations(FourCreds)
=============================================================================
