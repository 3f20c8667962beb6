--------------------------- MODULE MCFlowMonitor ---------------------------
(* The embedded monitor with one or two paths and threads.                 *)
EXTENDS FlowMonitor

CONSTANTS p1, p2, t1, t2

OnePath    == {p1}
TwoPaths   == {p1, p2}
OneThread  == {t1}
TwoThreads == {t1, t2}
=============================================================================
