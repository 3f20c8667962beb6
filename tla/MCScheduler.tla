---------------------------- MODULE MCScheduler ----------------------------
(* The scheduler on small instances.                                       *)
EXTENDS Scheduler

\* Two ages: threads of the same age are fetched together, others in order.
TwoAges == {1, 2}
OneAge  == {1}
=============================================================================
