----------------------------- MODULE MCShutdown -----------------------------
(* The end by time-out on small instances.                                 *)
EXTENDS Shutdown

OneAge  == {1}
=============================================================================
