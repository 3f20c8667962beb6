----------------------------- MODULE MCEventBus -----------------------------
(* Finite instances of EventBus.                                           *)
EXTENDS EventBus, TLC

MCSymmetry == Permutations(Script) \cup Permutations(Ask)
                \cup Permutations(Answer) \cup Permutations(Handler)
=============================================================================
