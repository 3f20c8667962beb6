--------------------------- MODULE MCTaintCircuit ---------------------------
(* An instance of TaintCircuit for TLC. *)
EXTENDS TaintCircuit, TLC

Swaps == Permutations(Data) \cup Permutations(Control)

=============================================================================
