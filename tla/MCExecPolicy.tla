---------------------------- MODULE MCExecPolicy ----------------------------
(* Instances of ExecPolicy for TLC. *)
EXTENDS ExecPolicy

Alphabetical(n) == [i \in 1 .. n |-> i]

\* Every expression of up to four modules in alphabetical order, with a loop
\* of the numbers given, or none, and at most tail modules after the loop.
Plain == {[mods |-> Alphabetical(n), open |-> 0, close |-> 0, loop |-> 0] : n \in 1 .. 4}
Looping(loops, tail) ==
    {e \in [mods : {Alphabetical(n) : n \in 1 .. 4},
            open : 1 .. 4, close : 1 .. 4, loop : loops] :
        e.open <= e.close /\ e.close <= Len(e.mods) /\ Len(e.mods) <= e.close + tail}

Accepted == Plain \cup Looping({1, 2, 3, 5}, 1)

=============================================================================
