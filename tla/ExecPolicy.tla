------------------------------ MODULE ExecPolicy ------------------------------
(***************************************************************************)
(* The execution policies of PDIFT.  An expression such as A+(B+C)*3+D     *)
(* says in which order data may pass the modules A, B, C, D of a design.   *)
(* A taint carries a label: the modules its data has passed, one bit each, *)
(* and a loop counter.  ModExe compiles the expression to a list of checks *)
(* for each module (get_mod_CheckingList); Check_and_Refresh builds, for   *)
(* the last cells of the module, the logic that accepts the label and      *)
(* gives the next one, or puts high impedance in its place.                *)
(*                                                                         *)
(* The model sends one datum through that logic, module after module.  The *)
(* cells of the repository compute the new label and do not connect it to  *)
(* their output yet (cells/and.cc, or.cc, xor.cc, mux.cc; the lines that   *)
(* did are commented out in not.cc, dffe.cc and sdffe.cc): what is modelled*)
(* is the policy and its logic, not how a label gets from cell to cell.    *)
(***************************************************************************)
EXTENDS Integers, Sequences, FiniteSets

CONSTANTS
    Expressions,    \* the expressions that may be entered
    MaxLength       \* bound of the runs: modules a datum passes

\* A module is the number of its letter, A = 1.  An expression has at most one
\* loop, from its open-th to its close-th module; without one all three are 0.
ASSUME ExpressionAssumption ==
    \A e \in Expressions :
        /\ e.mods \in Seq(1 .. 5)
        /\ e.mods # <<>>
        /\ \/ e.open = 0 /\ e.close = 0 /\ e.loop = 0
           \/ e.open \in 1 .. e.close /\ e.close \in 1 .. Len(e.mods) /\ e.loop \in 1 .. 9
ASSUME MaxLengthAssumption == MaxLength \in Nat

VARIABLES
    STM_express,    \* the expression
    label,          \* the label of the datum
    passed,         \* the modules it passed, in order
    cleared         \* whether its taint was set to zero

vars == <<STM_express, label, passed, cleared>>

Modules(e) == {e.mods[i] : i \in DOMAIN e.mods}
HasLoop(e) == e.open > 0

\* Mutant: one bit less for the counter of a short loop.
CounterTooNarrow(e) ==
    IF ~HasLoop(e) THEN 1 ELSE IF e.loop <= 3 THEN 2 ELSE 8

\* The values of the loop counter, 2 ^ loop_num; for a loop of 4 or of 8 no
\* loop_num is entered, and there is no counter.
CounterValues(e) ==
    CASE ~HasLoop(e) \/ e.loop \in {4, 8} -> 1
      [] HasLoop(e) /\ e.loop \in 1 .. 3 -> 4
      [] HasLoop(e) /\ e.loop \in 5 .. 7 -> 8
      [] HasLoop(e) /\ e.loop = 9 -> 16
Counter(e, n) == n % CounterValues(e)

\* The module in front of the i-th one, or no bit.
Front(e, i) == IF i = 1 THEN {} ELSE {e.mods[i - 1]}

Check(loop, front, check, refresh) ==
    [loop |-> loop, front |-> front, check |-> check, refresh |-> refresh]

\* Mutant: loop instead of loop - 1 for the first module of the loop.
ChecksOneMore(e, i) ==
    CASE ~HasLoop(e) \/ i < e.open -> {Check(0, Front(e, i), "eq", 1)}
      [] HasLoop(e) /\ i = e.open ->
           {Check(0, Front(e, i), "eq", 2),
            Check(Counter(e, e.loop), {e.mods[e.close]}, "ge", 2)}
      [] HasLoop(e) /\ e.open < i /\ i <= e.close ->
           {Check(Counter(e, e.loop), Front(e, i), "ge", 1)}
      [] OTHER -> {Check(Counter(e, e.loop), Front(e, i), "eq", 4)}

\* The checks for the i-th module of the expression: before the loop, first in
\* it, further in it, last of all right after it, elsewhere after it.
ChecksAt(e, i) ==
    CASE ~HasLoop(e) \/ i < e.open ->
           {Check(0, Front(e, i), "eq", 1)}
      [] HasLoop(e) /\ i = e.open ->
           {Check(0, Front(e, i), "eq", 2),
            Check(Counter(e, e.loop - 1), {e.mods[e.close]}, "ge", 2)}
      [] HasLoop(e) /\ e.open < i /\ i <= e.close ->
           {Check(Counter(e, e.loop), Front(e, i), "ge", 1)}
      [] HasLoop(e) /\ i = e.close + 1 /\ i = Len(e.mods) ->
           {Check(Counter(e, e.loop), Front(e, i), "eq", 4)}
      [] OTHER ->
           {Check(Counter(e, e.loop + 1), Front(e, i), "eq", 1)}

get_mod_CheckingList(e, m) ==
    UNION {ChecksAt(e, i) : i \in {j \in DOMAIN e.mods : e.mods[j] = m}}

\* Mutant: Le with its operands exchanged.
HoldsReversed(c, y) ==
    /\ \A f \in c.front : \E m \in y.mod : m <= f
    /\ IF c.check = "eq" THEN c.loop = y.loop ELSE c.loop >= y.loop

\* A check against the label y: the number the bits of y.mod stand for is not
\* below the front module's, and the counter is the one asked for, or less.
Holds(c, y) ==
    /\ \A f \in c.front : \E m \in y.mod : f <= m
    /\ IF c.check = "eq" THEN c.loop = y.loop ELSE c.loop >= y.loop

Passing(e, m, y) == {c \in get_mod_CheckingList(e, m) : Holds(c, y)}

\* Mutants: the Mux of the counter, and that of the modules, left out.
RefreshedAlwaysCounts(e, m, y) ==
    [mod  |-> IF \E c \in Passing(e, m, y) : c.refresh \in {2, 4} THEN {m} ELSE y.mod \cup {m},
     loop |-> y.loop + 1]
RefreshedKeeps(e, m, y) ==
    [mod  |-> y.mod \cup {m},
     loop |-> IF \E c \in Passing(e, m, y) : c.refresh = 2 THEN Counter(e, y.loop + 1) ELSE y.loop]

\* The label that replaces y: policies 2 and 4 forget the modules passed so
\* far, policy 2 counts an iteration.
Refreshed(e, m, y) ==
    LET policies == {c.refresh : c \in Passing(e, m, y)}
    IN  [mod  |-> IF policies \cap {2, 4} # {} THEN {m} ELSE y.mod \cup {m},
         loop |-> IF 2 \in policies THEN Counter(e, y.loop + 1) ELSE y.loop]

HighZ == [mod |-> {}, loop |-> -1]      \* RTLIL::State::Sz in every bit

-----------------------------------------------------------------------------
Init ==
    /\ STM_express \in Expressions
    /\ label = [mod |-> {}, loop |-> 0]
    /\ passed = <<>>
    /\ cleared = FALSE

\* The datum comes to the end of module m and the policy lets it pass.
Check_and_Refresh(m) ==
    /\ label # HighZ /\ Len(passed) < MaxLength
    /\ Passing(STM_express, m, label) # {}
    /\ label' = Refreshed(STM_express, m, label)
    /\ passed' = Append(passed, m)
    /\ cleared' = (cleared \/ \E c \in Passing(STM_express, m, label) : c.refresh \in {3, 4})
    /\ UNCHANGED STM_express

\* The policy does not let it pass.
Refuse(m) ==
    /\ label # HighZ /\ Len(passed) < MaxLength
    /\ Passing(STM_express, m, label) = {}
    /\ label' = HighZ
    /\ UNCHANGED <<STM_express, passed, cleared>>

Next == \E m \in Modules(STM_express) : Check_and_Refresh(m) \/ Refuse(m)

Spec == Init /\ [][Next]_vars

-----------------------------------------------------------------------------
\* The label fits its bits and names modules of the expression.
PolicyTypeOK ==
    /\ STM_express \in Expressions
    /\ passed \in Seq(Modules(STM_express))
    /\ cleared \in BOOLEAN
    /\ \/ label = HighZ
       \/ /\ label.mod \subseteq Modules(STM_express)
          /\ label.loop \in 0 .. CounterValues(STM_express) - 1

\* What the expression means: its modules in order, the loop repeated.
Repeat(s, n) == [i \in 1 .. n * Len(s) |-> s[((i - 1) % Len(s)) + 1]]
Execution(e) ==
    IF HasLoop(e)
    THEN SubSeq(e.mods, 1, e.open - 1)
            \o Repeat(SubSeq(e.mods, e.open, e.close), e.loop)
            \o SubSeq(e.mods, e.close + 1, Len(e.mods))
    ELSE e.mods

\* How many elements of s are found in t one after the other.
Matched(s, t) ==
    LET upto[k \in 0 .. Len(t)] ==
            IF k = 0 THEN 0
            ELSE IF upto[k - 1] < Len(s) /\ s[upto[k - 1] + 1] = t[k]
                 THEN upto[k - 1] + 1 ELSE upto[k - 1]
    IN  upto[Len(t)]

\* The label keeps one bit per module and compares them as a number, and
\* forgets bits in the loop. Yet no module is passed before those in front of
\* it were, in order, since the first (check policy "mod le").
PassedInOrder ==
    \A k \in DOMAIN passed, i \in DOMAIN STM_express.mods :
        passed[k] = STM_express.mods[i] =>
            Matched(SubSeq(STM_express.mods, 1, i - 1), SubSeq(passed, 1, k - 1)) = i - 1

\* The counter neither overflows its bits nor starts again: the first module
\* of the loop is passed once per iteration and not once more.
LoopIsBounded ==
    HasLoop(STM_express) =>
        Cardinality({k \in DOMAIN passed : passed[k] = STM_express.mods[STM_express.open]})
            <= STM_express.loop

\* The taint is set to zero ("add taint_to_zero operation") only for data that
\* has gone through the whole execution, every iteration of it complete.
ClearedAfterExecution ==
    cleared => Matched(Execution(STM_express), passed) = Len(Execution(STM_express))

\* A datum that keeps to the expression is let through to its end.
LegalIsAccepted ==
    LET run == Execution(STM_express) IN
    Len(passed) < Len(run) /\ passed = SubSeq(run, 1, Len(passed)) /\ label # HighZ =>
        Passing(STM_express, run[Len(passed) + 1], label) # {}

=============================================================================
