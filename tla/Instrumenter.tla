---------------------------- MODULE Instrumenter ----------------------------
(***************************************************************************)
(* FSAFlow end to end: detail_driver reads the policies one by one,        *)
(* detail_Instrumenter inserts calls of the monitor into the body of a     *)
(* method, and the instrumented method then runs under the monitor of      *)
(* FlowMonitor.                                                            *)
(*                                                                         *)
(* One method and one thread.  A policy is the list of its items for this  *)
(* method; each item is one pass over a snapshot of the body.  Soot's      *)
(* round trip through Jimple between two policies is left out.             *)
(***************************************************************************)
EXTENDS FlowMonitor, SequencesExt, FiniteSets

CONSTANTS
  Programs,   \* method bodies: sequences of statements
  Plans,      \* the items of the policies, in the order they are read
  MaxPaths    \* max_paths_num; paths are numbers here

VARIABLES
  body,    \* the units of the method
  plan,    \* all items (never changes)
  todo,    \* items not dealt with
  dealsplitsource1,   \* static: a source was matched exactly
  at,      \* the unit that runs next; 0: an exception ended the program
  done     \* texts of the statements that ran

inVars == <<body, plan, todo, dealsplitsource1, at, done>>
allVars == <<vars, inVars>>

-----------------------------------------------------------------------------
(* Texts of units.  What the matching looks at is whether a text holds a   *)
(* `$', and which digits it holds (0: none); base is the rest.             *)

Digits == 0..2
Bases == {"", "source", "sink", "other", "call"}
Text == [base : Bases, dollar : BOOLEAN, digit : Digits]
Empty == [base |-> "", dollar |-> FALSE, digit |-> 0]

\* The items of a policy: where its path begins, branches and ends.
SourceItem == [kind : {"source"}, path : Path, text : Text]
BranchItem == [kind : {"branch"}, path : Path, node : Node, roads : Nat, arm : Nat]
SinkItem == [kind : {"sink"}, path : Path, node : Node, text : Text]

ASSUME InstrumenterAssumption ==
  /\ MaxPaths \in Nat /\ Path \subseteq Nat
  /\ \A prog \in Programs :
       /\ prog \in Seq([text : Text, to : Seq(Nat), falls : BOOLEAN]) /\ prog # <<>>
       /\ \A i \in DOMAIN prog : \A arm \in DOMAIN prog[i].to : prog[i].to[arm] \in DOMAIN prog
  /\ Plans \subseteq Seq(SourceItem \cup BranchItem \cup SinkItem)

NoDigits(t) == [t EXCEPT !.digit = 0]
NoDollar(t) == [t EXCEPT !.dollar = FALSE]

\* A statement of the program, or an inserted call.  A jump goes to the
\* statements `to' (its unit boxes) and, if it falls, to the next one.
\* nr numbers the statements; of a call it is the node.
Statement(s, n) ==
  [kind |-> "stmt", text |-> s.text, to |-> s.to, falls |-> s.falls,
   path |-> 0, nr |-> n, policy |-> "none"]

Call(kind, p, k, policy, dollar) ==
  [kind |-> kind, text |-> [base |-> "call", dollar |-> dollar, digit |-> 1],
   to |-> <<>>, falls |-> TRUE, path |-> p, nr |-> k, policy |-> policy]

Jumps(unit) == unit.to # <<>>
IsStatement(unit) == unit.kind = "stmt"

\* branchnumber when the pass is at unit i.
JumpNumber(b, i) == Cardinality({h \in 1..i : Jumps(b[h])})

-----------------------------------------------------------------------------
(* Which units an item matches.                                            *)

SameSource(t, item) == NoDollar(NoDigits(t)) = NoDollar(NoDigits(item.text))

\* deal_sourcestart: the flag stands as soon as a unit matched exactly, in
\* this pass or before it.
MatchedExactly(item, i) ==
  dealsplitsource1 \/ \E h \in 1..i : body[h].text = item.text

\* Broken on purpose: any statement matches until an exact match.
MatchesAnySource(item, i) ==
  \/ body[i].text = item.text
  \/ ~MatchedExactly(item, i) /\ IsStatement(body[i])

MatchesSource(item, i) ==
  \/ body[i].text = item.text
  \/ ~MatchedExactly(item, i) /\ SameSource(body[i].text, item)

\* splitsink1 and splitsink2 answer "" when there is nothing to remove.
SplitSink1(t) == IF t.digit = 0 THEN Empty ELSE NoDigits(t)
SplitSink2(t) == IF t.dollar THEN NoDollar(t) ELSE Empty

\* Broken on purpose: the statement is compared without its `$' only.
MatchesSinkHalf(item, i) ==
  SplitSink2(SplitSink1(body[i].text)) = SplitSink1(item.text)

MatchesSink(item, i) ==
  LET Forms(t) == {SplitSink1(t), SplitSink2(SplitSink1(t))}
  IN  Forms(body[i].text) \cap Forms(item.text) # {}

MatchesBranch(item, i) ==
  /\ Jumps(body[i])
  /\ JumpNumber(body, i) = item.node
  /\ Len(body[i].to) + 1 = item.roads

-----------------------------------------------------------------------------
(* The passes.                                                             *)

Rewrite(Units(_)) == body' = FlattenSeq([i \in DOMAIN body |-> Units(i)])

Item == Head(todo)

\* Broken on purpose: the id is not looked at.
TakeItemUnchecked(kind) ==
  /\ todo # <<>> /\ Item.kind = kind
  /\ todo' = Tail(todo)
  /\ UNCHANGED <<plan, at, done, vars>>

\* A policy whose id is over max_paths_num is ignored by the driver.
TakeItem(kind) ==
  /\ todo # <<>> /\ Item.kind = kind /\ Item.path <= MaxPaths
  /\ todo' = Tail(todo)
  /\ UNCHANGED <<plan, at, done, vars>>

DealSource ==
  /\ TakeItem("source")
  /\ LET new == Call("source", Item.path, 0, "none", Item.text.dollar)
         Units(i) == IF MatchesSource(Item, i) THEN <<body[i], new>> ELSE <<body[i]>>
     IN  Rewrite(Units)
  /\ dealsplitsource1' = MatchedExactly(Item, Len(body))

\* Broken on purpose: the calls go behind the jump.
DealBranchAfter ==
  /\ TakeItem("branch")
  /\ LET new(sn) == Call("branch", Item.path, Item.node,
                         IF sn = Item.arm THEN "accept" ELSE "reject", FALSE)
         Units(i) == IF MatchesBranch(Item, i)
                     THEN <<body[i]>> \o [sn \in DOMAIN body[i].to |-> new(sn)]
                     ELSE <<body[i]>>
     IN  Rewrite(Units)
  /\ UNCHANGED dealsplitsource1

\* One call per box, all of them before the jump.
DealBranch ==
  /\ TakeItem("branch")
  /\ LET new(sn) == Call("branch", Item.path, Item.node,
                         IF sn = Item.arm THEN "accept" ELSE "reject", FALSE)
         Units(i) == IF MatchesBranch(Item, i)
                     THEN [sn \in DOMAIN body[i].to |-> new(sn)] \o <<body[i]>>
                     ELSE <<body[i]>>
     IN  Rewrite(Units)
  /\ UNCHANGED dealsplitsource1

DealSink ==
  /\ TakeItem("sink")
  /\ LET new == Call("sink", Item.path, Item.node, "none", Item.text.dollar)
         Units(i) == IF MatchesSink(Item, i) THEN <<new, body[i]>> ELSE <<body[i]>>
     IN  Rewrite(Units)
  /\ UNCHANGED dealsplitsource1

SkipPath ==
  /\ todo # <<>> /\ Item.path > MaxPaths
  /\ todo' = Tail(todo)
  /\ UNCHANGED <<body, plan, dealsplitsource1, at, done, vars>>

-----------------------------------------------------------------------------
(* The instrumented method runs, again and again.                          *)

Ready(t) == todo = <<>> /\ at # 0 /\ At(t, "idle")

Unit == body[at]

NextOf(i) == IF i = Len(body) THEN 1 ELSE i + 1

\* insertBefore redirects the jumps to a statement to the calls before it.
Landing(n) ==
  LET i == CHOOSE i \in DOMAIN body : IsStatement(body[i]) /\ body[i].nr = n
      Before(h) == \A g \in h..(i - 1) : body[g].kind \in {"branch", "sink"}
  IN  CHOOSE h \in 1..i : Before(h) /\ (h = 1 \/ ~Before(h - 1))

RunStatement(t) ==
  /\ Ready(t) /\ IsStatement(Unit)
  /\ done' = done \cup {Unit.text}
  /\ \/ (~Jumps(Unit) \/ Unit.falls) /\ at' = NextOf(at)
     \/ \E arm \in DOMAIN Unit.to : at' = Landing(Unit.to[arm])
  /\ UNCHANGED <<body, plan, todo, dealsplitsource1, vars>>

\* paths has the slots 0 to MaxPaths - 1.
Inside(p) == p < MaxPaths

RunCall(t) ==
  /\ Ready(t) /\ ~IsStatement(Unit) /\ Inside(Unit.path)
  /\ \/ Unit.kind = "source" /\ CallSource(t, Unit.path)
     \/ Unit.kind = "branch" /\ CallBranch(t, Unit.path, Unit.nr, Unit.policy)
     \/ Unit.kind = "sink" /\ CallSink(t, Unit.path, Unit.nr)
  /\ at' = NextOf(at)
  /\ UNCHANGED <<body, plan, todo, dealsplitsource1, done>>

\* ArrayIndexOutOfBoundsException.
Overrun(t) ==
  /\ Ready(t) /\ ~IsStatement(Unit) /\ ~Inside(Unit.path)
  /\ at' = 0
  /\ UNCHANGED <<body, plan, todo, dealsplitsource1, done, vars>>

InInit ==
  /\ Init
  /\ \E prog \in Programs :
       body = [i \in DOMAIN prog |-> Statement(prog[i], i)]
  /\ plan \in Plans
  /\ todo = plan
  /\ dealsplitsource1 = FALSE
  /\ at = 1
  /\ done = {}

Instrument == DealSource \/ DealBranch \/ DealSink \/ SkipPath

InNext ==
  \/ Instrument
  \/ \E t \in Thread :
       RunStatement(t) \/ RunCall(t) \/ Overrun(t) \/ (Monitor(t) /\ UNCHANGED inVars)

InSpec == InInit /\ [][InNext]_allVars

-----------------------------------------------------------------------------
Items(kind) == {item \in ToSet(plan) : item.kind = kind /\ item.path <= MaxPaths}

InTypeOK ==
  /\ TypeOK
  /\ \A i \in DOMAIN body :
       /\ body[i].text \in Text
       /\ body[i].kind \in {"stmt", "source", "branch", "sink"}
       /\ body[i].path \in 0..MaxPaths
  /\ dealsplitsource1 \in BOOLEAN
  /\ at \in 0..Len(body)
  /\ done \subseteq Text

\* deal_*, insert_*: wherever other policies put their calls, a source call
\* comes after a statement like its source with no other statement between,
\* and a branch call before the jump it is numbered after: only calls before
\* a statement lie between, so the program cannot pass one without the other.
CallsAreAtTheirStatement ==
  \A i \in DOMAIN body :
    LET OnlyCalls(S) == \A h \in S : ~IsStatement(body[h])
        item(kind) == {x \in Items(kind) : x.path = body[i].path}
    IN /\ body[i].kind = "source" =>
            \E g \in 1..(i - 1) :
              /\ IsStatement(body[g]) /\ OnlyCalls((g + 1)..i)
              /\ \E x \in item("source") : SameSource(body[g].text, x)
       /\ body[i].kind = "branch" =>
            \E g \in (i + 1)..Len(body) :
              /\ Jumps(body[g]) /\ OnlyCalls(i..(g - 1))
              /\ JumpNumber(body, g) = body[i].nr

\* deal_sinkend: a statement that is textually the sink of a policy never
\* runs without a call of the monitor before it, however the jumps go.
SinksAreGuarded ==
  todo = <<>> =>
    \A i \in DOMAIN body : \A x \in Items("sink") :
      IsStatement(body[i]) /\ body[i].text = x.text =>
        \E h \in 1..(i - 1) :
          /\ body[h].kind = "sink" /\ body[h].path = x.path /\ body[h].nr = x.node
          /\ Landing(body[i].nr) <= h

\* End to end: a sink is refused only for a path of which a statement like
\* the source has run, whatever the program and the other policies.
RefusedAfterSource ==
  \A v \in verdict :
    v.refused => \E x \in Items("source") :
                   x.path = v.path /\ \E t \in done : SameSource(t, x)

=============================================================================
