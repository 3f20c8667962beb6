------------------------------ MODULE LeakPath ------------------------------
(***************************************************************************)
(* What the embedded monitor of FSAFlow promises for the leak paths of an  *)
(* instrumented program.  A path is a source, branches numbered 1, 2, ...  *)
(* that must take the arm of the policy, and a sink.  A call of the sink   *)
(* is refused exactly when the whole path has just been followed; a step   *)
(* out of order, a rejected arm or a sink out of order gives the path up   *)
(* until its source runs again.                                            *)
(***************************************************************************)
EXTENDS Integers, Sequences

CONSTANTS
  Path,      \* the information-flow paths of the policies
  Nodes,     \* highest number of a node on a path (the sink included)
  MaxTrail   \* most events of a path between two sources (a bound)

ASSUME LeakPathAssumption ==
  /\ Nodes \in Nat \ {0}
  /\ MaxTrail \in Nat /\ MaxTrail >= Nodes

VARIABLES
  begun,     \* paths whose source has run
  trail,     \* trail[p]: what p's nodes reported since its source ran last
  verdict    \* the answer to the last call of a sink: [path, node, refused]

lpVars == <<begun, trail, verdict>>

Node == 1..Nodes
Reports == {"accept", "reject", "sink"}
Event == [node : Node, report : Reports]

\* The trail of a path followed up to node k, k itself not included.
UpTo(k) == [i \in 1..(k - 1) |-> [node |-> i, report |-> "accept"]]

Followed(p, k) == p \in begun /\ trail[p] = UpTo(k)

LPInit ==
  /\ begun = {}
  /\ trail = [p \in Path |-> <<>>]
  /\ verdict = {}

Extend(p, e) == trail' = [trail EXCEPT ![p] = Append(@, e)]

Begin(p) ==
  /\ begun' = begun \cup {p}
  /\ trail' = [trail EXCEPT ![p] = <<>>]
  /\ verdict' = {}

PassBranch(p, k, policy) ==
  /\ Len(trail[p]) < MaxTrail
  /\ IF p \in begun
     THEN Extend(p, [node |-> k, report |-> policy])
     ELSE UNCHANGED trail
  /\ verdict' = {}
  /\ UNCHANGED begun

ReachSink(p, k) ==
  /\ Len(trail[p]) < MaxTrail
  /\ verdict' = {[path |-> p, node |-> k, refused |-> Followed(p, k)]}
  /\ IF p \in begun /\ ~Followed(p, k)
     THEN Extend(p, [node |-> k, report |-> "sink"])
     ELSE UNCHANGED trail
  /\ UNCHANGED begun

LPNext ==
  \E p \in Path :
    \/ Begin(p)
    \/ \E k \in Node : ReachSink(p, k) \/ \E a \in {"accept", "reject"} : PassBranch(p, k, a)

LPSpec == LPInit /\ [][LPNext]_lpVars
=============================================================================
