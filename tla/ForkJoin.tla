------------------------------ MODULE ForkJoin ------------------------------
(***************************************************************************)
(* What the thread scheduler of the WebView analyser promises a handler    *)
(* that splits a branch: the thread that meets an if hands every arm to a  *)
(* son thread, stops, and goes on only when the policy says its sons have  *)
(* done enough.  Queues, locks, ages and time slices do not appear here;   *)
(* module Scheduler has them and implements this specification.            *)
(***************************************************************************)
EXTENDS Naturals

CONSTANTS
  Thread,   \* the analysis threads
  Root,     \* the thread the analysis starts with
  Policy    \* G.policy: 1 = the first son to finish wakes the father,
            \* 2 = the last one does

VARIABLES
  stage,    \* stage[t]: what t is doing
  sons      \* sons[t]: the sons of the branch t is joining

fjVars == <<stage, sons>>

Stages == {"idle", "active", "joining", "ended"}

FJTypeOK ==
  /\ stage \in [Thread -> Stages]
  /\ sons \in [Thread -> SUBSET Thread]

\* The sons that finished are enough for the father to go on.
Joined(S) ==
  \/ Policy = 1 /\ \E s \in S : stage[s] = "ended"
  \/ Policy = 2 /\ \A s \in S : stage[s] = "ended"

FJInit ==
  /\ stage = [t \in Thread |-> IF t = Root THEN "active" ELSE "idle"]
  /\ sons = [t \in Thread |-> {}]

\* A running thread meets a branch.
Split(t) ==
  /\ stage[t] = "active"
  /\ stage' = [stage EXCEPT ![t] = "joining"]
  /\ UNCHANGED sons

\* One arm of the branch is given to a new thread.
GiveArm(t, s) ==
  /\ stage[t] = "joining"
  /\ stage[s] = "idle"
  /\ stage' = [stage EXCEPT ![s] = "active"]
  /\ sons' = [sons EXCEPT ![t] = @ \cup {s}]

\* A running thread starts one it will not wait for (an event, a file).
Launch(t, s) ==
  /\ stage[t] = "active"
  /\ stage[s] = "idle"
  /\ stage' = [stage EXCEPT ![s] = "active"]
  /\ UNCHANGED sons

\* The father goes on and merges the branch.
Join(t) ==
  /\ stage[t] = "joining"
  /\ sons[t] # {}
  /\ Joined(sons[t])
  /\ stage' = [stage EXCEPT ![t] = "active"]
  /\ sons' = [sons EXCEPT ![t] = {}]

End(t) ==
  /\ stage[t] = "active"
  /\ stage' = [stage EXCEPT ![t] = "ended"]
  /\ UNCHANGED sons

FJNext ==
  \E t \in Thread :
    \/ Split(t)
    \/ Join(t)
    \/ End(t)
    \/ \E s \in Thread : GiveArm(t, s) \/ Launch(t, s)

FJSpec == FJInit /\ [][FJNext]_fjVars

\* Fathers never wait for each other in a circle: among any threads that are
\* joining, one waits only for threads outside.  A handler that handed an arm
\* to a thread already at work could close such a circle.
NoCircularWait ==
  \A W \in SUBSET {t \in Thread : stage[t] = "joining"} :
    W # {} => \E t \in W : sons[t] \cap W = {}

\* Only a thread that is joining has sons: what makes NoCircularWait inductive.
SonsAreJoined == \A t \in Thread : stage[t] # "joining" => sons[t] = {}

FJInv == FJTypeOK /\ SonsAreJoined /\ NoCircularWait
=============================================================================
