--------------------------- MODULE ForkJoinProofs ---------------------------
(* Fathers never wait for one another in a circle, for any set of threads.  *)
EXTENDS ForkJoin, TLAPS

\* The initial state: one thread is active, nobody has sons.
LEMMA ForkJoinInit == FJInit => FJInv
BY DEF FJInit, FJInv, FJTypeOK, Stages, SonsAreJoined, NoCircularWait

\* A step that gives no thread a new son and makes no thread with sons join
\* closes no circle.
LEMMA FewerWaits ==
  ASSUME NoCircularWait,
         \A t \in Thread :
           stage'[t] = "joining" => sons'[t] = {} \/ (stage[t] = "joining" /\ sons'[t] = sons[t])
  PROVE  NoCircularWait'
<1> SUFFICES ASSUME NEW W \in SUBSET {t \in Thread : stage'[t] = "joining"}, W # {}
             PROVE  \E t \in W : sons'[t] \cap W = {}
  BY DEF NoCircularWait
<1>1. CASE \E t \in W : sons'[t] = {}
  BY <1>1
<1>2. CASE \A t \in W : stage[t] = "joining" /\ sons'[t] = sons[t]
  <2>1. PICK t \in W : sons[t] \cap W = {}
    BY <1>2 DEF NoCircularWait
  <2> QED
    BY <2>1, <1>2
<1> QED
  BY <1>1, <1>2

\* Every step of a father, a son or the root keeps the invariant.
LEMMA ForkJoinStep == FJInv /\ [FJNext]_fjVars => FJInv'
<1> SUFFICES ASSUME FJInv, [FJNext]_fjVars PROVE FJInv'
  OBVIOUS
<1> USE DEF FJInv, FJTypeOK, Stages
<1>1. ASSUME NEW t \in Thread, Split(t) \/ Join(t) \/ End(t) PROVE FJInv'
  <2>1. FJTypeOK' /\ SonsAreJoined'
    BY <1>1 DEF Split, Join, End, SonsAreJoined
  <2>2. \A u \in Thread :
          stage'[u] = "joining" => sons'[u] = {} \/ (stage[u] = "joining" /\ sons'[u] = sons[u])
    BY <1>1 DEF Split, Join, End, SonsAreJoined
  <2> QED
    BY <2>1, <2>2, FewerWaits
<1>2. ASSUME NEW t \in Thread, NEW s \in Thread, Launch(t, s) PROVE FJInv'
  <2>1. FJTypeOK' /\ SonsAreJoined'
    BY <1>2 DEF Launch, SonsAreJoined
  <2>2. \A u \in Thread :
          stage'[u] = "joining" => sons'[u] = {} \/ (stage[u] = "joining" /\ sons'[u] = sons[u])
    BY <1>2 DEF Launch
  <2> QED
    BY <2>1, <2>2, FewerWaits
<1>3. ASSUME NEW t \in Thread, NEW s \in Thread, GiveArm(t, s) PROVE FJInv'
  <2>1. FJTypeOK' /\ SonsAreJoined'
    BY <1>3 DEF GiveArm, SonsAreJoined
  <2>2. NoCircularWait'
    \* The new son runs, so it is in no set of joining threads.
    <3> SUFFICES ASSUME NEW W \in SUBSET {u \in Thread : stage'[u] = "joining"}, W # {}
                 PROVE  \E u \in W : sons'[u] \cap W = {}
      BY DEF NoCircularWait
    <3>1. s \notin W /\ W \subseteq {u \in Thread : stage[u] = "joining"}
      BY <1>3 DEF GiveArm
    <3>2. PICK u \in W : sons[u] \cap W = {}
      BY <3>1 DEF NoCircularWait
    <3>3. sons'[u] \cap W = {}
      BY <1>3, <3>1, <3>2 DEF GiveArm
    <3> QED
      BY <3>3
  <2> QED
    BY <2>1, <2>2
<1>4. CASE UNCHANGED fjVars
  BY <1>4 DEF fjVars, SonsAreJoined, NoCircularWait
<1> QED
  BY <1>1, <1>2, <1>3, <1>4 DEF FJNext

\* Among the threads that are joining, one waits for none of the others: an
\* analysis whose fathers all wait has a son that runs.
THEOREM JoinsAreAcyclic == FJSpec => []NoCircularWait
<1>1. FJInv => NoCircularWait
  BY DEF FJInv
<1> QED
  BY <1>1, ForkJoinInit, ForkJoinStep, PTL DEF FJSpec
=============================================================================
