------------------------- MODULE FlowMonitorProofs -------------------------
(***************************************************************************)
(* The monitor of FSAFlow: what holds of FlowMonitor for any paths and     *)
(* threads, and, for one path and one thread, that the position of the     *)
(* monitor is the length of the trail.  Then the programs FSAFlow          *)
(* instruments: what holds of Instrumenter for every program and policy.   *)
(***************************************************************************)
EXTENDS Instrumenter, SequenceTheorems, FiniteSetTheorems, WellFoundedInduction, TLAPS

USE LeakPathAssumption DEF LeakPathAssumption

-----------------------------------------------------------------------------
(* With any number of paths and threads.                                   *)

\* A thread past the null test is in a path whose object exists.
CallsAreStarted ==
  \A t \in Thread :
    call[t].at \in {"reset", "lose", "read", "write", "sinkLose", "audit", "refused"} =>
      call[t].path \in started

\* What is refused or recorded is a path whose object exists.
RefusedAreStarted ==
  /\ audit \cup ran \subseteq started
  /\ \A v \in verdict : v.refused => v.path \in started

ManyInv == TypeOK /\ CallsAreStarted /\ RefusedAreStarted

\* Calls carry a path, a node and a policy.
LEMMA CallFields ==
  ASSUME TypeOK, NEW t \in Thread, call[t].at # "idle"
  PROVE  /\ call[t] \in Calls
         /\ call[t].path \in Path
         /\ call[t].node \in Node
         /\ call[t].policy \in Policies
         /\ call[t].got \in Int
         /\ call[t] = [at |-> call[t].at, path |-> call[t].path, node |-> call[t].node,
                       policy |-> call[t].policy, got |-> call[t].got]
<1>1. call[t] \in Calls
  BY DEF TypeOK, Idle
<1> QED
  BY <1>1 DEF Calls

\* Nothing runs and no path is started.
LEMMA ManyInit == Init => ManyInv
BY DEF Init, LPInit, ManyInv, TypeOK, CallsAreStarted, RefusedAreStarted, Idle

\* A path id, a node and a report are all that a trail takes in.
LEMMA TrailGrows ==
  ASSUME TypeOK, NEW p \in Path, NEW k \in Node, NEW r \in Reports
  PROVE  [trail EXCEPT ![p] = Append(@, [node |-> k, report |-> r])] \in [Path -> Seq(Event)]
<1>1. [node |-> k, report |-> r] \in Event
  BY DEF Event
<1>2. trail[p] \in Seq(Event) /\ trail \in [Path -> Seq(Event)]
  BY DEF TypeOK
<1>3. Append(trail[p], [node |-> k, report |-> r]) \in Seq(Event)
  BY <1>1, <1>2, AppendProperties
<1> QED
  BY <1>2, <1>3

Steps == {"new", "reset", "look", "lose", "read", "write",
          "sinkLook", "sinkLose", "audit", "refused"}

\* Going to the next step of a call keeps its arguments.
LEMMA GotoFacts ==
  ASSUME TypeOK, NEW t \in Thread, call[t].at # "idle", NEW step \in Steps, Goto(t, step)
  PROVE  /\ call' = [call EXCEPT ![t] = [at |-> step, path |-> call[t].path,
                       node |-> call[t].node, policy |-> call[t].policy, got |-> call[t].got]]
         /\ call' \in [Thread -> Calls \cup {Idle}]
         /\ call'[t].at = step /\ call'[t].path = call[t].path
         /\ \A u \in Thread \ {t} : call'[u] = call[u]
<1> DEFINE c == [at |-> step, path |-> call[t].path, node |-> call[t].node,
                 policy |-> call[t].policy, got |-> call[t].got]
<1>1. call \in [Thread -> Calls \cup {Idle}]
  BY DEF TypeOK
<1>2. [call[t] EXCEPT !.at = step] = c
  <2>1. PICK a, p, k, y, g : call[t] = [at |-> a, path |-> p, node |-> k, policy |-> y, got |-> g]
    BY CallFields
  <2> QED
    BY <2>1
<1>3. c \in Calls
  BY CallFields DEF Calls, Steps
<1>4. call' = [call EXCEPT ![t] = c]
  BY <1>2 DEF Goto
<1> QED
  BY <1>1, <1>3, <1>4

\* Every step of every thread keeps the types, and the null tests keep paths
\* that were not started out of the calls that act on curpos.
LEMMA ManyStep == ManyInv /\ [Next]_vars => ManyInv'
<1> SUFFICES ASSUME ManyInv, [Next]_vars PROVE ManyInv'
  OBVIOUS
<1> USE DEF ManyInv, TypeOK, CallsAreStarted, RefusedAreStarted, lpVars
<1>1. ASSUME NEW t \in Thread, Program(t) PROVE ManyInv'
  <2>1. PICK step \in {"new", "look", "sinkLook"}, p \in Path, k \in Node, a \in Policies :
          Enter(t, step, p, k, a)
    <3>1. 1 \in Node /\ "accept" \in Policies
      BY DEF Node, Policies
    <3> QED
      BY <1>1, <3>1 DEF Program, CallSource, CallSink, CallBranch
  <2> QED
    BY <2>1 DEF Enter, Calls, At
<1>2. ASSUME NEW t \in Thread, New(t) PROVE ManyInv'
  BY <1>2, GotoFacts, CallFields, ZenonT(40) DEF New, At, Steps
<1>3. ASSUME NEW t \in Thread, Reset(t) PROVE ManyInv'
  <2>1. call[t].path \in Path
    BY <1>3, CallFields DEF Reset, At
  <2> QED
    BY <1>3, <2>1 DEF Reset, Begin, Return, At, Idle
<1>4. ASSUME NEW t \in Thread, BranchReturns(t), call[t].at # "idle",
             curpos' \in Int, UNCHANGED <<started, audit, ran>>
      PROVE  ManyInv'
  <2>1. trail' \in [Path -> Seq(Event)]
    BY <1>4, CallFields, TrailGrows DEF BranchReturns, Policies, Reports
  <2> QED
    BY <1>4, <2>1 DEF BranchReturns, Return, Idle
<1>5. ASSUME NEW t \in Thread, Look(t) PROVE ManyInv'
  <2>1. CASE BranchReturns(t)
    BY <1>5, <1>4, <2>1 DEF Look, At
  <2>2. CASE /\ call[t].path \in started
             /\ \E step \in {"read", "lose"} : Goto(t, step)
             /\ UNCHANGED lpVars
    BY <1>5, <2>2, GotoFacts DEF Look, At, Steps
  <2> QED
    BY <1>5, <2>1, <2>2 DEF Look
<1>6. ASSUME NEW t \in Thread, Lose(t) PROVE ManyInv'
  BY <1>6, <1>4 DEF Lose, At, Lost
<1>7. ASSUME NEW t \in Thread, Read(t) PROVE ManyInv'
  <2>1. call'[t] = [at |-> "write", path |-> call[t].path, node |-> call[t].node,
                    policy |-> call[t].policy, got |-> curpos]
    <3>1. PICK a, p, k, y, g :
            call[t] = [at |-> a, path |-> p, node |-> k, policy |-> y, got |-> g]
      BY <1>7, CallFields DEF Read, At
    <3>2. call'[t] = [[call[t] EXCEPT !.at = "write"] EXCEPT !.got = curpos]
      BY <1>7 DEF Read
    <3> QED
      BY <3>1, <3>2
  <2> QED
    BY <1>7, <2>1, CallFields DEF Read, At, Calls
<1>8. ASSUME NEW t \in Thread, Write(t) PROVE ManyInv'
  BY <1>8, <1>4, CallFields DEF Write, At
<1>9. ASSUME NEW t \in Thread, NEW r \in BOOLEAN, Answer(t, r), call[t].at # "idle",
             r => call[t].path \in started
      PROVE  /\ trail' \in [Path -> Seq(Event)]
             /\ begun' = begun
             /\ verdict' \subseteq [path : Path, node : Node, refused : BOOLEAN]
             /\ \A v \in verdict' : v.refused => v.path \in started
  <2>1. call[t].path \in Path /\ call[t].node \in Node
    BY <1>9, CallFields
  <2>2. trail' \in [Path -> Seq(Event)]
    BY <1>9, <2>1, TrailGrows DEF Answer, Reports
  <2>3. begun' = begun
    BY <1>9 DEF Answer
  <2>4. verdict' = {[path |-> call[t].path, node |-> call[t].node, refused |-> r]}
    BY <1>9 DEF Answer
  <2> QED
    BY <1>9, <2>1, <2>2, <2>3, <2>4
<1>10. ASSUME NEW t \in Thread, SinkLook(t) PROVE ManyInv'
  <2>1. CASE Answer(t, FALSE) /\ Return(t)
    BY <1>10, <1>9, <2>1 DEF SinkLook, At, Return, Idle
  <2>2. CASE /\ call[t].path \in started
             /\ \E step \in {"audit", "sinkLose"} : Goto(t, step)
             /\ UNCHANGED lpVars
    BY <1>10, <2>2, GotoFacts DEF SinkLook, At, Steps
  <2> QED
    BY <1>10, <2>1, <2>2 DEF SinkLook
<1>11. ASSUME NEW t \in Thread, SinkLose(t) PROVE ManyInv'
  <2>1. Answer(t, FALSE) /\ call[t].at # "idle" /\ call'= [call EXCEPT ![t] = Idle]
    BY <1>11 DEF SinkLose, At, Return
  <2>2. curpos' \in Int /\ UNCHANGED <<started, audit, ran>>
    BY <1>11 DEF SinkLose, Lost
  <2> QED
    BY <1>9, <2>1, <2>2 DEF Idle
<1>12. ASSUME NEW t \in Thread, Audit(t) PROVE ManyInv'
  <2>1. call[t].path \in started /\ call[t].path \in Path
    BY <1>12, CallFields DEF Audit, At
  <2>2. call' \in [Thread -> Calls \cup {Idle}] /\ CallsAreStarted'
    BY <1>12, <2>1, GotoFacts DEF Audit, At, Steps
  <2> QED
    BY <1>12, <1>9, <2>1, <2>2 DEF Audit, At
<1>13. ASSUME NEW t \in Thread, RunSink(t) PROVE ManyInv'
  BY <1>13, CallFields DEF RunSink, At, Return, Idle
<1>14. CASE UNCHANGED vars
  BY <1>14 DEF vars
<1> QED
  BY <1>1, <1>2, <1>3, <1>5, <1>6, <1>7, <1>8, <1>10, <1>11, <1>12, <1>13, <1>14
  DEF Next, Monitor

\* The position and the object of every path and the calls in progress keep
\* their types, whatever number of threads uses them.
THEOREM MonitorTypeCorrect == Spec => []TypeOK
<1>1. ManyInv => TypeOK
  BY DEF ManyInv
<1> QED
  BY <1>1, ManyInit, ManyStep, PTL DEF Spec

-----------------------------------------------------------------------------
(* With one path and one thread.                                           *)

OneAtATime ==
  /\ \A p, q \in Path : p = q
  /\ \A t, u \in Thread : t = u

SingleInv == ManyInv /\ PositionIsTrail

Acc(k) == [node |-> k, report |-> "accept"]

\* The trail up to k is never longer than the nodes.
LEMMA UpToIsTrail ==
  ASSUME NEW k \in Node
  PROVE  UpTo(k) \in Seq(Event) /\ Len(UpTo(k)) = k - 1 /\ Len(UpTo(k)) < Nodes
BY DEF UpTo, Node, Event, Reports

\* Below node k a trail up to k holds accepted nodes.
LEMMA UpToAt ==
  ASSUME NEW k \in Node, NEW i \in 1..(k - 1)
  PROVE  UpTo(k)[i] = Acc(i)
BY DEF UpTo, Acc

\* A trail is followed up to node k only by accepting node k - 1 at its end.
LEMMA OneNodeFurther ==
  ASSUME NEW s \in Seq(Event), NEW e \in Event, NEW k \in Node
  PROVE  Append(s, e) = UpTo(k) <=> k - 1 \in Node /\ s = UpTo(k - 1) /\ e = Acc(k - 1)
<1> USE DEF Node
<1>0. /\ Append(s, e) \in Seq(Event)
      /\ Len(Append(s, e)) = Len(s) + 1 /\ Len(s) \in Nat
      /\ \A i \in 1..Len(s) : Append(s, e)[i] = s[i]
      /\ Append(s, e)[Len(s) + 1] = e
  BY AppendProperties
<1>1. ASSUME Append(s, e) = UpTo(k)
      PROVE  k - 1 \in Node /\ s = UpTo(k - 1) /\ e = Acc(k - 1)
  <2>1. Len(s) + 1 = k - 1
    BY <1>0, <1>1, UpToIsTrail
  <2>2. k - 1 \in Node
    BY <1>0, <2>1
  <2>3. e = Acc(k - 1)
    BY <1>0, <1>1, <2>1, <2>2, UpToAt
  <2>4. \A i \in 1..Len(s) : s[i] = Acc(i)
    BY <1>0, <1>1, <2>1, UpToAt
  <2>5. Len(s) = Len(UpTo(k - 1)) /\ UpTo(k - 1) \in Seq(Event)
    <3>1. UpTo(k - 1) \in Seq(Event) /\ Len(UpTo(k - 1)) = (k - 1) - 1
      BY <2>2, UpToIsTrail
    <3> QED
      BY <1>0, <2>1, <3>1
  <2>6. \A i \in 1..Len(s) : UpTo(k - 1)[i] = Acc(i)
    BY <2>1, <2>2, UpToAt
  <2>7. s = UpTo(k - 1)
    BY <2>4, <2>5, <2>6, SeqEqual
  <2> QED
    BY <2>2, <2>3, <2>7
<1>2. ASSUME k - 1 \in Node, s = UpTo(k - 1), e = Acc(k - 1)
      PROVE  Append(s, e) = UpTo(k)
  <2>1. Len(s) = k - 2
    <3>1. Len(UpTo(k - 1)) = (k - 1) - 1
      BY <1>2, UpToIsTrail
    <3> QED
      BY <1>2, <3>1
  <2>2. \A i \in 1..(k - 2) : s[i] = Acc(i)
    BY <1>2, UpToAt
  <2>3. \A i \in 1..(k - 1) : Append(s, e)[i] = Acc(i)
    <3> SUFFICES ASSUME NEW i \in 1..(k - 1) PROVE Append(s, e)[i] = Acc(i)
      OBVIOUS
    <3>1. CASE i = k - 1
      BY <1>0, <1>2, <2>1, <3>1
    <3>2. CASE i \in 1..(k - 2)
      BY <1>0, <2>1, <2>2, <3>2
    <3>3. k \in Int /\ i \in Int /\ 1 <= i /\ i <= k - 1
      OBVIOUS
    <3>4. i = k - 1 \/ i \in 1..(k - 2)
      BY <3>3
    <3> QED
      BY <3>1, <3>2, <3>4
  <2>4. \A i \in 1..(k - 1) : UpTo(k)[i] = Acc(i)
    BY UpToAt
  <2> QED
    <3>1. UpTo(k) \in Seq(Event) /\ Len(UpTo(k)) = k - 1
      BY UpToIsTrail
    <3>2. Len(Append(s, e)) = k - 1
      BY <1>0, <2>1
    <3>3. \A i \in 1..Len(Append(s, e)) : Append(s, e)[i] = UpTo(k)[i]
      BY <2>3, <2>4, <3>2
    <3> QED
      BY <1>0, <3>1, <3>2, <3>3, SeqEqual
<1> QED
  BY <1>1, <1>2

\* Accepting the node the trail has come to follows it one node further.
LEMMA AcceptFollows ==
  ASSUME NEW s \in Seq(Event), NEW n \in Node, s = UpTo(n), NEW k \in Node
  PROVE  n = k - 1 <=> Append(s, Acc(n)) = UpTo(k)
<1>1. Acc(n) \in Event
  BY DEF Acc, Event, Reports
<1>2. Acc(n) = Acc(k - 1) => n = k - 1
  BY DEF Acc
<1> QED
  BY <1>1, <1>2, OneNodeFurther DEF Node

\* Anything else ends it.
LEMMA OtherwiseLost ==
  ASSUME NEW s \in Seq(Event), NEW n \in Node, NEW r \in Reports,
         s # UpTo(n) \/ r # "accept", NEW k \in Node
  PROVE  Append(s, [node |-> n, report |-> r]) # UpTo(k)
<1>1. [node |-> n, report |-> r] \in Event
  BY DEF Event
<1>2. [node |-> n, report |-> r] = Acc(k - 1) => n = k - 1 /\ r = "accept"
  BY DEF Acc
<1> QED
  BY <1>1, <1>2, OneNodeFurther

\* Nothing has happened.
LEMMA SingleInit == Init => SingleInv
<1>1. Init => PositionIsTrail
  BY DEF Init, LPInit, PositionIsTrail, CallIsCurrent, Idle
<1> QED
  BY <1>1, ManyInit DEF SingleInv

\* What one step of one thread does to what the others rely on: there are no
\* others, and no other path.
LEMMA SingleStep ==
  ASSUME OneAtATime
  PROVE  SingleInv /\ [Next]_vars => SingleInv'
<1> SUFFICES ASSUME SingleInv, [Next]_vars PROVE SingleInv'
  OBVIOUS
<1> USE DEF lpVars
<1>0. ManyInv' /\ TypeOK /\ TypeOK'
  BY ManyStep DEF SingleInv, ManyInv
<1>a. \A t \in Thread : CallIsCurrent(t)
  BY DEF SingleInv, PositionIsTrail
<1>b. \A p \in begun : \A k \in Node : curpos = k - 1 <=> trail[p] = UpTo(k)
  BY DEF SingleInv, PositionIsTrail
<1>c. CallsAreStarted
  BY DEF SingleInv, ManyInv
<1>1. ASSUME NEW t \in Thread, Program(t) PROVE PositionIsTrail'
  <2>1. PICK step \in {"new", "look", "sinkLook"}, p \in Path, k \in Node, a \in Policies :
          Enter(t, step, p, k, a)
    <3>1. 1 \in Node /\ "accept" \in Policies
      BY DEF Node, Policies
    <3> QED
      BY <1>1, <3>1 DEF Program, CallSource, CallSink, CallBranch
  <2>2. \A u \in Thread : u = t
    BY DEF OneAtATime
  <2>3. call'[t] = [at |-> step, path |-> p, node |-> k, policy |-> a, got |-> 0]
    BY <2>1, <1>0 DEF Enter, TypeOK
  <2>4. started = begun /\ UNCHANGED <<started, begun, curpos, trail>> /\ Len(trail[p]) < MaxTrail
    BY <2>1, <1>a DEF Enter, At, CallIsCurrent
  <2>5. CallIsCurrent(t)'
    BY <2>3, <2>4 DEF CallIsCurrent
  <2> QED
    BY <2>2, <2>4, <2>5, <1>b DEF PositionIsTrail
<1>2. ASSUME NEW t \in Thread, New(t) PROVE PositionIsTrail'
  <2>1. call'[t].at = "reset"
    BY <1>2, <1>0, GotoFacts DEF New, At, Steps
  <2>2. \A u \in Thread : u = t
    BY DEF OneAtATime
  <2>3. CallIsCurrent(t)'
    BY <2>1 DEF CallIsCurrent
  <2> QED
    BY <1>2, <2>2, <2>3, <1>b DEF PositionIsTrail, New
\* A call that returns leaves nothing to rely on.
<1>3. ASSUME NEW t \in Thread, call' = [call EXCEPT ![t] = Idle], started' = begun'
      PROVE  \A u \in Thread : CallIsCurrent(u)'
  <2>1. \A u \in Thread : u = t
    BY DEF OneAtATime
  <2>2. call'[t] = Idle
    BY <1>3, <1>0 DEF TypeOK
  <2> QED
    BY <1>3, <2>1, <2>2 DEF CallIsCurrent, Idle
<1>4. ASSUME NEW t \in Thread, Reset(t) PROVE PositionIsTrail'
  <2>1. call[t].path \in started /\ call[t].path \in Path
    BY <1>4, <1>0, <1>c, CallFields DEF Reset, At, CallsAreStarted
  <2>2. begun' = {call[t].path} /\ started' = {call[t].path}
    BY <1>4, <2>1, <1>0 DEF Reset, Begin, TypeOK, OneAtATime
  <2>3. curpos' = 0 /\ trail'[call[t].path] = <<>>
    BY <1>4, <2>1, <1>0 DEF Reset, Begin, TypeOK
  <2>4. \A k \in Node : 0 = k - 1 <=> <<>> = UpTo(k)
    <3> SUFFICES ASSUME NEW k \in Node PROVE 0 = k - 1 <=> <<>> = UpTo(k)
      OBVIOUS
    <3>1. <<>> = UpTo(k) => k = 1
      BY UpToIsTrail DEF Node
    <3>2. k = 1 => UpTo(k) = <<>>
      BY UpToIsTrail, EmptySeq DEF Node
    <3> QED
      BY <3>1, <3>2 DEF Node
  <2>5. \A u \in Thread : CallIsCurrent(u)'
    BY <1>3, <1>4, <2>2 DEF Reset, Return
  <2> QED
    BY <2>2, <2>3, <2>4, <2>5 DEF PositionIsTrail
\* A node that is not the next one, or not accepted, loses the path.
<1>5. ASSUME NEW p \in Path, NEW n \in Node, NEW r \in Reports,
             curpos # n - 1 \/ r # "accept", curpos' = Lost, begun' = begun, p \in begun,
             trail' = [trail EXCEPT ![p] = Append(@, [node |-> n, report |-> r])]
      PROVE  \A q \in begun' : \A k \in Node : curpos' = k - 1 <=> trail'[q] = UpTo(k)
  <2>1. \A q \in begun : q = p
    BY <1>0 DEF OneAtATime, TypeOK
  <2>2. trail[p] \in Seq(Event) /\ (trail[p] # UpTo(n) \/ r # "accept")
    BY <1>5, <1>0, <1>b DEF TypeOK
  <2>3. \A k \in Node : Append(trail[p], [node |-> n, report |-> r]) # UpTo(k)
    BY <2>2, OtherwiseLost
  <2>4. \A k \in Node : curpos' # k - 1
    BY <1>5 DEF Lost, Node
  <2> QED
    BY <1>5, <1>0, <2>1, <2>3, <2>4 DEF TypeOK
<1>6. ASSUME NEW t \in Thread, Look(t) PROVE PositionIsTrail'
  <2>1. call[t].path \in Path /\ call[t].node \in Node
    BY <1>6, <1>0, CallFields DEF Look, At
  <2>2. started = begun /\ Len(trail[call[t].path]) < MaxTrail
    BY <1>6, <1>a DEF Look, At, CallIsCurrent
  <2>3. CASE call[t].path \notin started /\ BranchReturns(t)
    <3>1. UNCHANGED <<begun, curpos, trail, started>>
      BY <1>6, <2>2, <2>3 DEF Look, BranchReturns
    <3> QED
      BY <2>2, <2>3, <3>1, <1>3, <1>b DEF PositionIsTrail, BranchReturns, Return
  <2>4. CASE call[t].path \in started
    <3> DEFINE next == IF curpos = call[t].node - 1 /\ call[t].policy = "accept"
                       THEN "read" ELSE "lose"
    <3>1. Goto(t, next) /\ UNCHANGED <<begun, curpos, trail, started>>
      BY <1>6, <2>4 DEF Look
    <3>2. call'[t] = [at |-> next, path |-> call[t].path, node |-> call[t].node,
                      policy |-> call[t].policy, got |-> call[t].got]
      BY <1>6, <1>0, <3>1, GotoFacts DEF Look, At, Steps, TypeOK
    <3>3. call[t].policy \in {"accept", "reject"}
      BY <1>6, <1>0, CallFields DEF Look, At, Policies
    <3>4. CallIsCurrent(t)'
      BY <2>2, <3>1, <3>2, <3>3 DEF CallIsCurrent
    <3> QED
      BY <3>1, <3>4, <1>b DEF PositionIsTrail, OneAtATime
  <2> QED
    BY <1>6, <2>3, <2>4 DEF Look
<1>7. ASSUME NEW t \in Thread, Lose(t) PROVE PositionIsTrail'
  <2>1. /\ call[t].path \in Path /\ call[t].node \in Node /\ call[t].policy \in Reports
        /\ call[t].path \in begun /\ started = begun
        /\ curpos # call[t].node - 1 \/ call[t].policy # "accept"
    BY <1>7, <1>0, <1>a, <1>c, CallFields
    DEF Lose, At, CallIsCurrent, CallsAreStarted, Policies, Reports
  <2>2. /\ curpos' = Lost /\ UNCHANGED <<begun, started>>
        /\ trail' = [trail EXCEPT ![call[t].path] =
                       Append(@, [node |-> call[t].node, report |-> call[t].policy])]
    BY <1>7, <2>1 DEF Lose, BranchReturns
  <2>3. \A u \in Thread : CallIsCurrent(u)'
    BY <1>3, <1>7, <2>1, <2>2 DEF Lose, BranchReturns, Return
  <2> QED
    BY <1>5, <2>1, <2>2, <2>3 DEF PositionIsTrail
<1>8. ASSUME NEW t \in Thread, Read(t) PROVE PositionIsTrail'
  <2>1. PICK a, p, k, y, g : call[t] = [at |-> a, path |-> p, node |-> k, policy |-> y, got |-> g]
    BY <1>8, <1>0, CallFields DEF Read, At
  <2>2. call'[t] = [[call[t] EXCEPT !.at = "write"] EXCEPT !.got = curpos]
    BY <1>8, <1>0 DEF Read, TypeOK
  <2>3. call'[t] = [at |-> "write", path |-> p, node |-> k, policy |-> y, got |-> curpos]
    <3>1. [call[t] EXCEPT !.at = "write"] =
            [at |-> "write", path |-> p, node |-> k, policy |-> y, got |-> g]
      BY <2>1
    <3> QED
      BY <2>2, <3>1
  <2>4. UNCHANGED <<started, begun, curpos, trail>>
    BY <1>8 DEF Read
  <2>5. CallIsCurrent(t)'
    BY <1>8, <1>a, <2>1, <2>3, <2>4 DEF Read, At, CallIsCurrent
  <2> QED
    BY <2>4, <2>5, <1>b DEF PositionIsTrail, OneAtATime
<1>9. ASSUME NEW t \in Thread, Write(t) PROVE PositionIsTrail'
  <2> DEFINE p == call[t].path
             n == call[t].node
  <2>1. /\ p \in Path /\ n \in Node /\ p \in begun /\ started = begun
        /\ curpos = n - 1 /\ call[t].policy = "accept" /\ call[t].got = curpos
    BY <1>9, <1>0, <1>a, <1>c, CallFields DEF Write, At, CallIsCurrent, CallsAreStarted
  <2>2. /\ curpos' = n /\ UNCHANGED <<begun, started>>
        /\ trail' = [trail EXCEPT ![p] = Append(@, Acc(n))]
    BY <1>9, <2>1 DEF Write, BranchReturns, Acc, Node
  <2>3. trail[p] = UpTo(n) /\ trail[p] \in Seq(Event)
    BY <2>1, <1>0, <1>b DEF TypeOK
  <2>4. trail'[p] = Append(trail[p], Acc(n))
    BY <2>1, <2>2, <1>0 DEF TypeOK
  <2>5. \A k \in Node : curpos' = k - 1 <=> trail'[p] = UpTo(k)
    BY <2>1, <2>2, <2>3, <2>4, AcceptFollows
  <2>6. \A q \in begun' : q = p
    BY <2>1, <2>2, <1>0 DEF OneAtATime, TypeOK
  <2>7. \A u \in Thread : CallIsCurrent(u)'
    BY <1>3, <1>9, <2>1, <2>2 DEF Write, BranchReturns, Return
  <2> QED
    BY <2>5, <2>6, <2>7 DEF PositionIsTrail
<1>10. ASSUME NEW t \in Thread, SinkLook(t) PROVE PositionIsTrail'
  <2>1. call[t].path \in Path /\ call[t].node \in Node
    BY <1>10, <1>0, CallFields DEF SinkLook, At
  <2>2. started = begun /\ Len(trail[call[t].path]) < MaxTrail
    BY <1>10, <1>a DEF SinkLook, At, CallIsCurrent
  <2>3. CASE call[t].path \notin started /\ Answer(t, FALSE) /\ Return(t)
    <3>1. UNCHANGED <<begun, curpos, trail, started>>
      BY <1>10, <2>2, <2>3 DEF SinkLook, Answer
    <3> QED
      BY <2>2, <2>3, <3>1, <1>3, <1>b DEF PositionIsTrail, Return
  <2>4. CASE call[t].path \in started
    <3> DEFINE next == IF curpos = call[t].node - 1 THEN "audit" ELSE "sinkLose"
    <3>1. Goto(t, next) /\ UNCHANGED <<begun, curpos, trail, started>>
      BY <1>10, <2>4 DEF SinkLook
    <3>2. call'[t] = [at |-> next, path |-> call[t].path, node |-> call[t].node,
                      policy |-> call[t].policy, got |-> call[t].got]
      BY <1>10, <1>0, <3>1, GotoFacts DEF SinkLook, At, Steps, TypeOK
    <3>3. CallIsCurrent(t)'
      BY <2>2, <3>1, <3>2 DEF CallIsCurrent
    <3> QED
      BY <3>1, <3>3, <1>b DEF PositionIsTrail, OneAtATime
  <2> QED
    BY <1>10, <2>3, <2>4 DEF SinkLook
<1>11. ASSUME NEW t \in Thread, SinkLose(t) PROVE PositionIsTrail'
  <2>1. /\ call[t].path \in Path /\ call[t].node \in Node
        /\ call[t].path \in begun /\ started = begun
        /\ curpos # call[t].node - 1
    BY <1>11, <1>0, <1>a, <1>c, CallFields DEF SinkLose, At, CallIsCurrent, CallsAreStarted
  <2>2. ~Followed(call[t].path, call[t].node)
    BY <2>1, <1>b DEF Followed
  <2>3. /\ curpos' = Lost /\ UNCHANGED <<begun, started>>
        /\ trail' = [trail EXCEPT ![call[t].path] =
                       Append(@, [node |-> call[t].node, report |-> "sink"])]
    BY <1>11, <2>1, <2>2 DEF SinkLose, Answer
  <2>4. \A u \in Thread : CallIsCurrent(u)'
    BY <1>3, <1>11, <2>1, <2>3 DEF SinkLose, Return
  <2> QED
    BY <1>5, <2>1, <2>3, <2>4 DEF PositionIsTrail, Reports
<1>12. ASSUME NEW t \in Thread, Audit(t) PROVE PositionIsTrail'
  <2>1. /\ call[t].path \in Path /\ call[t].node \in Node
        /\ call[t].path \in begun /\ started = begun
        /\ curpos = call[t].node - 1
    BY <1>12, <1>0, <1>a, <1>c, CallFields DEF Audit, At, CallIsCurrent, CallsAreStarted
  <2>2. UNCHANGED <<begun, started, curpos, trail>>
    BY <1>12, <2>1, <1>b DEF Audit, Answer, Followed
  <2>3. call'[t].at = "refused"
    BY <1>12, <1>0, GotoFacts DEF Audit, At, Steps
  <2>4. CallIsCurrent(t)'
    BY <2>1, <2>2, <2>3 DEF CallIsCurrent
  <2> QED
    BY <2>2, <2>4, <1>b DEF PositionIsTrail, OneAtATime
<1>13. ASSUME NEW t \in Thread, RunSink(t) PROVE PositionIsTrail'
  <2>1. started = begun /\ UNCHANGED <<begun, started, curpos, trail>>
    BY <1>13, <1>a DEF RunSink, At, CallIsCurrent
  <2> QED
    BY <1>13, <2>1, <1>3, <1>b DEF PositionIsTrail, RunSink, Return
<1>14. CASE UNCHANGED vars
  <2>1. UNCHANGED <<started, begun, curpos, call, trail>>
    BY <1>14 DEF vars
  <2>2. \A t \in Thread : CallIsCurrent(t)'
    BY <2>1, <1>a DEF CallIsCurrent
  <2>3. \A p \in begun' : \A k \in Node : curpos' = k - 1 <=> trail'[p] = UpTo(k)
    BY <2>1, <1>b
  <2> QED
    BY <1>0, <2>2, <2>3 DEF PositionIsTrail, SingleInv
<1> QED
  BY <1>0, <1>1, <1>2, <1>4, <1>6, <1>7, <1>8, <1>9, <1>10, <1>11, <1>12, <1>13, <1>14
  DEF SingleInv, Next, Monitor

\* What a returning call reports is a step of the leak path.
LEMMA SingleSimulation ==
  SingleInv /\ [Next]_vars => [LPNext]_lpVars
<1> SUFFICES ASSUME SingleInv, [Next]_vars, ~UNCHANGED lpVars PROVE LPNext
  OBVIOUS
<1>0. TypeOK /\ \A t \in Thread : CallIsCurrent(t)
  BY DEF SingleInv, ManyInv, PositionIsTrail
<1>b. \A p \in begun : \A k \in Node : curpos = k - 1 <=> trail[p] = UpTo(k)
  BY DEF SingleInv, PositionIsTrail
<1>1. PICK t \in Thread : Monitor(t)
  BY DEF Next, Program, CallSource, CallSink, CallBranch, Enter, vars
<1> DEFINE p == call[t].path
           k == call[t].node
<1>2. p \in Path /\ k \in Node /\ call[t].policy \in {"accept", "reject"}
  BY <1>0, <1>1, CallFields
  DEF Monitor, New, Reset, Look, Lose, Read, Write, SinkLook, SinkLose, Audit, RunSink, At,
      Policies
<1>3. CASE Reset(t)
  BY <1>2, <1>3 DEF Reset, LPNext
<1>4. ASSUME BranchReturns(t), Len(trail[p]) < MaxTrail PROVE LPNext
  <2>1. PassBranch(p, k, call[t].policy)
    BY <1>4 DEF BranchReturns, PassBranch, Extend
  <2> QED
    BY <1>2, <2>1 DEF LPNext
<1>5. CASE Look(t) \/ Lose(t) \/ Write(t)
  <2>1. BranchReturns(t)
    BY <1>5 DEF Look, Lose, Write
  <2>2. Len(trail[p]) < MaxTrail
    BY <1>0, <1>5 DEF Look, Lose, Write, At, CallIsCurrent
  <2> QED
    BY <1>4, <2>1, <2>2
<1>6. ASSUME NEW r \in BOOLEAN, Answer(t, r), Len(trail[p]) < MaxTrail, r = Followed(p, k)
      PROVE  LPNext
  <2>1. ReachSink(p, k)
    BY <1>6 DEF Answer, ReachSink, Extend
  <2> QED
    BY <1>2, <2>1 DEF LPNext
<1>7. CASE SinkLook(t)
  <2>1. Answer(t, FALSE) /\ p \notin started
    BY <1>7 DEF SinkLook
  <2>2. p \notin begun /\ Len(trail[p]) < MaxTrail
    BY <1>0, <1>7, <2>1 DEF SinkLook, At, CallIsCurrent
  <2> QED
    BY <1>6, <2>1, <2>2 DEF Followed
<1>8. CASE SinkLose(t)
  <2>1. curpos # k - 1 /\ Len(trail[p]) < MaxTrail
    BY <1>0, <1>8 DEF SinkLose, At, CallIsCurrent
  <2>2. Answer(t, FALSE) /\ Followed(p, k) = FALSE
    BY <1>b, <1>2, <1>8, <2>1 DEF SinkLose, Followed
  <2> QED
    BY <1>6, <2>1, <2>2
<1>9. CASE Audit(t)
  <2>1. curpos = k - 1 /\ Len(trail[p]) < MaxTrail /\ p \in begun
    BY <1>0, <1>9 DEF Audit, At, CallIsCurrent, SingleInv, ManyInv, CallsAreStarted
  <2>2. Answer(t, TRUE) /\ Followed(p, k) = TRUE
    BY <1>b, <1>2, <1>9, <2>1 DEF Audit, Followed
  <2> QED
    BY <1>6, <2>1, <2>2
<1> QED
  BY <1>1, <1>3, <1>5, <1>7, <1>8, <1>9 DEF Monitor, New, Read, RunSink

\* With one path and one thread a sink is refused exactly when the whole path
\* has been followed since its source ran: for every number of nodes, and
\* whatever order the program reaches them in.
THEOREM MonitorImplementsLeakPath ==
  ASSUME OneAtATime
  PROVE  Spec => ImplementsLeakPath
<1>1. Init => LPInit
  BY DEF Init
<1>2. SingleInv /\ [Next]_vars => SingleInv'
  BY SingleStep
<1> QED
  BY <1>1, <1>2, SingleInit, SingleSimulation, PTL DEF Spec, ImplementsLeakPath, LPSpec

-----------------------------------------------------------------------------
(* Induction over the natural numbers, from the well-foundedness of <.      *)

LEMMA LeastOf ==
  ASSUME NEW T \in SUBSET Nat, T # {}
  PROVE  \E x \in T : \A y \in T : x <= y
<1> DEFINE R == OpToRel(<, Nat)
<1>1. IsWellFoundedOn(R, Nat)
  BY NatLessThanWellFounded, Zenon
<1>2. \A x, y : <<x, y>> \in R <=> x \in Nat /\ y \in Nat /\ x < y
  BY DEF OpToRel
<1> HIDE DEF R
<1>3. PICK x \in T : \A y \in T : <<y, x>> \notin R
  BY <1>1, WFMin
<1>4. \A y \in T : x <= y
  <2> TAKE y \in T
  <2>1. x \in Nat /\ y \in Nat /\ ~(y < x)
    BY <1>2, <1>3
  <2> QED  BY <2>1
<1> QED  BY <1>4

LEMMA Induction ==
  ASSUME NEW S, 0 \in S, \A n \in Nat : n \in S => n + 1 \in S
  PROVE  Nat \subseteq S
<1> SUFFICES ASSUME NEW n \in Nat, n \notin S PROVE FALSE
  OBVIOUS
<1> DEFINE T == {m \in Nat : m \notin S}
<1>1. PICK x \in T : \A y \in T : x <= y
  <2>1. T \in SUBSET Nat /\ T # {}
    OBVIOUS
  <2> HIDE DEF T
  <2> QED  BY <2>1, LeastOf
<1>2. x # 0 /\ x - 1 \in Nat
  BY <1>1
<1>3. x - 1 \in S
  BY <1>1, <1>2
<1> QED  BY <1>1, <1>2, <1>3

-----------------------------------------------------------------------------
(* A body is rewritten block by block.                                      *)

Glue(s, t) == s \o t
JoinsAt(U, f, i) == f[i + 1] = Glue(f[i], U[i + 1])
Joins(U, n, T, f) ==
  /\ f \in [1 .. n -> Seq(T)] /\ f[1] = U[1]
  /\ \A i \in 1 .. n - 1 : JoinsAt(U, f, i)

\* Where the i-th block begins.
Before(f, i) == IF i = 1 THEN 0 ELSE Len(f[i - 1])

Glued(u, s, t, T) ==
  /\ u \in Seq(T) /\ Len(u) = Len(s) + Len(t)
  /\ \A k \in 1 .. Len(s) + Len(t) : u[k] = IF k <= Len(s) THEN s[k] ELSE t[k - Len(s)]

LEMMA GlueUnits ==
  ASSUME NEW T, NEW s, NEW t, s \in Seq(T) /\ t \in Seq(T)
  PROVE  Glued(Glue(s, t), s, t, T)
BY ConcatProperties DEF Glued, Glue

LEMMA JoinsExist ==
  ASSUME NEW T, NEW n \in Nat \ {0}, NEW U \in [1 .. n -> Seq(T)]
  PROVE  \E f : Joins(U, n, T, f)
<1> DEFINE S == {m \in Nat : m + 1 <= n => \E f : Joins(U, m + 1, T, f)}
<1>1. 0 \in S
  <2>1. Joins(U, 1, T, [k \in 1 .. 1 |-> U[k]])
    BY DEF Joins
  <2> QED  BY <2>1
<1>2. ASSUME NEW m \in Nat, m \in S PROVE m + 1 \in S
  <2> SUFFICES ASSUME m + 2 <= n PROVE \E f : Joins(U, m + 2, T, f)
    BY <1>2
  <2>1. PICK f : Joins(U, m + 1, T, f)
    BY <1>2
  <2> DEFINE h == [k \in 1 .. m + 2 |-> IF k = m + 2 THEN Glue(f[m + 1], U[m + 2]) ELSE f[k]]
  <2>2. f[m + 1] \in Seq(T) /\ U[m + 2] \in Seq(T)
    BY <2>1 DEF Joins
  <2>3. Glue(f[m + 1], U[m + 2]) \in Seq(T)
    BY <2>2, ConcatProperties DEF Glue
  <2>4. h \in [1 .. m + 2 -> Seq(T)] /\ h[1] = U[1]
    BY <2>1, <2>3 DEF Joins
  <2>5. ASSUME NEW i \in 1 .. m + 1 PROVE h[i + 1] = Glue(h[i], U[i + 1])
    <3>1. CASE i = m + 1
      <4>1. h[m + 2] = Glue(f[m + 1], U[m + 2]) /\ h[m + 1] = f[m + 1] /\ (m + 1) + 1 = m + 2
        OBVIOUS
      <4> QED  BY <3>1, <4>1
    <3>2. CASE i # m + 1
      <4>1. i \in 1 .. m /\ i + 1 \in 1 .. m + 1
        BY <3>2
      <4>2. m + 1 \in Nat \ {0} /\ (m + 1) - 1 = m
        OBVIOUS
      <4>3. f[i + 1] = Glue(f[i], U[i + 1])
        <5>1. JoinsAt(U, f, i)
          BY <2>1, <4>1, <4>2 DEF Joins
        <5> QED  BY <5>1 DEF JoinsAt
      <4>4. h[i + 1] = f[i + 1] /\ h[i] = f[i]
        BY <4>1
      <4> QED  BY <4>3, <4>4
    <3> QED  BY <3>1, <3>2
  <2>6. Joins(U, m + 2, T, h)
    <3>1. (m + 2) - 1 = m + 1
      OBVIOUS
    <3> HIDE DEF h
    <3>2. \A i \in 1 .. (m + 2) - 1 : JoinsAt(U, h, i)
      BY <2>5, <3>1, Zenon DEF JoinsAt
    <3> QED  BY <2>4, <3>2, Zenon DEF Joins
  <2> QED  BY <2>6
<1> HIDE DEF S
<1>3. Nat \subseteq S
  BY <1>1, <1>2, Induction
<1>4. n - 1 \in S /\ (n - 1) + 1 = n
  BY <1>3
<1> QED  BY <1>4 DEF S

LEMMA FlattenJoins ==
  ASSUME NEW T, NEW n \in Nat \ {0}, NEW U \in [1 .. n -> Seq(T)]
  PROVE  \E f : Joins(U, n, T, f) /\ FlattenSeq(U) = f[n]
<1>1. PICK g : Joins(U, n, T, g)
  BY JoinsExist
<1>2. Len(U) = n /\ n # 0
  OBVIOUS
<1> DEFINE f == CHOOSE f : f = [i \in 1 .. Len(U) |-> IF i = 1 THEN U[i] ELSE Glue(f[i - 1], U[i])]
<1>3. FlattenSeq(U) = f[Len(U)]
  BY <1>2 DEF FlattenSeq, Glue
<1>4. g = [i \in 1 .. Len(U) |-> IF i = 1 THEN U[i] ELSE Glue(g[i - 1], U[i])]
  <2>1. \A i \in 1 .. n : g[i] = IF i = 1 THEN U[i] ELSE Glue(g[i - 1], U[i])
    <3> TAKE i \in 1 .. n
    <3>1. CASE i = 1
      BY <1>1, <3>1 DEF Joins
    <3>2. CASE i # 1
      <4>1. i - 1 \in 1 .. n - 1 /\ (i - 1) + 1 = i
        BY <3>2
      <4>2. JoinsAt(U, g, i - 1)
        BY <1>1, <4>1 DEF Joins
      <4> QED  BY <3>2, <4>1, <4>2 DEF JoinsAt
    <3> QED  BY <3>1, <3>2
  <2>2. g \in [1 .. n -> Seq(T)]
    BY <1>1 DEF Joins
  <2> QED  BY <1>2, <2>1, <2>2
<1>5. f = [i \in 1 .. Len(U) |-> IF i = 1 THEN U[i] ELSE Glue(f[i - 1], U[i])]
  BY <1>4
<1> HIDE DEF f
<1>6. \A i \in 1 .. n : f[i] = g[i]
  <2> DEFINE S == {m \in Nat : m + 1 <= n => f[m + 1] = g[m + 1]}
  <2>1. 0 \in S
    BY <1>1, <1>2, <1>5 DEF Joins
  <2>2. ASSUME NEW m \in Nat, m \in S PROVE m + 1 \in S
    <3> SUFFICES ASSUME m + 2 <= n PROVE f[m + 2] = g[m + 2]
      BY <2>2
    <3>1. f[m + 1] = g[m + 1] /\ m + 1 \in 1 .. n - 1 /\ m + 2 \in 1 .. n /\ (m + 2) - 1 = m + 1
      BY <2>2
    <3>2. f[m + 2] = Glue(f[m + 1], U[m + 2])
      <4>1. m + 2 \in 1 .. Len(U) /\ m + 2 # 1
        BY <1>2, <3>1
      <4>2. f[m + 2] = Glue(f[(m + 2) - 1], U[m + 2])
        <5> DEFINE q == m + 2
        <5>1. f[q] = IF q = 1 THEN U[q] ELSE Glue(f[q - 1], U[q])
          <6> HIDE DEF q
          <6> QED  BY <1>5, <4>1 DEF q
        <5> QED  BY <4>1, <5>1, Zenon
      <4> QED  BY <3>1, <4>2
    <3>3. g[m + 2] = Glue(g[m + 1], U[m + 2])
      <4>1. (m + 1) + 1 = m + 2
        OBVIOUS
      <4>2. g[(m + 1) + 1] = Glue(g[m + 1], U[(m + 1) + 1])
        <5>1. JoinsAt(U, g, m + 1)
          BY <1>1, <3>1 DEF Joins
        <5> QED  BY <5>1 DEF JoinsAt
      <4> QED  BY <4>1, <4>2
    <3> QED  BY <3>1, <3>2, <3>3
  <2> HIDE DEF S
  <2>3. Nat \subseteq S
    BY <2>1, <2>2, Induction
  <2>4. \A i \in 1 .. n : i - 1 \in S
    BY <2>3
  <2> TAKE i \in 1 .. n
  <2>5. (i - 1) + 1 = i /\ i <= n /\ i - 1 \in S
    BY <2>4
  <2>6. (i - 1) + 1 <= n => f[(i - 1) + 1] = g[(i - 1) + 1]
    BY <2>5 DEF S
  <2> QED  BY <2>5, <2>6
<1> QED  BY <1>1, <1>2, <1>3, <1>6

\* The units of the joined blocks are those of the blocks, each at its place.
JoinedAs(U, n, T, f) ==
  /\ f[n] \in Seq(T)
  /\ \A i \in 1 .. n : Before(f, i) \in Nat
  /\ \A i \in 1 .. n - 1 : Before(f, i + 1) = Before(f, i) + Len(U[i])
  /\ \A i \in 1 .. n : \A k \in 1 .. Len(U[i]) :
       Before(f, i) + k \in 1 .. Len(f[n]) /\ f[n][Before(f, i) + k] = U[i][k]
  /\ \A j \in 1 .. Len(f[n]) : \E i \in 1 .. n : \E k \in 1 .. Len(U[i]) :
       j = Before(f, i) + k

LEMMA JoinedUnits ==
  ASSUME NEW T, NEW n \in Nat \ {0}, NEW U \in [1 .. n -> Seq(T)], NEW f, Joins(U, n, T, f)
  PROVE  JoinedAs(U, n, T, f)
<1> DEFINE P(m) == /\ \A i \in 1 .. m : \A k \in 1 .. Len(U[i]) :
                        Before(f, i) + k \in 1 .. Len(f[m]) /\ f[m][Before(f, i) + k] = U[i][k]
                   /\ \A j \in 1 .. Len(f[m]) : \E i \in 1 .. m : \E k \in 1 .. Len(U[i]) :
                        j = Before(f, i) + k
           S == {m \in Nat : m + 1 <= n => P(m + 1)}
<1>1. \A i \in 1 .. n : f[i] \in Seq(T) /\ U[i] \in Seq(T) /\ Len(f[i]) \in Nat /\ Len(U[i]) \in Nat
  BY DEF Joins
<1>2. \A i \in 1 .. n : Before(f, i) \in Nat
  BY <1>1 DEF Before
<1>3. \A i \in 1 .. n - 1 : /\ Before(f, i + 1) = Len(f[i])
                           /\ Len(f[i + 1]) = Len(f[i]) + Len(U[i + 1])
  <2> TAKE i \in 1 .. n - 1
  <2>1. f[i + 1] = Glue(f[i], U[i + 1]) /\ i + 1 # 1 /\ (i + 1) - 1 = i /\ i \in 1 .. n /\ i + 1 \in 1 .. n
    <3>1. i + 1 # 1 /\ (i + 1) - 1 = i /\ i \in 1 .. n /\ i + 1 \in 1 .. n
      OBVIOUS
    <3>2. JoinsAt(U, f, i)
      BY DEF Joins
    <3> QED  BY <3>1, <3>2 DEF JoinsAt
  <2>2. Len(f[i + 1]) = Len(f[i]) + Len(U[i + 1])
    BY <1>1, <2>1, ConcatProperties DEF Glue
  <2> QED  BY <2>1, <2>2 DEF Before
<1>8. \A i \in 1 .. n : Len(f[i]) = Before(f, i) + Len(U[i])
  <2> TAKE i \in 1 .. n
  <2>1. CASE i = 1
    BY <1>1, <2>1 DEF Before, Joins
  <2>2. CASE i # 1
    <3>1. i - 1 \in 1 .. n - 1 /\ (i - 1) + 1 = i
      BY <2>2
    <3> QED  BY <1>3, <3>1
  <2> QED  BY <2>1, <2>2
<1>4. 0 \in S
  <2>1. P(1)
    BY <1>1 DEF Before, Joins
  <2> QED  BY <2>1
<1>5. ASSUME NEW m \in Nat, m \in S PROVE m + 1 \in S
  <2> SUFFICES ASSUME m + 2 <= n PROVE P(m + 2)
    BY <1>5
  <2>1. P(m + 1)
    <3>1. m + 1 <= n /\ (m + 1 <= n => P(m + 1))
      <4> HIDE DEF P
      <4> QED  BY <1>5
    <3> QED  BY <3>1, Zenon
  <2> DEFINE a == f[m + 1]
             b == U[m + 2]
             c == f[m + 2]
  <2>2. c = a \o b /\ a \in Seq(T) /\ b \in Seq(T) /\ Before(f, m + 2) = Len(a)
    <3>1. /\ m + 1 \in 1 .. n - 1 /\ m + 1 \in 1 .. n /\ m + 2 \in 1 .. n
          /\ (m + 1) + 1 = m + 2 /\ m + 2 # 1 /\ (m + 2) - 1 = m + 1
      OBVIOUS
    <3>2. f[m + 2] = Glue(f[m + 1], U[m + 2])
      <4>1. JoinsAt(U, f, m + 1)
        BY <3>1 DEF Joins
      <4> QED  BY <3>1, <4>1 DEF JoinsAt
    <3> QED  BY <1>1, <3>1, <3>2 DEF Before, Glue
  <2>3. /\ Len(c) = Len(a) + Len(b) /\ Len(a) \in Nat /\ Len(b) \in Nat
        /\ \A i \in 1 .. Len(a) + Len(b) : c[i] = IF i <= Len(a) THEN a[i] ELSE b[i - Len(a)]
    <3> HIDE DEF a, b, c
    <3> QED  BY <2>2, ConcatProperties
  <2> HIDE DEF a, b, c
  <2>4. ASSUME NEW i \in 1 .. m + 2, NEW k \in 1 .. Len(U[i])
        PROVE  Before(f, i) + k \in 1 .. Len(c) /\ c[Before(f, i) + k] = U[i][k]
    <3>1. CASE i = m + 2
      BY <1>1, <2>2, <2>3, <3>1 DEF b
    <3>2. CASE i # m + 2
      <4>1. i \in 1 .. m + 1
        BY <3>2
      <4>2. Before(f, i) + k \in 1 .. Len(a) /\ a[Before(f, i) + k] = U[i][k]
        BY <2>1, <4>1 DEF a
      <4> QED  BY <2>3, <4>2
    <3> QED  BY <3>1, <3>2
  <2>5. ASSUME NEW j \in 1 .. Len(c)
        PROVE  \E i \in 1 .. m + 2 : \E k \in 1 .. Len(U[i]) : j = Before(f, i) + k
    <3>1. CASE j <= Len(a)
      <4>1. PICK i \in 1 .. m + 1 : \E k \in 1 .. Len(U[i]) : j = Before(f, i) + k
        BY <2>1, <2>3, <3>1 DEF a
      <4> QED  BY <4>1
    <3>2. CASE j > Len(a)
      <4>1. /\ j - Len(a) \in 1 .. Len(b) /\ j = Before(f, m + 2) + (j - Len(a))
        <5> DEFINE x == Len(a)
                   y == Len(b)
                   z == Len(c)
                   q == Before(f, m + 2)
        <5>1. x \in Nat /\ y \in Nat /\ z = x + y /\ q = x /\ j \in 1 .. z /\ j > x
          BY <2>2, <2>3, <3>2
        <5> HIDE DEF x, y, z, q
        <5>2. j - x \in 1 .. y /\ j = q + (j - x)
          BY <5>1
        <5> QED  BY <5>2 DEF x, y, q
      <4>2. m + 2 \in 1 .. m + 2
        OBVIOUS
      <4> QED  BY <4>1, <4>2 DEF b
    <3> QED  BY <2>3, <3>1, <3>2
  <2> QED  BY <2>4, <2>5 DEF c
<1> HIDE DEF S
<1>6. n - 1 \in S /\ (n - 1) + 1 = n
  <2>1. Nat \subseteq S
    BY <1>4, <1>5, Induction
  <2> QED  BY <2>1
<1>7. P(n)
  BY <1>6 DEF S
<1>9. \A i \in 1 .. n - 1 : Before(f, i + 1) = Before(f, i) + Len(U[i])
  <2> TAKE i \in 1 .. n - 1
  <2>1. Before(f, i + 1) = Len(f[i])
    BY <1>3
  <2>2. i \in 1 .. n
    OBVIOUS
  <2> QED  BY <1>8, <2>1, <2>2
<1> QED  BY <1>1, <1>2, <1>7, <1>9 DEF JoinedAs

-----------------------------------------------------------------------------
(* Calls are inserted among the units of a body, which keep their order.    *)

\* The units of b are found in c at the places pos; the others are calls.
Inserted(b, c, pos) ==
  /\ Len(b) \in Nat /\ Len(c) \in Nat
  /\ pos \in [1 .. Len(b) -> 1 .. Len(c)]
  /\ \A i \in 1 .. Len(b) : c[pos[i]] = b[i]
  /\ \A i, h \in 1 .. Len(b) : i < h => pos[i] < pos[h]
  /\ \A j \in 1 .. Len(c) : (\E i \in 1 .. Len(b) : j = pos[i]) \/ ~IsStatement(c[j])

\* A block holds its unit at place m[i], and calls.
Blocks(b, U, m, T) ==
  /\ b \in Seq(T) /\ b # <<>>
  /\ U \in [1 .. Len(b) -> Seq(T)]
  /\ m \in [1 .. Len(b) -> Nat]
  /\ \A i \in 1 .. Len(b) : m[i] \in 1 .. Len(U[i]) /\ U[i][m[i]] = b[i]
  /\ \A i \in 1 .. Len(b) : \A k \in 1 .. Len(U[i]) : k # m[i] => ~IsStatement(U[i][k])

\* Where the units of the blocks are in the body c.
Placed(U, m, c, pos) ==
  /\ \A i \in DOMAIN U : \A k \in 1 .. Len(U[i]) :
       pos[i] - m[i] + k \in 1 .. Len(c) /\ c[pos[i] - m[i] + k] = U[i][k]
  /\ \A j \in 1 .. Len(c) : \E i \in DOMAIN U : \E k \in 1 .. Len(U[i]) : j = pos[i] - m[i] + k

LEMMA BlocksAreInserted ==
  ASSUME NEW T, NEW b, NEW U, NEW m, Blocks(b, U, m, T)
  PROVE  \E pos : /\ FlattenSeq(U) \in Seq(T)
                  /\ Inserted(b, FlattenSeq(U), pos) /\ Placed(U, m, FlattenSeq(U), pos)
<1> DEFINE n == Len(b)
<1>1. n \in Nat \ {0} /\ U \in [1 .. n -> Seq(T)]
  <2>1. b \in Seq(T) /\ b # <<>>
    BY DEF Blocks
  <2>2. n \in Nat /\ n # 0
    BY <2>1
  <2> QED  BY <2>2 DEF Blocks
<1>2. PICK f : Joins(U, n, T, f) /\ FlattenSeq(U) = f[n]
  <2> HIDE DEF n
  <2> QED  BY <1>1, FlattenJoins
<1> DEFINE c == f[n]
           B == [i \in 1 .. n |-> Before(f, i)]
           pos == [i \in 1 .. n |-> B[i] + m[i]]
<1>3. /\ c \in Seq(T)
      /\ \A i \in 1 .. n : B[i] \in Nat
      /\ \A i \in 1 .. n - 1 : B[i + 1] = B[i] + Len(U[i])
      /\ \A i \in 1 .. n : \A k \in 1 .. Len(U[i]) : B[i] + k \in 1 .. Len(c) /\ c[B[i] + k] = U[i][k]
      /\ \A j \in 1 .. Len(c) : \E i \in 1 .. n : \E k \in 1 .. Len(U[i]) : j = B[i] + k
  <2> HIDE DEF n
  <2>1. /\ \A i \in 1 .. n : Before(f, i) \in Nat
        /\ \A i \in 1 .. n - 1 : Before(f, i + 1) = Before(f, i) + Len(U[i])
        /\ \A i \in 1 .. n : \A k \in 1 .. Len(U[i]) :
              Before(f, i) + k \in 1 .. Len(c) /\ c[Before(f, i) + k] = U[i][k]
        /\ \A j \in 1 .. Len(c) : \E i \in 1 .. n : \E k \in 1 .. Len(U[i]) : j = Before(f, i) + k
        /\ c \in Seq(T)
    <3> HIDE DEF c
    <3>1. Joins(U, n, T, f)
      BY <1>2
    <3>2. JoinedAs(U, n, T, f)
      BY <1>1, <3>1, JoinedUnits
    <3> QED  BY <3>2 DEF c, JoinedAs
  <2>2. \A i \in 1 .. n : B[i] = Before(f, i)
    OBVIOUS
  <2>3. \A i \in 1 .. n - 1 : i \in 1 .. n /\ i + 1 \in 1 .. n
    BY <1>1
  <2> HIDE DEF B, c
  <2>4. \A i \in 1 .. n : B[i] \in Nat
    BY <2>1, <2>2
  <2>5. \A i \in 1 .. n - 1 : B[i + 1] = B[i] + Len(U[i])
    <3> TAKE i \in 1 .. n - 1
    <3>1. i \in 1 .. n /\ i + 1 \in 1 .. n
      BY <2>3
    <3>2. Before(f, i + 1) = Before(f, i) + Len(U[i])
      BY <2>1
    <3> QED  BY <2>2, <3>1, <3>2
  <2>6. \A i \in 1 .. n : \A k \in 1 .. Len(U[i]) : B[i] + k \in 1 .. Len(c) /\ c[B[i] + k] = U[i][k]
    BY <2>1, <2>2
  <2>7. \A j \in 1 .. Len(c) : \E i \in 1 .. n : \E k \in 1 .. Len(U[i]) : j = B[i] + k
    <3> TAKE j \in 1 .. Len(c)
    <3>1. PICK i \in 1 .. n : \E k \in 1 .. Len(U[i]) : j = Before(f, i) + k
      BY <2>1
    <3>2. B[i] = Before(f, i)
      BY <2>2
    <3> QED  BY <3>1, <3>2
  <2> QED  BY <2>1, <2>4, <2>5, <2>6, <2>7
<1>4. \A i \in 1 .. n : m[i] \in Nat /\ m[i] \in 1 .. Len(U[i]) /\ U[i][m[i]] = b[i] /\ Len(U[i]) \in Nat
  BY DEF Blocks
<1>5. \A i \in 1 .. n : pos[i] = B[i] + m[i] /\ pos[i] \in Nat
  BY <1>3, <1>4
<1> HIDE DEF c, B, pos
<1>6. Len(c) \in Nat /\ \A i \in 1 .. n : pos[i] \in 1 .. Len(c) /\ c[pos[i]] = b[i]
  <2>1. Len(c) \in Nat
    BY <1>3
  <2>2. ASSUME NEW i \in 1 .. n PROVE pos[i] \in 1 .. Len(c) /\ c[pos[i]] = b[i]
    <3>1. B[i] + m[i] \in 1 .. Len(c) /\ c[B[i] + m[i]] = U[i][m[i]]
      BY <1>3, <1>4
    <3> QED  BY <1>4, <1>5, <3>1
  <2> QED  BY <2>1, <2>2
\* The blocks lie one behind the other.
<1>7. \A i, h \in 1 .. n : i < h => B[i] + Len(U[i]) <= B[h]
  <2> SUFFICES ASSUME NEW i \in 1 .. n
               PROVE  \A h \in 1 .. n : i < h => B[i] + Len(U[i]) <= B[h]
    OBVIOUS
  <2> DEFINE S == {d \in Nat : i + d + 1 <= n => B[i] + Len(U[i]) <= B[i + d + 1]}
  <2>1. 0 \in S
    BY <1>1, <1>3
  <2>2. ASSUME NEW d \in Nat, d \in S PROVE d + 1 \in S
    <3> SUFFICES ASSUME i + d + 2 <= n PROVE B[i] + Len(U[i]) <= B[i + d + 2]
      BY <2>2
    <3> DEFINE g == i + d + 1
    <3>1. g \in 1 .. n - 1 /\ g \in 1 .. n /\ g + 1 = i + d + 2 /\ g + 1 \in 1 .. n
      BY <1>1
    <3>2. B[i] + Len(U[i]) <= B[g]
      BY <2>2, <3>1
    <3> HIDE DEF g
    <3>3. B[g + 1] = B[g] + Len(U[g]) /\ Len(U[g]) \in Nat /\ B[g] \in Nat /\ B[i] \in Nat /\ Len(U[i]) \in Nat
      BY <1>3, <1>4, <3>1
    <3>4. B[i] + Len(U[i]) <= B[g + 1]
      BY <3>2, <3>3
    <3> QED  BY <3>1, <3>4
  <2> HIDE DEF S
  <2>3. Nat \subseteq S
    BY <2>1, <2>2, Induction
  <2> TAKE h \in 1 .. n
  <2> SUFFICES ASSUME i < h PROVE B[i] + Len(U[i]) <= B[h]
    OBVIOUS
  <2>4. h - i - 1 \in Nat /\ i + (h - i - 1) + 1 = h /\ h <= n
    BY <1>1
  <2>5. h - i - 1 \in S
    BY <2>3, <2>4
  <2> QED  BY <2>4, <2>5 DEF S
<1>8. ASSUME NEW i \in 1 .. n, NEW h \in 1 .. n, i < h PROVE pos[i] < pos[h]
  <2>1. B[i] + Len(U[i]) <= B[h]
    BY <1>7, <1>8
  <2>2. /\ pos[i] = B[i] + m[i] /\ pos[h] = B[h] + m[h]
        /\ m[i] \in 1 .. Len(U[i]) /\ m[h] \in 1 .. Len(U[h])
        /\ B[i] \in Nat /\ B[h] \in Nat /\ Len(U[i]) \in Nat /\ Len(U[h]) \in Nat
    BY <1>3, <1>4, <1>5
  <2> QED  BY <2>1, <2>2, SMTT(30)
<1>9. ASSUME NEW j \in 1 .. Len(c) PROVE (\E i \in 1 .. n : j = pos[i]) \/ ~IsStatement(c[j])
  <2>0. PICK i \in 1 .. n : \E k \in 1 .. Len(U[i]) : j = B[i] + k
    BY <1>3
  <2>1. PICK k \in 1 .. Len(U[i]) : j = B[i] + k
    BY <2>0
  <2>2. c[j] = U[i][k]
    BY <1>3, <2>1
  <2>3. CASE k = m[i]
    BY <1>5, <2>1, <2>3
  <2>4. CASE k # m[i]
    BY <2>2, <2>4 DEF Blocks
  <2> QED  BY <2>3, <2>4
<1>10. Inserted(b, c, pos)
  <2>1. pos \in [1 .. n -> 1 .. Len(c)]
    BY <1>6 DEF pos
  <2> QED  BY <1>1, <1>6, <1>8, <1>9, <2>1 DEF Inserted
<1>11. Placed(U, m, c, pos)
  <2>1. DOMAIN U = 1 .. n
    BY <1>1
  <2>2. \A i \in 1 .. n : \A k \in 1 .. Len(U[i]) : pos[i] - m[i] + k = B[i] + k
    <3> TAKE i \in 1 .. n
    <3> TAKE k \in 1 .. Len(U[i])
    <3>1. pos[i] = B[i] + m[i] /\ B[i] \in Nat /\ m[i] \in Nat /\ k \in Int
      BY <1>3, <1>4, <1>5
    <3> QED  BY <3>1
  <2> HIDE DEF n
  <2>3. \A i \in 1 .. n : \A k \in 1 .. Len(U[i]) :
          pos[i] - m[i] + k \in 1 .. Len(c) /\ c[pos[i] - m[i] + k] = U[i][k]
    BY <1>3, <2>2
  <2>4. \A j \in 1 .. Len(c) : \E i \in 1 .. n : \E k \in 1 .. Len(U[i]) : j = pos[i] - m[i] + k
    <3> TAKE j \in 1 .. Len(c)
    <3>0. PICK i \in 1 .. n : \E k \in 1 .. Len(U[i]) : j = B[i] + k
      BY <1>3
    <3>1. PICK k \in 1 .. Len(U[i]) : j = B[i] + k
      BY <3>0
    <3> QED  BY <2>2, <3>1
  <2> QED  BY <2>1, <2>3, <2>4, SMTT(30) DEF Placed
<1>12. FlattenSeq(U) = c /\ c \in Seq(T)
  BY <1>2, <1>3 DEF c
<1> QED  BY <1>10, <1>11, <1>12

-----------------------------------------------------------------------------
(* What the units of a body are, and where the calls stand.                 *)

BodyUnit ==
  {u \in [kind : {"stmt", "source", "branch", "sink"}, text : Text, to : Seq(Nat), falls : BOOLEAN,
          path : 0 .. MaxPaths, nr : Nat, policy : {"none", "accept", "reject"}] :
     /\ u.kind # "stmt" => u.to = <<>> /\ u.text.base = "call" /\ u.path \in Path
     /\ u.kind \in {"branch", "sink"} => u.nr \in Node
     /\ u.kind = "branch" => u.policy \in Policies}

NoStatement(b, g, h) == \A y \in g .. h : ~IsStatement(b[y])

\* Statements have numbers of their own, and jumps go to statements.
Numbered(b) ==
  /\ \A i, h \in 1 .. Len(b) : IsStatement(b[i]) /\ IsStatement(b[h]) /\ b[i].nr = b[h].nr => i = h
  /\ \A i \in 1 .. Len(b) : \A a \in DOMAIN b[i].to :
       \E g \in 1 .. Len(b) : IsStatement(b[g]) /\ b[g].nr = b[i].to[a]

\* The source call at i stands behind a statement like its source.
SourceAt(b, i) ==
  \E g \in 1 .. i - 1 : /\ IsStatement(b[g]) /\ NoStatement(b, g + 1, i)
                        /\ \E x \in Items("source") : x.path = b[i].path /\ SameSource(b[g].text, x)

\* The branch call at i stands before the jump it is numbered after.
BranchAt(b, i) ==
  \E g \in i + 1 .. Len(b) : /\ Jumps(b[g]) /\ NoStatement(b, i, g - 1)
                             /\ JumpNumber(b, g) = b[i].nr

\* A call for the sink x stands before the statement at i, where jumps land.
GuardedBy(b, i, x) ==
  \E h \in 1 .. i - 1 : /\ b[h].kind = "sink" /\ b[h].path = x.path /\ b[h].nr = x.node
                        /\ \A y \in h .. i - 1 : b[y].kind \in {"branch", "sink"}

SameUnit(b, c, pos, i) == c[pos[i]] = b[i]

LEMMA PlaceOf ==
  ASSUME NEW b, NEW c, NEW pos, NEW i, Inserted(b, c, pos) /\ i \in 1 .. Len(b)
  PROVE  /\ pos[i] \in 1 .. Len(c) /\ pos[i] \in Nat /\ i \in Nat
         /\ SameUnit(b, c, pos, i) /\ Len(b) \in Nat /\ Len(c) \in Nat
<1>1. pos[i] \in 1 .. Len(c) /\ c[pos[i]] = b[i] /\ Len(b) \in Nat /\ Len(c) \in Nat
  BY DEF Inserted
<1> QED  BY <1>1 DEF SameUnit

LEMMA PlacesFollow ==
  ASSUME NEW b, NEW c, NEW pos, NEW i, NEW h,
         Inserted(b, c, pos) /\ i \in 1 .. Len(b) /\ h \in 1 .. Len(b)
  PROVE  /\ i < h <=> pos[i] < pos[h]
         /\ i <= h <=> pos[i] <= pos[h]
<1>1. pos[i] \in Nat /\ pos[h] \in Nat /\ i \in Nat /\ h \in Nat
  BY PlaceOf
<1>2. (i < h => pos[i] < pos[h]) /\ (h < i => pos[h] < pos[i])
  BY DEF Inserted
<1> QED  BY <1>1, <1>2

\* What is inserted between two units are calls.
LEMMA StillNoStatement ==
  ASSUME NEW b, NEW c, NEW pos, NEW i \in 1 .. Len(b), NEW h \in 1 .. Len(b),
         Inserted(b, c, pos), NoStatement(b, i + 1, h - 1)
  PROVE  NoStatement(c, pos[i] + 1, pos[h] - 1)
<1>1. pos[i] \in Nat /\ pos[h] \in Nat /\ pos[i] \in 1 .. Len(c) /\ pos[h] \in 1 .. Len(c)
  BY PlaceOf
<1> SUFFICES ASSUME NEW y \in pos[i] + 1 .. pos[h] - 1, IsStatement(c[y])
             PROVE  FALSE
  BY DEF NoStatement
<1>2. y \in 1 .. Len(c) /\ pos[i] < y /\ y < pos[h]
  BY <1>1, SMTT(30)
<1>3. PICK g \in 1 .. Len(b) : y = pos[g]
  BY <1>2 DEF Inserted
<1>4. i < g /\ g < h /\ c[y] = b[g]
  <2>1. SameUnit(b, c, pos, g)
    BY <1>3, PlaceOf
  <2> QED  BY <1>2, <1>3, <2>1, PlacesFollow DEF SameUnit
<1>5. g \in i + 1 .. h - 1
  BY <1>4
<1> QED  BY <1>4, <1>5 DEF NoStatement

LEMMA StillNumbered ==
  ASSUME NEW b \in Seq(BodyUnit), NEW c \in Seq(BodyUnit), NEW pos, Inserted(b, c, pos), Numbered(b)
  PROVE  Numbered(c)
<1>1. Len(b) \in Nat /\ Len(c) \in Nat
  OBVIOUS
<1>2. ASSUME NEW j \in 1 .. Len(c), IsStatement(c[j])
      PROVE  \E i \in 1 .. Len(b) : j = pos[i] /\ c[j] = b[i]
  BY <1>2 DEF Inserted
<1>3. ASSUME NEW j \in 1 .. Len(c), NEW a \in DOMAIN c[j].to
      PROVE  \E g \in 1 .. Len(c) : IsStatement(c[g]) /\ c[g].nr = c[j].to[a]
  <2>1. IsStatement(c[j])
    <3>1. c[j] \in BodyUnit
      BY <1>1
    <3>2. ~IsStatement(c[j]) => c[j].to = <<>>
      BY <3>1 DEF BodyUnit, IsStatement
    <3> QED  BY <1>3, <3>2
  <2>2. PICK i \in 1 .. Len(b) : j = pos[i] /\ c[j] = b[i]
    BY <1>2, <2>1
  <2>3. PICK g \in 1 .. Len(b) : IsStatement(b[g]) /\ b[g].nr = b[i].to[a]
    BY <1>3, <2>2 DEF Numbered
  <2>4. pos[g] \in 1 .. Len(c) /\ c[pos[g]] = b[g]
    <3>1. pos[g] \in 1 .. Len(c) /\ SameUnit(b, c, pos, g)
      BY PlaceOf
    <3> QED  BY <3>1 DEF SameUnit
  <2> QED  BY <2>2, <2>3, <2>4
<1>4. ASSUME NEW j \in 1 .. Len(c), NEW k \in 1 .. Len(c),
             IsStatement(c[j]), IsStatement(c[k]), c[j].nr = c[k].nr
      PROVE  j = k
  <2>1. PICK i \in 1 .. Len(b) : j = pos[i] /\ c[j] = b[i]
    BY <1>2, <1>4
  <2>2. PICK h \in 1 .. Len(b) : k = pos[h] /\ c[k] = b[h]
    BY <1>2, <1>4
  <2>3. i = h
    BY <1>4, <2>1, <2>2 DEF Numbered
  <2> QED  BY <2>1, <2>2, <2>3
<1> QED  BY <1>3, <1>4 DEF Numbered

\* The jumps keep their numbers.
LEMMA SameJumpNumber ==
  ASSUME NEW b \in Seq(BodyUnit), NEW c \in Seq(BodyUnit), NEW pos, NEW i \in 1 .. Len(b),
         Inserted(b, c, pos)
  PROVE  JumpNumber(c, pos[i]) = JumpNumber(b, i)
<1> DEFINE B == {h \in 1 .. i : Jumps(b[h])}
           C == {h \in 1 .. pos[i] : Jumps(c[h])}
           f == [h \in B |-> pos[h]]
<1>1. Len(b) \in Nat /\ Len(c) \in Nat /\ i \in Nat /\ pos[i] \in Nat /\ pos[i] \in 1 .. Len(c)
  BY PlaceOf
<1>2. \A h \in B : h \in 1 .. Len(b) /\ h \in 1 .. i /\ Jumps(b[h])
  BY <1>1
<1>3. \A h \in B : pos[h] \in C
  <2> TAKE h \in B
  <2>1. pos[h] \in 1 .. Len(c) /\ c[pos[h]] = b[h] /\ pos[h] <= pos[i]
    <3>0. h \in 1 .. Len(b) /\ h <= i
      BY <1>1, <1>2
    <3>1. pos[h] \in 1 .. Len(c) /\ SameUnit(b, c, pos, h) /\ h \in Nat
      BY <3>0, PlaceOf
    <3>2. pos[h] <= pos[i]
      BY <3>0, PlacesFollow
    <3> QED  BY <3>1, <3>2 DEF SameUnit
  <2> QED  BY <1>1, <1>2, <2>1
<1>4. \A j \in C : \E h \in B : j = pos[h]
  <2> TAKE j \in C
  <2>1. j \in 1 .. Len(c) /\ Jumps(c[j]) /\ j <= pos[i]
    BY <1>1
  <2>2. IsStatement(c[j])
    <3>1. c[j] \in BodyUnit
      BY <1>1, <2>1
    <3> QED  BY <2>1, <3>1 DEF BodyUnit, IsStatement, Jumps
  <2>3. PICK h \in 1 .. Len(b) : j = pos[h]
    BY <2>1, <2>2 DEF Inserted
  <2>4. h <= i /\ c[j] = b[h]
    <3>1. SameUnit(b, c, pos, h)
      BY PlaceOf
    <3>2. h <= i
      BY <2>1, <2>3, PlacesFollow
    <3> QED  BY <2>3, <3>1, <3>2 DEF SameUnit
  <2>5. h \in 1 .. i
    BY <2>4
  <2> QED  BY <2>1, <2>3, <2>4, <2>5
<1>5. \A g, h \in B : pos[g] = pos[h] => g = h
  <2> SUFFICES ASSUME NEW g \in B, NEW h \in B, pos[g] = pos[h], g # h PROVE FALSE
    OBVIOUS
  <2>1. g < h \/ h < g
    OBVIOUS
  <2>2. pos[g] < pos[h] \/ pos[h] < pos[g]
    BY <1>1, <1>2, <2>1, PlacesFollow
  <2>3. pos[g] \in Nat
    BY <1>2, PlaceOf
  <2> QED  BY <2>2, <2>3
<1>6. IsFiniteSet(B)
  <2>1. IsFiniteSet(1 .. i) /\ B \in SUBSET (1 .. i)
    BY <1>1, FS_Interval
  <2> QED  BY <2>1, FS_Subset
<1> HIDE DEF B, C
<1>7. f \in Bijection(B, C)
  <2>1. f \in [B -> C]
    BY <1>3
  <2>2. \A g, h \in B : f[g] = f[h] => g = h
    BY <1>5
  <2>3. \A j \in C : \E h \in B : f[h] = j
    BY <1>4
  <2> HIDE DEF f
  <2> QED  BY <2>1, <2>2, <2>3 DEF Bijection, Injection, Surjection, IsInjective
<1>8. Cardinality(C) = Cardinality(B)
  BY <1>6, <1>7, FS_Bijection DEF ExistsBijection
<1> QED  BY <1>8 DEF B, C, JumpNumber

\* Calls that are in their place stay there.
LEMMA StaysInPlace ==
  ASSUME NEW b \in Seq(BodyUnit), NEW c \in Seq(BodyUnit), NEW pos, NEW i \in 1 .. Len(b),
         Inserted(b, c, pos), ~IsStatement(b[i])
  PROVE  /\ SourceAt(b, i) => SourceAt(c, pos[i])
         /\ BranchAt(b, i) => BranchAt(c, pos[i])
<1>1. Len(b) \in Nat /\ Len(c) \in Nat /\ i \in Nat /\ pos[i] \in Nat /\ pos[i] \in 1 .. Len(c)
      /\ c[pos[i]] = b[i]
  <2>1. /\ Len(b) \in Nat /\ Len(c) \in Nat /\ i \in Nat /\ pos[i] \in Nat /\ pos[i] \in 1 .. Len(c)
        /\ SameUnit(b, c, pos, i)
    BY PlaceOf
  <2> QED  BY <2>1 DEF SameUnit
<1>2. ASSUME SourceAt(b, i) PROVE SourceAt(c, pos[i])
  <2>1. PICK g \in 1 .. i - 1 : /\ IsStatement(b[g]) /\ NoStatement(b, g + 1, i)
                                /\ \E x \in Items("source") : x.path = b[i].path /\ SameSource(b[g].text, x)
    BY <1>2 DEF SourceAt
  <2>2. g \in 1 .. Len(b) /\ g < i
    BY <1>1
  <2>3. pos[g] \in Nat /\ pos[g] < pos[i] /\ c[pos[g]] = b[g] /\ pos[g] \in 1 .. Len(c)
    <3>1. pos[g] < pos[i]
      BY <2>2, PlacesFollow
    <3>2. pos[g] \in Nat /\ SameUnit(b, c, pos, g) /\ pos[g] \in 1 .. Len(c)
      BY <2>2, PlaceOf
    <3> QED  BY <3>1, <3>2 DEF SameUnit
  <2>4. NoStatement(b, g + 1, i - 1)
    <3>1. \A y \in g + 1 .. i - 1 : y \in g + 1 .. i
      OBVIOUS
    <3> QED  BY <2>1, <3>1 DEF NoStatement
  <2>5. NoStatement(c, pos[g] + 1, pos[i] - 1)
    BY <1>1, <2>2, <2>4, StillNoStatement
  <2>6. NoStatement(c, pos[g] + 1, pos[i])
    <3>1. \A y \in pos[g] + 1 .. pos[i] : y \in pos[g] + 1 .. pos[i] - 1 \/ y = pos[i]
      BY <1>1, <2>3
    <3> QED  BY <1>1, <2>5, <3>1 DEF NoStatement
  <2>7. pos[g] \in 1 .. pos[i] - 1
    BY <1>1, <2>3
  <2> QED  BY <1>1, <2>1, <2>3, <2>6, <2>7 DEF SourceAt
<1>3. ASSUME BranchAt(b, i) PROVE BranchAt(c, pos[i])
  <2>1. PICK g \in i + 1 .. Len(b) : /\ Jumps(b[g]) /\ NoStatement(b, i, g - 1)
                                     /\ JumpNumber(b, g) = b[i].nr
    BY <1>3 DEF BranchAt
  <2>2. g \in 1 .. Len(b) /\ i < g
    BY <1>1
  <2>3. pos[g] \in Nat /\ pos[i] < pos[g] /\ c[pos[g]] = b[g] /\ pos[g] \in 1 .. Len(c)
    <3>1. pos[i] < pos[g]
      BY <2>2, PlacesFollow
    <3>2. pos[g] \in Nat /\ SameUnit(b, c, pos, g) /\ pos[g] \in 1 .. Len(c)
      BY <2>2, PlaceOf
    <3> QED  BY <3>1, <3>2 DEF SameUnit
  <2>4. NoStatement(b, i + 1, g - 1)
    <3>1. \A y \in i + 1 .. g - 1 : y \in i .. g - 1
      OBVIOUS
    <3> QED  BY <2>1, <3>1 DEF NoStatement
  <2>5. NoStatement(c, pos[i] + 1, pos[g] - 1)
    BY <1>1, <2>2, <2>4, StillNoStatement
  <2>6. NoStatement(c, pos[i], pos[g] - 1)
    <3>1. \A y \in pos[i] .. pos[g] - 1 : y \in pos[i] + 1 .. pos[g] - 1 \/ y = pos[i]
      BY <1>1, <2>3
    <3> QED  BY <1>1, <2>5, <3>1 DEF NoStatement
  <2>7. pos[g] \in pos[i] + 1 .. Len(c)
    BY <1>1, <2>3
  <2>8. JumpNumber(c, pos[g]) = c[pos[i]].nr
    BY <1>1, <2>1, <2>2, SameJumpNumber
  <2> QED  BY <2>1, <2>3, <2>6, <2>7, <2>8 DEF BranchAt
<1> QED  BY <1>2, <1>3

\* And guards stay guards, when only statements get a call behind them.
LEMMA StaysGuarded ==
  ASSUME NEW b \in Seq(BodyUnit), NEW c \in Seq(BodyUnit), NEW pos, NEW i \in 1 .. Len(b), NEW x,
         Inserted(b, c, pos), GuardedBy(b, i, x),
         \A j \in 1 .. Len(c) : \/ \E h \in 1 .. Len(b) : j = pos[h]
                                \/ c[j].kind \in {"branch", "sink"}
                                \/ \E h \in 1 .. Len(b) : IsStatement(b[h]) /\ j = pos[h] + 1
  PROVE  GuardedBy(c, pos[i], x)
<1>1. Len(b) \in Nat /\ Len(c) \in Nat /\ i \in Nat /\ pos[i] \in Nat /\ pos[i] \in 1 .. Len(c)
  BY PlaceOf
<1>2. PICK h \in 1 .. i - 1 : /\ b[h].kind = "sink" /\ b[h].path = x.path /\ b[h].nr = x.node
                              /\ \A y \in h .. i - 1 : b[y].kind \in {"branch", "sink"}
  BY DEF GuardedBy
<1>3. h \in 1 .. Len(b) /\ h < i
  BY <1>1
<1>4. pos[h] \in Nat /\ pos[h] < pos[i] /\ c[pos[h]] = b[h] /\ pos[h] \in 1 .. Len(c)
  <2>1. pos[h] < pos[i]
    BY <1>3, PlacesFollow
  <2>2. pos[h] \in Nat /\ SameUnit(b, c, pos, h) /\ pos[h] \in 1 .. Len(c)
    BY <1>3, PlaceOf
  <2> QED  BY <2>1, <2>2 DEF SameUnit
<1>5. pos[h] \in 1 .. pos[i] - 1
  BY <1>1, <1>4
<1>6. ASSUME NEW y \in pos[h] .. pos[i] - 1 PROVE c[y].kind \in {"branch", "sink"}
  <2>1. y \in 1 .. Len(c) /\ pos[h] <= y /\ y < pos[i] /\ y \in Nat
    BY <1>1, <1>4
  <2>2. ASSUME NEW g \in 1 .. Len(b), y = pos[g] PROVE c[y].kind \in {"branch", "sink"}
    <3>1. h <= g /\ g < i /\ c[y] = b[g]
      <4>1. SameUnit(b, c, pos, g)
        BY PlaceOf
      <4>2. h <= g /\ g < i
        BY <1>3, <2>1, <2>2, PlacesFollow
      <4> QED  BY <2>2, <4>1, <4>2 DEF SameUnit
    <3>2. g \in h .. i - 1
      BY <3>1
    <3> QED  BY <1>2, <3>1, <3>2
  <2>3. ASSUME NEW g \in 1 .. Len(b), IsStatement(b[g]), y = pos[g] + 1
        PROVE  c[y].kind \in {"branch", "sink"}
    <3>1. pos[g] \in Nat /\ pos[g] < pos[i]
      <4>1. pos[g] \in Nat
        BY <2>3, PlaceOf
      <4> QED  BY <1>1, <2>1, <2>3, <4>1
    <3>2. g < i
      BY <1>1, <3>1, PlacesFollow
    <3>3. ~(h <= g)
      <4> SUFFICES ASSUME h <= g PROVE FALSE
        OBVIOUS
      <4>1. g \in h .. i - 1
        BY <3>2
      <4> QED  BY <1>2, <2>3, <4>1 DEF IsStatement
    <3>4. pos[g] < pos[h]
      <4>1. g < h
        BY <1>3, <3>3
      <4> QED  BY <1>1, <1>3, <4>1, PlacesFollow
    <3>5. y = pos[h]
      BY <1>4, <2>1, <2>3, <3>1, <3>4
    <3> QED  BY <1>2, <1>4, <3>5
  <2> QED  BY <2>1, <2>2, <2>3
<1> QED  BY <1>2, <1>4, <1>5, <1>6 DEF GuardedBy

-----------------------------------------------------------------------------
(* A pass of the instrumenter.                                              *)

BodyInv(b, D) ==
  /\ b \in Seq(BodyUnit) /\ b # <<>> /\ Numbered(b)
  /\ \A i \in 1 .. Len(b) : b[i].kind = "source" => SourceAt(b, i)
  /\ \A i \in 1 .. Len(b) : b[i].kind = "branch" => BranchAt(b, i)
  /\ \A x \in D : x.kind = "sink" /\ x.path <= MaxPaths =>
       \A i \in 1 .. Len(b) : IsStatement(b[i]) /\ b[i].text = x.text => GuardedBy(b, i, x)

\* A call that a pass inserted at j is in its place.
NewCall(b, c, pos, j) ==
  /\ c[j].kind = "source" => SourceAt(c, j)
  /\ c[j].kind = "branch" => BranchAt(c, j)
  /\ \/ c[j].kind \in {"branch", "sink"}
     \/ \E h \in 1 .. Len(b) : IsStatement(b[h]) /\ j = pos[h] + 1

LEMMA AfterPass ==
  ASSUME NEW b, NEW c \in Seq(BodyUnit), NEW pos, NEW D, NEW x,
         Inserted(b, c, pos), BodyInv(b, D),
         \A j \in 1 .. Len(c) : (\E i \in 1 .. Len(b) : j = pos[i]) \/ NewCall(b, c, pos, j),
         x.kind = "sink" /\ x.path <= MaxPaths =>
           \A i \in 1 .. Len(b) : IsStatement(b[i]) /\ b[i].text = x.text => GuardedBy(c, pos[i], x)
  PROVE  BodyInv(c, D \cup {x})
<1>1. b \in Seq(BodyUnit) /\ b # <<>> /\ Numbered(b)
  BY DEF BodyInv
<1>2. Len(b) \in Nat /\ Len(c) \in Nat /\ 1 \in 1 .. Len(b)
  BY <1>1
<1>3. Numbered(c)
  BY <1>1, StillNumbered
<1>4. c # <<>>
  <2>1. pos[1] \in 1 .. Len(c)
    BY <1>2, PlaceOf
  <2> QED  BY <1>2, <2>1
<1>5. ASSUME NEW j \in 1 .. Len(c), c[j].kind = "source" PROVE SourceAt(c, j)
  <2>1. CASE NewCall(b, c, pos, j)
    BY <1>5, <2>1 DEF NewCall
  <2>2. ASSUME NEW i \in 1 .. Len(b), j = pos[i] PROVE SourceAt(c, j)
    <3>1. SameUnit(b, c, pos, i)
      BY PlaceOf
    <3>2. b[i].kind = "source" /\ ~IsStatement(b[i])
      BY <1>5, <2>2, <3>1 DEF SameUnit, IsStatement
    <3>3. SourceAt(b, i)
      BY <3>2 DEF BodyInv
    <3> QED  BY <1>1, <2>2, <3>2, <3>3, StaysInPlace
  <2> QED  BY <2>1, <2>2
<1>6. ASSUME NEW j \in 1 .. Len(c), c[j].kind = "branch" PROVE BranchAt(c, j)
  <2>1. CASE NewCall(b, c, pos, j)
    BY <1>6, <2>1 DEF NewCall
  <2>2. ASSUME NEW i \in 1 .. Len(b), j = pos[i] PROVE BranchAt(c, j)
    <3>1. SameUnit(b, c, pos, i)
      BY PlaceOf
    <3>2. b[i].kind = "branch" /\ ~IsStatement(b[i])
      BY <1>6, <2>2, <3>1 DEF SameUnit, IsStatement
    <3>3. BranchAt(b, i)
      BY <3>2 DEF BodyInv
    <3> QED  BY <1>1, <2>2, <3>2, <3>3, StaysInPlace
  <2> QED  BY <2>1, <2>2
<1>7. \A j \in 1 .. Len(c) : \/ \E h \in 1 .. Len(b) : j = pos[h]
                             \/ c[j].kind \in {"branch", "sink"}
                             \/ \E h \in 1 .. Len(b) : IsStatement(b[h]) /\ j = pos[h] + 1
  BY DEF NewCall
<1>8. ASSUME NEW y \in D \cup {x}, y.kind = "sink", y.path <= MaxPaths,
             NEW j \in 1 .. Len(c), IsStatement(c[j]), c[j].text = y.text
      PROVE  GuardedBy(c, j, y)
  <2>1. PICK i \in 1 .. Len(b) : j = pos[i]
    BY <1>8 DEF Inserted
  <2>2. SameUnit(b, c, pos, i)
    BY PlaceOf
  <2>3. IsStatement(b[i]) /\ b[i].text = y.text
    BY <1>8, <2>1, <2>2 DEF SameUnit
  <2>4. CASE y \in D
    <3>1. GuardedBy(b, i, y)
      BY <1>8, <2>3, <2>4 DEF BodyInv
    <3> QED  BY <1>1, <1>7, <2>1, <3>1, StaysGuarded
  <2>5. CASE y = x
    BY <1>8, <2>1, <2>3, <2>5
  <2> QED  BY <2>4, <2>5
<1> QED  BY <1>3, <1>4, <1>5, <1>6, <1>8 DEF BodyInv

USE InstrumenterAssumption DEF InstrumenterAssumption

\* Calls as the passes make them.
LEMMA CallUnits ==
  ASSUME NEW p \in Path, p <= MaxPaths, NEW d \in BOOLEAN
  PROVE  /\ Call("source", p, 0, "none", d) \in BodyUnit
         /\ \A k \in Node : Call("sink", p, k, "none", d) \in BodyUnit
         /\ \A k \in Node : \A a \in Policies : Call("branch", p, k, a, FALSE) \in BodyUnit
<1>1. p \in 0 .. MaxPaths /\ 0 \in Nat
  OBVIOUS
<1>2. \A e \in BOOLEAN : [base |-> "call", dollar |-> e, digit |-> 1] \in Text
  <2>1. "call" \in Bases
    BY Zenon DEF Bases
  <2>2. 1 \in Digits
    BY DEF Digits
  <2> QED  BY <2>1, <2>2 DEF Text
<1>3. \A k \in Node : k \in Nat
  BY LeakPathAssumption DEF LeakPathAssumption, Node
<1>4. <<>> \in Seq(Nat)
  OBVIOUS
<1>5. Policies \subseteq {"none", "accept", "reject"}
  BY DEF Policies
<1> QED  BY <1>1, <1>2, <1>3, <1>4, <1>5 DEF Call, BodyUnit

\* deal_sourcestart: the calls come right behind the statements that match.
LEMMA SourcePass ==
  ASSUME NEW item \in SourceItem, NEW D, item.path <= MaxPaths,
         item \in Items("source"), item.text.base # "call", BodyInv(body, D),
         body' = FlattenSeq([i \in DOMAIN body |->
                   IF MatchesSource(item, i)
                   THEN <<body[i], Call("source", item.path, 0, "none", item.text.dollar)>>
                   ELSE <<body[i]>>])
  PROVE  BodyInv(body', D \cup {item})
<1> DEFINE new == Call("source", item.path, 0, "none", item.text.dollar)
           n == Len(body)
           U == [i \in DOMAIN body |-> IF MatchesSource(item, i) THEN <<body[i], new>> ELSE <<body[i]>>]
           m == [i \in 1 .. n |-> 1]
<1>1. body \in Seq(BodyUnit) /\ body # <<>>
  BY DEF BodyInv
<1>2. DOMAIN body = 1 .. n /\ n \in Nat /\ \A i \in 1 .. n : body[i] \in BodyUnit
  BY <1>1
<1>3. new \in BodyUnit /\ ~IsStatement(new) /\ new.kind = "source" /\ new.path = item.path
  <2>1. item.path \in Path /\ item.text.dollar \in BOOLEAN
    BY DEF SourceItem, Text
  <2>2. new \in BodyUnit
    BY <2>1, CallUnits
  <2> QED  BY <2>2 DEF Call, IsStatement
\* What matches is a statement of the program.
<1>4. ASSUME NEW i \in 1 .. n, MatchesSource(item, i)
      PROVE  IsStatement(body[i]) /\ SameSource(body[i].text, item)
  <2>1. SameSource(body[i].text, item)
    BY <1>4 DEF MatchesSource, SameSource
  <2>2. body[i].text \in Text /\ item.text \in Text
    BY <1>2 DEF BodyUnit, SourceItem
  <2>3. body[i].text.base = item.text.base
    <3> DEFINE s == body[i].text
               t == item.text
    <3>1. NoDollar(NoDigits(s)).base = s.base /\ NoDollar(NoDigits(t)).base = t.base
      <4> HIDE DEF s, t
      <4> QED  BY <2>2 DEF NoDollar, NoDigits, Text, s, t
    <3> QED  BY <2>1, <3>1 DEF SameSource
  <2>4. body[i].kind = "stmt"
    BY <1>2, <2>3 DEF BodyUnit
  <2> QED  BY <2>1, <2>4 DEF IsStatement
<1> HIDE DEF new
<1>5. ASSUME NEW i \in 1 .. n
      PROVE  /\ U[i] = IF MatchesSource(item, i) THEN <<body[i], new>> ELSE <<body[i]>>
             /\ U[i] \in Seq(BodyUnit) /\ m[i] = 1
             /\ 1 \in 1 .. Len(U[i]) /\ U[i][1] = body[i]
             /\ \A k \in 1 .. Len(U[i]) : k # 1 => k = 2 /\ MatchesSource(item, i) /\ U[i][k] = new
  <2>1. U[i] = IF MatchesSource(item, i) THEN <<body[i], new>> ELSE <<body[i]>>
    BY <1>2
  <2>2. m[i] = 1
    OBVIOUS
  <2>3. body[i] \in BodyUnit
    BY <1>2
  <2> HIDE DEF U, m
  <2>4. CASE MatchesSource(item, i)
    <3>1. U[i] = <<body[i], new>>
      BY <2>1, <2>4
    <3>2. Len(U[i]) = 2 /\ U[i][1] = body[i] /\ U[i][2] = new /\ U[i] \in Seq(BodyUnit)
      BY <1>3, <2>3, <3>1
    <3>3. \A k \in 1 .. Len(U[i]) : k # 1 => k = 2
      BY <3>2
    <3> QED  BY <2>1, <2>2, <2>4, <3>2, <3>3
  <2>5. CASE ~MatchesSource(item, i)
    <3>1. U[i] = <<body[i]>>
      BY <2>1, <2>5
    <3>2. Len(U[i]) = 1 /\ U[i][1] = body[i] /\ U[i] \in Seq(BodyUnit)
      BY <2>3, <3>1
    <3>3. \A k \in 1 .. Len(U[i]) : k = 1
      BY <3>2
    <3> QED  BY <2>1, <2>2, <3>2, <3>3
  <2> QED  BY <2>4, <2>5
<1>6. U \in [1 .. n -> Seq(BodyUnit)] /\ m \in [1 .. n -> Nat]
  <2>1. DOMAIN U = 1 .. n /\ U = [i \in 1 .. n |-> U[i]]
    BY <1>2
  <2> QED  BY <1>5, <2>1
<1> HIDE DEF U, m
<1>7. Blocks(body, U, m, BodyUnit)
  BY <1>1, <1>3, <1>5, <1>6 DEF Blocks
<1>8. PICK pos : /\ FlattenSeq(U) \in Seq(BodyUnit)
                 /\ Inserted(body, FlattenSeq(U), pos) /\ Placed(U, m, FlattenSeq(U), pos)
  BY <1>7, BlocksAreInserted
<1>9. FlattenSeq(U) = body'
  BY DEF U, new
<1> DEFINE c == FlattenSeq(U)
<1> HIDE DEF c
<1>10. c \in Seq(BodyUnit) /\ Inserted(body, c, pos) /\ Placed(U, m, c, pos) /\ Len(c) \in Nat
  BY <1>8 DEF c
<1>11. ASSUME NEW j \in 1 .. Len(c)
       PROVE  (\E i \in 1 .. n : j = pos[i]) \/ NewCall(body, c, pos, j)
  <2>1. PICK i \in 1 .. n : \E k \in 1 .. Len(U[i]) : j = pos[i] - m[i] + k
    BY <1>6, <1>10, Zenon DEF Placed
  <2>2. PICK k \in 1 .. Len(U[i]) : j = pos[i] - m[i] + k
    BY <2>1
  <2>3. pos[i] \in Nat /\ SameUnit(body, c, pos, i) /\ pos[i] \in 1 .. Len(c)
    BY <1>10, PlaceOf
  <2>4. CASE k = 1
    <3>1. m[i] = 1
      BY <1>5
    <3>2. j = pos[i]
      BY <2>2, <2>3, <2>4, <3>1
    <3> QED  BY <3>2
  <2>5. CASE k # 1
    <3>1. k = 2 /\ MatchesSource(item, i) /\ U[i][k] = new
      BY <1>5, <2>5
    <3>2. j = pos[i] + 1
      <4>1. m[i] = 1
        BY <1>5
      <4> QED  BY <2>2, <2>3, <3>1, <4>1
    <3>3. c[j] = new
      <4>1. c[pos[i] - m[i] + k] = U[i][k]
        BY <1>6, <1>10 DEF Placed
      <4> QED  BY <2>2, <3>1, <4>1
    <3>4. IsStatement(body[i]) /\ SameSource(body[i].text, item)
      BY <1>4, <3>1
    <3>5. SourceAt(c, j)
      <4>1. pos[i] \in 1 .. j - 1 /\ c[pos[i]] = body[i]
        BY <2>3, <3>2 DEF SameUnit
      <4>2. NoStatement(c, pos[i] + 1, j)
        <5>1. \A y \in pos[i] + 1 .. j : y = j
          BY <2>3, <3>2
        <5> QED  BY <1>3, <3>3, <5>1 DEF NoStatement
      <4>3. item.path = c[j].path
        BY <1>3, <3>3
      <4> QED  BY <3>4, <4>1, <4>2, <4>3 DEF SourceAt
    <3>6. c[j].kind # "branch"
      BY <1>3, <3>3
    <3> QED  BY <3>2, <3>4, <3>5, <3>6 DEF NewCall
  <2> QED  BY <2>4, <2>5
<1>12. item.kind # "sink"
  BY DEF SourceItem
<1>13. BodyInv(c, D \cup {item})
  BY <1>10, <1>11, <1>12, AfterPass
<1> QED  BY <1>9, <1>13 DEF c

\* Calls N[i] are put before the unit at i.
PutBefore(b, N, c, pos) ==
  /\ \A i \in 1 .. Len(b) : \A k \in 1 .. Len(N[i]) :
       pos[i] - Len(N[i]) - 1 + k \in 1 .. Len(c) /\ c[pos[i] - Len(N[i]) - 1 + k] = N[i][k]
  /\ \A j \in 1 .. Len(c) : \/ \E i \in 1 .. Len(b) : j = pos[i]
                            \/ \E i \in 1 .. Len(b) : \E k \in 1 .. Len(N[i]) :
                                 j = pos[i] - Len(N[i]) - 1 + k

CallLists(b, N) ==
  /\ b \in Seq(BodyUnit) /\ b # <<>>
  /\ N \in [1 .. Len(b) -> Seq(BodyUnit)]
  /\ \A i \in 1 .. Len(b) : \A k \in 1 .. Len(N[i]) : ~IsStatement(N[i][k])

LEMMA CallsPutBefore ==
  ASSUME NEW b, NEW N, CallLists(b, N)
  PROVE  \E c, pos : /\ c = FlattenSeq([i \in DOMAIN b |-> Glue(N[i], <<b[i]>>)])
                     /\ c \in Seq(BodyUnit) /\ Inserted(b, c, pos) /\ PutBefore(b, N, c, pos)
<1> DEFINE n == Len(b)
           U == [i \in DOMAIN b |-> Glue(N[i], <<b[i]>>)]
           m == [i \in 1 .. n |-> Len(N[i]) + 1]
           c == FlattenSeq(U)
<1>1. b \in Seq(BodyUnit) /\ b # <<>> /\ N \in [1 .. n -> Seq(BodyUnit)]
  BY DEF CallLists
<1>2. DOMAIN b = 1 .. n /\ n \in Nat /\ \A i \in 1 .. n : b[i] \in BodyUnit
  BY <1>1
<1>3. ASSUME NEW i \in 1 .. n
      PROVE  /\ U[i] \in Seq(BodyUnit) /\ m[i] = Len(N[i]) + 1 /\ m[i] \in Nat /\ Len(N[i]) \in Nat
             /\ Len(U[i]) = Len(N[i]) + 1 /\ U[i][m[i]] = b[i]
             /\ \A k \in 1 .. Len(N[i]) : U[i][k] = N[i][k]
  <2>1. U[i] = Glue(N[i], <<b[i]>>)
    BY <1>2
  <2>2. m[i] = Len(N[i]) + 1
    OBVIOUS
  <2>3. N[i] \in Seq(BodyUnit) /\ b[i] \in BodyUnit
    BY <1>1, <1>2
  <2> DEFINE s == N[i]
             t == <<b[i]>>
  <2>4. t \in Seq(BodyUnit) /\ Len(t) = 1 /\ t[1] = b[i] /\ Len(s) \in Nat
    BY <2>3
  <2> HIDE DEF U, m, s, t
  <2>5. /\ U[i] \in Seq(BodyUnit) /\ Len(U[i]) = Len(s) + Len(t)
        /\ \A k \in 1 .. Len(s) + Len(t) : U[i][k] = IF k <= Len(s) THEN s[k] ELSE t[k - Len(s)]
    <3>1. U[i] = Glue(s, t) /\ s \in Seq(BodyUnit)
      BY <2>1, <2>3 DEF s, t
    <3>2. Glued(U[i], s, t, BodyUnit)
      BY <2>4, <3>1, GlueUnits
    <3> QED  BY <3>2 DEF Glued
  <2>6. U[i][Len(s) + 1] = t[1]
    BY <2>4, <2>5
  <2>7. \A k \in 1 .. Len(s) : U[i][k] = s[k]
    BY <2>4, <2>5
  <2> QED  BY <2>2, <2>4, <2>5, <2>6, <2>7 DEF s
<1>4. U \in [1 .. n -> Seq(BodyUnit)] /\ m \in [1 .. n -> Nat] /\ DOMAIN U = 1 .. n
  <2>1. DOMAIN U = 1 .. n /\ U = [i \in 1 .. n |-> U[i]]
    BY <1>2
  <2>2. m = [i \in 1 .. n |-> m[i]]
    OBVIOUS
  <2> HIDE DEF U, m
  <2> QED  BY <1>3, <2>1, <2>2
<1> HIDE DEF U, m
<1>5. \A i \in 1 .. n : \A k \in 1 .. Len(U[i]) : k # m[i] => k \in 1 .. Len(N[i]) /\ U[i][k] = N[i][k]
  <2> TAKE i \in 1 .. n
  <2> TAKE k \in 1 .. Len(U[i])
  <2> SUFFICES ASSUME k # m[i] PROVE k \in 1 .. Len(N[i]) /\ U[i][k] = N[i][k]
    OBVIOUS
  <2>1. k \in 1 .. Len(N[i])
    BY <1>3
  <2> QED  BY <1>3, <2>1
<1>6. Blocks(b, U, m, BodyUnit)
  <2>1. \A i \in 1 .. n : m[i] \in 1 .. Len(U[i]) /\ U[i][m[i]] = b[i]
    BY <1>3
  <2>2. \A i \in 1 .. n : \A k \in 1 .. Len(U[i]) : k # m[i] => ~IsStatement(U[i][k])
    BY <1>5 DEF CallLists
  <2> QED  BY <1>1, <1>4, <2>1, <2>2 DEF Blocks
<1>7. PICK pos : c \in Seq(BodyUnit) /\ Inserted(b, c, pos) /\ Placed(U, m, c, pos)
  BY <1>6, BlocksAreInserted
<1>8. c = FlattenSeq([i \in DOMAIN b |-> Glue(N[i], <<b[i]>>)])
  BY DEF U
<1> HIDE DEF c
<1>9. \A i \in 1 .. n : \A k \in 1 .. Len(U[i]) : pos[i] - m[i] + k = pos[i] - Len(N[i]) - 1 + k
  <2> TAKE i \in 1 .. n
  <2> TAKE k \in 1 .. Len(U[i])
  <2>1. pos[i] \in Nat
    BY <1>7, PlaceOf
  <2> QED  BY <1>3, <2>1
<1>10. ASSUME NEW i \in 1 .. n, NEW k \in 1 .. Len(N[i])
       PROVE  pos[i] - Len(N[i]) - 1 + k \in 1 .. Len(c) /\ c[pos[i] - Len(N[i]) - 1 + k] = N[i][k]
  <2>1. k \in 1 .. Len(U[i]) /\ U[i][k] = N[i][k]
    BY <1>3
  <2>2. pos[i] - m[i] + k \in 1 .. Len(c) /\ c[pos[i] - m[i] + k] = U[i][k]
    BY <1>4, <1>7, <2>1 DEF Placed
  <2>3. pos[i] - m[i] + k = pos[i] - Len(N[i]) - 1 + k
    BY <1>9, <2>1
  <2> QED  BY <2>1, <2>2, <2>3
<1>11. ASSUME NEW j \in 1 .. Len(c)
       PROVE  \/ \E i \in 1 .. n : j = pos[i]
              \/ \E i \in 1 .. n : \E k \in 1 .. Len(N[i]) : j = pos[i] - Len(N[i]) - 1 + k
  <2>1. PICK i \in 1 .. n : \E k \in 1 .. Len(U[i]) : j = pos[i] - m[i] + k
    BY <1>4, <1>7, Zenon DEF Placed
  <2>2. PICK k \in 1 .. Len(U[i]) : j = pos[i] - m[i] + k
    BY <2>1
  <2>3. CASE k = m[i]
    <3>1. pos[i] \in Nat
      BY <1>7, PlaceOf
    <3>2. j = pos[i]
      BY <1>3, <2>2, <2>3, <3>1
    <3> QED  BY <3>2
  <2>4. CASE k # m[i]
    <3>1. k \in 1 .. Len(N[i])
      BY <1>5, <2>4
    <3>2. j = pos[i] - Len(N[i]) - 1 + k
      BY <1>9, <2>2
    <3> QED  BY <3>1, <3>2
  <2> QED  BY <2>3, <2>4
<1>12. PutBefore(b, N, c, pos)
  BY <1>10, <1>11 DEF PutBefore
<1> QED  BY <1>7, <1>8, <1>12

\* deal_sinkend: the calls come right before the units that match.
LEMMA SinkPass ==
  ASSUME NEW item \in SinkItem, NEW D, item.path <= MaxPaths, BodyInv(body, D),
         body' = FlattenSeq([i \in DOMAIN body |->
                   IF MatchesSink(item, i)
                   THEN <<Call("sink", item.path, item.node, "none", item.text.dollar), body[i]>>
                   ELSE <<body[i]>>])
  PROVE  BodyInv(body', D \cup {item})
<1> DEFINE new == Call("sink", item.path, item.node, "none", item.text.dollar)
           n == Len(body)
           N == [i \in 1 .. n |-> IF MatchesSink(item, i) THEN <<new>> ELSE <<>>]
<1>1. body \in Seq(BodyUnit) /\ body # <<>>
  BY DEF BodyInv
<1>2. DOMAIN body = 1 .. n /\ n \in Nat /\ \A i \in 1 .. n : body[i] \in BodyUnit
  BY <1>1
<1>3. /\ new \in BodyUnit /\ ~IsStatement(new)
      /\ new.kind = "sink" /\ new.path = item.path /\ new.nr = item.node
  <2>1. item.path \in Path /\ item.text.dollar \in BOOLEAN /\ item.node \in Node
    BY DEF SinkItem, Text
  <2>2. new \in BodyUnit
    BY <2>1, CallUnits
  <2> QED  BY <2>2 DEF Call, IsStatement
\* A statement with the text of the item matches.
<1>4. ASSUME NEW i \in 1 .. n, body[i].text = item.text PROVE MatchesSink(item, i)
  BY <1>4 DEF MatchesSink
<1>u. [i \in DOMAIN body |-> IF MatchesSink(item, i) THEN <<new, body[i]>> ELSE <<body[i]>>]
        = [i \in DOMAIN body |-> Glue(N[i], <<body[i]>>)]
  <2> SUFFICES ASSUME NEW i \in 1 .. n
               PROVE  Glue(N[i], <<body[i]>>) =
                        IF MatchesSink(item, i) THEN <<new, body[i]>> ELSE <<body[i]>>
    BY <1>2
  <2>1. N[i] = IF MatchesSink(item, i) THEN <<new>> ELSE <<>>
    OBVIOUS
  <2>2. body[i] \in BodyUnit
    BY <1>2
  <2> HIDE DEF N, new
  <2>3. CASE MatchesSink(item, i)
    <3>1. <<new>> \o <<body[i]>> = <<new, body[i]>>
      <4> DEFINE s == <<new>>
                 t == <<body[i]>>
                 v == <<new, body[i]>>
      <4>1. /\ s \in Seq(BodyUnit) /\ t \in Seq(BodyUnit) /\ v \in Seq(BodyUnit)
            /\ Len(s) = 1 /\ Len(t) = 1 /\ Len(v) = 2
            /\ s[1] = new /\ t[1] = body[i] /\ v[1] = new /\ v[2] = body[i]
        BY <1>3, <2>2
      <4> HIDE DEF s, t, v
      <4> DEFINE u == Glue(s, t)
      <4>0. Glued(u, s, t, BodyUnit)
        BY <4>1, GlueUnits
      <4> HIDE DEF u
      <4>2. /\ u \in Seq(BodyUnit) /\ Len(u) = Len(s) + Len(t)
            /\ \A k \in 1 .. Len(s) + Len(t) : u[k] = IF k <= Len(s) THEN s[k] ELSE t[k - Len(s)]
        BY <4>0 DEF Glued
      <4>3. Len(u) = 2 /\ u[1] = new /\ u[2] = body[i]
        BY <4>1, <4>2
      <4>4. \A k \in 1 .. Len(u) : u[k] = v[k]
        BY <4>1, <4>3
      <4>5. u = v
        BY <4>1, <4>2, <4>3, <4>4, SeqEqual
      <4> QED  BY <4>5, Zenon DEF u, s, t, v, Glue
    <3> QED  BY <2>1, <2>3, <3>1 DEF Glue
  <2>4. CASE ~MatchesSink(item, i)
    <3>1. <<>> \o <<body[i]>> = <<body[i]>>
      BY <2>2
    <3> QED  BY <2>1, <2>4, <3>1 DEF Glue
  <2> QED  BY <2>3, <2>4
<1> DEFINE V == [i \in DOMAIN body |-> Glue(N[i], <<body[i]>>)]
<1>v. body' = FlattenSeq(V)
  BY <1>u
<1> HIDE DEF new, V
<1>5. \A i \in 1 .. n : /\ MatchesSink(item, i) => N[i] = <<new>> /\ Len(N[i]) = 1 /\ N[i][1] = new
                        /\ ~MatchesSink(item, i) => N[i] = <<>> /\ Len(N[i]) = 0
  BY <1>3
<1>6. CallLists(body, N)
  <2>1. ASSUME NEW i \in 1 .. n PROVE N[i] \in Seq(BodyUnit)
    BY <1>3, <1>5
  <2>2. N \in [1 .. n -> Seq(BodyUnit)]
    <3>1. N = [i \in 1 .. n |-> N[i]]
      OBVIOUS
    <3> HIDE DEF N
    <3> QED  BY <2>1, <3>1
  <2>3. ASSUME NEW i \in 1 .. n, NEW k \in 1 .. Len(N[i]) PROVE ~IsStatement(N[i][k])
    <3> HIDE DEF N
    <3>1. k = 1 /\ N[i][1] = new
      <4>1. MatchesSink(item, i) \/ ~MatchesSink(item, i)
        OBVIOUS
      <4>2. Len(N[i]) = 1 /\ N[i][1] = new
        BY <1>5, <2>3, <4>1
      <4> QED  BY <4>2
    <3> QED  BY <1>3, <3>1
  <2> HIDE DEF N
  <2> QED  BY <1>1, <2>2, <2>3 DEF CallLists
<1>7. PICK c, pos : /\ c = FlattenSeq(V)
                    /\ c \in Seq(BodyUnit) /\ Inserted(body, c, pos) /\ PutBefore(body, N, c, pos)
  <2> HIDE DEF N
  <2> QED  BY <1>6, CallsPutBefore DEF V
<1> HIDE DEF N
<1>8. ASSUME NEW j \in 1 .. Len(c)
      PROVE  (\E i \in 1 .. n : j = pos[i]) \/ NewCall(body, c, pos, j)
  <2> SUFFICES ASSUME ~\E i \in 1 .. n : j = pos[i] PROVE NewCall(body, c, pos, j)
    OBVIOUS
  <2>1. PICK i \in 1 .. n : \E k \in 1 .. Len(N[i]) : j = pos[i] - Len(N[i]) - 1 + k
    BY <1>7 DEF PutBefore
  <2>2. PICK k \in 1 .. Len(N[i]) : j = pos[i] - Len(N[i]) - 1 + k
    BY <2>1
  <2>3. k = 1 /\ N[i][1] = new
    <3>1. Len(N[i]) = 1 /\ N[i][1] = new
      BY <1>5, <2>2
    <3> QED  BY <3>1
  <2>4. c[pos[i] - Len(N[i]) - 1 + k] = N[i][k]
    BY <1>7 DEF PutBefore
  <2>5. c[j] = new
    BY <2>2, <2>3, <2>4
  <2> QED  BY <1>3, <2>5 DEF NewCall
<1>9. ASSUME NEW i \in 1 .. n, body[i].text = item.text PROVE GuardedBy(c, pos[i], item)
  <2>1. Len(N[i]) = 1 /\ N[i][1] = new
    BY <1>4, <1>5, <1>9
  <2>2. pos[i] - Len(N[i]) - 1 + 1 \in 1 .. Len(c) /\ c[pos[i] - Len(N[i]) - 1 + 1] = N[i][1]
    <3>1. 1 \in 1 .. Len(N[i])
      BY <2>1
    <3> QED  BY <1>7, <3>1 DEF PutBefore
  <2>3. pos[i] \in Nat
    BY <1>7, PlaceOf
  <2>4. pos[i] - Len(N[i]) - 1 + 1 = pos[i] - 1
    BY <2>1, <2>3
  <2>5. pos[i] - 1 \in 1 .. Len(c) /\ c[pos[i] - 1] = new
    BY <2>1, <2>2, <2>4
  <2> DEFINE h == pos[i] - 1
  <2>6. h \in 1 .. pos[i] - 1 /\ c[h] = new
    BY <2>3, <2>5
  <2>7. \A y \in h .. pos[i] - 1 : y = h
    BY <2>3
  <2> HIDE DEF h
  <2> QED  BY <1>3, <2>6, <2>7 DEF GuardedBy
<1>10. BodyInv(c, D \cup {item})
  BY <1>7, <1>8, <1>9, AfterPass
<1> QED  BY <1>7, <1>10, <1>v

\* deal_branch: the calls come before the jump that matches, one per box.
LEMMA BranchPass ==
  ASSUME NEW item \in BranchItem, NEW D, item.path <= MaxPaths, BodyInv(body, D),
         body' = FlattenSeq([i \in DOMAIN body |->
                   IF MatchesBranch(item, i)
                   THEN [sn \in DOMAIN body[i].to |->
                           Call("branch", item.path, item.node,
                                IF sn = item.arm THEN "accept" ELSE "reject", FALSE)] \o <<body[i]>>
                   ELSE <<body[i]>>])
  PROVE  BodyInv(body', D \cup {item})
<1> DEFINE new(sn) == Call("branch", item.path, item.node,
                           IF sn = item.arm THEN "accept" ELSE "reject", FALSE)
           n == Len(body)
           News(i) == [sn \in DOMAIN body[i].to |-> new(sn)]
           N == [i \in 1 .. n |-> IF MatchesBranch(item, i) THEN News(i) ELSE <<>>]
<1>1. body \in Seq(BodyUnit) /\ body # <<>>
  BY DEF BodyInv
<1>2. DOMAIN body = 1 .. n /\ n \in Nat /\ \A i \in 1 .. n : body[i] \in BodyUnit
  BY <1>1
<1>3. \A sn : /\ new(sn) \in BodyUnit /\ ~IsStatement(new(sn))
              /\ new(sn).kind = "branch" /\ new(sn).nr = item.node
  <2> TAKE sn
  <2>1. item.path \in Path /\ item.node \in Node /\ FALSE \in BOOLEAN
    BY DEF BranchItem
  <2>2. (IF sn = item.arm THEN "accept" ELSE "reject") \in Policies
    BY DEF Policies
  <2>3. new(sn) \in BodyUnit
    BY <2>1, <2>2, CallUnits
  <2> QED  BY <2>3 DEF Call, IsStatement
<1>u. [i \in DOMAIN body |-> IF MatchesBranch(item, i) THEN News(i) \o <<body[i]>> ELSE <<body[i]>>]
        = [i \in DOMAIN body |-> Glue(N[i], <<body[i]>>)]
  <2> SUFFICES ASSUME NEW i \in 1 .. n
               PROVE  Glue(N[i], <<body[i]>>) =
                        IF MatchesBranch(item, i) THEN News(i) \o <<body[i]>> ELSE <<body[i]>>
    BY <1>2
  <2>1. N[i] = IF MatchesBranch(item, i) THEN News(i) ELSE <<>>
    OBVIOUS
  <2>2. body[i] \in BodyUnit
    BY <1>2
  <2> HIDE DEF N, new, News
  <2>3. <<>> \o <<body[i]>> = <<body[i]>>
    BY <2>2
  <2> QED  BY <2>1, <2>3 DEF Glue
<1> DEFINE V == [i \in DOMAIN body |-> Glue(N[i], <<body[i]>>)]
<1>v. body' = FlattenSeq(V)
  BY <1>u
<1> HIDE DEF new, V
<1>5. ASSUME NEW i \in 1 .. n
      PROVE  /\ N[i] \in Seq(BodyUnit) /\ Len(N[i]) \in Nat
             /\ \A k \in 1 .. Len(N[i]) : MatchesBranch(item, i) /\ N[i][k] = new(k)
  <2>1. N[i] = IF MatchesBranch(item, i) THEN News(i) ELSE <<>>
    OBVIOUS
  <2>2. body[i].to \in Seq(Nat)
    BY <1>2 DEF BodyUnit
  <2> DEFINE w == Len(body[i].to)
  <2>3. w \in Nat /\ DOMAIN body[i].to = 1 .. w
    BY <2>2
  <2> HIDE DEF w
  <2>4. News(i) = [sn \in 1 .. w |-> new(sn)]
    BY <2>3
  <2> HIDE DEF N, News
  <2>5. CASE MatchesBranch(item, i)
    <3>1. N[i] = [sn \in 1 .. w |-> new(sn)]
      BY <2>1, <2>4, <2>5
    <3> QED  BY <1>3, <2>3, <2>5, <3>1
  <2>6. CASE ~MatchesBranch(item, i)
    BY <2>1, <2>6
  <2> QED  BY <2>5, <2>6
<1> HIDE DEF News
<1>6. CallLists(body, N)
  <2>1. N \in [1 .. n -> Seq(BodyUnit)]
    <3>1. N = [i \in 1 .. n |-> N[i]]
      OBVIOUS
    <3> HIDE DEF N
    <3> QED  BY <1>5, <3>1
  <2> HIDE DEF N
  <2>2. ASSUME NEW i \in 1 .. n, NEW k \in 1 .. Len(N[i]) PROVE ~IsStatement(N[i][k])
    BY <1>3, <1>5
  <2> QED  BY <1>1, <2>1, <2>2 DEF CallLists
<1>7. PICK c, pos : /\ c = FlattenSeq(V)
                    /\ c \in Seq(BodyUnit) /\ Inserted(body, c, pos) /\ PutBefore(body, N, c, pos)
  <2> HIDE DEF N
  <2> QED  BY <1>6, CallsPutBefore DEF V
<1> HIDE DEF N
<1>8. ASSUME NEW j \in 1 .. Len(c)
      PROVE  (\E i \in 1 .. n : j = pos[i]) \/ NewCall(body, c, pos, j)
  <2> SUFFICES ASSUME ~\E i \in 1 .. n : j = pos[i] PROVE NewCall(body, c, pos, j)
    OBVIOUS
  <2>1. PICK i \in 1 .. n : \E k \in 1 .. Len(N[i]) : j = pos[i] - Len(N[i]) - 1 + k
    BY <1>7 DEF PutBefore
  <2>2. PICK k \in 1 .. Len(N[i]) : j = pos[i] - Len(N[i]) - 1 + k
    BY <2>1
  <2> DEFINE w == Len(N[i])
             q == pos[i]
  <2>3. w \in Nat /\ MatchesBranch(item, i) /\ \A h \in 1 .. w : N[i][h] = new(h)
    BY <1>5, <2>2
  <2>4. \A h \in 1 .. w : q - w - 1 + h \in 1 .. Len(c) /\ c[q - w - 1 + h] = N[i][h]
    BY <1>7 DEF PutBefore
  <2>5. q \in Nat /\ q \in 1 .. Len(c) /\ SameUnit(body, c, pos, i) /\ Len(c) \in Nat
    BY <1>7, PlaceOf
  <2>6. j = q - w - 1 + k /\ k \in 1 .. w
    BY <2>2
  <2>7. c[q] = body[i]
    BY <2>5 DEF SameUnit
  <2> HIDE DEF w, q
  <2>8. \A y \in j .. q - 1 : c[y].kind = "branch" /\ c[y].nr = item.node /\ ~IsStatement(c[y])
    <3> TAKE y \in j .. q - 1
    <3> DEFINE h == y - q + w + 1
    <3>1. h \in 1 .. w /\ y = q - w - 1 + h
      BY <2>3, <2>5, <2>6
    <3> HIDE DEF h
    <3>2. c[y] = new(h)
      BY <2>3, <2>4, <3>1
    <3> QED  BY <1>3, <3>2
  <2>9. j \in j .. q - 1 /\ q \in j + 1 .. Len(c)
    BY <2>3, <2>5, <2>6
  <2>10. c[j].kind = "branch" /\ c[j].nr = item.node
    BY <2>8, <2>9
  <2>11. JumpNumber(c, q) = item.node /\ Jumps(c[q])
    <3>1. JumpNumber(c, pos[i]) = JumpNumber(body, i)
      BY <1>1, <1>7, SameJumpNumber
    <3> QED  BY <2>3, <2>7, <3>1 DEF MatchesBranch, q
  <2>12. BranchAt(c, j)
    <3>1. NoStatement(c, j, q - 1)
      BY <2>8 DEF NoStatement
    <3> QED  BY <2>9, <2>10, <2>11, <3>1 DEF BranchAt
  <2> QED  BY <2>10, <2>12 DEF NewCall
<1>9. item.kind # "sink"
  BY DEF BranchItem
<1>10. BodyInv(c, D \cup {item})
  BY <1>7, <1>8, <1>9, AfterPass
<1> QED  BY <1>7, <1>10, <1>v

-----------------------------------------------------------------------------
(* Where a jump lands.                                                      *)

OnlyGuards(b, h, i) == \A g \in h .. i - 1 : b[g].kind \in {"branch", "sink"}

\* A jump to the statement at i lands on the first of the calls that were
\* put before it.
LEMMA Lands ==
  ASSUME NEW i \in 1 .. Len(body), body \in Seq(BodyUnit), Numbered(body), IsStatement(body[i])
  PROVE  /\ Landing(body[i].nr) \in 1 .. i /\ OnlyGuards(body, Landing(body[i].nr), i)
         /\ \A h \in 1 .. i : OnlyGuards(body, h, i) => Landing(body[i].nr) <= h
<1> DEFINE n == body[i].nr
           First(h) == OnlyGuards(body, h, i) /\ (h = 1 \/ ~OnlyGuards(body, h - 1, i))
<1>1. Len(body) \in Nat /\ i \in Nat /\ DOMAIN body = 1 .. Len(body)
  OBVIOUS
<1>2. (CHOOSE k \in DOMAIN body : IsStatement(body[k]) /\ body[k].nr = n) = i
  <2>1. \A k \in DOMAIN body : IsStatement(body[k]) /\ body[k].nr = n => k = i
    BY <1>1 DEF Numbered
  <2> QED  BY <1>1, <2>1
<1>3. Landing(n) = CHOOSE h \in 1 .. i : First(h)
  <2> HIDE DEF n
  <2> QED  BY <1>2, Zenon DEF Landing, OnlyGuards, First
<1>4. \E h \in 1 .. i : First(h)
  <2> DEFINE T == {h \in 1 .. i : OnlyGuards(body, h, i)}
  <2>1. i \in T
    <3>1. \A g \in i .. i - 1 : FALSE
      BY <1>1
    <3> QED  BY <1>1, <3>1 DEF OnlyGuards
  <2>2. T \in SUBSET Nat /\ T # {}
    BY <1>1, <2>1
  <2>3. \A h : h \in T <=> h \in 1 .. i /\ OnlyGuards(body, h, i)
    OBVIOUS
  <2> HIDE DEF T
  <2>4. PICK h \in T : \A y \in T : h <= y
    BY <2>2, LeastOf
  <2>5. h = 1 \/ ~OnlyGuards(body, h - 1, i)
    <3> SUFFICES ASSUME h # 1, OnlyGuards(body, h - 1, i) PROVE FALSE
      OBVIOUS
    <3>1. h - 1 \in 1 .. i
      BY <1>1, <2>3
    <3> QED  BY <1>1, <2>3, <2>4, <3>1
  <2> QED  BY <2>3, <2>5
<1>5. Landing(n) \in 1 .. i /\ First(Landing(n))
  <2> HIDE DEF n, First
  <2> QED  BY <1>3, <1>4
<1>6. ASSUME NEW h \in 1 .. i, OnlyGuards(body, h, i) PROVE Landing(n) <= h
  <2> DEFINE q == Landing(n)
  <2> SUFFICES ASSUME ~(q <= h) PROVE FALSE
    OBVIOUS
  <2>1. q \in 1 .. i /\ (q = 1 \/ ~OnlyGuards(body, q - 1, i))
    BY <1>5
  <2> HIDE DEF q
  <2>2. q # 1 /\ \A g \in q - 1 .. i - 1 : g \in h .. i - 1
    BY <1>1, <2>1
  <2> QED  BY <1>6, <2>1, <2>2 DEF OnlyGuards
<1> QED  BY <1>5, <1>6

-----------------------------------------------------------------------------
(* The invariant of the instrumenter and the program it instrumented.       *)

AnItem == SourceItem \cup BranchItem \cup SinkItem

\* The items of the policies that were dealt with.
Dealt == {plan[k] : k \in 1 .. Len(plan) - Len(todo)}

PlanInv ==
  /\ plan \in Plans /\ plan \in Seq(AnItem) /\ todo \in Seq(AnItem) /\ Len(todo) <= Len(plan)
  /\ \A k \in 1 .. Len(todo) : todo[k] = plan[Len(plan) - Len(todo) + k]
  /\ todo # <<>> => at = 1

\* A statement runs before the source calls that follow it.
RanBefore ==
  \A g, i \in 1 .. Len(body) :
    /\ g < at /\ at <= i
    /\ IsStatement(body[g]) /\ body[i].kind = "source" /\ NoStatement(body, g + 1, i)
    => body[g].text \in done

SourceRan == {p \in Path : \E x \in Items("source") : x.path = p /\ \E t \in done : SameSource(t, x)}

\* A path is started, or about to be, when its source has run.
StartedRan ==
  /\ started \subseteq SourceRan
  /\ \A t \in Thread : call[t].at = "new" => call[t].path \in SourceRan

InInv ==
  /\ ManyInv /\ PlanInv /\ BodyInv(body, Dealt) /\ RanBefore /\ StartedRan
  /\ dealsplitsource1 \in BOOLEAN
  /\ at \in 0 .. Len(body)
  /\ done \subseteq Text

\* Policies name statements of the program as their sources, not the calls
\* of the monitor.
StatementSources ==
  \A p \in Plans : \A k \in DOMAIN p : p[k].kind = "source" => p[k].text.base # "call"

\* What the next item is.
LEMMA NextItem ==
  ASSUME PlanInv, todo # <<>>, todo' = Tail(todo), plan' = plan, at' = at
  PROVE  /\ Item \in AnItem /\ Item \in ToSet(plan) /\ Dealt' = Dealt \cup {Item} /\ PlanInv' /\ at = 1
         /\ StatementSources /\ Item.kind = "source" => Item.text.base # "call"
<1> DEFINE w == Len(plan)
           v == Len(todo)
<1>1. w \in Nat /\ v \in Nat /\ v <= w /\ v # 0 /\ DOMAIN plan = 1 .. w /\ DOMAIN todo = 1 .. v
  BY DEF PlanInv
<1>2. \A k \in 1 .. v : todo[k] = plan[w - v + k] /\ todo[k] \in AnItem
  BY DEF PlanInv
<1>3. todo' \in Seq(AnItem) /\ Len(todo') = v - 1 /\ \A k \in 1 .. v - 1 : todo'[k] = todo[k + 1]
  BY <1>1 DEF PlanInv
<1>4. Item = todo[1]
  BY DEF Item
<1> HIDE DEF w, v
<1>5. Item = plan[w - v + 1] /\ w - v + 1 \in 1 .. w /\ Item \in AnItem
  BY <1>1, <1>2, <1>4
<1>6. Dealt' = {plan[k] : k \in 1 .. w - (v - 1)}
  BY <1>3 DEF Dealt, w, v
<1>7. Dealt = {plan[k] : k \in 1 .. w - v}
  BY DEF Dealt, w, v
<1>8. \A k : k \in 1 .. w - (v - 1) <=> k \in 1 .. w - v \/ k = w - v + 1
  BY <1>1
<1>9. Dealt' = Dealt \cup {Item}
  BY <1>5, <1>6, <1>7, <1>8
<1>10. PlanInv'
  <2>1. \A k \in 1 .. v - 1 : todo'[k] = plan[w - (v - 1) + k]
    <3> TAKE k \in 1 .. v - 1
    <3>1. k + 1 \in 1 .. v /\ w - v + (k + 1) = w - (v - 1) + k
      BY <1>1
    <3>2. todo[k + 1] = plan[w - v + (k + 1)]
      BY <1>2, <3>1
    <3> QED  BY <1>3, <3>1, <3>2
  <2>2. v - 1 <= w
    BY <1>1
  <2>3. plan' \in Plans /\ plan' \in Seq(AnItem) /\ at' = 1
    BY DEF PlanInv
  <2> QED  BY <1>3, <2>1, <2>2, <2>3 DEF PlanInv, w
<1>11. Item \in ToSet(plan)
  BY <1>1, <1>5 DEF ToSet
<1>12. StatementSources /\ Item.kind = "source" => Item.text.base # "call"
  BY <1>1, <1>5 DEF StatementSources, PlanInv
<1>13. at = 1
  BY DEF PlanInv
<1> QED  BY <1>5, <1>9, <1>10, <1>11, <1>12, <1>13

\* A program before any policy is dealt with.
LEMMA InInitially == InInit => InInv
<1> SUFFICES ASSUME InInit PROVE InInv
  OBVIOUS
<1>1. PICK prog \in Programs : body = [i \in DOMAIN prog |-> Statement(prog[i], i)]
  BY DEF InInit
<1>2. /\ Len(prog) \in Nat /\ Len(prog) # 0 /\ DOMAIN prog = 1 .. Len(prog)
      /\ \A i \in 1 .. Len(prog) : /\ prog[i] \in [text : Text, to : Seq(Nat), falls : BOOLEAN]
                                   /\ \A a \in DOMAIN prog[i].to : prog[i].to[a] \in 1 .. Len(prog)
  <2> DEFINE S == [text : Text, to : Seq(Nat), falls : BOOLEAN]
  <2>1. prog \in Seq(S) /\ prog # <<>>
    BY <1>1
  <2> HIDE DEF S
  <2>2. /\ Len(prog) \in Nat /\ Len(prog) # 0 /\ DOMAIN prog = 1 .. Len(prog)
        /\ \A i \in 1 .. Len(prog) : prog[i] \in S
    BY <2>1
  <2>3. \A i \in DOMAIN prog : \A a \in DOMAIN prog[i].to : prog[i].to[a] \in DOMAIN prog
    BY <1>1
  <2> QED  BY <2>2, <2>3 DEF S
<1> DEFINE n == Len(prog)
<1>3. body = [i \in 1 .. n |-> Statement(prog[i], i)]
  BY <1>1, <1>2
<1>4. ASSUME NEW i \in 1 .. n
      PROVE  /\ Statement(prog[i], i) \in BodyUnit
             /\ body[i].kind = "stmt" /\ body[i].nr = i /\ body[i].to = prog[i].to
  <2>1. prog[i].text \in Text /\ prog[i].to \in Seq(Nat) /\ prog[i].falls \in BOOLEAN
    BY <1>2
  <2>2. i \in Nat /\ 0 \in 0 .. MaxPaths
    OBVIOUS
  <2>3. body[i] = Statement(prog[i], i)
    BY <1>3
  <2>4. Statement(prog[i], i) \in BodyUnit
    BY <2>1, <2>2 DEF Statement, BodyUnit
  <2> QED  BY <2>3, <2>4 DEF Statement
<1> HIDE DEF n
<1>5. n \in Nat /\ n # 0
  BY <1>2 DEF n
<1>6. body \in Seq(BodyUnit) /\ Len(body) = n /\ body # <<>>
  <2>1. \A i \in 1 .. n : Statement(prog[i], i) \in BodyUnit
    BY <1>4
  <2> DEFINE f(i) == Statement(prog[i], i)
  <2>2. body = [i \in 1 .. n |-> f(i)] /\ \A i \in 1 .. n : f(i) \in BodyUnit
    BY <1>3, <2>1
  <2> HIDE DEF f
  <2>3. body \in Seq(BodyUnit) /\ Len(body) = n
    BY <1>5, <2>2
  <2>4. body # <<>>
    BY <1>5, <2>3
  <2> QED  BY <2>3, <2>4
<1>7. Numbered(body)
  <2>1. ASSUME NEW i \in 1 .. n, NEW a \in DOMAIN body[i].to
        PROVE  \E g \in 1 .. n : IsStatement(body[g]) /\ body[g].nr = body[i].to[a]
    <3>1. body[i].to[a] \in 1 .. n
      BY <1>2, <1>4, <2>1 DEF n
    <3> QED  BY <1>4, <3>1 DEF IsStatement
  <2> QED  BY <1>4, <1>6, <2>1 DEF Numbered, IsStatement
<1>8. /\ plan \in Plans /\ todo = plan /\ at = 1 /\ done = {} /\ dealsplitsource1 = FALSE
      /\ Init
  BY DEF InInit
<1>9. Dealt = {}
  <2>1. Len(plan) \in Nat
    BY <1>8
  <2>2. \A k \in 1 .. Len(plan) - Len(todo) : FALSE
    BY <1>8, <2>1
  <2> QED  BY <2>2 DEF Dealt
<1>10. BodyInv(body, Dealt)
  BY <1>4, <1>6, <1>7, <1>9 DEF BodyInv
<1>11. PlanInv
  <2>1. plan \in Seq(AnItem) /\ Len(plan) \in Nat
    BY <1>8 DEF AnItem
  <2>2. \A k \in 1 .. Len(plan) : Len(plan) - Len(plan) + k = k
    BY <2>1
  <2> QED  BY <1>8, <2>1, <2>2 DEF PlanInv
<1>12. RanBefore
  BY <1>8 DEF RanBefore
<1>13. StartedRan
  BY <1>8 DEF StartedRan, Init, Idle
<1>14. ManyInv
  BY <1>8, ManyInit
<1>15. at \in 0 .. Len(body) /\ dealsplitsource1 \in BOOLEAN /\ done \subseteq Text
  <2>1. 1 \in 0 .. n
    BY <1>5
  <2> QED  BY <1>6, <1>8, <2>1
<1> QED  BY <1>10, <1>11, <1>12, <1>13, <1>14, <1>15 DEF InInv

\* The invariant of a body does not depend on what else changes.
LEMMA SameBodyInv ==
  ASSUME plan' = plan, NEW D, BodyInv(body', D), D = Dealt'
  PROVE  BodyInv(body, Dealt)'
<1>1. Items("source")' = Items("source")
  BY DEF Items
<1> QED  BY <1>1 DEF BodyInv, SourceAt, BranchAt, GuardedBy, NoStatement, Numbered

\* While policies are dealt with nothing runs.
LEMMA WhileDealing ==
  ASSUME InInv, todo # <<>>, todo' = Tail(todo), UNCHANGED <<plan, at, done, vars>>,
         BodyInv(body', Dealt \cup {Item}), dealsplitsource1' \in BOOLEAN
  PROVE  InInv'
<1>1. PlanInv' /\ Dealt' = Dealt \cup {Item} /\ at = 1
  BY NextItem DEF InInv
<1>2. BodyInv(body, Dealt)'
  BY <1>1, SameBodyInv
<1>3. ManyInv'
  <2>1. UNCHANGED vars
    OBVIOUS
  <2> QED  BY <2>1, ManyStep DEF InInv
<1>4. at' = 1 /\ at' \in 0 .. Len(body')
  <2>1. body' \in Seq(BodyUnit) /\ body' # <<>>
    BY DEF BodyInv
  <2>2. Len(body') \in Nat /\ Len(body') # 0
    BY <2>1
  <2> QED  BY <1>1, <2>2
<1>5. RanBefore'
  <2>1. \A g \in 1 .. Len(body') : ~(g < 1)
    OBVIOUS
  <2> QED  BY <1>4, <2>1 DEF RanBefore
<1>6. StartedRan'
  <2>1. SourceRan' = SourceRan
    BY DEF SourceRan, Items
  <2> QED  BY <2>1 DEF InInv, StartedRan, vars
<1> QED  BY <1>1, <1>2, <1>3, <1>4, <1>5, <1>6 DEF InInv

LEMMA InDeals ==
  ASSUME InInv, StatementSources, Instrument
  PROVE  InInv'
<1>0. BodyInv(body, Dealt) /\ PlanInv /\ dealsplitsource1 \in BOOLEAN
  BY DEF InInv
<1>a. ASSUME NEW kind, TakeItem(kind)
      PROVE  /\ todo # <<>> /\ todo' = Tail(todo) /\ UNCHANGED <<plan, at, done, vars>>
             /\ Item.kind = kind /\ Item.path <= MaxPaths /\ Item \in AnItem
             /\ Item \in Items(kind) /\ (kind = "source" => Item.text.base # "call")
  <2>1. todo # <<>> /\ todo' = Tail(todo) /\ UNCHANGED <<plan, at, done, vars>>
        /\ Item.kind = kind /\ Item.path <= MaxPaths
    BY <1>a DEF TakeItem
  <2>2. Item \in AnItem /\ Item \in ToSet(plan) /\ (Item.kind = "source" => Item.text.base # "call")
    <3>1. PlanInv /\ todo # <<>> /\ todo' = Tail(todo) /\ plan' = plan /\ at' = at
      BY <1>0, <2>1
    <3> QED  BY <3>1, NextItem
  <2> QED  BY <2>1, <2>2 DEF Items
<1>1. CASE DealSource
  <2>1. TakeItem("source") /\ dealsplitsource1' = MatchedExactly(Item, Len(body))
    BY <1>1 DEF DealSource
  <2>2. Item \in SourceItem
    BY <1>a, <2>1 DEF AnItem, SourceItem, BranchItem, SinkItem
  <2>3. body' = FlattenSeq([i \in DOMAIN body |->
                  IF MatchesSource(Item, i)
                  THEN <<body[i], Call("source", Item.path, 0, "none", Item.text.dollar)>>
                  ELSE <<body[i]>>])
    BY <1>1 DEF DealSource, Rewrite
  <2>4. /\ Item.path <= MaxPaths /\ Item \in Items("source") /\ Item.text.base # "call"
        /\ todo # <<>> /\ todo' = Tail(todo) /\ UNCHANGED <<plan, at, done, vars>>
    BY <1>a, <2>1
  <2> HIDE DEF Item
  <2>5. BodyInv(body', Dealt \cup {Item})
    BY <1>0, <2>2, <2>3, <2>4, SourcePass
  <2>6. dealsplitsource1' \in BOOLEAN
    BY <1>0, <2>1 DEF MatchedExactly
  <2> QED  BY <2>4, <2>5, <2>6, WhileDealing
<1>2. CASE DealBranch
  <2>1. TakeItem("branch") /\ dealsplitsource1' = dealsplitsource1
    BY <1>2 DEF DealBranch
  <2>2. Item \in BranchItem
    BY <1>a, <2>1 DEF AnItem, SourceItem, BranchItem, SinkItem
  <2>3. body' = FlattenSeq([i \in DOMAIN body |->
                   IF MatchesBranch(Item, i)
                   THEN [sn \in DOMAIN body[i].to |->
                           Call("branch", Item.path, Item.node,
                                IF sn = Item.arm THEN "accept" ELSE "reject", FALSE)] \o <<body[i]>>
                   ELSE <<body[i]>>])
    BY <1>2 DEF DealBranch, Rewrite
  <2>4. /\ Item.path <= MaxPaths
        /\ todo # <<>> /\ todo' = Tail(todo) /\ UNCHANGED <<plan, at, done, vars>>
    BY <1>a, <2>1
  <2> HIDE DEF Item
  <2>5. BodyInv(body', Dealt \cup {Item})
    BY <1>0, <2>2, <2>3, <2>4, BranchPass
  <2> QED  BY <1>0, <2>1, <2>4, <2>5, WhileDealing
<1>3. CASE DealSink
  <2>1. TakeItem("sink") /\ dealsplitsource1' = dealsplitsource1
    BY <1>3 DEF DealSink
  <2>2. Item \in SinkItem
    BY <1>a, <2>1 DEF AnItem, SourceItem, BranchItem, SinkItem
  <2>3. body' = FlattenSeq([i \in DOMAIN body |->
                   IF MatchesSink(Item, i)
                   THEN <<Call("sink", Item.path, Item.node, "none", Item.text.dollar), body[i]>>
                   ELSE <<body[i]>>])
    BY <1>3 DEF DealSink, Rewrite
  <2>4. /\ Item.path <= MaxPaths
        /\ todo # <<>> /\ todo' = Tail(todo) /\ UNCHANGED <<plan, at, done, vars>>
    BY <1>a, <2>1
  <2> HIDE DEF Item
  <2>5. BodyInv(body', Dealt \cup {Item})
    BY <1>0, <2>2, <2>3, <2>4, SinkPass
  <2> QED  BY <1>0, <2>1, <2>4, <2>5, WhileDealing
<1>4. CASE SkipPath
  <2>1. /\ todo # <<>> /\ Item.path > MaxPaths /\ todo' = Tail(todo)
        /\ UNCHANGED <<body, plan, dealsplitsource1, at, done, vars>>
    BY <1>4 DEF SkipPath
  <2>2. Item \in AnItem
    BY <1>0, <2>1, NextItem
  <2>3. ~(Item.path <= MaxPaths)
    <3>1. Item.path \in Path
      BY <2>2 DEF AnItem, SourceItem, BranchItem, SinkItem
    <3>2. Item.path \in Nat
      BY <3>1
    <3> QED  BY <2>1, <3>2
  <2> HIDE DEF Item
  <2>4. BodyInv(body, Dealt \cup {Item})
    <3>1. \A x \in Dealt \cup {Item} : x.path <= MaxPaths => x \in Dealt
      BY <2>3
    <3> QED  BY <1>0, <3>1 DEF BodyInv
  <2>5. BodyInv(body', Dealt \cup {Item})
    BY <2>1, <2>4
  <2> QED  BY <1>0, <2>1, <2>5, WhileDealing
<1> QED  BY <1>1, <1>2, <1>3, <1>4 DEF Instrument

\* No statement is jumped over on the way to a source call.
LEMMA NothingIsSkipped ==
  ASSUME InInv, NEW t \in Thread, RunStatement(t)
  PROVE  RanBefore' /\ at' \in 0 .. Len(body)
<1>1. /\ body \in Seq(BodyUnit) /\ Len(body) \in Nat /\ at \in 1 .. Len(body) /\ IsStatement(body[at])
      /\ done' = done \cup {body[at].text} /\ body' = body /\ Numbered(body)
  <2>1. body \in Seq(BodyUnit) /\ Numbered(body) /\ at \in 0 .. Len(body)
    BY DEF InInv, BodyInv
  <2>2. at # 0 /\ IsStatement(body[at]) /\ done' = done \cup {body[at].text} /\ body' = body
    BY DEF RunStatement, Ready, Unit
  <2>3. Len(body) \in Nat
    BY <2>1
  <2> QED  BY <2>1, <2>2, <2>3
<1>2. RanBefore
  BY DEF InInv
<1>3. CASE at' = NextOf(at)
  <2>1. at' \in 1 .. Len(body) /\ (at' = 1 \/ at' = at + 1)
    BY <1>1, <1>3 DEF NextOf
  <2> SUFFICES ASSUME NEW g \in 1 .. Len(body), NEW i \in 1 .. Len(body), g < at', at' <= i,
                      IsStatement(body[g]), body[i].kind = "source", NoStatement(body, g + 1, i)
               PROVE  body[g].text \in done'
    BY <1>1, <2>1 DEF RanBefore
  <2>2. at' = at + 1
    BY <2>1
  <2>3. CASE g = at
    BY <1>1, <2>3
  <2>4. CASE g # at
    <3>1. at \in g + 1 .. i
      BY <1>1, <2>2, <2>4
    <3> QED  BY <1>1, <3>1 DEF NoStatement
  <2> QED  BY <2>3, <2>4
<1>4. ASSUME NEW arm \in DOMAIN body[at].to, at' = Landing(body[at].to[arm])
      PROVE  RanBefore' /\ at' \in 0 .. Len(body)
  <2>1. PICK k \in 1 .. Len(body) : IsStatement(body[k]) /\ body[k].nr = body[at].to[arm]
    BY <1>1, <1>4 DEF Numbered
  <2>2. at' \in 1 .. k /\ OnlyGuards(body, at', k)
    <3>1. /\ Landing(body[k].nr) \in 1 .. k
          /\ OnlyGuards(body, Landing(body[k].nr), k)
      BY <1>1, <2>1, Lands
    <3> QED  BY <1>4, <2>1, <3>1
  <2>3. at' \in 0 .. Len(body)
    BY <1>1, <2>2
  <2> SUFFICES ASSUME NEW g \in 1 .. Len(body), NEW i \in 1 .. Len(body), g < at', at' <= i,
                      IsStatement(body[g]), body[i].kind = "source", NoStatement(body, g + 1, i)
               PROVE  FALSE
    BY <1>1, <2>3 DEF RanBefore
  <2>4. CASE k <= i
    <3>1. k \in g + 1 .. i
      BY <2>2, <2>4
    <3> QED  BY <2>1, <3>1 DEF NoStatement
  <2>5. CASE i < k
    <3>1. i \in at' .. k - 1
      BY <2>2, <2>5
    <3> QED  BY <2>2, <3>1 DEF OnlyGuards
  <2> QED  BY <2>4, <2>5
<1>5. at' = NextOf(at) \/ \E arm \in DOMAIN body[at].to : at' = Landing(body[at].to[arm])
  BY DEF RunStatement, Unit
<1>6. CASE at' = NextOf(at)
  <2>1. at' \in 0 .. Len(body)
    BY <1>1, <1>6 DEF NextOf
  <2> QED  BY <1>3, <1>6, <2>1
<1> QED  BY <1>4, <1>5, <1>6

\* A source has run when its call begins.
LEMMA SourceHasRun ==
  ASSUME InInv, at \in 1 .. Len(body), body[at].kind = "source"
  PROVE  body[at].path \in SourceRan
<1>1. body \in Seq(BodyUnit) /\ SourceAt(body, at) /\ RanBefore
  BY DEF InInv, BodyInv
<1>2. Len(body) \in Nat /\ body[at] \in BodyUnit
  BY <1>1
<1>3. PICK g \in 1 .. at - 1 :
        /\ IsStatement(body[g]) /\ NoStatement(body, g + 1, at)
        /\ \E x \in Items("source") : x.path = body[at].path /\ SameSource(body[g].text, x)
  BY <1>1 DEF SourceAt
<1>4. g \in 1 .. Len(body) /\ g < at /\ at <= at
  BY <1>2
<1>5. body[g].text \in done
  BY <1>1, <1>3, <1>4 DEF RanBefore
<1>6. body[at].path \in Path
  BY <1>2 DEF BodyUnit
<1> QED  BY <1>3, <1>5, <1>6 DEF SourceRan

LEMMA InRuns ==
  ASSUME InInv, NEW t \in Thread, RunStatement(t)
  PROVE  InInv'
<1>1. /\ UNCHANGED <<body, plan, todo, dealsplitsource1, vars>> /\ todo = <<>> /\ at # 0
      /\ done' = done \cup {body[at].text}
  BY DEF RunStatement, Ready, Unit
<1>2. RanBefore' /\ at' \in 0 .. Len(body)
  BY NothingIsSkipped
<1>3. BodyInv(body, Dealt)'
  <2>1. BodyInv(body', Dealt) /\ Dealt' = Dealt /\ plan' = plan
    BY <1>1 DEF InInv, Dealt
  <2> QED  BY <2>1, SameBodyInv
<1>4. ManyInv'
  BY <1>1, ManyStep DEF InInv
<1>5. PlanInv'
  BY <1>1 DEF InInv, PlanInv
<1>6. StartedRan'
  <2>1. SourceRan \subseteq SourceRan'
    BY <1>1 DEF SourceRan, Items
  <2>2. started' = started /\ call' = call
    BY <1>1 DEF vars
  <2> QED  BY <2>1, <2>2 DEF InInv, StartedRan
<1>7. done' \subseteq Text
  <2>1. body \in Seq(BodyUnit) /\ at \in 0 .. Len(body) /\ done \subseteq Text
    BY DEF InInv, BodyInv
  <2>2. body[at] \in BodyUnit
    BY <1>1, <2>1
  <2>3. body[at].text \in Text
    BY <2>2 DEF BodyUnit
  <2> QED  BY <1>1, <2>1, <2>3
<1>8. dealsplitsource1' \in BOOLEAN /\ at' \in 0 .. Len(body')
  <2>1. dealsplitsource1' = dealsplitsource1 /\ body' = body
    BY <1>1
  <2> QED  BY <1>2, <2>1 DEF InInv
<1> QED  BY <1>2, <1>3, <1>4, <1>5, <1>6, <1>7, <1>8 DEF InInv

\* A call does not run a statement.
LEMMA InPasses ==
  ASSUME InInv, at \in 1 .. Len(body), ~IsStatement(body[at]), todo = <<>>,
         UNCHANGED <<body, plan, todo, dealsplitsource1, done>>,
         at' = NextOf(at) \/ at' = 0, ManyInv', StartedRan'
  PROVE  InInv'
<1>1. body \in Seq(BodyUnit) /\ Len(body) \in Nat
  <2>1. body \in Seq(BodyUnit)
    BY DEF InInv, BodyInv
  <2> QED  BY <2>1
<1>2. at' \in 0 .. Len(body) /\ (at' = 0 \/ at' = 1 \/ at' = at + 1)
  BY <1>1 DEF NextOf
<1>3. RanBefore'
  <2> SUFFICES ASSUME NEW g \in 1 .. Len(body), NEW i \in 1 .. Len(body), g < at', at' <= i,
                      IsStatement(body[g]), body[i].kind = "source", NoStatement(body, g + 1, i)
               PROVE  body[g].text \in done
    BY <1>2 DEF RanBefore
  <2>1. at' = at + 1
    BY <1>2
  <2>2. g # at
    OBVIOUS
  <2>3. g < at /\ at <= i
    BY <2>1, <2>2
  <2> QED  BY <2>3 DEF InInv, RanBefore
<1>4. BodyInv(body, Dealt)'
  <2>1. BodyInv(body', Dealt) /\ Dealt' = Dealt /\ plan' = plan
    BY DEF InInv, Dealt
  <2> QED  BY <2>1, SameBodyInv
<1>5. PlanInv'
  BY DEF InInv, PlanInv
<1>6. dealsplitsource1' \in BOOLEAN /\ at' \in 0 .. Len(body') /\ done' \subseteq Text
  <2>1. dealsplitsource1' = dealsplitsource1 /\ body' = body /\ done' = done
    OBVIOUS
  <2> QED  BY <1>2, <2>1 DEF InInv
<1> QED  BY <1>3, <1>4, <1>5, <1>6 DEF InInv

LEMMA InCalls ==
  ASSUME InInv, NEW t \in Thread, RunCall(t)
  PROVE  InInv'
<1>1. /\ UNCHANGED <<body, plan, todo, dealsplitsource1, done>> /\ todo = <<>>
      /\ at' = NextOf(at) /\ at \in 1 .. Len(body) /\ ~IsStatement(body[at])
  BY DEF RunCall, Ready, Unit, InInv
<1>2. body[at] \in BodyUnit
  <2>1. body \in Seq(BodyUnit)
    BY DEF InInv, BodyInv
  <2> QED  BY <1>1, <2>1
<1>3. body[at].path \in Path
  BY <1>1, <1>2 DEF BodyUnit, IsStatement
<1>4. \/ body[at].kind = "source" /\ CallSource(t, body[at].path)
      \/ body[at].kind = "branch" /\ CallBranch(t, body[at].path, body[at].nr, body[at].policy)
      \/ body[at].kind = "sink" /\ CallSink(t, body[at].path, body[at].nr)
  BY DEF RunCall, Unit
<1>5. Program(t)
  <2>1. body[at].kind \in {"branch", "sink"} => body[at].nr \in Node
    BY <1>2 DEF BodyUnit
  <2>2. body[at].kind = "branch" => body[at].policy \in Policies
    BY <1>2 DEF BodyUnit
  <2> QED  BY <1>3, <1>4, <2>1, <2>2 DEF Program
<1>6. ManyInv'
  BY <1>5, ManyStep DEF InInv, Next
<1>7. StartedRan'
  <2>1. PICK step, k, a :
          Enter(t, step, body[at].path, k, a) /\ (step = "new" => body[at].kind = "source")
    BY <1>4 DEF CallSource, CallBranch, CallSink
  <2>2. started' = started /\ SourceRan' = SourceRan
    BY <1>1, <2>1 DEF Enter, SourceRan, Items
  <2>3. call \in [Thread -> Calls \cup {Idle}]
    BY DEF InInv, ManyInv, TypeOK
  <2>4. call'[t].at = step /\ call'[t].path = body[at].path /\ \A u \in Thread \ {t} : call'[u] = call[u]
    BY <2>1, <2>3 DEF Enter
  <2>5. step = "new" => body[at].path \in SourceRan
    BY <1>1, <2>1, SourceHasRun
  <2> QED  BY <2>2, <2>4, <2>5 DEF InInv, StartedRan
<1> QED  BY <1>1, <1>6, <1>7, InPasses

LEMMA InOverruns ==
  ASSUME InInv, NEW t \in Thread, Overrun(t)
  PROVE  InInv'
<1>1. /\ UNCHANGED <<body, plan, todo, dealsplitsource1, done, vars>> /\ todo = <<>>
      /\ at' = 0 /\ at \in 1 .. Len(body) /\ ~IsStatement(body[at])
  BY DEF Overrun, Ready, Unit, InInv
<1>2. ManyInv'
  BY <1>1, ManyStep DEF InInv
<1>3. StartedRan'
  <2>1. SourceRan' = SourceRan /\ started' = started /\ call' = call
    BY <1>1 DEF SourceRan, Items, vars
  <2> QED  BY <2>1 DEF InInv, StartedRan
<1> QED  BY <1>1, <1>2, <1>3, InPasses

\* A call starts the path it was made for, and none becomes a new one.
LEMMA InMonitors ==
  ASSUME InInv, NEW t \in Thread, Monitor(t), UNCHANGED inVars
  PROVE  InInv'
<1>1. UNCHANGED <<body, plan, todo, dealsplitsource1, at, done>>
  BY DEF inVars
<1>2. ManyInv'
  BY ManyStep DEF InInv, Next
<1>3. TypeOK /\ call \in [Thread -> Calls \cup {Idle}]
  BY DEF InInv, ManyInv, TypeOK
<1>4. SourceRan' = SourceRan
  BY <1>1 DEF SourceRan, Items
<1>5. started \subseteq SourceRan /\ \A u \in Thread : call[u].at = "new" => call[u].path \in SourceRan
  BY DEF InInv, StartedRan
<1>6. started' \subseteq SourceRan
  <2>1. New(t) \/ started' = started
    BY DEF Monitor, Reset, Look, Lose, Read, Write, SinkLook, SinkLose, Audit, RunSink
  <2>2. CASE New(t)
    BY <1>5, <2>2 DEF New, At
  <2> QED  BY <1>5, <2>1, <2>2
<1>7. ASSUME NEW u \in Thread, call'[u].at = "new" PROVE call'[u] = call[u]
  <2> DEFINE Into(s) == s \in Steps \ {"new"} /\ call[t].at # "idle" /\ Goto(t, s)
  <2>1. call' = call \/ Return(t) \/ Read(t) \/ \E s : Into(s)
    <3>1. CASE New(t)
      BY <3>1 DEF New, At, Steps
    <3>2. CASE Reset(t) \/ Lose(t) \/ Write(t) \/ SinkLose(t) \/ RunSink(t)
      BY <3>2 DEF Reset, Lose, Write, SinkLose, RunSink, BranchReturns
    <3>3. CASE Look(t)
      BY <3>3 DEF Look, At, BranchReturns, Steps
    <3>4. CASE SinkLook(t)
      BY <3>4 DEF SinkLook, At, Steps
    <3>5. CASE Audit(t)
      BY <3>5 DEF Audit, At, Steps
    <3> QED  BY <3>1, <3>2, <3>3, <3>4, <3>5 DEF Monitor
  <2>2. CASE Return(t)
    <3>1. call'[t].at = "idle" /\ \A y \in Thread \ {t} : call'[y] = call[y]
      BY <1>3, <2>2 DEF Return, Idle
    <3> QED  BY <1>7, <3>1
  <2>3. CASE Read(t)
    <3>1. PICK a, p, k, pol, g : call[t] = [at |-> a, path |-> p, node |-> k, policy |-> pol, got |-> g]
      BY <1>3, <2>3, CallFields DEF Read, At
    <3>2. call'[t] = [[call[t] EXCEPT !.at = "write"] EXCEPT !.got = curpos]
      BY <1>3, <2>3 DEF Read
    <3>3. call'[t].at = "write"
      BY <3>1, <3>2
    <3>4. \A y \in Thread \ {t} : call'[y] = call[y]
      BY <1>3, <2>3 DEF Read
    <3> QED  BY <1>7, <3>3, <3>4
  <2>4. ASSUME NEW s, Into(s) PROVE call'[u] = call[u]
    <3>1. call'[t].at = s /\ s # "new" /\ \A y \in Thread \ {t} : call'[y] = call[y]
      BY <1>3, <2>4, GotoFacts
    <3> QED  BY <1>7, <3>1
  <2> QED  BY <2>1, <2>2, <2>3, <2>4
<1>8. StartedRan'
  BY <1>4, <1>5, <1>6, <1>7 DEF StartedRan
<1>9. BodyInv(body, Dealt)'
  <2>1. BodyInv(body', Dealt) /\ Dealt' = Dealt /\ plan' = plan
    BY <1>1 DEF InInv, Dealt
  <2> QED  BY <2>1, SameBodyInv
<1>10. PlanInv' /\ RanBefore'
  BY <1>1 DEF InInv, PlanInv, RanBefore, NoStatement
<1>11. dealsplitsource1' \in BOOLEAN /\ at' \in 0 .. Len(body') /\ done' \subseteq Text
  <2>1. dealsplitsource1' = dealsplitsource1 /\ body' = body /\ done' = done /\ at' = at
    BY <1>1
  <2> QED  BY <2>1 DEF InInv
<1> QED  BY <1>2, <1>8, <1>9, <1>10, <1>11 DEF InInv

LEMMA InStep ==
  ASSUME StatementSources
  PROVE  InInv /\ [InNext]_allVars => InInv'
<1> SUFFICES ASSUME InInv, [InNext]_allVars PROVE InInv'
  OBVIOUS
<1>1. CASE Instrument
  BY <1>1, InDeals
<1>2. ASSUME NEW t \in Thread, RunStatement(t) PROVE InInv'
  BY <1>2, InRuns
<1>3. ASSUME NEW t \in Thread, RunCall(t) PROVE InInv'
  BY <1>3, InCalls
<1>4. ASSUME NEW t \in Thread, Overrun(t) PROVE InInv'
  BY <1>4, InOverruns
<1>5. ASSUME NEW t \in Thread, Monitor(t), UNCHANGED inVars PROVE InInv'
  BY <1>5, InMonitors
<1>6. CASE UNCHANGED allVars
  <2>1. UNCHANGED <<vars, body, plan, todo, dealsplitsource1, at, done>>
    BY <1>6 DEF allVars, inVars
  <2>2. ManyInv'
    BY <2>1, ManyStep DEF InInv
  <2>3. StartedRan'
    BY <2>1 DEF InInv, StartedRan, SourceRan, Items, vars
  <2>4. BodyInv(body, Dealt)'
    <3>1. BodyInv(body', Dealt) /\ Dealt' = Dealt /\ plan' = plan
      BY <2>1 DEF InInv, Dealt
    <3> QED  BY <3>1, SameBodyInv
  <2>5. PlanInv' /\ RanBefore'
    BY <2>1 DEF InInv, PlanInv, RanBefore, NoStatement
  <2>6. dealsplitsource1' \in BOOLEAN /\ at' \in 0 .. Len(body') /\ done' \subseteq Text
    <3>1. dealsplitsource1' = dealsplitsource1 /\ body' = body /\ done' = done /\ at' = at
      BY <2>1
    <3> QED  BY <3>1 DEF InInv
  <2> QED  BY <2>2, <2>3, <2>4, <2>5, <2>6 DEF InInv
<1> QED  BY <1>1, <1>2, <1>3, <1>4, <1>5, <1>6 DEF InNext

\* The units, the next unit and the monitor keep their types, for every
\* program and every list of policies.
THEOREM InstrumenterTypes ==
  ASSUME StatementSources
  PROVE  InSpec => []InTypeOK
<1>1. InInv => InTypeOK
  <2> SUFFICES ASSUME InInv PROVE InTypeOK
    OBVIOUS
  <2>1. body \in Seq(BodyUnit)
    BY DEF InInv, BodyInv
  <2>2. ASSUME NEW i \in DOMAIN body
        PROVE  /\ body[i].text \in Text /\ body[i].kind \in {"stmt", "source", "branch", "sink"}
               /\ body[i].path \in 0 .. MaxPaths
    <3>1. body[i] \in BodyUnit
      BY <2>1
    <3> QED  BY <3>1 DEF BodyUnit
  <2> QED  BY <2>2 DEF InTypeOK, InInv, ManyInv
<1>2. InInv /\ [InNext]_allVars => InInv'
  BY InStep
<1> QED  BY <1>1, <1>2, InInitially, PTL DEF InSpec

\* Whatever passes follow, of this policy or of others, a source call stays
\* behind its source and a branch call before its jump with only calls
\* between them.
THEOREM CallsStayAtTheirStatement ==
  ASSUME StatementSources
  PROVE  InSpec => []CallsAreAtTheirStatement
<1>1. InInv => CallsAreAtTheirStatement
  <2> SUFFICES ASSUME InInv, NEW i \in DOMAIN body
               PROVE  /\ body[i].kind = "source" =>
                           \E g \in 1 .. i - 1 :
                             /\ IsStatement(body[g]) /\ \A h \in g + 1 .. i : ~IsStatement(body[h])
                             /\ \E x \in {x \in Items("source") : x.path = body[i].path} :
                                  SameSource(body[g].text, x)
                      /\ body[i].kind = "branch" =>
                           \E g \in i + 1 .. Len(body) :
                             /\ Jumps(body[g]) /\ \A h \in i .. g - 1 : ~IsStatement(body[h])
                             /\ JumpNumber(body, g) = body[i].nr
    BY Zenon DEF CallsAreAtTheirStatement
  <2>1. i \in 1 .. Len(body)
    BY DEF InInv, BodyInv
  <2>2. ASSUME body[i].kind = "source"
        PROVE  \E g \in 1 .. i - 1 :
                 /\ IsStatement(body[g]) /\ \A h \in g + 1 .. i : ~IsStatement(body[h])
                 /\ \E x \in {x \in Items("source") : x.path = body[i].path} :
                      SameSource(body[g].text, x)
    <3>1. SourceAt(body, i)
      BY <2>1, <2>2 DEF InInv, BodyInv
    <3> QED  BY <3>1 DEF SourceAt, NoStatement
  <2>3. ASSUME body[i].kind = "branch"
        PROVE  \E g \in i + 1 .. Len(body) :
                 /\ Jumps(body[g]) /\ \A h \in i .. g - 1 : ~IsStatement(body[h])
                 /\ JumpNumber(body, g) = body[i].nr
    <3>1. BranchAt(body, i)
      BY <2>1, <2>3 DEF InInv, BodyInv
    <3> QED  BY <3>1 DEF BranchAt, NoStatement
  <2> QED  BY <2>2, <2>3
<1>2. InInv /\ [InNext]_allVars => InInv'
  BY InStep
<1> QED  BY <1>1, <1>2, InInitially, PTL DEF InSpec

\* When all policies were dealt with, every way to a sink of one of them,
\* falling through or jumping, leads over its call.
THEOREM EverySinkIsGuarded ==
  ASSUME StatementSources
  PROVE  InSpec => []SinksAreGuarded
<1>1. InInv => SinksAreGuarded
  <2> SUFFICES ASSUME InInv, todo = <<>>, NEW i \in DOMAIN body, NEW x \in Items("sink"),
                      IsStatement(body[i]), body[i].text = x.text
               PROVE  \E h \in 1 .. i - 1 :
                        /\ body[h].kind = "sink" /\ body[h].path = x.path /\ body[h].nr = x.node
                        /\ Landing(body[i].nr) <= h
    BY DEF SinksAreGuarded
  <2>1. body \in Seq(BodyUnit) /\ Numbered(body)
    BY DEF InInv, BodyInv
  <2>2. i \in 1 .. Len(body) /\ i \in Nat
    BY <2>1
  <2>3. x \in Dealt /\ x.kind = "sink" /\ x.path <= MaxPaths
    <3>1. Len(todo) = 0 /\ Len(plan) \in Nat /\ DOMAIN plan = 1 .. Len(plan)
      BY DEF InInv, PlanInv
    <3>2. Dealt = ToSet(plan)
      <4>1. Len(plan) - Len(todo) = Len(plan)
        BY <3>1
      <4> QED  BY <3>1, <4>1 DEF Dealt, ToSet
    <3> QED  BY <3>2 DEF Items
  <2>4. GuardedBy(body, i, x)
    BY <2>2, <2>3 DEF InInv, BodyInv
  <2>5. PICK h \in 1 .. i - 1 :
          /\ body[h].kind = "sink" /\ body[h].path = x.path /\ body[h].nr = x.node
          /\ OnlyGuards(body, h, i)
    BY <2>4 DEF GuardedBy, OnlyGuards
  <2>6. h \in 1 .. i
    BY <2>2
  <2>7. Landing(body[i].nr) <= h
    BY <2>1, <2>2, <2>5, <2>6, Lands
  <2> QED  BY <2>5, <2>7
<1>2. InInv /\ [InNext]_allVars => InInv'
  BY InStep
<1> QED  BY <1>1, <1>2, InInitially, PTL DEF InSpec

\* End to end: what the monitor refuses is a sink of a path whose source the
\* program has run, for every program, every policy and any number of paths
\* and threads.
THEOREM RefusalsFollowTheSource ==
  ASSUME StatementSources
  PROVE  InSpec => []RefusedAfterSource
<1>1. InInv => RefusedAfterSource
  <2> SUFFICES ASSUME InInv, NEW v \in verdict, v.refused
               PROVE  \E x \in Items("source") : x.path = v.path /\ \E t \in done : SameSource(t, x)
    BY DEF RefusedAfterSource
  <2>1. v.path \in started
    BY DEF InInv, ManyInv, RefusedAreStarted
  <2>2. v.path \in SourceRan
    BY <2>1 DEF InInv, StartedRan
  <2> QED  BY <2>2 DEF SourceRan
<1>2. InInv /\ [InNext]_allVars => InInv'
  BY InStep
<1> QED  BY <1>1, <1>2, InInitially, PTL DEF InSpec

=============================================================================
