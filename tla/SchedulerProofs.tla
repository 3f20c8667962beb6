-------------------------- MODULE SchedulerProofs --------------------------
(***************************************************************************)
(* What holds of module Scheduler for every number of threads, every set   *)
(* of ages and both policies, from the very first instruction on: the      *)
(* first thread may be registered late.                                    *)
(***************************************************************************)
EXTENDS Shutdown, TLAPS

USE SchedulerAssumption

\* The main thread is no analysis thread, and the ages handed out are ages.
LEMMA ProcFacts ==
  /\ First \in Thread
  /\ Thread \subseteq Proc
  /\ Admin \in Proc \ Thread
  /\ Proc = Thread \cup {Admin}
  /\ AgeChoice \subseteq Ages
  /\ Proc \subseteq Int /\ Thread \subseteq Int
BY DEF First, Thread, Proc, Admin, AgeChoice

\* Every variable keeps its type: in particular the queues only ever hold
\* threads, and the main thread and the workers never leave their programs.
LEMMA TypeInit == Init => TypeOK
<1> SUFFICES ASSUME Init PROVE TypeOK
  OBVIOUS
<1> USE ProcFacts DEF Init
<1>1. /\ pc \in [Proc -> WorkerPcs \cup AdminPcs]
      /\ pc[Admin] \in AdminPcs
      /\ \A t \in Thread : pc[t] \in WorkerPcs
  BY DEF AdminPcs, WorkerPcs
<1>2. /\ flag \in [Thread -> BOOLEAN] /\ stopped \in SUBSET Thread
      /\ late \in BOOLEAN /\ missed \in SUBSET Thread /\ dead \in SUBSET Thread
      /\ running \in SUBSET Thread /\ ready \in SUBSET Thread /\ waiting \in SUBSET Thread
  OBVIOUS
<1>3. age \in [Thread -> Ages] /\ nodes \in [Thread -> 0..Nodes] /\ born \in Thread
  OBVIOUS
<1>4. /\ father \in [Thread -> Proc] /\ son \in [Thread -> Proc]
      /\ got \in [Proc -> SUBSET Thread] /\ kids \in [Thread -> SUBSET Thread]
  BY DEF Admin
<1> QED
  BY <1>1, <1>2, <1>3, <1>4 DEF TypeOK

\* Leaving a node a thread goes on to the next one or ends.
LEMMA NextNodeType == \A t : NextNode(t) \in {"dead", "dispatch"}
BY DEF NextNode

\* No step of a worker or of the main thread breaks the types.
LEMMA TypeStep == TypeOK /\ [Next]_vars => TypeOK'
<1> SUFFICES ASSUME TypeOK, [Next]_vars PROVE TypeOK'
  OBVIOUS
<1> USE DEF TypeOK, queues, forks, history
<1>1. CASE AdminStart
  BY <1>1, ProcFacts DEF AdminStart, AdminPcs, Stopping, Sleeps
<1>2. CASE Reap
  BY <1>2, ProcFacts DEF Reap, AdminPcs
<1>3. CASE AllHandled
  BY <1>3, ProcFacts DEF AllHandled, AdminPcs
<1>4. CASE CheckRunning
  BY <1>4, ProcFacts DEF CheckRunning, AdminPcs
<1>5. CASE CheckReady
  BY <1>5, ProcFacts DEF CheckReady, AdminPcs
<1>6. CASE Final
  BY <1>6, ProcFacts DEF Final, AdminPcs
<1>7. ASSUME NEW p \in Proc, Fetch(p) PROVE TypeOK'
  <2>1. \A B \in Batches : B \subseteq ready
    BY DEF Batches, Oldest
  <2>2. CASE ready = {}
    BY <1>7, <2>2, ProcFacts DEF Fetch, AdminPcs, WorkerPcs
  <2>3. CASE ready # {}
    <3>1. PICK B \in Batches : /\ got' = [got EXCEPT ![p] = B]
                               /\ ready' = ready \ B
                               /\ pc' = [pc EXCEPT ![p] = "resume"]
      BY <1>7, <2>3 DEF Fetch
    <3>2. B \subseteq Thread
      BY <2>1
    <3> QED
      BY <1>7, <3>1, <3>2, ProcFacts DEF Fetch, AdminPcs, WorkerPcs
  <2> QED
    BY <2>2, <2>3
<1>8. ASSUME NEW p \in Proc, Resume(p) PROVE TypeOK'
  <2>1. /\ running' \in SUBSET Thread
        /\ got' \in [Proc -> SUBSET Thread]
    BY <1>8 DEF Resume
  <2>2. flag' \in [Thread -> BOOLEAN]
    BY <1>8 DEF Resume
  <2>3. CASE p = Admin
    <3>1. pc' = [pc EXCEPT ![Admin] = "checkRunning"]
      BY <1>8, <2>3 DEF Resume
    <3>2. /\ pc' \in [Proc -> WorkerPcs \cup AdminPcs]
          /\ pc'[Admin] \in AdminPcs
          /\ \A u \in Thread : pc'[u] \in WorkerPcs
      BY <3>1, ProcFacts DEF AdminPcs
    <3> QED
      BY <1>8, <2>1, <2>2, <3>2 DEF Resume
  <2>4. CASE p \in Thread
    <3>1. pc' = [pc EXCEPT ![p] = NextNode(p)]
      BY <1>8, <2>4, ProcFacts DEF Resume
    <3>2. NextNode(p) \in WorkerPcs
      BY NextNodeType DEF WorkerPcs
    <3>3. /\ pc' \in [Proc -> WorkerPcs \cup AdminPcs]
          /\ pc'[Admin] \in AdminPcs
          /\ \A u \in Thread : pc'[u] \in WorkerPcs
      BY <2>4, <3>1, <3>2, ProcFacts
    <3> QED
      BY <1>8, <2>1, <2>2, <3>3 DEF Resume
  <2> QED
    BY <2>3, <2>4, ProcFacts
<1>9. ASSUME NEW t \in Thread, HandleDead(t) PROVE TypeOK'
  <2>0. missed' \in SUBSET Thread
    BY <1>9 DEF HandleDead, NotifyFather, Notify
  <2>1. CASE father[t] = 0 /\ UNCHANGED <<pc, father>>
    BY <1>9, <2>0, <2>1 DEF HandleDead
  <2>2. ASSUME NEW f \in Thread, NotifyFather(t, f) PROVE TypeOK'
    <3>1. father' \in [Thread -> Proc]
      <4>1. father' = [s \in Thread |-> IF father[s] = f THEN 0 ELSE father[s]]
            \/ father' = [father EXCEPT ![t] = 0]
        BY <2>2 DEF NotifyFather
      <4> QED
        BY <4>1, ProcFacts DEF Admin
    <3>2. pc' = pc \/ pc' = [pc EXCEPT ![f] = "woken"]
      BY <2>2 DEF NotifyFather, Notify
    <3> QED
      BY <1>9, <2>0, <3>1, <3>2, ProcFacts DEF HandleDead, WorkerPcs
  <2> QED
    BY <1>9, <2>1, <2>2 DEF HandleDead
<1>10. ASSUME NEW t \in Thread, Worker(t) PROVE TypeOK'
  <2>1. CASE Preempt(t)
    BY <2>1, ProcFacts DEF Preempt, AtNode, WorkerPcs
  <2>2. CASE Yield(t)
    BY <2>2, ProcFacts DEF Yield, WorkerPcs
  <2>3. CASE Enqueue(t)
    BY <2>3, ProcFacts DEF Enqueue, WorkerPcs
  <2>4. CASE Recheck(t)
    BY <2>4, ProcFacts, NextNodeType DEF Recheck, WorkerPcs
  <2>5. CASE Finish(t)
    BY <2>5, ProcFacts DEF Finish, WorkerPcs
  <2>6. CASE EmitFree(t)
    <3>1. born + 1 \in Thread
      BY <2>6 DEF EmitFree, Thread
    <3>2. /\ flag' \in [Thread -> BOOLEAN]
          /\ age' \in [Thread -> Ages]
          /\ ready' \in SUBSET Thread
      BY <2>6, <3>1, ProcFacts DEF EmitFree, Emit
    <3>3. nodes' \in [Thread -> 0..Nodes]
      BY <2>6 DEF EmitFree
    <3>4. /\ pc' \in [Proc -> WorkerPcs \cup AdminPcs]
          /\ pc'[Admin] \in AdminPcs
          /\ \A u \in Thread : pc'[u] \in WorkerPcs
      BY <2>6, <3>1, ProcFacts, NextNodeType DEF EmitFree, WorkerPcs
    <3> QED
      BY <2>6, <3>1, <3>2, <3>3, <3>4 DEF EmitFree
  <2>7. CASE BeginIf(t)
    <3>1. PICK k \in 1..MaxSons :
            /\ born + k <= N
            /\ born' = born + k
            /\ kids' = [kids EXCEPT ![t] = (born + 1)..(born + k)]
      BY <2>7 DEF BeginIf
    <3>2. born' \in Thread /\ (born + 1)..(born + k) \subseteq Thread
      BY <3>1 DEF Thread
    <3>3. nodes' \in [Thread -> 0..Nodes]
      BY <2>7 DEF BeginIf
    <3>4. /\ pc' \in [Proc -> WorkerPcs \cup AdminPcs]
          /\ pc'[Admin] \in AdminPcs
          /\ \A u \in Thread : pc'[u] \in WorkerPcs
      BY <2>7, ProcFacts DEF BeginIf, WorkerPcs
    <3> QED
      BY <2>7, <3>1, <3>2, <3>3, <3>4 DEF BeginIf
  <2>8. CASE EmitSon(t)
    BY <2>8, ProcFacts DEF EmitSon, Emit, ArmsLeft, WorkerPcs
  <2>9. CASE Register(t)
    BY <2>9, ProcFacts DEF Register, WorkerPcs
  <2>10. CASE Park(t)
    BY <2>10, ProcFacts DEF Park, WorkerPcs
  <2>13. CASE Leave(t)
    BY <2>13, ProcFacts DEF Leave, WorkerPcs
  <2>14. CASE Unready(t)
    BY <2>14, ProcFacts DEF Unready, WorkerPcs
  <2>15. CASE Unwait(t)
    BY <2>15, ProcFacts DEF Unwait, WorkerPcs
  <2>16. CASE Back(t)
    BY <2>16, ProcFacts DEF Back, WorkerPcs
  <2>11. CASE Merge(t)
    BY <2>11, ProcFacts, NextNodeType DEF Merge, WorkerPcs
  <2>12. QED
    BY <1>7, <1>8, <1>10, <2>1, <2>2, <2>3, <2>4, <2>5, <2>6, <2>7, <2>8, <2>9,
       <2>10, <2>11, <2>13, <2>14, <2>15, <2>16, ProcFacts DEF Worker
<1>11. CASE UNCHANGED vars
  BY <1>11 DEF vars
<1>12. QED
  BY <1>1, <1>2, <1>3, <1>4, <1>5, <1>6, <1>7, <1>8, <1>9, <1>10, <1>11, ProcFacts
  DEF Next, AdminStep

\* Queues, table of sons, flags and program counters keep their types for
\* every number of threads, arms and nodes (manager.py, condition.py, opgen.py).
THEOREM TypeCorrect == Spec => []TypeOK
BY TypeInit, TypeStep, PTL DEF Spec

-----------------------------------------------------------------------------
(* The inductive invariant behind the join.                                *)

\* One thread runs, no if was met: the invariant holds trivially.
LEMMA JoinInit == Init => JoinInv
<1> SUFFICES ASSUME Init PROVE JoinInv
  OBVIOUS
<1>1. TypeOK
  BY TypeInit
<1>2. \A t \in Thread : kids[t] = {} /\ father[t] = 0 /\ pc[t] \in {"dispatch", "unborn"}
  BY ProcFacts DEF Init
<1>3. \A t \in Thread : t > born => pc[t] = "unborn"
  BY ProcFacts DEF Init, First, Thread
<1>4. running = {} /\ ready = {} /\ dead = {} /\ stopped = {} /\ pc[First] = "dispatch" /\ \A p \in Proc : got[p] = {}
  BY ProcFacts DEF Init
<1> QED
  BY <1>1, <1>2, <1>3, <1>4 DEF JoinInv, NamesAreFresh, QueuedAreBorn, SonIsKid,
     NoStaleSons, SonsAccounted, WokenRightly, BeforeCv, BeforeWake, AfterWake

\* A thread outside any if.
Outside == {"dispatch", "yield", "enqueue", "recheck", "fetch", "resume", "dead"}

\* A step that leaves the ifs alone keeps what the invariant says of them.
LEMMA OutsideIf ==
  ASSUME JoinInv, UNCHANGED <<forks, born>>,
         \A t \in Thread : \/ pc'[t] = pc[t]
                           \/ /\ pc[t] \in Outside \ {"dead"}
                              /\ pc'[t] \in Outside
  PROVE  /\ NamesAreFresh'
         /\ SonIsKid'
         /\ NoStaleSons'
         /\ SonsAccounted'
         /\ WokenRightly'
<1> USE DEF JoinInv, TypeOK, forks, Outside, BeforeCv, BeforeWake, AfterWake
<1>0. \A t \in Thread : kids[t] \subseteq Thread
  OBVIOUS
<1>1. NamesAreFresh'
  BY DEF NamesAreFresh
<1>2. SonIsKid'
  <2>a. \A t \in Thread : pc'[t] = "unborn" <=> pc[t] = "unborn"
    BY SMTT(15)
  <2> SUFFICES ASSUME NEW t \in Thread, pc'[t] = "register"
               PROVE  son'[t] \in kids'[t] /\ ~(pc'[son'[t]] = "unborn")
    BY DEF SonIsKid, ArmsLeft
  <2>1. pc[t] = "register"
    OBVIOUS
  <2>3. son'[t] = son[t] /\ kids'[t] = kids[t]
    OBVIOUS
  <2>2. son[t] \in kids[t] /\ pc[son[t]] # "unborn"
    BY <2>1 DEF SonIsKid, ArmsLeft
  <2> QED
    BY <1>0, <2>a, <2>2, <2>3
<1>3. NoStaleSons'
  <2> SUFFICES ASSUME NEW s \in Thread, father[s] # 0
               PROVE  s \in kids[father[s]] /\ pc'[father[s]] \in BeforeWake
    BY DEF NoStaleSons
  <2>1. father[s] \in Thread
    BY ProcFacts DEF Admin
  <2> QED
    BY <2>1 DEF NoStaleSons
<1>4. SonsAccounted'
  BY <1>0 DEF SonsAccounted
<1>5. WokenRightly'
  BY <1>0 DEF WokenRightly
<1> QED
  BY <1>1, <1>2, <1>3, <1>4, <1>5

\* Every step keeps JoinInv.
LEMMA JoinStep == JoinInv /\ [Next]_vars => JoinInv'
<1> SUFFICES ASSUME JoinInv, [Next]_vars PROVE JoinInv'
  OBVIOUS
<1>0. TypeOK'
  BY TypeStep DEF JoinInv
<1> USE ProcFacts DEF JoinInv, TypeOK, queues, forks, BeforeCv, BeforeWake, AfterWake, Outside
<1>n. \A t : NextNode(t) = "dispatch"
  BY DEF NextNode
<1>1. ASSUME NEW t \in Thread,
             Preempt(t) \/ Yield(t) \/ Recheck(t) \/ Finish(t)
      PROVE  JoinInv'
  <2>1. \/ pc' = [pc EXCEPT ![t] = "yield"]
        \/ pc' = [pc EXCEPT ![t] = "enqueue"]
        \/ pc' = [pc EXCEPT ![t] = "fetch"]
        \/ pc' = [pc EXCEPT ![t] = "dispatch"]
        \/ pc' = [pc EXCEPT ![t] = "dead"]
    BY <1>1, <1>n DEF Preempt, Yield, Recheck, Finish
  <2>2. /\ pc[t] \in Outside \ {"dead"}
        /\ UNCHANGED <<forks, born, stopped, ready, got, dead>>
        /\ running' \subseteq running
    BY <1>1 DEF Preempt, Yield, Recheck, Finish, AtNode
  <2>3. QueuedAreBorn'
    BY <2>1, <2>2 DEF QueuedAreBorn
  <2> QED
    BY <1>0, <2>1, <2>2, <2>3, OutsideIf
<1>2. ASSUME NEW t \in Thread, Enqueue(t)
      PROVE  JoinInv'
  <2>1. QueuedAreBorn'
    BY <1>2 DEF Enqueue, QueuedAreBorn
  <2> QED
    BY <1>0, <1>2, <2>1, OutsideIf DEF Enqueue
<1>3. ASSUME NEW p \in Proc, Fetch(p)
      PROVE  JoinInv'
  <2>1. \A B \in Batches : B \subseteq ready
    BY DEF Batches, Oldest
  <2>2. \E x \in {"resume", "dead", "crashed"} :
           pc' = [pc EXCEPT ![p] = x] /\ (p # Admin => x # "crashed")
    BY <1>3 DEF Fetch
  <2>3. QueuedAreBorn'
    <3>1. ready' \subseteq ready /\ \A q \in Proc : got'[q] \subseteq got[q] \cup ready
      BY <1>3, <2>1 DEF Fetch
    <3>2. UNCHANGED <<running, dead>>
      BY <1>3 DEF Fetch
    <3>3. \A u \in Thread : /\ pc[u] # "unborn" => pc'[u] # "unborn"
                            /\ pc[u] = "dead" => pc'[u] = "dead"
      BY <1>3, <2>2 DEF Fetch
    <3> QED
      BY <1>0, <3>1, <3>2, <3>3 DEF QueuedAreBorn
  <2>4. \A u \in Thread : \/ pc'[u] = pc[u]
                          \/ pc[u] = "fetch" /\ pc'[u] \in Outside
    BY <1>3, <2>2 DEF Fetch
  <2> QED
    BY <1>0, <1>3, <2>3, <2>4, OutsideIf DEF Fetch
<1>4. ASSUME NEW p \in Proc, Resume(p)
      PROVE  JoinInv'
  <2>1. pc[p] = "resume" /\ \E x \in {"checkRunning", "dispatch"} :
           pc' = [pc EXCEPT ![p] = x] /\ (p # Admin => x = "dispatch")
    BY <1>4, <1>n DEF Resume
  <2>2. QueuedAreBorn'
    <3>1. running' \subseteq running \cup got[p] /\ \A q \in Proc : got'[q] \subseteq got[q]
      BY <1>4 DEF Resume
    <3>2. UNCHANGED <<ready, dead>>
      BY <1>4 DEF Resume
    <3>3. \A u \in Thread : /\ pc[u] # "unborn" => pc'[u] # "unborn"
                            /\ pc[u] = "dead" => pc'[u] = "dead"
      BY <2>1
    <3> QED
      BY <1>0, <3>1, <3>2, <3>3 DEF QueuedAreBorn
  <2>3. \A u \in Thread : \/ pc'[u] = pc[u]
                          \/ pc[u] = "resume" /\ pc'[u] \in Outside
    BY <2>1
  <2> QED
    BY <1>0, <1>4, <2>2, <2>3, OutsideIf DEF Resume
<1>5. CASE AdminStart \/ AllHandled \/ CheckRunning \/ CheckReady \/ Final
  <2>1. /\ UNCHANGED <<forks, born, stopped, ready, got, dead>>
        /\ running' = running \/ running' = running \cup {First}
        /\ \A u \in Thread : pc'[u] = pc[u]
    BY <1>5 DEF AdminStart, AllHandled, CheckRunning, CheckReady, Final
  <2>2. pc[First] # "unborn"
    BY DEF QueuedAreBorn
  <2>3. QueuedAreBorn'
    BY <2>1, <2>2 DEF QueuedAreBorn
  <2> QED
    BY <1>0, <2>1, <2>3, OutsideIf
<1>6. CASE Reap
  <2>1. /\ UNCHANGED <<forks, born, stopped, ready, got>>
        /\ running' \subseteq running
        /\ dead' \subseteq {t \in running : ~Alive(t)}
        /\ \A u \in Thread : pc'[u] = pc[u]
    BY <1>6 DEF Reap
  <2>2. \A t \in running : ~Alive(t) => pc[t] = "dead"
    BY DEF Alive, QueuedAreBorn
  <2>3. QueuedAreBorn'
    BY <2>1, <2>2 DEF QueuedAreBorn
  <2> QED
    BY <1>0, <2>1, <2>3, OutsideIf
<1>7. ASSUME NEW t \in Thread, EmitFree(t)
      PROVE  JoinInv'
  <2>1. /\ pc[t] = "dispatch" /\ born < N /\ born' = born + 1
        /\ pc' = [pc EXCEPT ![born + 1] = "dispatch", ![t] = "dispatch"]
        /\ ready' = ready \cup {born + 1}
        /\ UNCHANGED <<forks, stopped, running, got, dead>>
    BY <1>7, <1>n DEF EmitFree, Emit, AtNode
  <2>2. born + 1 \in Thread /\ pc[born + 1] = "unborn" /\ t # born + 1
    BY <2>1 DEF NamesAreFresh, Thread
  <2>3. \A u \in Thread : born + 1 \notin kids[u]
    BY DEF NamesAreFresh, Thread
  <2>4. \A u \in Thread : pc'[u] = IF u = born + 1 THEN "dispatch" ELSE pc[u]
    BY <2>1, <2>2
  <2>5. NamesAreFresh'
    <3>1. 1..born \subseteq 1..born'
      BY <2>1 DEF Thread
    <3>2. \A u \in Thread : u > born' => u > born /\ u # born + 1
      BY <2>1 DEF Thread
    <3> QED
      BY <2>1, <2>2, <2>3, <2>4, <3>1, <3>2 DEF NamesAreFresh
  <2>6. QueuedAreBorn'
    BY <2>1, <2>2, <2>4 DEF QueuedAreBorn
  <2>7. SonIsKid'
    <3> SUFFICES ASSUME NEW u \in Thread, pc'[u] = "register"
                 PROVE  son[u] \in kids[u] /\ pc'[son[u]] # "unborn"
      BY <2>1 DEF SonIsKid, ArmsLeft
    <3>1. pc[u] = "register"
      BY <2>2, <2>4
    <3>2. son[u] \in kids[u] /\ son[u] \in Thread /\ pc[son[u]] # "unborn"
      BY <3>1 DEF SonIsKid, ArmsLeft
    <3> QED
      BY <2>2, <2>4, <3>2
  <2>8. NoStaleSons'
    <3> SUFFICES ASSUME NEW s \in Thread, father[s] # 0
                 PROVE  s \in kids[father[s]] /\ pc'[father[s]] \in BeforeWake
      BY <2>1 DEF NoStaleSons
    <3>1. father[s] \in Thread
      BY DEF Admin
    <3> QED
      BY <2>2, <2>4, <3>1 DEF NoStaleSons
  <2>9. SonsAccounted'
    BY <2>1, <2>2, <2>3, <2>4 DEF SonsAccounted
  <2>10. WokenRightly'
    BY <2>1, <2>2, <2>3, <2>4 DEF WokenRightly
  <2> QED
    BY <1>0, <2>1, <2>5, <2>6, <2>7, <2>8, <2>9, <2>10
<1>8. ASSUME NEW t \in Thread, BeginIf(t)
      PROVE  JoinInv'
  <2>1. PICK k \in 1..MaxSons :
          /\ born + k <= N
          /\ born' = born + k
          /\ kids' = [kids EXCEPT ![t] = (born + 1)..(born + k)]
    BY <1>8 DEF BeginIf
  <2>2. /\ pc[t] = "dispatch"
        /\ pc' = [pc EXCEPT ![t] = "emit"]
        /\ UNCHANGED <<stopped, queues, father, son, got, dead>>
    BY <1>8 DEF BeginIf, AtNode
  <2>3. \A s \in kids'[t] : s \in Thread /\ s > born /\ pc[s] = "unborn"
    BY <2>1 DEF NamesAreFresh, Thread
  <2>4. \A s \in kids'[t] : s # t /\ \A u \in Thread \ {t} : s \notin kids[u]
    BY <2>1, <2>2, <2>3 DEF NamesAreFresh, Thread
  <2>5. NamesAreFresh'
    <3>1. 1..born \subseteq 1..born' /\ kids'[t] \subseteq 1..born'
      BY <2>1 DEF Thread
    <3>2. \A u \in Thread : u > born' => u > born
      BY <2>1 DEF Thread
    <3>3. \A u \in Thread : kids'[u] \subseteq 1..born'
      BY <2>1, <3>1 DEF NamesAreFresh
    <3>4. \A u \in Thread : u > born' => pc'[u] = "unborn"
      BY <2>2, <3>2 DEF NamesAreFresh
    <3>5. \A u, v \in Thread : u # v => kids'[u] \cap kids'[v] = {}
      BY <2>1, <2>4, SMTT(30) DEF NamesAreFresh
    <3>6. \A u \in Thread : pc'[u] \notin BeforeWake \cup AfterWake => kids'[u] = {}
      BY <2>1, <2>2 DEF NamesAreFresh
    <3> QED
      BY <3>3, <3>4, <3>5, <3>6 DEF NamesAreFresh
  <2>6. QueuedAreBorn'
    BY <2>2 DEF QueuedAreBorn
  <2>7. SonIsKid'
    BY <2>1, <2>2 DEF SonIsKid, ArmsLeft
  <2>8. NoStaleSons'
    <3> SUFFICES ASSUME NEW s \in Thread, father[s] # 0
                 PROVE  s \in kids'[father[s]] /\ pc'[father[s]] \in BeforeWake
      BY <2>2 DEF NoStaleSons
    <3>1. father[s] \in Thread
      BY DEF Admin
    <3>2. father[s] # t
      BY <2>2 DEF NoStaleSons
    <3> QED
      BY <2>1, <2>2, <3>1, <3>2 DEF NoStaleSons
  <2>9. SonsAccounted'
    <3> SUFFICES ASSUME Policy = 2, NEW u \in Thread, pc'[u] \in BeforeWake, NEW s \in kids'[u]
                 PROVE  \/ pc'[s] = "unborn" /\ pc'[u] \in {"emit", "register"}
                        \/ pc'[u] = "register" /\ son'[u] = s
                        \/ father'[s] = u
                        \/ pc'[s] = "dead"
      BY DEF SonsAccounted
    <3>1. CASE u = t
      BY <2>2, <2>3, <2>4, <3>1
    <3>2. CASE u # t
      <4>1. s \in kids[u] /\ pc[u] \in BeforeWake /\ s \in Thread
        BY <2>1, <2>2, <3>2
      <4>2. s # t => pc'[s] = pc[s]
        BY <2>2, <4>1
      <4>3. pc'[u] = pc[u]
        BY <2>2, <3>2
      <4> QED
        BY <2>2, <4>1, <4>2, <4>3 DEF SonsAccounted
    <3> QED
      BY <3>1, <3>2
  <2>10. WokenRightly'
    BY <2>1, <2>2, SMTT(30) DEF WokenRightly
  <2> QED
    BY <1>0, <2>2, <2>5, <2>6, <2>7, <2>8, <2>9, <2>10
<1>9. ASSUME NEW t \in Thread, EmitSon(t)
      PROVE  JoinInv'
  <2>1. PICK s \in ArmsLeft(t) :
          /\ ready' = ready \cup {s}
          /\ son' = [son EXCEPT ![t] = s]
          /\ pc' = [pc EXCEPT ![s] = "dispatch", ![t] = "register"]
    BY <1>9 DEF EmitSon, Emit
  <2>2. /\ pc[t] = "emit"
        /\ UNCHANGED <<stopped, running, waiting, father, kids, got, born, dead>>
    BY <1>9 DEF EmitSon
  <2>3. s \in Thread /\ s \in kids[t] /\ pc[s] = "unborn" /\ s # t
    BY <2>1, <2>2 DEF ArmsLeft
  <2>4. \A u \in Thread : pc'[u] = IF u = t THEN "register"
                                   ELSE IF u = s THEN "dispatch" ELSE pc[u]
    BY <2>1, <2>3
  <2>5. s <= born
    BY <2>3 DEF NamesAreFresh, Thread
  <2>6. NamesAreFresh'
    <3>1. \A u \in Thread : u > born => u # s /\ u # t
      BY <2>2, <2>5 DEF NamesAreFresh, Thread
    <3>2. \A u \in Thread : u > born => pc'[u] = "unborn"
      BY <2>4, <3>1 DEF NamesAreFresh
    <3>3. \A u \in Thread : pc'[u] \notin BeforeWake \cup AfterWake => kids[u] = {}
      <4>1. kids[s] = {}
        BY <2>3 DEF NamesAreFresh
      <4> QED
        BY <2>4, <4>1 DEF NamesAreFresh
    <3> QED
      BY <2>2, <3>2, <3>3 DEF NamesAreFresh
  <2>7. QueuedAreBorn'
    BY <2>1, <2>2, <2>3, <2>4 DEF QueuedAreBorn
  <2>8. SonIsKid'
    <3> SUFFICES ASSUME NEW u \in Thread, pc'[u] = "register"
                 PROVE  son'[u] \in kids[u] /\ pc'[son'[u]] # "unborn"
      BY <2>2 DEF SonIsKid, ArmsLeft
    <3>1. CASE u = t
      BY <2>1, <2>3, <2>4, <3>1
    <3>2. CASE u # t
      <4>1. pc[u] = "register" /\ son'[u] = son[u]
        BY <2>1, <2>3, <2>4, <3>2
      <4>2. son[u] \in kids[u] /\ son[u] \in Thread /\ pc[son[u]] # "unborn"
        BY <4>1 DEF SonIsKid, ArmsLeft
      <4> QED
        BY <2>4, <4>1, <4>2
    <3> QED
      BY <3>1, <3>2
  <2>9. NoStaleSons'
    <3> SUFFICES ASSUME NEW r \in Thread, father[r] # 0
                 PROVE  r \in kids[father[r]] /\ pc'[father[r]] \in BeforeWake
      BY <2>2 DEF NoStaleSons
    <3>1. father[r] \in Thread
      BY DEF Admin
    <3> QED
      BY <2>3, <2>4, <3>1 DEF NoStaleSons
  <2>10. SonsAccounted'
    <3> SUFFICES ASSUME Policy = 2, NEW u \in Thread, pc'[u] \in BeforeWake, NEW r \in kids[u]
                 PROVE  \/ pc'[r] = "unborn" /\ pc'[u] \in {"emit", "register"}
                        \/ pc'[u] = "register" /\ son'[u] = r
                        \/ father[r] = u
                        \/ pc'[r] = "dead"
      BY <2>2 DEF SonsAccounted
    <3>1. r \in Thread /\ pc[u] \in BeforeWake
      BY <2>2, <2>3, <2>4
    <3>2. CASE u = t
      BY <2>1, <2>2, <2>3, <2>4, <3>1, <3>2 DEF SonsAccounted
    <3>3. CASE u # t
      <4>1. r # s
        BY <2>3, <3>3 DEF NamesAreFresh
      <4>2. son'[u] = son[u] /\ pc'[u] = pc[u]
        BY <2>1, <2>3, <2>4, <3>1, <3>3
      <4>3. r # t => pc'[r] = pc[r]
        BY <2>4, <3>1, <4>1
      <4> QED
        BY <2>2, <2>4, <3>1, <4>2, <4>3 DEF SonsAccounted
    <3> QED
      BY <3>2, <3>3
  <2>11. WokenRightly'
    BY <2>2, <2>3, <2>4 DEF WokenRightly
  <2> QED
    BY <1>0, <2>2, <2>6, <2>7, <2>8, <2>9, <2>10, <2>11
<1>10. ASSUME NEW t \in Thread, Register(t)
       PROVE  JoinInv'
  <2>1. /\ pc[t] = "register"
        /\ father' = [father EXCEPT ![son[t]] = t]
        /\ UNCHANGED <<stopped, queues, kids, son, got, born, dead>>
    BY <1>10 DEF Register
  <2>2. /\ ArmsLeft(t) # {} => pc' = [pc EXCEPT ![t] = "emit"]
        /\ ArmsLeft(t) = {} => pc' = [pc EXCEPT ![t] = "park"]
    BY <1>10 DEF Register
  <2>3. son[t] \in kids[t] /\ son[t] \in Thread /\ pc[son[t]] # "unborn"
    BY <2>1 DEF SonIsKid, ArmsLeft
  <2>4. \A u \in Thread : u # t => pc'[u] = pc[u]
    BY <2>2
  <2>5. pc'[t] \in {"emit", "park"}
    BY <2>2
  <2>6. NamesAreFresh'
    BY <2>1, <2>4, <2>5 DEF NamesAreFresh
  <2>7. QueuedAreBorn'
    BY <2>1, <2>4, <2>5 DEF QueuedAreBorn
  <2>8. SonIsKid'
    <3> SUFFICES ASSUME NEW u \in Thread, pc'[u] = "register"
                 PROVE  son[u] \in kids[u] /\ pc'[son[u]] # "unborn"
      BY <2>1 DEF SonIsKid, ArmsLeft
    <3>1. pc[u] = "register"
      BY <2>4, <2>5
    <3>2. son[u] \in kids[u] /\ son[u] \in Thread /\ pc[son[u]] # "unborn"
      BY <3>1 DEF SonIsKid, ArmsLeft
    <3> QED
      BY <2>4, <2>5, <3>2
  <2>9. NoStaleSons'
    <3> SUFFICES ASSUME NEW s \in Thread, father'[s] # 0
                 PROVE  s \in kids[father'[s]] /\ pc'[father'[s]] \in BeforeWake
      BY <2>1 DEF NoStaleSons
    <3>1. CASE s = son[t]
      BY <2>1, <2>3, <2>5, <3>1
    <3>2. CASE s # son[t]
      <4>1. father'[s] = father[s] /\ father[s] \in Thread
        BY <2>1, <3>2 DEF Admin
      <4> QED
        BY <2>4, <2>5, <4>1 DEF NoStaleSons
    <3> QED
      BY <3>1, <3>2
  <2>10. SonsAccounted'
    <3> SUFFICES ASSUME Policy = 2, NEW u \in Thread, pc'[u] \in BeforeWake, NEW r \in kids[u]
                 PROVE  \/ pc'[r] = "unborn" /\ pc'[u] \in {"emit", "register"}
                        \/ pc'[u] = "register" /\ son[u] = r
                        \/ father'[r] = u
                        \/ pc'[r] = "dead"
      BY <2>1 DEF SonsAccounted
    <3>1. r \in Thread /\ pc[u] \in BeforeWake
      BY <2>1, <2>4
    <3>2. CASE u = t
      <4>1. r = son[t] => father'[r] = u
        BY <2>1, <2>3, <3>2
      <4>2. r # son[t] => father'[r] = father[r]
        BY <2>1, <2>3, <3>1
      <4>3. r # t => pc'[r] = pc[r]
        BY <2>4, <3>1
      <4>4. pc[r] = "unborn" => pc'[t] = "emit"
        BY <2>2, <3>1, <3>2 DEF ArmsLeft
      <4> QED
        BY <2>1, <3>1, <3>2, <4>1, <4>2, <4>3, <4>4 DEF SonsAccounted
    <3>3. CASE u # t
      <4>1. r # son[t]
        BY <2>3, <3>3 DEF NamesAreFresh
      <4>2. father'[r] = father[r]
        BY <2>1, <2>3, <3>1, <4>1
      <4>3. pc'[u] = pc[u] /\ (r # t => pc'[r] = pc[r])
        BY <2>4, <3>1, <3>3
      <4> QED
        BY <2>1, <3>1, <4>2, <4>3 DEF SonsAccounted
    <3> QED
      BY <3>2, <3>3
  <2>11. WokenRightly'
    BY <2>1, <2>4, <2>5 DEF WokenRightly
  <2> QED
    BY <1>0, <2>1, <2>6, <2>7, <2>8, <2>9, <2>10, <2>11
<1>11. ASSUME NEW t \in Thread, Park(t) \/ Leave(t) \/ Unready(t) \/ Unwait(t) \/ Back(t)
       PROVE  JoinInv'
  <2>1. /\ UNCHANGED <<stopped, forks, got, born, dead>>
        /\ ready' \subseteq ready
        /\ running' \subseteq running \cup {t}
    BY <1>11 DEF Park, Leave, Unready, Unwait, Back
  <2>2. \/ pc[t] \in {"park", "leave", "unready"} /\ \E x \in {"leave", "unready", "wait"} :
                                                        pc' = [pc EXCEPT ![t] = x]
        \/ pc[t] \in {"woken", "back"} /\ \E x \in {"back", "merge"} : pc' = [pc EXCEPT ![t] = x]
    BY <1>11 DEF Park, Leave, Unready, Unwait, Back
  <2>3. \A u \in Thread : u # t => pc'[u] = pc[u]
    BY <2>2
  <2>4. \/ /\ pc[t] \in {"park", "leave", "unready"}
           /\ pc'[t] \in {"leave", "unready", "wait"}
        \/ pc[t] \in {"woken", "back"} /\ pc'[t] \in {"back", "merge"}
    BY <2>2
  <2>5. NamesAreFresh'
    BY <2>1, <2>3, <2>4 DEF NamesAreFresh
  <2>6. QueuedAreBorn'
    BY <2>1, <2>3, <2>4 DEF QueuedAreBorn
  <2>7. SonIsKid'
    <3> SUFFICES ASSUME NEW u \in Thread, pc'[u] = "register"
                 PROVE  son[u] \in kids[u] /\ pc'[son[u]] # "unborn"
      BY <2>1 DEF SonIsKid, ArmsLeft
    <3>1. pc[u] = "register"
      BY <2>3, <2>4
    <3>2. son[u] \in kids[u] /\ son[u] \in Thread /\ pc[son[u]] # "unborn"
      BY <3>1 DEF SonIsKid, ArmsLeft
    <3> QED
      BY <2>3, <2>4, <3>2
  <2>8. NoStaleSons'
    <3> SUFFICES ASSUME NEW s \in Thread, father[s] # 0
                 PROVE  s \in kids[father[s]] /\ pc'[father[s]] \in BeforeWake
      BY <2>1 DEF NoStaleSons
    <3>1. father[s] \in Thread
      BY DEF Admin
    <3> QED
      BY <2>3, <2>4, <3>1 DEF NoStaleSons
  <2>9. SonsAccounted'
    <3> SUFFICES ASSUME Policy = 2, NEW u \in Thread, pc'[u] \in BeforeWake, NEW r \in kids[u]
                 PROVE  \/ pc'[r] = "unborn" /\ pc'[u] \in {"emit", "register"}
                        \/ pc'[u] = "register" /\ son[u] = r
                        \/ father[r] = u
                        \/ pc'[r] = "dead"
      BY <2>1 DEF SonsAccounted
    <3>1. r \in Thread /\ pc[u] \in BeforeWake
      BY <2>3, <2>4
    <3>2. pc[r] \in {"unborn", "dead"} => pc'[r] = pc[r]
      BY <2>3, <2>4, <3>1
    <3>3. pc[u] \in {"emit", "register"} => pc'[u] = pc[u]
      BY <2>3, <2>4
    <3> QED
      BY <3>1, <3>2, <3>3 DEF SonsAccounted
  <2>10. WokenRightly'
    <3> SUFFICES ASSUME NEW u \in Thread, pc'[u] \in AfterWake
                 PROVE  /\ \E s \in kids[u] : pc'[s] = "dead"
                        /\ Policy = 2 => \A s \in kids[u] : pc'[s] = "dead"
      BY <2>1 DEF WokenRightly
    <3>1. pc[u] \in AfterWake
      BY <2>3, <2>4
    <3>2. \A s \in kids[u] : s \in Thread /\ (pc[s] = "dead" => pc'[s] = "dead")
      BY <2>3, <2>4
    <3> QED
      BY <3>1, <3>2 DEF WokenRightly
  <2> QED
    BY <1>0, <2>1, <2>5, <2>6, <2>7, <2>8, <2>9, <2>10
<1>12. ASSUME NEW t \in Thread, Merge(t)
       PROVE  JoinInv'
  <2>1. /\ pc[t] = "merge"
        /\ pc' = [pc EXCEPT ![t] = "dispatch"]
        /\ kids' = [kids EXCEPT ![t] = {}]
        /\ UNCHANGED <<stopped, queues, father, son, got, born, dead>>
    BY <1>12, <1>n DEF Merge
  <2>2. \A u \in Thread : u # t => pc'[u] = pc[u] /\ kids'[u] = kids[u]
    BY <2>1
  <2>3. pc'[t] = "dispatch" /\ kids'[t] = {}
    BY <2>1
  <2>4. NamesAreFresh'
    BY <2>1, <2>2, <2>3 DEF NamesAreFresh
  <2>5. QueuedAreBorn'
    BY <2>1, <2>2, <2>3 DEF QueuedAreBorn
  <2>6. SonIsKid'
    <3> SUFFICES ASSUME NEW u \in Thread, pc'[u] = "register"
                 PROVE  son[u] \in kids'[u] /\ pc'[son[u]] # "unborn"
      BY <2>1 DEF SonIsKid, ArmsLeft
    <3>1. u # t /\ pc[u] = "register"
      BY <2>2, <2>3
    <3>2. son[u] \in kids[u] /\ son[u] \in Thread /\ pc[son[u]] # "unborn"
      BY <3>1 DEF SonIsKid, ArmsLeft
    <3> QED
      BY <2>2, <2>3, <3>1, <3>2
  <2>7. NoStaleSons'
    <3> SUFFICES ASSUME NEW s \in Thread, father[s] # 0
                 PROVE  s \in kids'[father[s]] /\ pc'[father[s]] \in BeforeWake
      BY <2>1 DEF NoStaleSons
    <3>1. father[s] \in Thread
      BY DEF Admin
    <3>2. father[s] # t
      BY <2>1 DEF NoStaleSons
    <3> QED
      BY <2>2, <3>1, <3>2 DEF NoStaleSons
  <2>8. SonsAccounted'
    <3> SUFFICES ASSUME Policy = 2, NEW u \in Thread, pc'[u] \in BeforeWake, NEW r \in kids'[u]
                 PROVE  \/ pc'[r] = "unborn" /\ pc'[u] \in {"emit", "register"}
                        \/ pc'[u] = "register" /\ son[u] = r
                        \/ father[r] = u
                        \/ pc'[r] = "dead"
      BY <2>1 DEF SonsAccounted
    <3>1. u # t /\ pc'[u] = pc[u] /\ r \in kids[u] /\ r \in Thread
      BY <2>2, <2>3
    <3>2. pc[r] \in {"unborn", "dead"} => pc'[r] = pc[r]
      BY <2>1, <2>2, <3>1
    <3> QED
      BY <3>1, <3>2 DEF SonsAccounted
  <2>9. WokenRightly'
    <3> SUFFICES ASSUME NEW u \in Thread, pc'[u] \in AfterWake
                 PROVE  /\ \E s \in kids'[u] : pc'[s] = "dead"
                        /\ Policy = 2 => \A s \in kids'[u] : pc'[s] = "dead"
      BY DEF WokenRightly
    <3>1. u # t /\ pc[u] \in AfterWake /\ kids'[u] = kids[u]
      BY <2>2, <2>3
    <3>2. \A s \in kids[u] : s \in Thread /\ (pc[s] = "dead" => pc'[s] = "dead")
      BY <2>1, <2>2
    <3> QED
      BY <3>1, <3>2 DEF WokenRightly
  <2> QED
    BY <1>0, <2>1, <2>4, <2>5, <2>6, <2>7, <2>8, <2>9
<1>13. ASSUME NEW t \in Thread, HandleDead(t)
       PROVE  JoinInv'
  <2>1. /\ t \in dead
        /\ dead' \subseteq dead
        /\ UNCHANGED <<stopped, queues, kids, son, got, born>>
        /\ pc[t] = "dead"
    BY <1>13 DEF HandleDead, QueuedAreBorn
  <2>2. CASE UNCHANGED <<pc, father>>
    <3>1. QueuedAreBorn'
      BY <2>1, <2>2 DEF QueuedAreBorn
    <3> QED
      BY <1>0, <2>1, <2>2, <3>1, OutsideIf
  <2>3. ASSUME NEW f \in Thread, NotifyFather(t, f)
        PROVE  JoinInv'
    <3>0. f # 0
      BY DEF Thread
    <3>1. father[t] = f /\ t \in kids[f]
      <4>1. father[t] = f
        BY <2>3 DEF NotifyFather
      <4> QED
        BY <3>0, <4>1 DEF NoStaleSons
    <3>2. \A u \in Thread : \/ pc'[u] = pc[u]
                            \/ u = f /\ pc[u] = "wait" /\ pc'[u] = "woken"
      BY <2>3 DEF NotifyFather, Notify
    <3>3. \A s \in Thread : \/ father'[s] = father[s]
                            \/ father[s] = f /\ father'[s] = 0
      BY <2>3, <3>1 DEF NotifyFather
    <3>4. pc'[f] # pc[f] => \A s \in Thread : father'[s] # f
      <4>1. CASE Policy = 1
        <5>1. father' = [s \in Thread |-> IF father[s] = f THEN 0 ELSE father[s]]
          BY <2>3, <4>1 DEF NotifyFather
        <5> QED
          BY <3>0, <5>1
      <4>2. CASE Policy = 2
        <5> SUFFICES ASSUME pc'[f] # pc[f], NEW s \in Thread PROVE father'[s] # f
          OBVIOUS
        <5>1. SonsOf(f) = {t} /\ father' = [father EXCEPT ![t] = 0]
          BY <2>3, <4>2 DEF NotifyFather
        <5>2. father[s] = f => s = t
          BY <5>1 DEF SonsOf
        <5>3. father'[t] = 0
          BY <5>1
        <5>4. s # t => father'[s] = father[s]
          BY <5>1
        <5> QED
          BY <3>0, <5>2, <5>3, <5>4
      <4> QED
        BY <4>1, <4>2
    <3>5. NamesAreFresh'
      BY <2>1, <3>2 DEF NamesAreFresh
    <3>6. QueuedAreBorn'
      BY <2>1, <3>2 DEF QueuedAreBorn
    <3>7. SonIsKid'
      <4> SUFFICES ASSUME NEW u \in Thread, pc'[u] = "register"
                   PROVE  son[u] \in kids[u] /\ pc'[son[u]] # "unborn"
        BY <2>1 DEF SonIsKid, ArmsLeft
      <4>1. pc[u] = "register"
        BY <3>2
      <4>2. son[u] \in kids[u] /\ son[u] \in Thread /\ pc[son[u]] # "unborn"
        BY <4>1 DEF SonIsKid, ArmsLeft
      <4> QED
        BY <3>2, <4>2
    <3>8. NoStaleSons'
      <4> SUFFICES ASSUME NEW s \in Thread, father'[s] # 0
                   PROVE  s \in kids[father'[s]] /\ pc'[father'[s]] \in BeforeWake
        BY <2>1 DEF NoStaleSons
      <4>1. father'[s] = father[s] /\ father[s] \in Thread
        BY <3>3 DEF Admin
      <4>2. s \in kids[father[s]] /\ pc[father[s]] \in BeforeWake
        BY <4>1 DEF NoStaleSons, Thread
      <4> QED
        BY <3>2, <3>4, <4>1, <4>2
    <3>9. SonsAccounted'
      <4> SUFFICES ASSUME Policy = 2, NEW u \in Thread, pc'[u] \in BeforeWake, NEW r \in kids[u]
                   PROVE  \/ pc'[r] = "unborn" /\ pc'[u] \in {"emit", "register"}
                          \/ pc'[u] = "register" /\ son[u] = r
                          \/ father'[r] = u
                          \/ pc'[r] = "dead"
        BY <2>1 DEF SonsAccounted
      <4>1. pc'[u] = pc[u] /\ r \in Thread
        BY <3>2
      <4>2. pc[r] \in {"unborn", "dead"} => pc'[r] = pc[r]
        BY <3>2, <4>1
      <4>3. father'[r] = father[r] \/ r = t
        BY <2>3, <4>1 DEF NotifyFather
      <4> QED
        BY <2>1, <4>1, <4>2, <4>3 DEF SonsAccounted
    <3>10. WokenRightly'
      <4> SUFFICES ASSUME NEW u \in Thread, pc'[u] \in AfterWake
                   PROVE  /\ \E s \in kids[u] : pc'[s] = "dead"
                          /\ Policy = 2 => \A s \in kids[u] : pc'[s] = "dead"
        BY <2>1 DEF WokenRightly
      <4>1. \A s \in kids[u] : s \in Thread /\ (pc[s] = "dead" => pc'[s] = "dead")
        BY <3>2
      <4>2. CASE pc[u] \in AfterWake
        BY <4>1, <4>2 DEF WokenRightly
      <4>3. CASE u = f /\ pc[f] = "wait" /\ pc'[f] = "woken"
        <5>1. Policy = 2 => SonsOf(f) = {t}
          BY <2>3, <4>3 DEF NotifyFather
        <5>2. Policy = 2 => \A s \in kids[f] : pc[s] = "dead"
          BY <2>1, <4>1, <4>3, <5>1 DEF SonsAccounted, SonsOf
        <5> QED
          BY <2>1, <3>1, <4>1, <4>3, <5>2
      <4> QED
        BY <3>2, <4>2, <4>3
    <3> QED
      BY <1>0, <2>1, <3>5, <3>6, <3>7, <3>8, <3>9, <3>10
  <2> QED
    BY <1>13, <2>2, <2>3 DEF HandleDead
<1>14. CASE UNCHANGED vars
  <2>1. QueuedAreBorn'
    BY <1>14 DEF vars, QueuedAreBorn
  <2> QED
    BY <1>0, <1>14, <2>1, OutsideIf DEF vars
<1> QED
  BY <1>1, <1>2, <1>3, <1>4, <1>5, <1>6, <1>7, <1>8, <1>9, <1>10, <1>11, <1>12,
     <1>13, <1>14
  DEF Next, AdminStep, Worker

\* Throughout HandleIf.process and the notifications of admin_threads, every
\* son of an if is accounted for until its father is woken rightly.
THEOREM JoinInvariant == Spec => []JoinInv
BY JoinInit, JoinStep, PTL DEF Spec

\* Whatever order threads, emitters and the main thread take, the table of
\* sons holds only sons of the if their father is at, and is empty of them
\* once the father was woken.
THEOREM StaleSonsNever == Spec => []NoStaleSons
<1>1. JoinInv => NoStaleSons
  BY DEF JoinInv
<1> QED
  BY <1>1, JoinInvariant, PTL

-----------------------------------------------------------------------------
(* The scheduler implements ForkJoin.                                      *)

StageOf == [t \in Thread |-> Stage(t)]
SonsMap == [t \in Thread |-> {s \in kids[t] : pc[s] # "unborn"}]

\* What a thread's place in the code says of its stage.
LEMMA StageCases ==
  \A t \in Thread :
    /\ pc[t] = "unborn" => Stage(t) = "idle"
    /\ pc[t] = "dead" => Stage(t) = "ended"
    /\ pc[t] \in BeforeWake \cup AfterWake => Stage(t) = "joining"
    /\ pc[t] \in Outside \ {"dead"} => Stage(t) = "active"
BY DEF Stage, BeforeCv, BeforeWake, AfterWake, Outside

\* The same after a step.
LEMMA StageCasesNext ==
  \A t \in Thread :
    /\ pc'[t] = "unborn" => Stage(t)' = "idle"
    /\ pc'[t] = "dead" => Stage(t)' = "ended"
    /\ pc'[t] \in BeforeWake \cup AfterWake => Stage(t)' = "joining"
    /\ pc'[t] \in Outside \ {"dead"} => Stage(t)' = "active"
BY DEF Stage, BeforeCv, BeforeWake, AfterWake, Outside

\* A step that starts no thread and moves none between stages is a stutter.
LEMMA SameStages ==
  ASSUME JoinInv, UNCHANGED kids,
         \A t \in Thread : \/ pc'[t] = pc[t]
                           \/ /\ pc[t] \in Outside \ {"dead"}
                              /\ pc'[t] \in Outside \ {"dead"}
                           \/ /\ pc[t] \in BeforeWake \cup AfterWake
                              /\ pc'[t] \in BeforeWake \cup AfterWake
  PROVE  StageOf' = StageOf /\ SonsMap' = SonsMap
<1>1. \A t \in Thread : Stage(t)' = Stage(t)
  BY StageCases, StageCasesNext DEF Stage
<1>2. \A t \in Thread : pc'[t] = "unborn" <=> pc[t] = "unborn"
  BY DEF Outside, BeforeCv, BeforeWake, AfterWake
<1>3. \A t \in Thread : kids[t] \subseteq Thread
  BY DEF JoinInv, TypeOK
<1>4. StageOf' = StageOf
  BY <1>1 DEF StageOf
<1>5. SonsMap' = SonsMap
  BY <1>2, <1>3 DEF SonsMap
<1> QED
  BY <1>4, <1>5

\* A thread outside any if ends.
LEMMA EndStep ==
  ASSUME JoinInv, UNCHANGED kids, NEW t \in Thread,
         pc[t] \in Outside \ {"dead"}, pc' = [pc EXCEPT ![t] = "dead"]
  PROVE  FJ!End(t)
<1> USE DEF JoinInv, TypeOK
<1>1. \A u \in Thread : pc'[u] = IF u = t THEN "dead" ELSE pc[u]
  BY ProcFacts
<1>2. \A u \in Thread : Stage(u)' = IF u = t THEN "ended" ELSE Stage(u)
  BY <1>1 DEF Stage
<1>3. StageOf[t] = "active" /\ StageOf' = [StageOf EXCEPT ![t] = "ended"]
  BY <1>2, StageCases DEF StageOf
<1>4. \A u \in Thread : kids[u] \subseteq Thread
  OBVIOUS
<1>5. SonsMap' = SonsMap
  BY <1>1, <1>4 DEF SonsMap, Outside
<1> QED
  BY <1>3, <1>5 DEF FJ!End, StageOf, SonsMap

\* Every step of the scheduler is a step of ForkJoin or leaves it alone.
LEMMA JoinSimulation ==
  JoinInv /\ [Next]_vars => [FJ!FJNext]_(FJ!fjVars)
<1> SUFFICES ASSUME JoinInv, [Next]_vars
             PROVE  FJ!FJNext \/ (StageOf' = StageOf /\ SonsMap' = SonsMap)
  BY DEF FJ!fjVars, StageOf, SonsMap
<1> USE ProcFacts DEF queues, forks
<1>t. TypeOK
  BY DEF JoinInv
<1>n. \A t : NextNode(t) = "dispatch"
  BY DEF NextNode, JoinInv
<1>k. \A u \in Thread : kids[u] \subseteq Thread
  BY <1>t DEF TypeOK
<1>1. ASSUME NEW t \in Thread,
             \/ Preempt(t) \/ Yield(t) \/ Enqueue(t) \/ Recheck(t)
             \/ Register(t) \/ Park(t) \/ Leave(t) \/ Unready(t)
             \/ Unwait(t) \/ Back(t)
      PROVE  StageOf' = StageOf /\ SonsMap' = SonsMap
  <2>1. UNCHANGED kids /\ \A u \in Thread : u # t => pc'[u] = pc[u]
    <3>1. UNCHANGED kids
      BY <1>1 DEF Preempt, Yield, Enqueue, Recheck, Register, Park, Leave, Unready, Unwait, Back
    <3>2. \E x : pc' = [pc EXCEPT ![t] = x]
      BY <1>1 DEF Preempt, Yield, Enqueue, Recheck, Register, Park, Leave, Unready, Unwait, Back
    <3> QED
      BY <1>t, <3>1, <3>2 DEF TypeOK
  <2>2. CASE Preempt(t) \/ Yield(t) \/ Enqueue(t) \/ Recheck(t)
    <3>1. /\ pc[t] \in Outside \ {"dead"}
          /\ \E x \in Outside \ {"dead"} : pc' = [pc EXCEPT ![t] = x]
      BY <2>2, <1>n DEF Preempt, Yield, Enqueue, Recheck, AtNode, Outside
    <3>2. pc'[t] \in Outside \ {"dead"}
      BY <1>t, <3>1 DEF TypeOK
    <3> QED
      BY <2>1, <3>1, <3>2, SameStages
  <2>3. CASE Register(t) \/ Park(t) \/ Leave(t) \/ Unready(t) \/ Unwait(t) \/ Back(t)
    <3>1. /\ pc[t] \in BeforeWake \cup AfterWake
          /\ \E x \in BeforeWake \cup AfterWake : pc' = [pc EXCEPT ![t] = x]
      BY <2>3 DEF Register, Park, Leave, Unready, Unwait, Back, BeforeCv, BeforeWake, AfterWake
    <3>2. pc'[t] \in BeforeWake \cup AfterWake
      BY <1>t, <3>1 DEF TypeOK
    <3> QED
      BY <2>1, <3>1, <3>2, SameStages
  <2> QED
    BY <1>1, <2>2, <2>3
<1>2. ASSUME NEW t \in Thread, Finish(t)
      PROVE  FJ!FJNext
  BY <1>2, EndStep DEF Finish, AtNode, Outside, FJ!FJNext
<1>3. ASSUME NEW p \in Proc, Fetch(p)
      PROVE  FJ!FJNext \/ (StageOf' = StageOf /\ SonsMap' = SonsMap)
  <2>1. pc[p] = "fetch" /\ UNCHANGED kids
    BY <1>3 DEF Fetch
  <2>2. \E x \in {"resume", "dead", "crashed"} :
           pc' = [pc EXCEPT ![p] = x] /\ (p # Admin => x # "crashed")
    BY <1>3 DEF Fetch
  <2>3. CASE p \in Thread /\ pc' = [pc EXCEPT ![p] = "dead"]
    BY <2>1, <2>3, EndStep DEF Outside, FJ!FJNext
  <2>4. CASE ~(p \in Thread /\ pc' = [pc EXCEPT ![p] = "dead"])
    <3>1. \A u \in Thread : pc'[u] = pc[u] \/ (pc[u] = "fetch" /\ pc'[u] = "resume")
      <4>1. CASE p = Admin
        BY <1>t, <2>2, <4>1 DEF TypeOK
      <4>2. CASE p \in Thread
        <5>1. pc' = [pc EXCEPT ![p] = "resume"]
          BY <2>2, <2>4, <4>2
        <5> QED
          BY <1>t, <2>1, <5>1 DEF TypeOK
      <4> QED
        BY <4>1, <4>2
    <3> QED
      BY <2>1, <3>1, SameStages DEF Outside
  <2> QED
    BY <2>3, <2>4
<1>4. ASSUME NEW p \in Proc, Resume(p)
      PROVE  StageOf' = StageOf /\ SonsMap' = SonsMap
  <2>1. UNCHANGED kids /\ pc[p] = "resume" /\ \E x \in {"checkRunning", "dispatch"} :
           pc' = [pc EXCEPT ![p] = x] /\ (p # Admin => x = "dispatch")
    BY <1>4, <1>n DEF Resume
  <2>2. \A u \in Thread : pc'[u] = pc[u] \/ (pc[u] = "resume" /\ pc'[u] = "dispatch")
    BY <1>t, <2>1 DEF TypeOK
  <2> QED
    BY <2>1, <2>2, SameStages DEF Outside
<1>5. CASE AdminStart \/ Reap \/ AllHandled \/ CheckRunning \/ CheckReady \/ Final
  <2>1. UNCHANGED kids /\ \A u \in Thread : pc'[u] = pc[u]
    BY <1>5, <1>t DEF AdminStart, Reap, AllHandled, CheckRunning, CheckReady, Final, TypeOK
  <2> QED
    BY <2>1, SameStages
<1>6. ASSUME NEW t \in Thread, HandleDead(t)
      PROVE  StageOf' = StageOf /\ SonsMap' = SonsMap
  <2>1. UNCHANGED kids
    BY <1>6 DEF HandleDead
  <2>2. \/ pc' = pc
        \/ \E f \in Thread : pc[f] = "wait" /\ pc' = [pc EXCEPT ![f] = "woken"]
    BY <1>6 DEF HandleDead, NotifyFather, Notify
  <2>3. \A u \in Thread : pc'[u] = pc[u] \/ (pc[u] = "wait" /\ pc'[u] = "woken")
    BY <1>t, <2>2 DEF TypeOK
  <2> QED
    BY <2>1, <2>3, SameStages DEF BeforeCv, BeforeWake, AfterWake
<1>7. ASSUME NEW t \in Thread, EmitFree(t)
      PROVE  FJ!FJNext
  <2>1. /\ pc[t] = "dispatch" /\ born + 1 \in Thread /\ UNCHANGED kids
        /\ pc' = [pc EXCEPT ![born + 1] = "dispatch", ![t] = "dispatch"]
    <3>1. born < N /\ born \in Thread
      BY <1>7, <1>t DEF EmitFree, TypeOK
    <3>2. born + 1 \in Thread
      BY <3>1 DEF Thread
    <3> QED
      BY <1>7, <1>n, <3>2 DEF EmitFree, AtNode
  <2>2. pc[born + 1] = "unborn" /\ \A u \in Thread : born + 1 \notin kids[u]
    <3>1. born \in Nat /\ born + 1 > born /\ born + 1 \notin 1..born
      BY DEF JoinInv, TypeOK, Thread
    <3>2. pc[born + 1] = "unborn"
      BY <2>1, <3>1 DEF JoinInv, NamesAreFresh
    <3>3. \A u \in Thread : kids[u] \subseteq 1..born
      BY DEF JoinInv, NamesAreFresh
    <3> QED
      BY <3>1, <3>2, <3>3
  <2>3. \A u \in Thread : pc'[u] = IF u = born + 1 THEN "dispatch" ELSE pc[u]
    BY <1>t, <2>1, <2>2 DEF TypeOK
  <2>4. \A u \in Thread : Stage(u)' = IF u = born + 1 THEN "active" ELSE Stage(u)
    BY <2>3 DEF Stage, BeforeCv, BeforeWake, AfterWake
  <2>5. /\ StageOf[t] = "active" /\ StageOf[born + 1] = "idle"
        /\ StageOf' = [StageOf EXCEPT ![born + 1] = "active"]
    BY <2>1, <2>2, <2>4, StageCases DEF StageOf, Outside
  <2>6. SonsMap' = SonsMap
    <3>1. ASSUME NEW u \in Thread
          PROVE  {s \in kids'[u] : pc'[s] # "unborn"} = {s \in kids[u] : pc[s] # "unborn"}
      BY <1>k, <2>1, <2>2, <2>3
    <3> QED
      BY <3>1 DEF SonsMap
  <2>7. FJ!Launch(t, born + 1)
    BY <2>5, <2>6 DEF FJ!Launch, StageOf, SonsMap
  <2> QED
    BY <2>1, <2>7 DEF FJ!FJNext
<1>8. ASSUME NEW t \in Thread, BeginIf(t)
      PROVE  FJ!FJNext
  <2>1. PICK k \in 1..MaxSons :
          /\ born + k <= N
          /\ kids' = [kids EXCEPT ![t] = (born + 1)..(born + k)]
    BY <1>8 DEF BeginIf
  <2>2. pc[t] = "dispatch" /\ pc' = [pc EXCEPT ![t] = "emit"]
    BY <1>8 DEF BeginIf, AtNode
  <2>3. \A u \in Thread : pc'[u] = IF u = t THEN "emit" ELSE pc[u]
    BY <1>t, <2>2 DEF TypeOK
  <2>4. \A u \in Thread : Stage(u)' = IF u = t THEN "joining" ELSE Stage(u)
    BY <2>3, StageCasesNext DEF Stage, BeforeCv, BeforeWake, AfterWake
  <2>5. StageOf[t] = "active" /\ StageOf' = [StageOf EXCEPT ![t] = "joining"]
    BY <2>2, <2>4, StageCases DEF StageOf, Outside
  <2>6. \A s \in kids'[t] : s \in Thread /\ pc[s] = "unborn" /\ s # t
    BY <1>t, <2>1, <2>2 DEF JoinInv, NamesAreFresh, Thread, TypeOK
  <2>7. kids[t] = {} /\ \A u \in Thread : u # t => kids'[u] = kids[u]
    BY <1>t, <2>1, <2>2 DEF JoinInv, NamesAreFresh, TypeOK, BeforeCv, BeforeWake, AfterWake
  <2>8. SonsMap' = SonsMap
    <3>1. ASSUME NEW u \in Thread
          PROVE  {s \in kids'[u] : pc'[s] # "unborn"} = {s \in kids[u] : pc[s] # "unborn"}
      <4>1. CASE u = t
        BY <2>3, <2>6, <2>7, <4>1
      <4>2. CASE u # t
        BY <1>k, <2>2, <2>3, <2>7, <4>2
      <4> QED
        BY <4>1, <4>2
    <3> QED
      BY <3>1 DEF SonsMap
  <2>9. FJ!Split(t)
    BY <2>5, <2>8 DEF FJ!Split, StageOf, SonsMap
  <2> QED
    BY <2>9 DEF FJ!FJNext
<1>9. ASSUME NEW t \in Thread, EmitSon(t)
      PROVE  FJ!FJNext
  <2>1. PICK s \in ArmsLeft(t) : pc' = [pc EXCEPT ![s] = "dispatch", ![t] = "register"]
    BY <1>9 DEF EmitSon
  <2>2. pc[t] = "emit" /\ UNCHANGED kids
    BY <1>9 DEF EmitSon
  <2>3. s \in Thread /\ s \in kids[t] /\ pc[s] = "unborn" /\ s # t
    BY <1>k, <2>1, <2>2 DEF ArmsLeft
  <2>4. \A u \in Thread : pc'[u] = IF u = t THEN "register"
                                   ELSE IF u = s THEN "dispatch" ELSE pc[u]
    BY <1>t, <2>1, <2>3 DEF TypeOK
  <2>5. \A u \in Thread : Stage(u)' = IF u = s THEN "active" ELSE Stage(u)
    BY <2>2, <2>3, <2>4 DEF Stage, BeforeCv, BeforeWake, AfterWake
  <2>6. /\ StageOf[t] = "joining" /\ StageOf[s] = "idle"
        /\ StageOf' = [StageOf EXCEPT ![s] = "active"]
    BY <2>2, <2>3, <2>5, StageCases DEF StageOf, BeforeCv, BeforeWake
  <2>7. SonsMap' = [SonsMap EXCEPT ![t] = @ \cup {s}]
    <3>1. \A u \in Thread : u # t => s \notin kids[u]
      BY <2>3 DEF JoinInv, NamesAreFresh
    <3>2. ASSUME NEW u \in Thread
          PROVE  {r \in kids'[u] : pc'[r] # "unborn"}
                   = {r \in kids[u] : pc[r] # "unborn"} \cup (IF u = t THEN {s} ELSE {})
      BY <1>k, <2>2, <2>3, <2>4, <3>1
    <3> QED
      BY <3>2 DEF SonsMap
  <2>8. FJ!GiveArm(t, s)
    BY <2>6, <2>7 DEF FJ!GiveArm, StageOf, SonsMap
  <2> QED
    BY <2>3, <2>8 DEF FJ!FJNext
<1>10. ASSUME NEW t \in Thread, Merge(t)
       PROVE  FJ!FJNext
  <2>1. /\ pc[t] = "merge" /\ pc' = [pc EXCEPT ![t] = "dispatch"]
        /\ kids' = [kids EXCEPT ![t] = {}]
    BY <1>10, <1>n DEF Merge
  <2>2. \A u \in Thread : pc'[u] = IF u = t THEN "dispatch" ELSE pc[u]
    BY <1>t, <2>1 DEF TypeOK
  <2>3. \A u \in Thread : Stage(u)' = IF u = t THEN "active" ELSE Stage(u)
    BY <2>2, StageCasesNext DEF Stage, BeforeCv, BeforeWake, AfterWake
  <2>4. StageOf[t] = "joining" /\ StageOf' = [StageOf EXCEPT ![t] = "active"]
    BY <2>1, <2>3, StageCases DEF StageOf, AfterWake
  <2>5. SonsMap' = [SonsMap EXCEPT ![t] = {}]
    <3>1. ASSUME NEW u \in Thread
          PROVE  {r \in kids'[u] : pc'[r] # "unborn"}
                   = IF u = t THEN {} ELSE {r \in kids[u] : pc[r] # "unborn"}
      BY <1>t, <1>k, <2>1, <2>2 DEF TypeOK
    <3> QED
      BY <3>1 DEF SonsMap
  <2>6. /\ \E s \in kids[t] : pc[s] = "dead"
        /\ Policy = 2 => \A s \in kids[t] : pc[s] = "dead"
    BY <2>1 DEF JoinInv, WokenRightly, AfterWake
  <2>7. SonsMap[t] # {} /\ FJ!Joined(SonsMap[t])
    <3>1. SonsMap[t] = {s \in kids[t] : pc[s] # "unborn"}
      BY DEF SonsMap
    <3>2. \A s \in Thread : pc[s] = "dead" => StageOf[s] = "ended"
      BY StageCases DEF StageOf
    <3>3. Policy \in {1, 2}
      BY DEF SchedulerAssumption
    <3> QED
      BY <1>k, <2>6, <3>1, <3>2, <3>3 DEF FJ!Joined, StageOf
  <2>8. FJ!Join(t)
    BY <2>4, <2>5, <2>7 DEF FJ!Join, StageOf, SonsMap
  <2> QED
    BY <2>8 DEF FJ!FJNext
<1>11. CASE UNCHANGED vars
  BY <1>11, SameStages DEF vars
<1> QED
  BY <1>1, <1>2, <1>3, <1>4, <1>5, <1>6, <1>7, <1>8, <1>9, <1>10, <1>11
  DEF Next, AdminStep, Worker

\* A father goes on only when its policy allows it: after one of its sons
\* ended under policy 1, after all of them ended under policy 2; for every
\* number of threads and every interleaving, the racy ones included.
THEOREM SchedulerImplementsForkJoin == Spec => ImplementsForkJoin
<1>1. Init => FJ!FJInit
  BY ProcFacts DEF Init, FJ!FJInit, Stage, BeforeCv, BeforeWake, AfterWake, Thread, First, Admin
<1> QED
  BY <1>1, JoinInvariant, JoinSimulation, PTL DEF Spec, ImplementsForkJoin, FJ!FJSpec

FJP == INSTANCE ForkJoinProofs WITH
         Root  <- First,
         stage <- [t \in Thread |-> Stage(t)],
         sons  <- [t \in Thread |-> {s \in kids[t] : pc[s] # "unborn"}]

\* The promise of ForkJoin, for the sons the scheduler has started.
FathersInNoCircle == FJ!NoCircularWait

\* Fathers at an if never wait for one another in a circle, for every number
\* of threads: ForkJoin promises it, and the scheduler implements ForkJoin.
THEOREM FathersWaitInNoCircle == Spec => []FathersInNoCircle
<1>1. FJ!FJInit => FJP!FJInit
  BY DEF FJ!FJInit, FJP!FJInit
<1>2. [FJ!FJNext]_(FJ!fjVars) => [FJP!FJNext]_(FJP!fjVars)
  BY DEF FJ!FJNext, FJ!fjVars, FJ!Split, FJ!GiveArm, FJ!Launch, FJ!Join, FJ!Joined, FJ!End,
         FJP!FJNext, FJP!fjVars, FJP!Split, FJP!GiveArm, FJP!Launch, FJP!Join, FJP!Joined, FJP!End
<1>3. FJP!NoCircularWait => FathersInNoCircle
  BY DEF FathersInNoCircle, FJ!NoCircularWait, FJP!NoCircularWait
<1> QED
  BY <1>1, <1>2, <1>3, SchedulerImplementsForkJoin, FJP!JoinsAreAcyclic, PTL
  DEF ImplementsForkJoin, FJ!FJSpec, FJP!FJSpec

-----------------------------------------------------------------------------
(* The queues.                                                             *)

\* The first thread, before the main thread adds it to running_queue, and
\* when it had stopped by then.
Unregistered(t) == t = First /\ pc[Admin] = "start"
Late(t) == t = First /\ late
Excused(t) == t = First /\ (late \/ pc[t] = "dead")

NotLateYet == pc[Admin] = "start" => ~late

Fetched(t) == \E p \in Proc : t \in got[p]

\* ready_queue, the lists of the calls of fetch_new_thread and running_queue
\* have no thread in common, but perhaps the first one, and only a call at
\* its end has a list.
InOneQueue ==
  /\ \A t \in Thread : t \in running /\ (t \in ready \/ Fetched(t)) => Excused(t)
  /\ \A p \in Proc : got[p] \cap ready = {}
  /\ \A p, q \in Proc : p # q => got[p] \cap got[q] = {}
  /\ \A p \in Proc : got[p] # {} => pc[p] = "resume"

\* A thread between its pause() and its next node, or dead.
Pausing == {"dispatch", "recheck", "fetch", "resume"}

\* What is to be resumed is paused, ...
ToResume ==
  \A t \in Thread :
    t \in ready \/ Fetched(t) => pc[t] \in Pausing \cup {"dead"} /\ ~flag[t]

\* ... and a thread is paused or in running_queue as its place in the code asks.
InItsQueue ==
  \A t \in Thread :
    /\ pc[t] \in Pausing /\ ~flag[t] => t \in ready \/ Fetched(t) \/ Late(t)
    /\ pc[t] \in Pausing /\ flag[t] => t \in running \/ Unregistered(t)
    /\ pc[t] \in {"yield", "emit", "register", "park", "leave", "merge"}
         => t \in running \/ Unregistered(t)
    /\ pc[t] = "merge" => flag[t]
    /\ pc[t] \in {"enqueue", "unready", "wait", "woken", "back"} => t \notin running \/ Late(t)

Queued == NotLateYet /\ InOneQueue /\ ToResume /\ InItsQueue

QueueInv == JoinInv /\ Queued

\* At first nothing is queued.
LEMMA QueueInit == Init => QueueInv
<1> SUFFICES ASSUME Init PROVE QueueInv
  OBVIOUS
<1>1. JoinInv
  BY JoinInit
<1>2. /\ running = {} /\ ready = {} /\ \A p \in Proc : got[p] = {}
      /\ pc[Admin] = "start" /\ ~late
      /\ \A t \in Thread : pc[t] = IF t = First THEN "dispatch" ELSE "unborn"
      /\ \A t \in Thread : flag[t] <=> t = First
  BY ProcFacts DEF Init
<1> QED
  BY <1>1, <1>2 DEF QueueInv, Queued, NotLateYet, InOneQueue, ToResume, InItsQueue, Pausing,
                    Fetched, Unregistered

\* A worker neither registers the first thread nor moves the main thread.
LEMMA WorkersMoveWorkers ==
  ASSUME QueueInv, NEW t \in Thread, Worker(t)
  PROVE  pc'[Admin] = pc[Admin] /\ late' = late
<1> USE ProcFacts DEF QueueInv, JoinInv, TypeOK
<1>1. born + 1 # Admin
  BY DEF Thread, Admin
<1>2. \A s \in kids[t] : s # Admin
  BY DEF Thread, Admin
<1>3. pc'[Admin] = pc[Admin]
  <2>1. CASE EmitFree(t)
    BY <1>1, <2>1 DEF EmitFree
  <2>2. CASE EmitSon(t)
    BY <1>2, <2>2 DEF EmitSon, ArmsLeft
  <2>3. CASE ~EmitFree(t) /\ ~EmitSon(t)
    <3>1. \E x : pc' = [pc EXCEPT ![t] = x]
      BY <2>3 DEF Worker, Preempt, Yield, Enqueue, Recheck, Finish, BeginIf, Register, Park,
                  Leave, Unready, Unwait, Back, Merge, Fetch, Resume
    <3> QED
      BY <3>1
  <2> QED
    BY <2>1, <2>2, <2>3
<1>4. late' = late
  BY DEF Worker, Preempt, Yield, Enqueue, Recheck, Finish, EmitFree, BeginIf, EmitSon,
         Register, Park, Leave, Unready, Unwait, Back, Merge, Fetch, Resume, history
<1> QED
  BY <1>3, <1>4

\* A thread that was not started is in no queue.
LEMMA UnbornIsNowhere ==
  ASSUME QueueInv, NEW s \in Thread, pc[s] = "unborn"
  PROVE  s \notin ready \cup running /\ ~Fetched(s) /\ s # First
BY DEF QueueInv, JoinInv, QueuedAreBorn, Fetched

\* The steps of a thread that neither touch ready_queue nor a list, and take
\* at most the thread itself into or out of running_queue.
LEMMA OwnStep ==
  ASSUME QueueInv, NEW t \in Thread,
         pc'[Admin] = pc[Admin], late' = late,
         NEW x \in WorkerPcs, pc' = [pc EXCEPT ![t] = x], pc[t] \notin {"resume", "dead"},
         ready' = ready, got' = got,
         running' \ {t} = running \ {t},
         \A u \in Thread \ {t} : flag'[u] = flag[u],
         \* ... and what the thread has to see to
         t \in running' /\ (t \in ready \/ Fetched(t)) => Late(t),
         t \in ready \/ Fetched(t) => x \in Pausing \cup {"dead"} /\ ~flag'[t],
         x \in Pausing => IF flag'[t] THEN t \in running' \/ Unregistered(t)
                          ELSE t \in ready \/ Fetched(t) \/ Late(t),
         x \in {"yield", "emit", "register", "park", "leave", "merge"}
           => t \in running' \/ Unregistered(t),
         x = "merge" => flag'[t],
         x \in {"enqueue", "unready", "wait", "woken", "back"} => t \notin running' \/ Late(t)
  PROVE  Queued'
<1> USE ProcFacts DEF QueueInv, JoinInv, TypeOK, Queued
<1>1. pc'[t] = x /\ \A p \in Proc \ {t} : pc'[p] = pc[p]
  OBVIOUS
<1>2. NotLateYet'
  BY DEF NotLateYet
<1>4. /\ \A u : Fetched(u)' <=> Fetched(u)
      /\ \A u : Late(u)' <=> Late(u)
      /\ \A u : Unregistered(u)' <=> Unregistered(u)
  BY DEF Fetched, Late, Unregistered
<1>3. InOneQueue'
  <2>1. ASSUME NEW u \in Thread, u \in running', u \in ready' \/ Fetched(u)'
        PROVE  Excused(u)'
    <3>1. CASE u = t
      BY <1>4, <2>1, <3>1 DEF Late, Excused
    <3>2. CASE u # t
      <4>1. u \in running /\ (u \in ready \/ Fetched(u)) /\ pc'[u] = pc[u]
        BY <1>1, <1>4, <2>1, <3>2
      <4> QED
        BY <4>1 DEF InOneQueue, Excused
    <3> QED
      BY <3>1, <3>2
  <2>2. \A p \in Proc : got'[p] # {} => pc'[p] = "resume"
    BY <1>1 DEF InOneQueue
  <2> QED
    BY <2>1, <2>2 DEF InOneQueue
<1>5. ToResume'
  BY <1>1, <1>4 DEF ToResume
<1>6. InItsQueue'
  BY <1>1, <1>4 DEF InItsQueue
<1> QED
  BY <1>2, <1>3, <1>5, <1>6

\* A new thread is paused and put into ready_queue, by a thread that is in
\* running_queue, the first one once it is registered, and stays there.
LEMMA EmitStep ==
  ASSUME QueueInv, NEW t \in Thread, t \in running \/ Unregistered(t),
         pc[t] \in {"dispatch", "emit"}, pc[t] = "dispatch" => flag[t],
         pc'[Admin] = pc[Admin], late' = late, NEW s \in Thread, pc[s] = "unborn",
         NEW x \in {"dispatch", "register"}, x = "dispatch" => pc[t] = "dispatch",
         pc' = [pc EXCEPT ![s] = "dispatch", ![t] = x],
         flag' = [flag EXCEPT ![s] = FALSE],
         ready' = ready \cup {s}, UNCHANGED <<running, got>>
  PROVE  Queued'
<1> USE ProcFacts DEF QueueInv, JoinInv, TypeOK, Queued
<1>0. s \notin ready \cup running /\ ~Fetched(s) /\ s # First
  BY UnbornIsNowhere
<1>1. /\ s # t
      /\ pc'[s] = "dispatch" /\ pc'[t] = x
      /\ \A p \in Proc \ {s, t} : pc'[p] = pc[p]
  OBVIOUS
<1>2. NotLateYet'
  BY DEF NotLateYet
<1>4. /\ \A u : Fetched(u)' <=> Fetched(u)
      /\ \A u : Late(u)' <=> Late(u)
      /\ \A u : Unregistered(u)' <=> Unregistered(u)
  BY DEF Fetched, Late, Unregistered
<1>5. t \notin ready /\ ~Fetched(t)
  BY DEF ToResume, Pausing
<1>3. InOneQueue'
  <2>1. \A u \in Thread : u \in running' /\ (u \in ready' \/ Fetched(u)') => Excused(u)'
    BY <1>0, <1>1, <1>4, <1>5 DEF InOneQueue, Excused
  <2>2. \A p \in Proc : got'[p] \cap ready' = {}
    BY <1>0 DEF InOneQueue, Fetched
  <2>3. \A p \in Proc : got'[p] # {} => pc'[p] = "resume"
    BY <1>0, <1>1 DEF InOneQueue
  <2> QED
    BY <2>1, <2>2, <2>3 DEF InOneQueue
<1>6. ToResume'
  BY <1>0, <1>1, <1>4, <1>5 DEF ToResume, Pausing
<1>7. InItsQueue'
  BY <1>0, <1>1, <1>4, <1>5 DEF InItsQueue, Pausing
<1> QED
  BY <1>2, <1>3, <1>6, <1>7

\* fetch_new_thread moves threads from ready_queue to its list.
LEMMA FetchStep ==
  ASSUME QueueInv, NEW p \in Proc, Fetch(p)
  PROVE  Queued'
<1> USE ProcFacts DEF QueueInv, JoinInv, TypeOK, queues, forks, history, Queued
<1>1. PICK x \in {"resume", "dead", "crashed"} :
         /\ pc' = [pc EXCEPT ![p] = x] /\ pc[p] = "fetch"
         /\ UNCHANGED <<flag, running, late>>
  BY DEF Fetch
<1>2. PICK B \in SUBSET ready :
         /\ ready' = ready \ B /\ got' = [got EXCEPT ![p] = B]
         /\ B # {} => x = "resume"
  <2>1. \A B \in Batches : B \subseteq ready
    BY DEF Batches, Oldest
  <2>2. CASE ready = {}
    <3>1. got[p] = {}
      BY <1>1 DEF InOneQueue
    <3>2. UNCHANGED <<ready, got>>
      BY <2>2 DEF Fetch
    <3>3. got' = [got EXCEPT ![p] = {}] /\ ready' = ready \ {}
      BY <3>1, <3>2
    <3> QED
      BY <2>2, <3>3
  <2>3. CASE ready # {}
    <3>1. PICK B \in Batches : got' = [got EXCEPT ![p] = B] /\ ready' = ready \ B
      BY <2>3 DEF Fetch
    <3>2. pc' = [pc EXCEPT ![p] = "resume"]
      BY <2>3 DEF Fetch
    <3>3. x = "resume"
      BY <1>1, <3>2
    <3>4. B \in SUBSET ready
      BY <2>1
    <3> WITNESS B \in SUBSET ready
    <3> QED
      BY <3>1, <3>3
  <2> QED
    BY <2>2, <2>3
<1>3. /\ got[p] = {} /\ got'[p] = B /\ \A q \in Proc \ {p} : got'[q] = got[q]
      /\ pc'[p] = x /\ \A q \in Proc \ {p} : pc'[q] = pc[q]
  BY <1>1, <1>2 DEF InOneQueue
<1>4. \A u \in Thread : u \in ready' \/ Fetched(u)' <=> u \in ready \/ Fetched(u)
  BY <1>2, <1>3 DEF Fetched
<1>a. p = Admin => x # "start" /\ pc[Admin] = "fetch"
  BY <1>1
<1>b. \A u \in Thread : /\ Late(u)' <=> Late(u)
                        /\ Unregistered(u)' <=> Unregistered(u)
  BY <1>1, <1>3, <1>a DEF Late, Unregistered
<1>5. NotLateYet'
  BY <1>1, <1>3, <1>a DEF NotLateYet
<1>6. InOneQueue'
  <2>0. \A u \in Thread : u \in running' /\ (u \in ready' \/ Fetched(u)') => Excused(u)'
    <3>1. \A u \in Thread : Excused(u) => Excused(u)'
      BY <1>1, <1>3 DEF Excused
    <3> QED
      BY <1>1, <1>4, <3>1 DEF InOneQueue
  <2>5. \A q \in Proc \ {p} : got'[q] = got[q] /\ got[q] \cap ready = {}
    BY <1>3 DEF InOneQueue
  <2>2. \A q \in Proc : got'[q] \cap ready' = {}
    BY <1>2, <1>3, <2>5
  <2>6. \A q, r \in Proc : q # r => got[q] \cap got[r] = {}
    BY DEF InOneQueue
  <2>3. \A q, r \in Proc : q # r => got'[q] \cap got'[r] = {}
    <3> SUFFICES ASSUME NEW q \in Proc, NEW r \in Proc, q # r PROVE got'[q] \cap got'[r] = {}
      OBVIOUS
    <3>1. CASE q = p
      BY <1>2, <1>3, <2>5, <3>1
    <3>2. CASE r = p
      BY <1>2, <1>3, <2>5, <3>2
    <3>3. CASE q # p /\ r # p
      BY <2>5, <2>6, <3>3
    <3> QED
      BY <3>1, <3>2, <3>3
  <2>4. \A q \in Proc : got'[q] # {} => pc'[q] = "resume"
    BY <1>2, <1>3 DEF InOneQueue
  <2> QED
    BY <2>0, <2>2, <2>3, <2>4 DEF InOneQueue
<1>7. p \in Thread => pc'[p] \in {"resume", "dead"}
  BY <1>3, TypeStep DEF Fetch
<1>8. ToResume'
  BY <1>1, <1>3, <1>4, <1>7 DEF ToResume, Pausing
<1>9. InItsQueue'
  BY <1>1, <1>3, <1>4, <1>7, <1>b DEF InItsQueue, Pausing
<1> QED
  BY <1>5, <1>6, <1>8, <1>9

\* The end of fetch_new_thread: what is on the list runs.
LEMMA ResumeStep ==
  ASSUME QueueInv, NEW p \in Proc, Resume(p)
  PROVE  Queued'
<1> USE ProcFacts DEF QueueInv, JoinInv, TypeOK, queues, forks, history, Queued
<1>1. PICK x \in {"checkRunning", "dispatch"} :
         /\ pc' = [pc EXCEPT ![p] = x] /\ pc[p] = "resume"
         /\ p \in Thread => x = "dispatch"
         /\ p = Admin => x = "checkRunning"
  BY DEF Resume, NextNode
<1>2. /\ running' = running \cup got[p] /\ ready' = ready /\ late' = late
      /\ got'[p] = {} /\ \A q \in Proc \ {p} : got'[q] = got[q]
      /\ pc'[p] = x /\ \A q \in Proc \ {p} : pc'[q] = pc[q]
  BY <1>1 DEF Resume
<1>3. \A u \in Thread : flag'[u] <=> (u \in got[p] /\ u \notin running) \/ flag[u]
  BY DEF Resume
<1>4. \A u \in Thread : Fetched(u)' <=> Fetched(u) /\ u \notin got[p]
  BY <1>2 DEF Fetched, InOneQueue
<1>b. \A u \in Thread : /\ Late(u)' <=> Late(u)
                        /\ Unregistered(u)' <=> Unregistered(u)
  BY <1>1, <1>2 DEF Late, Unregistered
<1>c. \A u \in got[p] : u \in running => Excused(u)
  BY DEF InOneQueue, Fetched
<1>5. NotLateYet'
  BY <1>1, <1>2 DEF NotLateYet
<1>9. \A u \in Thread : u \in ready => u \notin got[p]
  BY DEF InOneQueue
<1>6. InOneQueue'
  <2>1. ASSUME NEW u \in Thread, u \in running', u \in ready' \/ Fetched(u)'
        PROVE  Excused(u)'
    <3>1. u \notin got[p] /\ u \in running /\ (u \in ready \/ Fetched(u))
      BY <1>2, <1>4, <1>9, <2>1
    <3>2. Excused(u)
      BY <3>1 DEF InOneQueue
    <3> QED
      BY <1>1, <1>2, <3>2 DEF Excused
  <2>2. \A q \in Proc : got'[q] \cap ready' = {}
    BY <1>2 DEF InOneQueue
  <2>3. \A q, r \in Proc : q # r => got'[q] \cap got'[r] = {}
    BY <1>2 DEF InOneQueue
  <2>4. \A q \in Proc : got'[q] # {} => pc'[q] = "resume"
    BY <1>2 DEF InOneQueue
  <2> QED
    BY <2>1, <2>2, <2>3, <2>4 DEF InOneQueue
<1>7. \A u \in got[p] : pc[u] \in Pausing \cup {"dead"}
  BY DEF ToResume, Fetched
<1>8. \A u \in Thread : pc[u] \in Pausing <=> pc'[u] \in Pausing
  BY <1>1, <1>2 DEF Pausing
<1>10. ToResume'
  BY <1>1, <1>2, <1>3, <1>4, <1>8, <1>9 DEF ToResume, Pausing
<1>11. InItsQueue'
  <2> SUFFICES ASSUME NEW u \in Thread
               PROVE  /\ pc'[u] \in Pausing /\ ~flag'[u]
                           => u \in ready' \/ Fetched(u)' \/ Late(u)'
                      /\ pc'[u] \in Pausing /\ flag'[u] => u \in running' \/ Unregistered(u)'
                      /\ pc'[u] \in {"yield", "emit", "register", "park", "leave", "merge"}
                           => u \in running' \/ Unregistered(u)'
                      /\ pc'[u] = "merge" => flag'[u]
                      /\ pc'[u] \in {"enqueue", "unready", "wait", "woken", "back"}
                           => u \notin running' \/ Late(u)'
    BY DEF InItsQueue
  <2>1. pc'[u] \in Pausing /\ ~flag'[u] => u \in ready' \/ Fetched(u)' \/ Late(u)'
    <3> SUFFICES ASSUME pc'[u] \in Pausing, ~flag'[u] PROVE u \in ready' \/ Fetched(u)' \/ Late(u)'
      OBVIOUS
    <3>1. pc[u] \in Pausing /\ ~flag[u] /\ (u \in got[p] => u \in running)
      BY <1>3, <1>8
    <3>2. pc[u] # "dead"
      BY <3>1 DEF Pausing
    <3>3. u \in ready \/ Fetched(u) \/ Late(u)
      BY <3>1 DEF InItsQueue
    <3>4. u \in got[p] => Late(u)
      BY <1>c, <3>1, <3>2 DEF Excused, Late
    <3> QED
      BY <1>2, <1>4, <1>b, <3>3, <3>4
  <2>2. pc'[u] \in Pausing /\ flag'[u] => u \in running' \/ Unregistered(u)'
    BY <1>2, <1>3, <1>8, <1>b DEF InItsQueue
  <2>3. pc'[u] \notin Pausing => pc'[u] = pc[u]
    BY <1>1, <1>2 DEF Pausing
  <2>4. /\ pc'[u] \in {"yield", "emit", "register", "park", "leave", "merge"}
             => u \in running' \/ Unregistered(u)'
        /\ pc'[u] = "merge" => flag'[u]
    BY <1>2, <1>3, <1>b, <2>3 DEF InItsQueue, Pausing
  <2>5. pc'[u] \in {"enqueue", "unready", "wait", "woken", "back"}
          => u \notin running' \/ Late(u)'
    BY <1>2, <1>7, <1>b, <2>3 DEF InItsQueue, Pausing
  <2> QED
    BY <2>1, <2>2, <2>4, <2>5
<1> QED
  BY <1>5, <1>6, <1>10, <1>11

\* The first thread comes into running_queue, wherever it is by now.
LEMMA AdminStartStep ==
  ASSUME QueueInv, AdminStart
  PROVE  Queued'
<1> USE ProcFacts DEF QueueInv, JoinInv, TypeOK, Queued
<1>1. /\ running' = running \cup {First} /\ UNCHANGED <<ready, flag, got>>
      /\ pc[Admin] = "start" /\ pc'[Admin] = "reap"
      /\ \A t \in Thread : pc'[t] = pc[t]
      /\ late' = Stopping(First)
  BY DEF AdminStart
<1>2. ~late /\ \A t : ~Late(t)
  BY <1>1 DEF NotLateYet, Late
<1>3. /\ First \in ready \/ Fetched(First) => late' \/ pc[First] = "dead"
      /\ pc[First] \in Pausing /\ ~flag[First] => late'
      /\ pc[First] \in {"enqueue", "unready", "wait", "woken", "back"} => late'
  BY <1>1 DEF ToResume, Pausing, Stopping, Sleeps
<1>4. /\ \A u : Fetched(u)' <=> Fetched(u)
      /\ \A u : Late(u)' <=> u = First /\ late'
      /\ \A u : Unregistered(u) => u \in running'
  BY <1>1 DEF Fetched, Late, Unregistered
<1>5. NotLateYet'
  BY <1>1 DEF NotLateYet
<1>6. InOneQueue'
  <2>1. ASSUME NEW u \in Thread, u \in running', u \in ready' \/ Fetched(u)'
        PROVE  Excused(u)'
    <3>1. CASE u = First
      BY <1>1, <1>3, <1>4, <2>1, <3>1 DEF Excused
    <3>2. CASE u # First
      <4>1. u \in running /\ (u \in ready \/ Fetched(u))
        BY <1>1, <1>4, <2>1, <3>2
      <4> QED
        BY <3>2, <4>1 DEF InOneQueue, Excused
    <3> QED
      BY <3>1, <3>2
  <2>2. \A p \in Proc : got'[p] # {} => pc'[p] = "resume"
    BY <1>1 DEF InOneQueue
  <2> QED
    BY <1>1, <2>1, <2>2 DEF InOneQueue
<1>7. ToResume'
  BY <1>1, <1>4 DEF ToResume
<1>8. InItsQueue'
  <2>1. ASSUME NEW u \in Thread
        PROVE  /\ pc'[u] \in Pausing /\ ~flag'[u] => u \in ready' \/ Fetched(u)' \/ Late(u)'
               /\ pc'[u] \in Pausing /\ flag'[u] => u \in running'
               /\ pc'[u] \in {"yield", "emit", "register", "park", "leave", "merge"}
                    => u \in running'
               /\ pc'[u] = "merge" => flag'[u]
               /\ pc'[u] \in {"enqueue", "unready", "wait", "woken", "back"}
                    => u \notin running' \/ Late(u)'
    <3>1. CASE u = First
      BY <1>1, <1>2, <1>3, <1>4, <3>1 DEF InItsQueue
    <3>2. CASE u # First
      BY <1>1, <1>2, <1>4, <3>2 DEF InItsQueue
    <3> QED
      BY <3>1, <3>2
  <2> QED
    BY <2>1 DEF InItsQueue
<1> QED
  BY <1>5, <1>6, <1>7, <1>8

\* The other steps of the main thread that leave ready_queue alone: at most
\* finished threads go from running_queue, and one father is woken.
LEMMA AdminQuiet ==
  ASSUME TypeOK,
         \/ Reap \/ AllHandled \/ CheckRunning \/ CheckReady \/ Final
         \/ \E t \in Thread : HandleDead(t)
  PROVE  /\ pc[Admin] # "start" /\ pc'[Admin] # "start" /\ pc[Admin] # "resume"
         /\ UNCHANGED <<ready, flag, got, late>>
         /\ running' \subseteq running
         /\ \A t \in running \ running' : pc[t] \in {"dead", "unborn"}
         /\ \A t \in Thread : pc'[t] = pc[t] \/ (pc[t] = "wait" /\ pc'[t] = "woken")
<1> USE ProcFacts DEF queues, forks, history
<1>1. CASE Reap
  <2>1. /\ pc[Admin] = "reap" /\ pc' = [pc EXCEPT ![Admin] = "notify"]
        /\ UNCHANGED <<ready, flag, got, late>>
        /\ running' = {t \in running : Alive(t)}
    BY <1>1 DEF Reap
  <2>2. \A t \in running \ running' : pc[t] \in {"dead", "unborn"}
    BY <2>1 DEF Alive
  <2>3. pc'[Admin] = "notify" /\ \A t \in Thread : pc'[t] = pc[t]
    BY <2>1 DEF TypeOK
  <2> QED
    BY <2>1, <2>2, <2>3
<1>2. CASE AllHandled \/ CheckRunning \/ CheckReady \/ Final
  <2>1. /\ pc[Admin] \in {"notify", "checkRunning", "checkReady", "final"}
        /\ \E x \in AdminPcs \ {"start"} : pc' = [pc EXCEPT ![Admin] = x]
        /\ UNCHANGED <<ready, flag, got, running, late>>
    BY <1>2 DEF AllHandled, CheckRunning, CheckReady, Final, AdminPcs
  <2>2. pc'[Admin] # "start" /\ \A t \in Thread : pc'[t] = pc[t]
    BY <2>1 DEF TypeOK
  <2> QED
    BY <2>1, <2>2
<1>3. ASSUME NEW t \in Thread, HandleDead(t)
      PROVE  /\ pc[Admin] = "notify" /\ pc'[Admin] = "notify"
             /\ UNCHANGED <<ready, flag, got, running, late>>
             /\ \A u \in Thread : pc'[u] = pc[u] \/ (pc[u] = "wait" /\ pc'[u] = "woken")
  <2>1. \/ pc' = pc
        \/ \E f \in Thread : pc[f] = "wait" /\ pc' = [pc EXCEPT ![f] = "woken"]
    BY <1>3 DEF HandleDead, NotifyFather, Notify
  <2>2. pc[Admin] = "notify" /\ UNCHANGED <<ready, flag, got, running, late>>
    BY <1>3 DEF HandleDead
  <2> QED
    BY <2>1, <2>2 DEF TypeOK
<1> QED
  BY <1>1, <1>2, <1>3

\* Every step keeps each thread in its queue.
LEMMA QueueStep ==
  ASSUME QueueInv, [Next]_vars
  PROVE  QueueInv'
<1> USE ProcFacts DEF queues, forks, history
<1>0. JoinInv'
  BY JoinStep DEF QueueInv
<1>t. TypeOK /\ JoinInv /\ stopped = {}
  BY DEF QueueInv, JoinInv
<1>n. \A t : NextNode(t) = "dispatch"
  BY <1>t DEF NextNode
<1>1. ASSUME NEW t \in Thread, Worker(t) PROVE Queued'
  <2>0. pc'[Admin] = pc[Admin] /\ late' = late
    BY <1>1, WorkersMoveWorkers
  <2>1. /\ \A p \in Proc : got[p] # {} => pc[p] = "resume"
        /\ t \in running /\ (t \in ready \/ Fetched(t)) /\ pc[t] # "dead" => Late(t)
    BY <1>t DEF QueueInv, Queued, InOneQueue, Excused, Late
  <2>2. t \in ready \/ Fetched(t) => pc[t] \in Pausing \cup {"dead"} /\ ~flag[t]
    BY DEF QueueInv, Queued, ToResume
  <2>3. /\ pc[t] \in Pausing /\ ~flag[t] => t \in ready \/ Fetched(t) \/ Late(t)
        /\ pc[t] \in Pausing /\ flag[t] => t \in running \/ Unregistered(t)
        /\ pc[t] \in {"yield", "emit", "register", "park", "leave", "merge"}
             => t \in running \/ Unregistered(t)
        /\ pc[t] = "merge" => flag[t]
        /\ pc[t] \in {"enqueue", "unready", "wait", "woken", "back"} => t \notin running \/ Late(t)
    BY DEF QueueInv, Queued, InItsQueue
  <2>4. AtNode(t) => /\ pc[t] = "dispatch" /\ flag[t] /\ (t \in running \/ Unregistered(t))
                     /\ t \notin ready /\ ~Fetched(t)
    BY <2>2, <2>3 DEF AtNode, Pausing
  <2>a. CASE Preempt(t)
    BY <1>t, <2>a, <2>0, <2>4, OwnStep DEF Preempt, WorkerPcs, Pausing
  <2>b. CASE Yield(t)
    BY <1>t, <2>b, <2>0, <2>1, <2>2, <2>3, OwnStep DEF Yield, WorkerPcs, Pausing
  <2>d. CASE Recheck(t)
    BY <1>t, <1>n, <2>d, <2>0, <2>1, <2>2, <2>3, OwnStep DEF Recheck, WorkerPcs, Pausing
  <2>e. CASE Finish(t)
    BY <1>t, <2>e, <2>0, <2>4, OwnStep DEF Finish, WorkerPcs, Pausing
  <2>g. CASE BeginIf(t)
    <3>1. /\ AtNode(t) /\ pc' = [pc EXCEPT ![t] = "emit"]
          /\ flag' = [flag EXCEPT ![t] = FALSE]
          /\ UNCHANGED <<running, ready, got>>
      BY <2>g DEF BeginIf
    <3> QED
      BY <1>t, <2>0, <2>4, <3>1, OwnStep DEF WorkerPcs, Pausing, TypeOK
  <2>h. CASE Register(t)
    BY <1>t, <2>h, <2>0, <2>1, <2>2, <2>3, OwnStep DEF Register, WorkerPcs, Pausing
  <2>i. CASE Park(t)
    BY <1>t, <2>i, <2>0, <2>1, <2>2, <2>3, OwnStep DEF Park, WorkerPcs, Pausing
  <2>j. CASE Leave(t)
    BY <1>t, <2>j, <2>0, <2>1, <2>2, <2>3, OwnStep DEF Leave, WorkerPcs, Pausing
  <2>k. CASE Unready(t)
    <3>1. /\ pc[t] = "unready" /\ pc' = [pc EXCEPT ![t] = "wait"]
          /\ ready' = ready \ {t} /\ UNCHANGED <<running, flag, got>>
      BY <2>k DEF Unready
    <3>2. t \notin ready /\ ~Fetched(t)
      BY <2>2, <3>1 DEF Pausing
    <3>3. ready' = ready
      BY <3>1, <3>2
    <3> QED
      BY <1>t, <2>0, <2>3, <3>1, <3>2, <3>3, OwnStep DEF WorkerPcs, Pausing
  <2>l. CASE Unwait(t)
    BY <1>t, <2>l, <2>0, <2>1, <2>2, <2>3, OwnStep DEF Unwait, WorkerPcs, Pausing
  <2>m. CASE Back(t)
    <3>1. /\ pc[t] = "back" /\ pc' = [pc EXCEPT ![t] = "merge"]
          /\ flag' = [flag EXCEPT ![t] = TRUE]
          /\ running' = running \cup {t} /\ UNCHANGED <<ready, got>>
      BY <2>m DEF Back
    <3>2. /\ flag'[t] /\ \A u \in Thread \ {t} : flag'[u] = flag[u]
          /\ t \notin ready /\ ~Fetched(t) /\ "merge" \in WorkerPcs
      BY <1>t, <2>2, <3>1 DEF WorkerPcs, Pausing, TypeOK
    <3> QED
      BY <1>t, <2>0, <3>1, <3>2, OwnStep DEF Pausing
  <2>o. CASE Merge(t)
    BY <1>t, <1>n, <2>o, <2>0, <2>1, <2>2, <2>3, OwnStep DEF Merge, WorkerPcs, Pausing
  <2>p. CASE EmitFree(t)
    <3>1. born + 1 \in Thread /\ pc[born + 1] = "unborn"
      BY <1>t, <2>p DEF EmitFree, QueueInv, JoinInv, NamesAreFresh, Thread, TypeOK
    <3>2. /\ pc' = [pc EXCEPT ![born + 1] = "dispatch", ![t] = "dispatch"]
          /\ flag' = [flag EXCEPT ![born + 1] = FALSE]
          /\ ready' = ready \cup {born + 1} /\ UNCHANGED <<running, got>>
          /\ AtNode(t)
      BY <1>n, <2>p DEF EmitFree, Emit
    <3> QED
      BY <2>0, <2>4, <3>1, <3>2, EmitStep
  <2>q. CASE EmitSon(t)
    <3>1. PICK s \in ArmsLeft(t) :
            /\ pc' = [pc EXCEPT ![s] = "dispatch", ![t] = "register"]
            /\ flag' = [flag EXCEPT ![s] = FALSE]
            /\ ready' = ready \cup {s}
      BY <2>q DEF EmitSon, Emit
    <3>2. s \in Thread /\ pc[s] = "unborn"
      BY <1>t DEF ArmsLeft, TypeOK
    <3>3. UNCHANGED <<running, got>> /\ pc[t] = "emit"
      BY <2>q DEF EmitSon
    <3> QED
      BY <2>0, <2>3, <3>1, <3>2, <3>3, EmitStep
  <2>r. CASE Fetch(t)
    BY <2>r, FetchStep
  <2>s. CASE Resume(t)
    BY <2>s, ResumeStep
  <2>c. CASE Enqueue(t)
    <3>1. /\ pc' = [pc EXCEPT ![t] = "recheck"] /\ pc[t] = "enqueue"
          /\ flag' = [flag EXCEPT ![t] = FALSE]
          /\ ready' = ready \cup {t} /\ UNCHANGED <<running, got>>
      BY <2>c DEF Enqueue
    <3>2. (t \notin running \/ Late(t)) /\ t \notin ready /\ ~Fetched(t)
      BY <2>2, <2>3, <3>1 DEF Pausing
    <3>3. /\ pc'[t] = "recheck" /\ ~flag'[t]
          /\ \A p \in Proc \ {t} : pc'[p] = pc[p]
          /\ \A u \in Thread \ {t} : flag'[u] = flag[u]
      BY <1>t, <3>1 DEF TypeOK
    <3>4. /\ \A u : Fetched(u)' <=> Fetched(u)
          /\ \A u : Late(u)' <=> Late(u)
          /\ \A u : Unregistered(u)' <=> Unregistered(u)
      BY <2>0, <3>1 DEF Fetched, Late, Unregistered
    <3>5. NotLateYet'
      BY <2>0 DEF QueueInv, Queued, NotLateYet
    <3>6. InOneQueue'
      <4>1. ASSUME NEW u \in Thread, u \in running', u \in ready' \/ Fetched(u)'
            PROVE  Excused(u)'
        <5>1. CASE u = t
          BY <2>0, <2>1, <3>1, <3>2, <2>1, <4>1, <5>1 DEF Late, Excused
        <5>2. CASE u # t
          <6>1. u \in running /\ (u \in ready \/ Fetched(u)) /\ pc'[u] = pc[u]
            BY <3>1, <3>3, <3>4, <4>1, <5>2
          <6> QED
            BY <2>0, <6>1 DEF QueueInv, Queued, InOneQueue, Excused
        <5> QED
          BY <5>1, <5>2
      <4>2. \A p \in Proc : got'[p] \cap ready' = {}
        <5>1. \A p \in Proc : got[p] \cap ready = {} /\ t \notin got[p]
          BY <3>2 DEF QueueInv, Queued, InOneQueue, Fetched
        <5> QED
          BY <3>1, <5>1
      <4>3. \A p \in Proc : got'[p] # {} => pc'[p] = "resume"
        BY <3>1, <3>3 DEF QueueInv, Queued, InOneQueue
      <4>4. \A p, q \in Proc : p # q => got'[p] \cap got'[q] = {}
        BY <3>1 DEF QueueInv, Queued, InOneQueue
      <4> QED
        BY <4>1, <4>2, <4>3, <4>4 DEF InOneQueue
    <3>7. ToResume'
      BY <3>1, <3>3, <3>4 DEF QueueInv, Queued, ToResume, Pausing
    <3>8. InItsQueue'
      BY <3>1, <3>3, <3>4 DEF QueueInv, Queued, InItsQueue, Pausing
    <3> QED
      BY <3>5, <3>6, <3>7, <3>8 DEF Queued
  <2> QED
    BY <1>1, <2>a, <2>b, <2>c, <2>d, <2>e, <2>g, <2>h, <2>i, <2>j, <2>k, <2>l, <2>m, <2>o,
       <2>p, <2>q, <2>r, <2>s DEF Worker
<1>2. ASSUME AdminStart PROVE Queued'
  BY <1>2, AdminStartStep
<1>3. ASSUME \/ Reap \/ AllHandled \/ CheckRunning \/ CheckReady \/ Final
             \/ \E t \in Thread : HandleDead(t)
      PROVE  Queued'
  <2>1. /\ pc[Admin] # "start" /\ pc'[Admin] # "start" /\ pc[Admin] # "resume"
        /\ UNCHANGED <<ready, flag, got, late>>
        /\ running' \subseteq running
        /\ \A t \in running \ running' : pc[t] \in {"dead", "unborn"}
        /\ \A t \in Thread : pc'[t] = pc[t] \/ (pc[t] = "wait" /\ pc'[t] = "woken")
    BY <1>3, <1>t, AdminQuiet
  <2>2. /\ \A u : Fetched(u)' <=> Fetched(u)
        /\ \A u : Late(u)' <=> Late(u)
        /\ \A u : ~Unregistered(u) /\ ~Unregistered(u)'
    BY <2>1 DEF Fetched, Late, Unregistered
  <2>3. NotLateYet'
    BY <2>1 DEF NotLateYet
  <2>4. InOneQueue'
    <3>1. \A p \in Proc : pc[p] = "resume" => pc'[p] = "resume"
      BY <2>1
    <3>2. \A u \in Thread : Excused(u) => Excused(u)'
      BY <2>1 DEF Excused
    <3> QED
      BY <2>1, <2>2, <3>1, <3>2 DEF QueueInv, Queued, InOneQueue
  <2>5. ToResume'
    BY <2>1, <2>2 DEF QueueInv, Queued, ToResume, Pausing
  <2>6. InItsQueue'
    BY <1>t, <2>1, <2>2 DEF QueueInv, Queued, InItsQueue, Pausing, TypeOK
  <2> QED
    BY <2>3, <2>4, <2>5, <2>6 DEF Queued
<1>4. ASSUME Fetch(Admin) PROVE Queued'
  BY <1>4, FetchStep
<1>5. ASSUME Resume(Admin) PROVE Queued'
  BY <1>5, ResumeStep
<1>6. ASSUME UNCHANGED vars PROVE Queued'
  BY <1>6 DEF vars, QueueInv, Queued, NotLateYet, InOneQueue, ToResume, InItsQueue, Fetched,
              Excused, Late, Unregistered
<1>7. Queued'
  BY <1>1, <1>2, <1>3, <1>4, <1>5, <1>6 DEF Next, AdminStep
<1> QED
  BY <1>0, <1>7 DEF QueueInv

\* What the invariant says of a thread that executes, sleeps or is paused.
LEMMA QueuesTell ==
  ASSUME QueueInv
  PROVE  RunningIsAccurate /\ NoThreadLost
<1> USE ProcFacts DEF Late, Unregistered
<1>1. \A t \in Thread : Executes(t) => t \in running \/ (t = First /\ pc[Admin] = "start")
  BY DEF QueueInv, Queued, InItsQueue, Executes, AtNode, Pausing
<1>2. ASSUME NEW t \in Thread, t \in running PROVE ~Sleeps(t) \/ (t = First /\ late)
  <2>1. (t \in ready \/ Fetched(t)) /\ pc[t] # "dead" => t = First /\ late
    BY <1>2 DEF QueueInv, Queued, InOneQueue, Excused
  <2> QED
    BY <1>2, <2>1 DEF QueueInv, Queued, InItsQueue, Sleeps, Pausing
<1>3. NoThreadLost
  BY DEF QueueInv, Queued, InItsQueue, NoThreadLost, Fetched, Pausing
<1> QED
  BY <1>1, <1>2, <1>3 DEF RunningIsAccurate

\* running_queue is what executes, whatever order the threads take its lock
\* and the others in, but for the first thread until the main thread adds it,
\* and after that if it had stopped before: for any number of threads, arms,
\* nodes and ages (opgen.py:487, opgen.py:498, manager.py:128).
THEOREM RunningQueueIsAccurate == Spec => []RunningIsAccurate
<1>1. QueueInv /\ [Next]_vars => QueueInv'
  BY QueueStep
<1>2. QueueInv => RunningIsAccurate
  BY QueuesTell
<1> QED
  BY <1>1, <1>2, QueueInit, PTL DEF Spec

\* A paused thread is in ready_queue or on the list of a call that is about to
\* resume it: none is dropped but the first one, if it had stopped before the
\* main thread added it to running_queue (opgen.py:487, utils.py:842).
THEOREM PausedAreFound == Spec => []NoThreadLost
<1>1. QueueInv /\ [Next]_vars => QueueInv'
  BY QueueStep
<1>2. QueueInv => NoThreadLost
  BY QueuesTell
<1> QED
  BY <1>1, <1>2, QueueInit, PTL DEF Spec

-----------------------------------------------------------------------------
(* The condition variables.                                                *)

\* Father t is past the registration of his sons, and not woken yet.
Held == {"park", "leave", "unready", "wait"}

\* A son is registered once, after it was started, and never the first thread.
SonsAreNew ==
  /\ \A t \in Thread : First \notin kids[t]
  /\ \A s \in Thread : pc[s] = "unborn" => father[s] = 0
  /\ \A t \in Thread : pc[t] = "register" => father[son[t]] = 0

\* The end of a registered son, or of the one about to be, is still to come.
EndsAreSeen ==
  /\ \A s \in Thread : father[s] # 0 /\ father[s] \notin missed => WillBeReaped(s)
  /\ \A t \in Thread : pc[t] = "register" /\ t \notin missed => WillBeReaped(son[t])

\* A father waits with a son in the table.
SonInTable ==
  \A t \in Thread : pc[t] \in Held /\ t \notin missed => \E s \in Thread : father[s] = t

DeadAreHandled == pc[Admin] # "notify" => dead = {}

WakeInv == QueueInv /\ SonsAreNew /\ EndsAreSeen /\ SonInTable /\ DeadAreHandled

LEMMA WakeInit == Init => WakeInv
<1> SUFFICES ASSUME Init PROVE WakeInv
  OBVIOUS
<1>1. /\ \A t \in Thread : kids[t] = {} /\ father[t] = 0
      /\ \A t \in Thread : pc[t] \in {"dispatch", "unborn"}
      /\ dead = {}
  BY ProcFacts DEF Init
<1> QED
  BY <1>1, QueueInit DEF WakeInv, SonsAreNew, EndsAreSeen, SonInTable, DeadAreHandled, Held

\* A worker's step makes no thread miss its end, not even its own.
LEMMA WorkersKeepEnds ==
  ASSUME QueueInv, NEW t \in Thread, Worker(t),
         NEW s \in Thread, s # First, WillBeReaped(s)
  PROVE  WillBeReaped(s)'
<1> USE ProcFacts DEF queues, forks, history
<1>t. TypeOK /\ stopped = {}
  BY DEF QueueInv, JoinInv
<1>n. \A u : NextNode(u) = "dispatch"
  BY <1>t DEF NextNode
<1>w. pc[s] # "dead" \/ s \in running \cup dead \cup ready \/ Fetched(s)
  BY DEF WillBeReaped, Fetched
<1> SUFFICES pc'[s] # "dead" \/ s \in running' \cup dead' \cup ready' \/ Fetched(s)'
  BY DEF WillBeReaped, Fetched
<1>q. /\ pc[s] \in Pausing /\ ~flag[s] => s \in ready \/ Fetched(s)
      /\ pc[s] \in Pausing /\ flag[s] => s \in running
  BY DEF QueueInv, Queued, InItsQueue, Late, Unregistered
<1>1. CASE Preempt(t) \/ Recheck(t) \/ BeginIf(t) \/ Register(t) \/ Park(t) \/ Unwait(t) \/ Merge(t)
  <2>1. /\ UNCHANGED <<running, ready, got, dead>>
        /\ \E x \in WorkerPcs \ {"dead"} : pc' = [pc EXCEPT ![t] = x]
    BY <1>n, <1>1 DEF Preempt, Recheck, BeginIf, Register, Park, Unwait, Merge, WorkerPcs
  <2> QED
    BY <1>t, <1>w, <2>1 DEF Fetched, TypeOK
<1>2. CASE Finish(t)
  <2>1. /\ UNCHANGED <<running, ready, got, dead>>
        /\ pc' = [pc EXCEPT ![t] = "dead"] /\ pc[t] = "dispatch" /\ flag[t]
    BY <1>2 DEF Finish, AtNode
  <2> QED
    BY <1>t, <1>w, <1>q, <2>1 DEF Fetched, TypeOK, Pausing
<1>3. CASE Yield(t) \/ Leave(t)
  <2>1. /\ UNCHANGED <<ready, got, dead>> /\ running' = running \ {t}
        /\ \E x \in WorkerPcs \ {"dead"} : pc' = [pc EXCEPT ![t] = x]
    BY <1>3 DEF Yield, Leave, WorkerPcs
  <2> QED
    BY <1>t, <1>w, <2>1 DEF Fetched, TypeOK
<1>4. CASE Enqueue(t) \/ Unready(t)
  <2>1. /\ UNCHANGED <<running, got, dead>> /\ ready \ {t} \subseteq ready'
        /\ \E x \in WorkerPcs \ {"dead"} : pc' = [pc EXCEPT ![t] = x]
    BY <1>4 DEF Enqueue, Unready, WorkerPcs
  <2> QED
    BY <1>t, <1>w, <2>1 DEF Fetched, TypeOK
<1>5. CASE Back(t)
  <2>1. /\ UNCHANGED <<ready, got, dead>> /\ running \subseteq running'
        /\ \E x \in WorkerPcs \ {"dead"} : pc' = [pc EXCEPT ![t] = x]
    BY <1>5 DEF Back, WorkerPcs
  <2> QED
    BY <1>t, <1>w, <2>1 DEF Fetched, TypeOK
<1>6. CASE EmitFree(t)
  <2>1. /\ UNCHANGED <<running, got, dead>> /\ ready \subseteq ready'
        /\ pc' = [pc EXCEPT ![born + 1] = "dispatch", ![t] = "dispatch"]
    BY <1>n, <1>6 DEF EmitFree, Emit
  <2>2. pc'[s] = pc[s] \/ pc'[s] = "dispatch"
    BY <1>t, <2>1 DEF TypeOK
  <2> QED
    BY <1>w, <2>1, <2>2 DEF Fetched
<1>7. CASE EmitSon(t)
  <2>1. /\ UNCHANGED <<running, got, dead>> /\ ready \subseteq ready'
        /\ \E r \in ArmsLeft(t) : pc' = [pc EXCEPT ![r] = "dispatch", ![t] = "register"]
    BY <1>7 DEF EmitSon, Emit
  <2>2. pc'[s] = pc[s] \/ pc'[s] \in {"dispatch", "register"}
    BY <1>t, <2>1 DEF TypeOK
  <2> QED
    BY <1>w, <2>1, <2>2 DEF Fetched
<1>8. CASE Fetch(t)
  <2>1. CASE ready = {}
    <3>1. /\ UNCHANGED <<running, ready, got, dead>> /\ pc[t] = "fetch"
          /\ pc' = [pc EXCEPT ![t] = "dead"]
      BY <1>8, <2>1 DEF Fetch
    <3> QED
      BY <1>t, <1>w, <1>q, <3>1 DEF Fetched, TypeOK, Pausing
  <2>2. CASE ready # {}
    <3>1. PICK B \in Batches : /\ got' = [got EXCEPT ![t] = B]
                               /\ ready' = ready \ B
                               /\ pc' = [pc EXCEPT ![t] = "resume"]
                               /\ UNCHANGED <<running, dead>> /\ pc[t] = "fetch"
      BY <1>8, <2>2 DEF Fetch
    <3>2. got[t] = {}
      BY <3>1 DEF QueueInv, Queued, InOneQueue
    <3>3. got'[t] = B /\ \A q \in Proc \ {t} : got'[q] = got[q]
      BY <1>t, <3>1 DEF TypeOK
    <3>4. s \in ready \/ Fetched(s) => s \in ready' \/ Fetched(s)'
      BY <3>1, <3>2, <3>3 DEF Fetched
    <3>5. pc'[s] = pc[s] \/ pc'[s] = "resume"
      BY <1>t, <3>1 DEF TypeOK
    <3> QED
      BY <1>w, <3>1, <3>4, <3>5
  <2> QED
    BY <2>1, <2>2
<1>9. CASE Resume(t)
  <2>1. /\ UNCHANGED <<ready, dead>> /\ running' = running \cup got[t]
        /\ got' = [got EXCEPT ![t] = {}] /\ pc' = [pc EXCEPT ![t] = "dispatch"]
    BY <1>n, <1>9 DEF Resume
  <2>2. Fetched(s) => s \in running' \/ Fetched(s)'
    BY <1>t, <2>1 DEF Fetched, TypeOK
  <2>3. pc'[s] = pc[s] \/ pc'[s] = "dispatch"
    BY <1>t, <2>1 DEF TypeOK
  <2> QED
    BY <1>w, <2>1, <2>2, <2>3
<1> QED
  BY <1>1, <1>2, <1>3, <1>4, <1>5, <1>6, <1>7, <1>8, <1>9 DEF Worker

\* The main thread handles one finished thread.
LEMMA HandleKeepsEnds ==
  ASSUME QueueInv, NEW t \in Thread, HandleDead(t), NEW s \in Thread \ {t}, WillBeReaped(s)
  PROVE  WillBeReaped(s)'
<1>1. TypeOK
  BY DEF QueueInv, JoinInv
<1>2. UNCHANGED <<running, ready, got>> /\ dead' = dead \ {t}
  BY DEF HandleDead, queues
<1>3. pc'[s] = pc[s] \/ pc'[s] = "woken"
  BY <1>1, ProcFacts DEF HandleDead, NotifyFather, Notify, TypeOK
<1> QED
  BY <1>2, <1>3 DEF WillBeReaped

\* In its other steps no end gets lost.
LEMMA AdminKeepsEnds ==
  ASSUME QueueInv, DeadAreHandled, NEW s \in Thread, WillBeReaped(s),
         \/ AdminStart \/ Reap \/ AllHandled \/ CheckRunning \/ CheckReady \/ Final
         \/ Fetch(Admin) \/ Resume(Admin)
  PROVE  WillBeReaped(s)'
<1> USE ProcFacts DEF queues, forks, history
<1>t. TypeOK
  BY DEF QueueInv, JoinInv
<1>w. pc[s] # "dead" \/ s \in running \cup dead \cup ready \/ Fetched(s)
  BY DEF WillBeReaped, Fetched
<1> SUFFICES pc'[s] # "dead" \/ s \in running' \cup dead' \cup ready' \/ Fetched(s)'
  BY DEF WillBeReaped, Fetched
<1>1. CASE AdminStart \/ AllHandled \/ CheckRunning \/ CheckReady \/ Final
  <2>1. /\ UNCHANGED <<ready, got, dead>> /\ running \subseteq running'
        /\ \E x : pc' = [pc EXCEPT ![Admin] = x]
    BY <1>1 DEF AdminStart, AllHandled, CheckRunning, CheckReady, Final
  <2> QED
    BY <1>t, <1>w, <2>1 DEF Fetched, TypeOK
<1>2. CASE Reap
  <2>1. /\ UNCHANGED <<ready, got>> /\ dead' = {t \in running : ~Alive(t)}
        /\ pc' = [pc EXCEPT ![Admin] = "notify"] /\ pc[Admin] = "reap"
    BY <1>2 DEF Reap
  <2>2. dead = {}
    BY <2>1 DEF DeadAreHandled
  <2>3. pc'[s] = pc[s]
    BY <1>t, <2>1 DEF TypeOK
  <2>4. s \in running /\ pc[s] = "dead" => s \in dead'
    BY <2>1 DEF Alive
  <2> QED
    BY <1>w, <2>1, <2>2, <2>3, <2>4 DEF Fetched
<1>3. CASE Fetch(Admin)
  <2>1. PICK B \in SUBSET ready :
          /\ got' = [got EXCEPT ![Admin] = B] /\ ready' = ready \ B
          /\ UNCHANGED <<running, dead>> /\ pc[Admin] = "fetch"
          /\ \E x : pc' = [pc EXCEPT ![Admin] = x]
    <3>1. \A B \in Batches : B \subseteq ready
      BY DEF Batches, Oldest
    <3>2. CASE ready = {}
      <4>1. got[Admin] = {}
        BY <1>3 DEF Fetch, QueueInv, Queued, InOneQueue
      <4>2. got' = [got EXCEPT ![Admin] = {}] /\ ready' = ready \ {}
        BY <1>3, <3>2, <4>1, <1>t DEF Fetch, TypeOK
      <4> QED
        BY <1>3, <3>2, <4>2 DEF Fetch
    <3>3. CASE ready # {}
      <4>1. PICK B \in Batches : got' = [got EXCEPT ![Admin] = B] /\ ready' = ready \ B
        BY <1>3, <3>3 DEF Fetch
      <4>2. B \in SUBSET ready
        BY <3>1
      <4> WITNESS B \in SUBSET ready
      <4> QED
        BY <1>3, <3>3, <4>1 DEF Fetch
    <3> QED
      BY <3>2, <3>3
  <2>2. got[Admin] = {}
    BY <2>1 DEF QueueInv, Queued, InOneQueue
  <2>3. s \in ready \/ Fetched(s) => s \in ready' \/ Fetched(s)'
    BY <1>t, <2>1, <2>2 DEF Fetched, TypeOK
  <2>4. pc'[s] = pc[s]
    BY <1>t, <2>1 DEF TypeOK
  <2> QED
    BY <1>w, <2>1, <2>3, <2>4
<1>4. CASE Resume(Admin)
  <2>1. /\ UNCHANGED <<ready, dead>> /\ running' = running \cup got[Admin]
        /\ got' = [got EXCEPT ![Admin] = {}] /\ \E x : pc' = [pc EXCEPT ![Admin] = x]
    BY <1>4 DEF Resume
  <2>2. Fetched(s) => s \in running' \/ Fetched(s)'
    BY <1>t, <2>1 DEF Fetched, TypeOK
  <2>3. pc'[s] = pc[s]
    BY <1>t, <2>1 DEF TypeOK
  <2> QED
    BY <1>w, <2>1, <2>2, <2>3
<1> QED
  BY <1>1, <1>2, <1>3, <1>4

\* A registered son, or one about to be, is not the first thread.
LEMMA SonsAreLater ==
  ASSUME WakeInv
  PROVE  /\ \A s \in Thread : father[s] # 0 => s # First /\ father[s] \in Thread
         /\ \A t \in Thread : pc[t] = "register" => son[t] \in Thread /\ son[t] # First
<1>1. TypeOK /\ NoStaleSons /\ SonIsKid
  BY DEF WakeInv, QueueInv, JoinInv
<1>2. \A s \in Thread : father[s] # 0 => father[s] \in Thread
  BY <1>1, ProcFacts DEF TypeOK, Admin
<1> QED
  BY <1>1, <1>2 DEF WakeInv, SonsAreNew, NoStaleSons, SonIsKid, TypeOK

\* The steps that leave the table alone and emit no arm.
LEMMA WakeKeeps ==
  ASSUME WakeInv, UNCHANGED <<father, son>>,
         \A u \in Thread : First \notin kids'[u],
         \A u \in Thread : /\ pc'[u] = "unborn" => pc[u] = "unborn"
                           /\ pc'[u] = "register" => pc[u] = "register"
                           /\ pc'[u] \in Held => pc[u] \in Held
                           /\ u \in missed \ missed' => pc[u] = "merge",
         DeadAreHandled',
         \A s \in Thread : s # First /\ WillBeReaped(s) => WillBeReaped(s)'
  PROVE  SonsAreNew' /\ EndsAreSeen' /\ SonInTable' /\ DeadAreHandled'
<1> USE SonsAreLater
<1>1. SonsAreNew'
  BY DEF WakeInv, SonsAreNew
<1>2. EndsAreSeen'
  <2>1. ASSUME NEW s \in Thread, father'[s] # 0, father'[s] \notin missed' PROVE WillBeReaped(s)'
    <3>1. father[s] \in Thread /\ pc[father[s]] # "merge"
      BY <2>1 DEF WakeInv, QueueInv, JoinInv, NoStaleSons, BeforeWake, BeforeCv
    <3>2. father[s] \notin missed
      BY <2>1, <3>1
    <3> QED
      BY <2>1, <3>2 DEF WakeInv, EndsAreSeen
  <2>2. ASSUME NEW t \in Thread, pc'[t] = "register", t \notin missed',
               NEW r \in Thread, r = son'[t]
        PROVE  WillBeReaped(r)'
    <3>1. pc[t] = "register" /\ t \notin missed /\ r = son[t]
      BY <2>2
    <3> QED
      BY <3>1 DEF WakeInv, EndsAreSeen
  <2>3. \A t \in Thread : pc'[t] = "register" => son'[t] \in Thread
    OBVIOUS
  <2> QED
    BY <2>1, <2>2, <2>3 DEF EndsAreSeen, WillBeReaped
<1>3. SonInTable'
  BY DEF WakeInv, SonInTable, Held
<1> QED
  BY <1>1, <1>2, <1>3

\* The steps of a worker at an if.
LEMMA WorkersWake ==
  ASSUME WakeInv, NEW t \in Thread, Worker(t)
  PROVE  SonsAreNew' /\ EndsAreSeen' /\ SonInTable' /\ DeadAreHandled'
<1> USE ProcFacts DEF queues, forks, history
<1>t. TypeOK /\ stopped = {} /\ NoStaleSons /\ SonIsKid /\ NamesAreFresh /\ QueueInv
  BY DEF WakeInv, QueueInv, JoinInv
<1>n. \A u : NextNode(u) = "dispatch"
  BY <1>t DEF NextNode
<1>e. \A s \in Thread : s # First /\ WillBeReaped(s) => WillBeReaped(s)'
  BY <1>t, WorkersKeepEnds
<1>d. DeadAreHandled'
  <2>1. pc'[Admin] = pc[Admin]
    BY <1>t, WorkersMoveWorkers
  <2>2. dead' = dead
    BY DEF Worker, Preempt, Yield, Enqueue, Recheck, Finish, EmitFree, BeginIf, EmitSon,
           Register, Park, Leave, Unready, Unwait, Back, Merge, Fetch, Resume
  <2> QED
    BY <2>1, <2>2 DEF WakeInv, DeadAreHandled
<1>1. CASE \/ Preempt(t) \/ Yield(t) \/ Enqueue(t) \/ Recheck(t) \/ Finish(t)
           \/ Park(t) \/ Leave(t) \/ Unready(t) \/ Unwait(t) \/ Back(t)
           \/ Fetch(t) \/ Resume(t)
  <2>1. UNCHANGED <<father, son, kids, missed>>
    BY <1>1 DEF Preempt, Yield, Enqueue, Recheck, Finish, Park, Leave, Unready, Unwait, Back,
                Fetch, Resume
  <2> HIDE <1>1
  <2>2. \A u \in Thread : /\ pc'[u] = "unborn" => pc[u] = "unborn"
                          /\ pc'[u] = "register" => pc[u] = "register"
                          /\ pc'[u] \in Held => pc[u] \in Held
    <3>1. CASE Park(t) \/ Leave(t) \/ Unready(t)
      BY <1>t, <3>1 DEF Park, Leave, Unready, TypeOK, Held
    <3>2. CASE ~(Park(t) \/ Leave(t) \/ Unready(t))
      <4>1. \E x \in {"yield", "enqueue", "recheck", "fetch", "dispatch", "dead", "back",
                      "merge", "resume"} : pc' = [pc EXCEPT ![t] = x]
        BY <1>1, <1>n, <3>2 DEF Preempt, Yield, Enqueue, Recheck, Finish, Unwait, Back, Fetch, Resume
      <4> QED
        BY <1>t, <4>1 DEF TypeOK, Held
    <3> QED
      BY <3>1, <3>2
  <2>3. \A u \in Thread : First \notin kids'[u]
    BY <2>1 DEF WakeInv, SonsAreNew
  <2> QED
    BY <1>d, <1>e, <2>1, <2>2, <2>3, WakeKeeps
<1>2. CASE EmitFree(t)
  <2>1. /\ UNCHANGED <<father, son, kids, missed>>
        /\ pc' = [pc EXCEPT ![born + 1] = "dispatch", ![t] = "dispatch"]
    BY <1>n, <1>2 DEF EmitFree
  <2>2. \A u \in Thread : pc'[u] = pc[u] \/ pc'[u] = "dispatch"
    BY <1>t, <2>1 DEF TypeOK
  <2>3. \A u \in Thread : First \notin kids'[u]
    BY <2>1 DEF WakeInv, SonsAreNew
  <2> QED
    BY <1>d, <1>e, <2>1, <2>2, <2>3, WakeKeeps DEF Held
<1>3. CASE BeginIf(t)
  <2>1. PICK k \in 1..MaxSons : kids' = [kids EXCEPT ![t] = (born + 1)..(born + k)]
    BY <1>3 DEF BeginIf
  <2>2. UNCHANGED <<father, son, missed>> /\ pc' = [pc EXCEPT ![t] = "emit"]
    BY <1>3 DEF BeginIf
  <2>3. First \notin (born + 1)..(born + k)
    BY <1>t DEF TypeOK, Thread, First
  <2>4. \A u \in Thread : First \notin kids'[u]
    BY <1>t, <2>1, <2>3 DEF WakeInv, SonsAreNew, TypeOK
  <2>5. \A u \in Thread : pc'[u] = pc[u] \/ pc'[u] = "emit"
    BY <1>t, <2>2 DEF TypeOK
  <2> QED
    BY <1>d, <1>e, <2>2, <2>4, <2>5, WakeKeeps DEF Held
<1>4. CASE Merge(t)
  <2>1. /\ UNCHANGED <<father, son>> /\ missed' = missed \ {t} /\ pc[t] = "merge"
        /\ pc' = [pc EXCEPT ![t] = "dispatch"] /\ kids' = [kids EXCEPT ![t] = {}]
    BY <1>n, <1>4 DEF Merge
  <2>2. \A u \in Thread : pc'[u] = pc[u] \/ pc'[u] = "dispatch"
    BY <1>t, <2>1 DEF TypeOK
  <2>3. \A u \in Thread : First \notin kids'[u]
    BY <1>t, <2>1 DEF WakeInv, SonsAreNew, TypeOK
  <2> QED
    BY <1>d, <1>e, <2>1, <2>2, <2>3, WakeKeeps DEF Held
<1>5. CASE EmitSon(t)
  <2>1. PICK s \in ArmsLeft(t) :
          /\ pc' = [pc EXCEPT ![s] = "dispatch", ![t] = "register"]
          /\ son' = [son EXCEPT ![t] = s]
    BY <1>5 DEF EmitSon
  <2>2. UNCHANGED <<father, kids, missed>> /\ pc[t] = "emit"
    BY <1>5 DEF EmitSon
  <2>3. s \in Thread /\ pc[s] = "unborn" /\ s # t
    BY <1>t, <2>1, <2>2 DEF ArmsLeft, TypeOK
  <2>4. \A u \in Thread : pc'[u] = IF u = t THEN "register" ELSE IF u = s THEN "dispatch" ELSE pc[u]
    BY <1>t, <2>1, <2>3 DEF TypeOK
  <2>5. son'[t] = s /\ \A u \in Thread \ {t} : son'[u] = son[u]
    BY <1>t, <2>1 DEF TypeOK
  <2>6. father[s] = 0
    BY <2>3 DEF WakeInv, SonsAreNew
  <2>7. SonsAreNew'
    BY <2>2, <2>4, <2>5, <2>6 DEF WakeInv, SonsAreNew
  <2>8. WillBeReaped(s)'
    BY <2>3, <2>4 DEF WillBeReaped
  <2>9. EndsAreSeen'
    <3>1. ASSUME NEW u \in Thread, father'[u] # 0, father'[u] \notin missed' PROVE WillBeReaped(u)'
      BY <1>e, <2>2, <3>1, SonsAreLater DEF WakeInv, EndsAreSeen
    <3>2. ASSUME NEW u \in Thread, pc'[u] = "register", u \notin missed',
                 NEW r \in Thread, r = son'[u]
          PROVE  WillBeReaped(r)'
      <4>1. CASE u = t
        BY <2>5, <2>8, <3>2, <4>1
      <4>2. CASE u # t
        <5>1. pc[u] = "register" /\ u \notin missed /\ r = son[u]
          BY <2>2, <2>4, <2>5, <3>2, <4>2
        <5> QED
          BY <1>e, <5>1, SonsAreLater DEF WakeInv, EndsAreSeen
      <4> QED
        BY <4>1, <4>2
    <3>3. \A u \in Thread : pc'[u] = "register" => son'[u] \in Thread
      BY <2>3, <2>4, <2>5, SonsAreLater
    <3> QED
      BY <3>1, <3>2, <3>3 DEF EndsAreSeen, WillBeReaped
  <2>10. SonInTable'
    BY <2>2, <2>4 DEF WakeInv, SonInTable, Held
  <2> QED
    BY <1>d, <2>7, <2>9, <2>10
<1>6. CASE Register(t)
  <2>1. /\ father' = [father EXCEPT ![son[t]] = t] /\ pc[t] = "register"
        /\ UNCHANGED <<son, kids, missed>>
        /\ \E x \in {"emit", "park"} : pc' = [pc EXCEPT ![t] = x]
    BY <1>6 DEF Register
  <2>2. /\ pc'[t] \in {"emit", "park"}
        /\ \A u \in Thread \ {t} : pc'[u] = pc[u]
    BY <1>t, <2>1 DEF TypeOK
  <2>3. son[t] \in Thread /\ son[t] \in kids[t] /\ pc[son[t]] # "unborn"
    BY <1>t, <2>1 DEF SonIsKid, ArmsLeft, TypeOK
  <2>4. father'[son[t]] = t /\ \A u \in Thread \ {son[t]} : father'[u] = father[u]
    BY <1>t, <2>1, <2>3 DEF TypeOK
  <2>5. \A u \in Thread \ {t} : pc[u] = "register" => son[u] # son[t]
    BY <1>t, <2>3 DEF SonIsKid, NamesAreFresh
  <2>6. SonsAreNew'
    <3>1. \A s \in Thread : pc'[s] = "unborn" => father'[s] = 0
      BY <2>2, <2>3, <2>4 DEF WakeInv, SonsAreNew
    <3>2. \A u \in Thread : pc'[u] = "register" => father'[son'[u]] = 0
      BY <1>t, <2>1, <2>2, <2>4, <2>5, SonsAreLater DEF WakeInv, SonsAreNew
    <3> QED
      BY <2>1, <3>1, <3>2 DEF WakeInv, SonsAreNew
  <2>7. EndsAreSeen'
    <3>1. ASSUME NEW u \in Thread, father'[u] # 0, father'[u] \notin missed' PROVE WillBeReaped(u)'
      <4>1. CASE u = son[t]
        <5>1. t \notin missed
          BY <2>1, <2>4, <3>1, <4>1
        <5>2. WillBeReaped(u)
          BY <2>1, <4>1, <5>1 DEF WakeInv, EndsAreSeen
        <5> QED
          BY <1>e, <2>1, <4>1, <5>2, SonsAreLater
      <4>2. CASE u # son[t]
        <5>1. father[u] # 0 /\ father[u] \notin missed
          BY <2>1, <2>4, <3>1, <4>2
        <5>2. WillBeReaped(u)
          BY <5>1 DEF WakeInv, EndsAreSeen
        <5> QED
          BY <1>e, <5>1, <5>2, SonsAreLater
      <4> QED
        BY <4>1, <4>2
    <3>2. ASSUME NEW u \in Thread, pc'[u] = "register", u \notin missed',
                 NEW r \in Thread, r = son'[u]
          PROVE  WillBeReaped(r)'
      <4>1. pc[u] = "register" /\ u \notin missed /\ r = son[u]
        BY <2>1, <2>2, <3>2
      <4> QED
        BY <1>e, <4>1, SonsAreLater DEF WakeInv, EndsAreSeen
    <3>3. \A u \in Thread : pc'[u] = "register" => son'[u] \in Thread
      BY <2>1, <2>2, SonsAreLater
    <3> QED
      BY <3>1, <3>2, <3>3 DEF EndsAreSeen, WillBeReaped
  <2>8. SonInTable'
    <3>1. ASSUME NEW u \in Thread, pc'[u] \in Held, u \notin missed'
          PROVE  \E s \in Thread : father'[s] = u
      <4>1. CASE u = t
        BY <2>3, <2>4, <4>1
      <4>2. CASE u # t
        <5>1. PICK s \in Thread : father[s] = u
          BY <2>1, <2>2, <3>1, <4>2 DEF WakeInv, SonInTable
        <5>2. father[son[t]] = 0
          BY <2>1 DEF WakeInv, SonsAreNew
        <5>3. s # son[t]
          BY <3>1, <5>1, <5>2, ProcFacts DEF Admin
        <5> QED
          BY <2>4, <5>1, <5>3
      <4> QED
        BY <4>1, <4>2
    <3> QED
      BY <3>1 DEF SonInTable
  <2> QED
    BY <1>d, <2>6, <2>7, <2>8
<1> QED
  BY <1>1, <1>2, <1>3, <1>4, <1>5, <1>6 DEF Worker

\* A finished thread was handled, and perhaps its father woken.
LEMMA HandleWakes ==
  ASSUME WakeInv, NEW t \in Thread, HandleDead(t)
  PROVE  SonsAreNew' /\ EndsAreSeen' /\ SonInTable' /\ DeadAreHandled'
<1> USE ProcFacts DEF queues, forks, history
<1>t. TypeOK /\ NoStaleSons /\ SonIsKid /\ QueueInv
  BY DEF WakeInv, QueueInv, JoinInv
<1>e. \A s \in Thread : s # t /\ WillBeReaped(s) => WillBeReaped(s)'
  BY <1>t, HandleKeepsEnds
<1>1. UNCHANGED <<kids, son>> /\ pc[Admin] = "notify"
  BY DEF HandleDead
<1>2. CASE father[t] = 0
  <2>1. /\ UNCHANGED <<pc, father>>
        /\ missed' = missed \cup {f \in Thread : pc[f] = "register" /\ son[f] = t}
    BY <1>2, ProcFacts DEF HandleDead, NotifyFather, Thread
  <2>2. SonsAreNew' /\ DeadAreHandled'
    BY <1>1, <2>1 DEF WakeInv, SonsAreNew, DeadAreHandled
  <2>3. SonInTable'
    BY <2>1 DEF WakeInv, SonInTable
  <2>4. EndsAreSeen'
    <3>1. ASSUME NEW s \in Thread, father'[s] # 0, father'[s] \notin missed' PROVE WillBeReaped(s)'
      BY <1>2, <1>e, <2>1, <3>1 DEF WakeInv, EndsAreSeen
    <3>2. ASSUME NEW u \in Thread, pc'[u] = "register", u \notin missed',
                 NEW r \in Thread, r = son'[u]
          PROVE  WillBeReaped(r)'
      BY <1>1, <1>e, <2>1, <3>2 DEF WakeInv, EndsAreSeen
    <3>3. \A u \in Thread : pc'[u] = "register" => son'[u] \in Thread
      BY <1>1, <2>1, SonsAreLater
    <3> QED
      BY <3>1, <3>2, <3>3 DEF EndsAreSeen, WillBeReaped
  <2> QED
    BY <2>2, <2>3, <2>4
<1>3. CASE father[t] # 0
  <2>1. PICK f \in Thread : NotifyFather(t, f)
    BY <1>3 DEF HandleDead
  <2>2. father[t] = f /\ f # 0 /\ t \in SonsOf(f)
    BY <2>1, ProcFacts DEF NotifyFather, SonsOf, Thread
  <2>3. \/ /\ father' = [s \in Thread |-> IF father[s] = f THEN 0 ELSE father[s]]
           /\ ~HoldsCv(f) /\ Notify(f)
        \/ /\ father' = [father EXCEPT ![t] = 0]
           /\ SonsOf(f) # {t} /\ UNCHANGED <<pc, missed>>
    <3>1. CASE father' = [father EXCEPT ![t] = 0] /\ SonsOf(f) = {t} /\ ~HoldsCv(f) /\ Notify(f)
      <4>1. \A s \in Thread : father[s] = f <=> s = t
        BY <3>1 DEF SonsOf
      <4>2. father' = [s \in Thread |-> IF father[s] = f THEN 0 ELSE father[s]]
        BY <1>t, <3>1, <4>1 DEF TypeOK
      <4> QED
        BY <3>1, <4>2
    <3> QED
      BY <2>1, <3>1 DEF NotifyFather
  <2>4. /\ missed \subseteq missed'
        /\ \A u \in Thread : pc'[u] = pc[u] \/ (pc[u] = "wait" /\ pc'[u] = "woken")
        /\ pc'[Admin] = pc[Admin]
    BY <1>t, <2>3 DEF Notify, TypeOK
  <2>5. /\ \A s \in Thread : father'[s] = 0 \/ father'[s] = father[s]
        /\ father'[t] = 0
    BY <1>t, <2>2, <2>3 DEF TypeOK
  <2>6. SonsAreNew' /\ DeadAreHandled'
    <3>1. \A s \in Thread : pc'[s] = "unborn" => father'[s] = 0
      BY <2>4, <2>5 DEF WakeInv, SonsAreNew
    <3>2. \A u \in Thread : pc'[u] = "register" => father'[son'[u]] = 0
      BY <1>1, <2>4, <2>5, SonsAreLater DEF WakeInv, SonsAreNew
    <3> QED
      BY <1>1, <2>4, <3>1, <3>2 DEF WakeInv, SonsAreNew, DeadAreHandled
  <2>7. EndsAreSeen'
    <3>1. ASSUME NEW s \in Thread, father'[s] # 0, father'[s] \notin missed' PROVE WillBeReaped(s)'
      <4>1. s # t /\ father[s] # 0 /\ father[s] \notin missed
        BY <2>4, <2>5, <3>1
      <4> QED
        BY <1>e, <4>1 DEF WakeInv, EndsAreSeen
    <3>2. ASSUME NEW u \in Thread, pc'[u] = "register", u \notin missed',
                 NEW r \in Thread, r = son'[u]
          PROVE  WillBeReaped(r)'
      <4>1. pc[u] = "register" /\ u \notin missed /\ r = son[u]
        BY <1>1, <2>4, <3>2
      <4>2. r # t
        BY <2>2, <4>1 DEF WakeInv, SonsAreNew
      <4> QED
        BY <1>e, <4>1, <4>2 DEF WakeInv, EndsAreSeen
    <3>3. \A u \in Thread : pc'[u] = "register" => son'[u] \in Thread
      BY <1>1, <2>4, SonsAreLater
    <3> QED
      BY <3>1, <3>2, <3>3 DEF EndsAreSeen, WillBeReaped
  <2>8. SonInTable'
    <3>1. ASSUME NEW u \in Thread, pc'[u] \in Held, u \notin missed'
          PROVE  \E s \in Thread : father'[s] = u
      <4>1. pc[u] \in Held /\ u \notin missed /\ pc'[u] = pc[u]
        BY <2>4, <3>1 DEF Held
      <4>2. PICK s \in Thread : father[s] = u
        BY <4>1 DEF WakeInv, SonInTable
      <4>3. CASE u # f
        <5>1. s # t /\ father'[s] = father[s]
          BY <1>t, <2>2, <2>3, <4>2, <4>3 DEF TypeOK
        <5> QED
          BY <4>2, <5>1
      <4>4. CASE u = f
        <5>1. CASE ~HoldsCv(f) /\ Notify(f)
          <6>1. pc[f] \in {"park", "wait"}
            BY <4>1, <4>4, <5>1 DEF Held, HoldsCv
          <6>2. CASE pc[f] = "park"
            BY <3>1, <4>4, <5>1, <6>2 DEF Notify, BeforeCv
          <6>3. CASE pc[f] = "wait"
            BY <1>t, <4>1, <4>4, <5>1, <6>3 DEF Notify, TypeOK
          <6> QED
            BY <6>1, <6>2, <6>3
        <5>2. CASE father' = [father EXCEPT ![t] = 0] /\ SonsOf(f) # {t}
          <6>1. PICK r \in SonsOf(f) : r # t
            BY <2>2, <5>2
          <6>2. r \in Thread /\ father[r] = f /\ father'[r] = father[r]
            BY <1>t, <5>2, <6>1 DEF SonsOf, TypeOK
          <6> QED
            BY <4>4, <6>2
        <5> QED
          BY <2>3, <5>1, <5>2
      <4> QED
        BY <4>3, <4>4
    <3> QED
      BY <3>1 DEF SonInTable
  <2> QED
    BY <2>6, <2>7, <2>8
<1> QED
  BY <1>2, <1>3

LEMMA WakeStep ==
  ASSUME WakeInv, [Next]_vars
  PROVE  WakeInv'
<1> USE ProcFacts DEF queues, forks, history
<1>q. QueueInv'
  BY QueueStep DEF WakeInv
<1>t. TypeOK /\ QueueInv
  BY DEF WakeInv, QueueInv, JoinInv
<1> DEFINE Kept == SonsAreNew' /\ EndsAreSeen' /\ SonInTable' /\ DeadAreHandled'
<1>1. ASSUME NEW t \in Thread, Worker(t) PROVE Kept
  BY <1>1, WorkersWake
<1>2. ASSUME NEW t \in Thread, HandleDead(t) PROVE Kept
  BY <1>2, HandleWakes
<1>3. ASSUME \/ AdminStart \/ Reap \/ AllHandled \/ CheckRunning \/ CheckReady \/ Final
             \/ Fetch(Admin) \/ Resume(Admin)
      PROVE  Kept
  <2>1. /\ UNCHANGED <<father, son, kids, missed>>
        /\ \E x : pc' = [pc EXCEPT ![Admin] = x]
    BY <1>3 DEF AdminStart, Reap, AllHandled, CheckRunning, CheckReady, Final, Fetch, Resume
  <2>2. \A u \in Thread : pc'[u] = pc[u]
    BY <1>t, <2>1 DEF TypeOK
  <2>3. DeadAreHandled'
    <3>1. CASE Reap
      BY <1>t, <3>1 DEF Reap, DeadAreHandled, TypeOK
    <3>2. CASE AllHandled
      BY <3>2 DEF AllHandled, DeadAreHandled
    <3>3. CASE ~Reap /\ ~AllHandled
      <4>1. dead' = dead /\ pc[Admin] # "notify"
        BY <1>3, <3>3 DEF AdminStart, CheckRunning, CheckReady, Final, Fetch, Resume
      <4> QED
        BY <4>1 DEF WakeInv, DeadAreHandled
    <3> QED
      BY <3>1, <3>2, <3>3
  <2>4. \A s \in Thread : WillBeReaped(s) => WillBeReaped(s)'
    BY <1>3, <1>t, AdminKeepsEnds DEF WakeInv
  <2>5. \A u \in Thread : First \notin kids'[u]
    BY <2>1 DEF WakeInv, SonsAreNew
  <2> QED
    BY <2>1, <2>2, <2>3, <2>4, <2>5, WakeKeeps
<1>4. ASSUME UNCHANGED vars PROVE Kept
  BY <1>4 DEF vars, WakeInv, SonsAreNew, EndsAreSeen, SonInTable, DeadAreHandled, WillBeReaped
<1>5. Kept
  BY <1>1, <1>2, <1>3, <1>4 DEF Next, AdminStep
<1> QED
  BY <1>q, <1>5 DEF WakeInv

\* A father inside "with cv" has a son in branch_son_dad whose end the main
\* thread has still to handle, unless that end came before he took cv
\* (condition.py:152, opgen.py:516): for any number of threads and both policies.
THEOREM SleepersHaveASon == Spec => []WaitsForASon
<1>1. WakeInv /\ [Next]_vars => WakeInv'
  BY WakeStep
<1>2. WakeInv => WaitsForASon
  <2> SUFFICES ASSUME WakeInv, NEW t \in Thread,
                      pc[t] \in {"leave", "unready", "wait"}, t \notin missed
               PROVE  \E s \in Thread : father[s] = t /\ WillBeReaped(s)
    BY DEF WaitsForASon
  <2>1. PICK s \in Thread : father[s] = t
    BY DEF WakeInv, SonInTable, Held
  <2> QED
    BY <2>1, ProcFacts DEF WakeInv, EndsAreSeen, Thread
<1> QED
  BY <1>1, <1>2, WakeInit, PTL DEF Spec

\* The scheduler never comes to a state where all threads block and the main
\* thread has nothing left to do for them, but for the known losses: the
\* fathers who wait form no circle, so one of them waits for a son that ended
\* (condition.py:152, utils.py:842, opgen.py:509).
THEOREM SomebodyCanGoOn == Spec => []AdminHasWork
<1>1. WakeInv /\ [Next]_vars => WakeInv'
  BY WakeStep
<1>2. WakeInv /\ FathersInNoCircle => AdminHasWork
  <2> SUFFICES ASSUME WakeInv, FathersInNoCircle, \E t \in Thread : Alive(t), ~late,
                      \A t \in Thread : Alive(t) => Blocks(t) /\ t \notin missed
               PROVE  /\ running \cap {t \in Thread : Alive(t)} = {}
                      /\ \/ ready # {} \/ \E p \in Proc : got[p] # {}
                         \/ \E s \in running \cup dead : father[s] # 0
    BY DEF AdminHasWork
  <2>1. RunningIsAccurate /\ NoThreadLost /\ TypeOK /\ NoStaleSons
    BY QueuesTell DEF WakeInv, QueueInv, JoinInv
  <2>2. running \cap {t \in Thread : Alive(t)} = {}
    BY <2>1 DEF RunningIsAccurate, Sleeps, Blocks
  <2>3. CASE \E t \in Thread : pc[t] = "dispatch" /\ ~flag[t]
    BY <2>1, <2>2, <2>3 DEF NoThreadLost
  <2>4. CASE ~\E t \in Thread : pc[t] = "dispatch" /\ ~flag[t]
    <3> DEFINE W == {t \in Thread : pc[t] = "wait"}
    <3>1. \A t \in Thread : Alive(t) <=> t \in W
      BY <2>4 DEF Alive, Blocks
    <3>2. W # {} /\ W \subseteq {t \in Thread : StageOf[t] = "joining"}
      BY <3>1, StageCases DEF StageOf, BeforeWake
    <3>3. PICK t \in W : SonsMap[t] \cap W = {}
      BY <3>2 DEF FathersInNoCircle, FJ!NoCircularWait, StageOf, SonsMap
    <3>4. pc[t] = "wait" /\ t \in Thread /\ t \notin missed
      BY <3>1, <3>3
    <3>5. PICK s \in Thread : father[s] = t
      BY <3>4 DEF WakeInv, SonInTable, Held
    <3>6. s \in kids[t] /\ pc[s] # "unborn" /\ father[s] # 0
      BY <2>1, <3>4, <3>5, ProcFacts DEF NoStaleSons, WakeInv, SonsAreNew, Thread
    <3>7. s \in SonsMap[t]
      BY <3>4, <3>6 DEF SonsMap
    <3>8. pc[s] = "dead"
      BY <3>1, <3>3, <3>6, <3>7 DEF Alive
    <3>9. WillBeReaped(s)
      BY <3>4, <3>5, <3>6 DEF WakeInv, EndsAreSeen
    <3> QED
      BY <2>2, <3>6, <3>8, <3>9 DEF WillBeReaped
  <2> QED
    BY <2>3, <2>4
<1> QED
  BY <1>1, <1>2, WakeInit, FathersWaitInNoCircle, PTL DEF Spec

-----------------------------------------------------------------------------
(* What holds of Shutdown for every number of threads, arms and nodes, both *)
(* policies, and an alarm at any point of the main thread.                  *)

ShutTypes ==
  /\ keys \subseteq Thread /\ unswept \subseteq Thread /\ key \in Proc
  /\ infos \subseteq Thread /\ half \in Proc

\* Threads come into being in the order of their names.
NamesInOrder ==
  /\ \A t \in Thread : t > born => pc[t] = "unborn"
  /\ \A t \in Thread : kids[t] \subseteq 1..born

\* Only threads that exist are stopped, or about to be.
StoppedAreBorn ==
  /\ \A t \in stopped \cup infos : pc[t] # "unborn"
  /\ half # 0 => pc[half] # "unborn"

ShutInv == TypeOK /\ ShutTypes /\ NamesInOrder /\ StoppedAreBorn

LEMMA ShutInitially == ShutInit => ShutInv
<1> SUFFICES ASSUME ShutInit PROVE ShutInv
  OBVIOUS
<1>1. TypeOK
  BY TypeInit DEF ShutInit
<1>2. NamesInOrder
  <2>1. /\ born = First /\ \A t \in Thread : kids[t] = {}
        /\ \A t \in Thread : t # First => pc[t] = "unborn"
    BY ProcFacts DEF ShutInit, Init
  <2> QED
    BY <2>1 DEF NamesInOrder, First
<1>3. ShutTypes /\ StoppedAreBorn
  <2>1. /\ keys = {} /\ unswept = {} /\ key = 0 /\ infos = {} /\ half = 0
        /\ stopped = {}
    BY DEF ShutInit, Init
  <2>2. 0 \in Proc
    BY ProcFacts DEF Admin
  <2> QED
    BY <2>1, <2>2 DEF ShutTypes, StoppedAreBorn
<1> QED
  BY <1>1, <1>2, <1>3 DEF ShutInv

\* How a step of the analysis moves a thread: it stays, or goes on to a next
\* node only if it is not stopped, or comes into being under a name of its own.
Moves(t) ==
  \/ pc'[t] = pc[t]
  \/ /\ pc[t] # "unborn" /\ pc'[t] # "unborn"
     /\ pc'[t] = "dispatch" => t \notin stopped
  \/ pc[t] = "unborn" /\ pc'[t] = "dispatch" /\ t <= born'

LEMMA WorkerMoves ==
  ASSUME TypeOK, NamesInOrder, NEW t \in Thread, Worker(t)
  PROVE  /\ \A u \in Thread : Moves(u)
         /\ born' >= born
         /\ \A u \in Thread : kids'[u] \subseteq 1..born'
<1> USE ProcFacts DEF TypeOK, NamesInOrder, queues, forks
<1>0. born \in Int
  BY DEF Thread
<1>1. CASE EmitFree(t)
  <2>1. born + 1 \in Thread /\ pc[born + 1] = "unborn" /\ pc[t] = "dispatch" /\ born' = born + 1
    <3>1. born < N /\ pc[t] = "dispatch" /\ born' = born + 1
      BY <1>1 DEF EmitFree, AtNode
    <3>2. born \in 1..N
      BY DEF Thread
    <3>3. born + 1 \in Thread /\ born + 1 > born
      BY <3>1, <3>2, SchedulerAssumption DEF Thread
    <3> QED
      BY <3>1, <3>3
  <2>2. pc' = [pc EXCEPT ![born + 1] = "dispatch", ![t] = NextNode(t)] /\ kids' = kids
    BY <1>1 DEF EmitFree
  <2>3. NextNode(t) # "unborn" /\ (NextNode(t) = "dispatch" => t \notin stopped)
    BY DEF NextNode
  <2>4. 1..born \subseteq 1..born'
    BY <1>0, <2>1
  <2> QED
    BY <1>0, <2>1, <2>2, <2>3, <2>4 DEF Moves
<1>2. CASE BeginIf(t)
  <2>1. PICK k \in 1..MaxSons :
          /\ born' = born + k
          /\ kids' = [kids EXCEPT ![t] = (born + 1)..(born + k)]
    BY <1>2 DEF BeginIf
  <2>2. pc[t] = "dispatch" /\ pc' = [pc EXCEPT ![t] = "emit"]
    BY <1>2 DEF BeginIf, AtNode
  <2>3. 1..born \subseteq 1..born' /\ (born + 1)..(born + k) \subseteq 1..born' /\ born' >= born
    BY <1>0, <2>1 DEF Thread
  <2> QED
    BY <2>1, <2>2, <2>3 DEF Moves
<1>3. CASE EmitSon(t)
  <2>1. PICK s \in ArmsLeft(t) : pc' = [pc EXCEPT ![s] = "dispatch", ![t] = "register"]
    BY <1>3 DEF EmitSon
  <2>2. s \in Thread /\ s <= born /\ pc[s] = "unborn" /\ pc[t] = "emit" /\ UNCHANGED <<born, kids>>
    BY <1>0, <1>3, <2>1 DEF EmitSon, ArmsLeft
  <2> QED
    BY <1>0, <2>1, <2>2 DEF Moves
<1>4. CASE \/ Preempt(t) \/ Yield(t) \/ Enqueue(t) \/ Recheck(t) \/ Finish(t)
           \/ Register(t) \/ Park(t) \/ Leave(t) \/ Unready(t) \/ Unwait(t)
           \/ Back(t) \/ Merge(t) \/ Fetch(t) \/ Resume(t)
  <2>1. \A x : x = NextNode(t) => x # "unborn" /\ (x = "dispatch" => t \notin stopped)
    BY DEF NextNode
  <2>2. /\ pc[t] # "unborn" /\ born' = born
        /\ \E x \in {NextNode(t), "yield", "enqueue", "recheck", "fetch", "dead", "resume",
                     "emit", "park", "leave", "unready", "wait", "back", "merge"} :
             pc' = [pc EXCEPT ![t] = x]
    BY <1>4 DEF Preempt, Yield, Enqueue, Recheck, Finish, Register, Park, Leave, Unready,
                Unwait, Back, Merge, Fetch, Resume, AtNode
  <2>3. \A u \in Thread : kids'[u] \subseteq kids[u]
    <3>1. CASE Merge(t)
      <4>1. kids \in [Thread -> SUBSET Thread] /\ kids' = [kids EXCEPT ![t] = {}]
        BY <3>1 DEF Merge
      <4> HIDE DEF TypeOK
      <4> QED
        BY <4>1
    <3>2. CASE ~Merge(t)
      <4>1. kids' = kids
        BY <1>4, <3>2 DEF Preempt, Yield, Enqueue, Recheck, Finish, Register, Park, Leave,
                          Unready, Unwait, Back, Fetch, Resume
      <4> QED
        BY <4>1
    <3> QED
      BY <3>1, <3>2
  <2> QED
    BY <1>0, <2>1, <2>2, <2>3 DEF Moves
<1> QED
  BY <1>1, <1>2, <1>3, <1>4 DEF Worker

\* The main thread moves no thread but a father it wakes.
LEMMA AdminMoves ==
  ASSUME TypeOK, NamesInOrder, AdminStep
  PROVE  /\ \A u \in Thread : Moves(u)
         /\ born' = born /\ kids' = kids
<1> USE ProcFacts DEF TypeOK, queues, forks, history
<1>1. CASE \/ AdminStart \/ Reap \/ AllHandled \/ CheckRunning \/ CheckReady \/ Final
           \/ Fetch(Admin) \/ Resume(Admin)
  <2>1. /\ UNCHANGED <<born, kids>> /\ \E x : pc' = [pc EXCEPT ![Admin] = x]
    BY <1>1 DEF AdminStart, Reap, AllHandled, CheckRunning, CheckReady, Final, Fetch, Resume
  <2> QED
    BY <2>1 DEF Moves
<1>2. ASSUME NEW t \in Thread, HandleDead(t)
      PROVE  (\A u \in Thread : Moves(u)) /\ UNCHANGED <<born, kids>>
  <2>1. \/ pc' = pc
        \/ \E f \in Thread : pc[f] = "wait" /\ pc' = [pc EXCEPT ![f] = "woken"]
    BY <1>2 DEF HandleDead, NotifyFather, Notify
  <2> QED
    BY <1>2, <2>1 DEF HandleDead, Moves
<1> QED
  BY <1>1, <1>2 DEF AdminStep

\* The steps of the main thread once the alarm was raised, and the alarm.
LEMMA StoppingMoves ==
  ASSUME TypeOK, ShutTypes, Alarm \/ MainStep
  PROVE  /\ TypeOK' /\ UNCHANGED <<born, kids>>
         /\ \A u \in Thread : \/ pc'[u] = pc[u]
                              \/ (pc[u] = "wait" /\ pc'[u] = "woken")
<1> USE ProcFacts DEF TypeOK, ShutTypes, queues, forks, history, AdminPcs, WorkerPcs
<1>1. CASE Alarm
  <2>0. UNCHANGED <<stopped, age, nodes, ready, waiting, kids, son, got, born, dead, late, missed>>
    BY <1>1 DEF Alarm
  <2>1. CASE pc' = Interrupted /\ UNCHANGED <<flag, running, father>>
    BY <2>0, <2>1 DEF Interrupted
  <2>2. CASE CutNotification
    <3>1. PICK f \in Thread, S \in SUBSET Thread :
            \/ /\ father' = [s \in Thread |-> IF s \in S THEN 0 ELSE father[s]]
               /\ pc' = Interrupted
            \/ /\ pc' = IF pc[f] = "wait" THEN [Interrupted EXCEPT ![f] = "woken"]
                        ELSE Interrupted
               /\ father' = father
      <4> HIDE DEF TypeOK, ShutTypes, AdminPcs, WorkerPcs
      <4>1. PICK f \in Thread, S \in SUBSET Thread :
              /\ S \subseteq SonsOf(f)
              /\ \/ /\ father' = [s \in Thread |-> IF s \in S THEN 0 ELSE father[s]]
                    /\ pc' = Interrupted
                 \/ /\ pc' = IF pc[f] = "wait" THEN [Interrupted EXCEPT ![f] = "woken"]
                             ELSE Interrupted
                    /\ father' = father
        BY <2>2 DEF CutNotification, SonsOf
      <4> QED
        BY <4>1
    <3>2. father' \in [Thread -> Proc]
      BY <3>1 DEF Admin
    <3>3. pc' = Interrupted \/ (pc[f] = "wait" /\ pc' = [Interrupted EXCEPT ![f] = "woken"])
      BY <3>1
    <3>4. UNCHANGED <<flag, running>>
      BY <2>2 DEF CutNotification
    <3> QED
      BY <2>0, <3>2, <3>3, <3>4 DEF Interrupted
  <2>3. CASE CutResume
    <3>1. running' \subseteq Thread /\ flag' \in [Thread -> BOOLEAN]
      <4>1. PICK S \in SUBSET (got[Admin] \ running), R \in SUBSET (got[Admin] \ running) :
              /\ running' = running \cup S
              /\ flag' = [t \in Thread |-> IF t \in R THEN TRUE ELSE flag[t]]
        <5> HIDE DEF TypeOK, ShutTypes, AdminPcs, WorkerPcs
        <5> QED
          BY <2>3 DEF CutResume
      <4>2. got[Admin] \subseteq Thread
        OBVIOUS
      <4>3. running' \subseteq Thread
        BY <4>1, <4>2
      <4>4. flag' \in [Thread -> BOOLEAN]
        BY <4>1
      <4> QED
        BY <4>3, <4>4
    <3>2. pc' = Interrupted /\ UNCHANGED father
      BY <2>3 DEF CutResume
    <3> QED
      BY <2>0, <3>1, <3>2 DEF Interrupted
  <2> QED
    BY <1>1, <2>1, <2>2, <2>3 DEF Alarm
<1>2. CASE SweepNext \/ Relist
  <2>1. UNCHANGED vars
    BY <1>2 DEF SweepNext, Relist
  <2> QED
    BY <2>1 DEF vars
<1>3. CASE SweepNotify
  <2>1. pc' = pc \/ \E f \in Thread : pc[f] = "wait" /\ pc' = [pc EXCEPT ![f] = "woken"]
    <3>1. key \in Thread
      BY <1>3 DEF SweepNotify, Proc, Thread, Admin
    <3>2. father[key] \in Proc
      BY <3>1
    <3>3. pc[father[key]] = "wait" => father[key] \in Thread
      BY <3>2
    <3> QED
      BY <1>3, <3>3 DEF SweepNotify, Notify
  <2>2. missed' \in SUBSET Thread
    <3>1. father[key] \in Proc
      BY <1>3 DEF SweepNotify, Proc, Thread, Admin
    <3>2. pc[father[key]] \in BeforeCv => father[key] \in Thread
      BY <3>1 DEF BeforeCv
    <3>3. missed' = missed \/ (pc[father[key]] \in BeforeCv /\ missed' = missed \cup {father[key]})
      <4> HIDE DEF TypeOK, ShutTypes, AdminPcs, WorkerPcs
      <4> QED
        BY <1>3 DEF SweepNotify, Notify
    <3>4. missed \subseteq Thread
      OBVIOUS
    <3> HIDE DEF TypeOK, ShutTypes, AdminPcs, WorkerPcs
    <3> QED
      BY <3>2, <3>3, <3>4
  <2> QED
    BY <1>3, <2>1, <2>2 DEF SweepNotify
<1>4. CASE StopFlag
  BY <1>4 DEF StopFlag
<1>5. CASE StopRunning
  <2>1. half \in Thread
    BY <1>5 DEF StopRunning, Proc, Thread, Admin
  <2> QED
    BY <1>5, <2>1 DEF StopRunning
<1> QED
  BY <1>1, <1>2, <1>3, <1>4, <1>5 DEF MainStep

\* The analysis itself stops nobody.
LEMMA StoppedStays == Next => stopped' = stopped
BY DEF Next, AdminStep, Worker, AdminStart, Reap, AllHandled, CheckRunning, CheckReady, Final,
       HandleDead, Fetch, Resume, Preempt, Yield, Enqueue, Recheck, Finish, EmitFree, BeginIf,
       EmitSon, Register, Park, Leave, Unready, Unwait, Back, Merge

LEMMA ShutStep == ShutInv /\ [ShutNext]_allVars => ShutInv'
<1> SUFFICES ASSUME ShutInv, [ShutNext]_allVars PROVE ShutInv'
  OBVIOUS
<1> USE ProcFacts DEF ShutInv
<1>0. born \in Int /\ \A t \in Thread : t \in Int
  BY DEF TypeOK, Thread
<1>1. CASE Next /\ UNCHANGED shutVars
  <2>1. /\ \A u \in Thread : Moves(u)
        /\ born' >= born
        /\ \A u \in Thread : kids'[u] \subseteq 1..born'
    <3>1. CASE AdminStep
      BY <1>0, <3>1, AdminMoves DEF NamesInOrder
    <3>2. CASE \E t \in Thread : Worker(t)
      BY <3>2, WorkerMoves
    <3> QED
      BY <1>1, <3>1, <3>2 DEF Next
  <2>2. TypeOK' /\ ShutTypes'
    BY <1>1, TypeStep DEF ShutTypes, shutVars
  <2>3. NamesInOrder'
    <3>1. \A t \in Thread : t > born' => t > born /\ ~(t <= born')
      BY <1>0, <2>1, <2>2 DEF TypeOK, Thread
    <3> QED
      BY <2>1, <3>1 DEF NamesInOrder, Moves
  <2>4. stopped' = stopped
    BY <1>1, StoppedStays
  <2>5. \A t \in Thread : pc[t] # "unborn" => pc'[t] # "unborn"
    BY <2>1 DEF Moves
  <2>6. half # 0 => half \in Thread
    BY DEF ShutTypes, Proc, Thread
  <2> QED
    BY <1>1, <2>2, <2>3, <2>4, <2>5, <2>6 DEF StoppedAreBorn, ShutTypes, TypeOK, shutVars
<1>2. CASE Alarm \/ MainStep
  <2>1. /\ TypeOK' /\ UNCHANGED <<born, kids>>
        /\ \A u \in Thread : \/ pc'[u] = pc[u]
                             \/ (pc[u] = "wait" /\ pc'[u] = "woken")
    BY <1>2, StoppingMoves
  <2>2. NamesInOrder'
    BY <2>1 DEF NamesInOrder
  <2>3. \A t \in Thread : pc[t] # "unborn" => pc'[t] # "unborn"
    BY <2>1
  <2>4. ShutTypes' /\ StoppedAreBorn'
    <3>1. CASE Alarm
      BY <2>3, <3>1 DEF Alarm, ShutTypes, StoppedAreBorn, TypeOK, Proc, Thread
    <3>2. CASE SweepNext
      BY <2>3, <3>2 DEF SweepNext, ShutTypes, StoppedAreBorn, TypeOK, Proc, Thread, thread_infos, vars
    <3>3. CASE SweepNotify
      <4>1. /\ UNCHANGED <<stopped, keys, unswept, infos, half>>
            /\ key' = 0 /\ 0 \in Proc
        BY <3>3 DEF SweepNotify, Proc
      <4>2. ShutTypes'
        BY <4>1 DEF ShutTypes
      <4>3. half # 0 => half \in Thread
        BY DEF ShutTypes, Proc, Thread
      <4>4. stopped \cup infos \subseteq Thread
        BY DEF ShutTypes, TypeOK
      <4>5. StoppedAreBorn'
        BY <2>3, <4>1, <4>3, <4>4 DEF StoppedAreBorn
      <4> QED
        BY <4>2, <4>5
    <3>4. CASE StopFlag
      BY <2>3, <3>4 DEF StopFlag, ShutTypes, StoppedAreBorn, TypeOK
    <3>5. CASE StopRunning
      BY <2>3, <3>5 DEF StopRunning, ShutTypes, StoppedAreBorn, TypeOK, Proc, Thread
    <3>6. CASE Relist
      BY <2>3, <3>6 DEF Relist, ShutTypes, StoppedAreBorn, TypeOK, thread_infos, vars
    <3> QED
      BY <1>2, <3>1, <3>2, <3>3, <3>4, <3>5, <3>6 DEF MainStep
  <2> QED
    BY <2>1, <2>2, <2>4
<1>3. CASE UNCHANGED allVars
  BY <1>3 DEF allVars, vars, shutVars, queues, forks, history, TypeOK, ShutTypes, NamesInOrder, StoppedAreBorn
<1> QED
  BY <1>1, <1>2, <1>3 DEF ShutNext

\* Although the alarm may come anywhere, queues, flags, program counters and
\* the table of sons keep their types (opgen.py:205, thread_design.py:25).
THEOREM ShutdownTypeCorrect == ShutSpec => []TypeOK
<1>1. ShutInv => TypeOK
  BY DEF ShutInv
<1> QED
  BY <1>1, ShutInitially, ShutStep, PTL DEF ShutSpec

\* A thread that was stopped visits no further node: whichever path through
\* dispatch_node, fetch_new_thread and HandleIf it is on, the next node's test
\* of `running' ends it, and nobody is given its name (manager.py:132).
THEOREM StoppedThreadsLeave == ShutSpec => StoppedLeavesForGood
<1>1. ShutInv /\ [ShutNext]_allVars
        => [\A t \in Thread :
              t \in stopped /\ pc[t] # "dispatch" => pc'[t] # "dispatch"]_allVars
  <2> SUFFICES ASSUME ShutInv, ShutNext, NEW t \in Thread, t \in stopped, pc[t] # "dispatch"
               PROVE  pc'[t] # "dispatch"
    OBVIOUS
  <2>1. CASE Next
    <3>1. Moves(t)
      BY <2>1, WorkerMoves, AdminMoves DEF Next, ShutInv
    <3>2. pc[t] # "unborn"
      BY DEF ShutInv, StoppedAreBorn
    <3> QED
      BY <3>1, <3>2 DEF Moves
  <2>2. CASE Alarm \/ MainStep
    BY <2>2, StoppingMoves DEF ShutInv
  <2> QED
    BY <2>1, <2>2 DEF ShutNext
<1> QED
  BY <1>1, ShutInitially, ShutStep, PTL DEF ShutSpec, StoppedLeavesForGood
=============================================================================
