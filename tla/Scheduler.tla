----------------------------- MODULE Scheduler -----------------------------
(***************************************************************************)
(* The thread scheduler of the WebView analyser                            *)
(* (WebViewJSdetect-main: core/opgen.py, core/thread_design.py,            *)
(* plugins/manager.py, plugins/internal/utils.py and                       *)
(* plugins/internal/handlers/condition.py).                                *)
(*                                                                         *)
(* Analysis threads walk a program's syntax tree.  At every node a thread  *)
(* passes dispatch_node, where it blocks on its own flag and where it may  *)
(* give up its slice; at an if it emits one thread per arm and sleeps on a *)
(* condition variable.  The main thread (admin_threads) removes finished   *)
(* threads from running_queue, notifies fathers and starts ready threads.  *)
(* Each step below is the code between two points at which the code takes  *)
(* or releases a lock, or reads a queue without one.                       *)
(***************************************************************************)
EXTENDS Integers, FiniteSets

CONSTANTS
  N,         \* number of analysis threads, named 1..N in order of creation
  Policy,    \* G.policy
  Mode,      \* G.ablation_mode
  Ages,      \* values thread_age takes (the bound on ages)
  MaxSons,   \* most arms of an if (the bound on if_elems)
  Nodes      \* nodes and preemptions a thread goes through (a bound)

ASSUME SchedulerAssumption ==
  /\ N \in Nat \ {0}
  /\ Policy \in {1, 2}
  /\ Mode \in {"coco", "coco-single", "odgen-ext-co"}
  /\ Ages \subseteq Int /\ 1 \in Ages
  /\ MaxSons \in Nat \ {0}
  /\ Nodes \in Nat

Thread == 1..N
First  == 1          \* the thread admin_threads is given
Admin  == 0          \* the main thread
Proc   == 0..N

VARIABLES
  pc,        \* pc[p]: where process p is
  flag,      \* flag[t]: thread_info.flag, the event t blocks on
  stopped,   \* threads whose thread_info.running was cleared by stop()
  age,       \* thread_info.thread_age
  nodes,     \* dispatches thread t still has
  running,   \* G.running_queue
  ready,     \* G.ready_queue, kept sorted by age in the code
  waiting,   \* G.wait_queue
  father,    \* G.branch_son_dad: the father registered for a son, or 0
  got,       \* got[p]: the list "threads" of p's call of fetch_new_thread
  kids,      \* kids[t]: the sons of the if that t is at, unborn ones included
  son,       \* son[t]: the thread t has just emitted
  born,      \* number of threads created or set aside for an if
  dead       \* the list "dead" of admin_threads not yet gone through

\* History, for the properties only: no step depends on it.
VARIABLES
  late,      \* the first thread had stopped before it came into running_queue
  missed     \* fathers who missed the end of a son of the if they are at

history == <<late, missed>>
queues == <<running, ready, waiting>>
forks  == <<father, kids, son>>
vars   == <<pc, flag, stopped, age, nodes, queues, forks, got, born, dead, history>>

WorkerPcs ==
  {"unborn", "dispatch", "yield", "enqueue", "recheck", "fetch", "resume",
   "emit", "register", "park", "leave", "unready", "wait", "woken", "back",
   "merge", "dead"}
\* HandleIf: from pause() to merge(); before "with cv", before
\* cv.wait() returns, and after.
BeforeCv   == {"emit", "register", "park"}
BeforeWake == BeforeCv \cup {"leave", "unready", "wait"}
AfterWake  == {"woken", "back", "merge"}
AdminPcs ==
  {"start", "reap", "notify", "checkRunning", "checkReady", "fetch",
   "resume", "final", "finished", "crashed"}

TypeOK ==
  /\ pc \in [Proc -> WorkerPcs \cup AdminPcs]
  /\ pc[Admin] \in AdminPcs
  /\ \A t \in Thread : pc[t] \in WorkerPcs
  /\ flag \in [Thread -> BOOLEAN]
  /\ stopped \in SUBSET Thread
  /\ age \in [Thread -> Ages]
  /\ nodes \in [Thread -> 0..Nodes]
  /\ running \in SUBSET Thread
  /\ ready \in SUBSET Thread
  /\ waiting \in SUBSET Thread
  /\ father \in [Thread -> Proc]
  /\ got \in [Proc -> SUBSET Thread]
  /\ kids \in [Thread -> SUBSET Thread]
  /\ son \in [Thread -> Proc]
  /\ born \in Thread
  /\ dead \in SUBSET Thread
  /\ late \in BOOLEAN
  /\ missed \in SUBSET Thread

Alive(t) == pc[t] \notin {"unborn", "dead"}

\* Broken on purpose: the loop does not look at `running'.
NextNodeAlways(t) == "dispatch"

\* dispatch_node: a thread that was stopped does not enter the next node,
\* nor any after it, and so ends.
NextNode(t) == IF t \in stopped THEN "dead" ELSE "dispatch"

\* thread_age of a new or preempted thread: data, except in one mode.
AgeChoice == IF Mode = "odgen-ext-co" THEN {1} ELSE Ages

-----------------------------------------------------------------------------
(* fetch_new_thread, called by the admin thread and by preempted threads. *)

Oldest == {t \in ready : \A u \in ready : age[t] <= age[u]}

\* What one call takes from the head of the sorted ready_queue.
Batches == IF Mode = "coco" THEN {Oldest} ELSE {{t} : t \in Oldest}

\* ready_queue[0] of an empty list raises IndexError: the thread dies of it,
\* and in the main thread it leaves admin_threads.
Fetch(p) ==
  /\ pc[p] = "fetch"
  /\ \/ /\ ready = {}
        /\ pc' = [pc EXCEPT ![p] = IF p = Admin THEN "crashed" ELSE "dead"]
        /\ UNCHANGED <<ready, got>>
     \/ /\ ready # {}
        /\ \E B \in Batches :
             /\ got' = [got EXCEPT ![p] = B]
             /\ ready' = ready \ B
        /\ pc' = [pc EXCEPT ![p] = "resume"]
  /\ UNCHANGED <<flag, stopped, age, nodes, running, waiting, forks, born, dead, history>>

\* Broken on purpose: only one thread of the same age is resumed.
ResumeOne(p) ==
  /\ pc[p] = "resume"
  /\ \E t \in got[p] :
       /\ running' = running \cup {t}
       /\ flag' = [flag EXCEPT ![t] = TRUE]
  /\ got' = [got EXCEPT ![p] = {}]
  /\ pc' = [pc EXCEPT ![p] = IF p = Admin THEN "checkRunning" ELSE NextNode(p)]
  /\ UNCHANGED <<stopped, age, nodes, ready, waiting, forks, born, dead, history>>

\* A thread that is already in running_queue is not resumed.
Resume(p) ==
  /\ pc[p] = "resume"
  /\ running' = running \cup got[p]
  /\ flag' = [t \in Thread |-> IF t \in got[p] \ running THEN TRUE ELSE flag[t]]
  /\ got' = [got EXCEPT ![p] = {}]
  /\ pc' = [pc EXCEPT ![p] = IF p = Admin THEN "checkRunning" ELSE NextNode(p)]
  /\ UNCHANGED <<stopped, age, nodes, ready, waiting, forks, born, dead, history>>

-----------------------------------------------------------------------------
(* dispatch_node, in thread t.                                             *)

AtNode(t) == pc[t] = "dispatch" /\ flag[t]

\* The slice is used up and another thread is ready (read without a lock).
Preempt(t) ==
  /\ AtNode(t)
  /\ nodes[t] > 0
  /\ ready # {}
  /\ nodes' = [nodes EXCEPT ![t] = @ - 1]
  /\ pc' = [pc EXCEPT ![t] = "yield"]
  /\ UNCHANGED <<flag, stopped, age, queues, forks, got, born, dead, history>>

Yield(t) ==
  /\ pc[t] = "yield"
  /\ running' = running \ {t}
  /\ pc' = [pc EXCEPT ![t] = "enqueue"]
  /\ UNCHANGED <<flag, stopped, age, nodes, ready, waiting, forks, got, born, dead, history>>

\* New age, pause(), append to ready_queue and sort.
Enqueue(t) ==
  /\ pc[t] = "enqueue"
  /\ \E a \in AgeChoice : age' = [age EXCEPT ![t] = a]
  /\ flag' = [flag EXCEPT ![t] = FALSE]
  /\ ready' = ready \cup {t}
  /\ pc' = [pc EXCEPT ![t] = "recheck"]
  /\ UNCHANGED <<stopped, nodes, running, waiting, forks, got, born, dead, history>>

\* running_queue is read without its lock.
Recheck(t) ==
  /\ pc[t] = "recheck"
  /\ pc' = [pc EXCEPT ![t] = IF running = {} THEN "fetch" ELSE NextNode(t)]
  /\ UNCHANGED <<flag, stopped, age, nodes, queues, forks, got, born, dead, history>>

\* The function of the thread returns: no node is left.
Finish(t) ==
  /\ AtNode(t)
  /\ pc' = [pc EXCEPT ![t] = "dead"]
  /\ UNCHANGED <<flag, stopped, age, nodes, queues, forks, got, born, dead, history>>

\* emit_thread: thread s starts paused and is appended to ready_queue.
Emit(s) ==
  /\ flag' = [flag EXCEPT ![s] = FALSE]
  /\ \E a \in AgeChoice : age' = [age EXCEPT ![s] = a]
  /\ ready' = ready \cup {s}

\* A handler emits a thread nobody waits for: an event, an attack entry, a
\* file of a directory.
EmitFree(t) ==
  /\ AtNode(t)
  /\ nodes[t] > 0
  /\ born < N
  /\ born' = born + 1
  /\ Emit(born + 1)
  /\ nodes' = [nodes EXCEPT ![t] = @ - 1]
  /\ pc' = [pc EXCEPT ![born + 1] = "dispatch", ![t] = NextNode(t)]
  /\ UNCHANGED <<stopped, running, waiting, forks, got, dead, history>>

-----------------------------------------------------------------------------
(* HandleIf.process, in thread t.                                          *)

\* Broken on purpose: the arm of a missing else is counted as a son.
BeginIfOneMore(t) ==
  /\ AtNode(t)
  /\ nodes[t] > 0
  /\ \E k \in 1..MaxSons :
       /\ born + k <= N
       /\ born' = born + k
       /\ kids' = [kids EXCEPT ![t] = (born + 1)..(born + k + 1)]
  /\ nodes' = [nodes EXCEPT ![t] = @ - 1]
  /\ flag' = [flag EXCEPT ![t] = FALSE]
  /\ pc' = [pc EXCEPT ![t] = "emit"]
  /\ UNCHANGED <<stopped, age, queues, father, son, got, dead, history>>

\* pause() and a new condition variable; the names of the sons are set aside.
BeginIf(t) ==
  /\ AtNode(t)
  /\ nodes[t] > 0
  /\ \E k \in 1..MaxSons :
       /\ born + k <= N
       /\ born' = born + k
       /\ kids' = [kids EXCEPT ![t] = (born + 1)..(born + k)]
  /\ nodes' = [nodes EXCEPT ![t] = @ - 1]
  /\ flag' = [flag EXCEPT ![t] = FALSE]
  /\ pc' = [pc EXCEPT ![t] = "emit"]
  /\ UNCHANGED <<stopped, age, queues, father, son, got, dead, history>>

ArmsLeft(t) == {s \in kids[t] : pc[s] = "unborn"}

EmitSon(t) ==
  /\ pc[t] = "emit"
  /\ \E s \in ArmsLeft(t) :
       /\ \A r \in ArmsLeft(t) : s <= r
       /\ Emit(s)
       /\ son' = [son EXCEPT ![t] = s]
       /\ pc' = [pc EXCEPT ![s] = "dispatch", ![t] = "register"]
  /\ UNCHANGED <<stopped, nodes, running, waiting, father, kids, got, born, dead, history>>

\* Under branch_son_dad_lock, after the son was started.
Register(t) ==
  /\ pc[t] = "register"
  /\ father' = [father EXCEPT ![son[t]] = t]
  /\ pc' = [pc EXCEPT ![t] = IF ArmsLeft(t) # {} THEN "emit" ELSE "park"]
  /\ UNCHANGED <<flag, stopped, age, nodes, queues, kids, son, got, born, dead, history>>

\* "with cv" is entered, then wait_queue_lock.
Park(t) ==
  /\ pc[t] = "park"
  /\ waiting' = waiting \cup {t}
  /\ pc' = [pc EXCEPT ![t] = "leave"]
  /\ UNCHANGED <<flag, stopped, age, nodes, running, ready, forks, got, born, dead, history>>

\* Broken on purpose: the father stays in running_queue.
LeaveNot(t) ==
  /\ pc[t] = "leave"
  /\ pc' = [pc EXCEPT ![t] = "unready"]
  /\ UNCHANGED <<flag, stopped, age, nodes, queues, forks, got, born, dead, history>>

Leave(t) ==
  /\ pc[t] = "leave"
  /\ running' = running \ {t}
  /\ pc' = [pc EXCEPT ![t] = "unready"]
  /\ UNCHANGED <<flag, stopped, age, nodes, ready, waiting, forks, got, born, dead, history>>

\* Broken on purpose: cv.wait() returns at once.
UnreadyNoWait(t) ==
  /\ pc[t] = "unready"
  /\ ready' = ready \ {t}
  /\ pc' = [pc EXCEPT ![t] = "woken"]
  /\ UNCHANGED <<flag, stopped, age, nodes, running, waiting, forks, got, born, dead, history>>

\* ... and cv.wait(), which releases cv.
Unready(t) ==
  /\ pc[t] = "unready"
  /\ ready' = ready \ {t}
  /\ pc' = [pc EXCEPT ![t] = "wait"]
  /\ UNCHANGED <<flag, stopped, age, nodes, running, waiting, forks, got, born, dead, history>>

\* Notified: cv is taken again.
Unwait(t) ==
  /\ pc[t] = "woken"
  /\ waiting' = waiting \ {t}
  /\ pc' = [pc EXCEPT ![t] = "back"]
  /\ UNCHANGED <<flag, stopped, age, nodes, running, ready, forks, got, born, dead, history>>

Back(t) ==
  /\ pc[t] = "back"
  /\ flag' = [flag EXCEPT ![t] = TRUE]
  /\ running' = running \cup {t}
  /\ pc' = [pc EXCEPT ![t] = "merge"]
  /\ UNCHANGED <<stopped, age, nodes, ready, waiting, forks, got, born, dead, history>>

\* merge() of the arms' edges; the if is over.
Merge(t) ==
  /\ pc[t] = "merge"
  /\ kids' = [kids EXCEPT ![t] = {}]
  /\ pc' = [pc EXCEPT ![t] = NextNode(t)]
  /\ missed' = missed \ {t}
  /\ UNCHANGED <<flag, stopped, age, nodes, queues, father, son, got, born, dead, late>>

\* Thread t is inside "with cv" of its if and not in cv.wait().
HoldsCv(t) == pc[t] \in {"leave", "unready", "back"}

-----------------------------------------------------------------------------
(* admin_threads, in the main thread.                                      *)

\* The thread blocks on its flag or on cv, or has already left running_queue
\* in order to.
Sleeps(t) ==
  \/ pc[t] = "dispatch" /\ ~flag[t]
  \/ pc[t] \in {"enqueue", "unready", "wait", "woken", "back"}

\* ... or is about to, between pause() and its next node.
Stopping(t) == Sleeps(t) \/ pc[t] \in {"recheck", "fetch", "resume"}

\* The first thread is added to running_queue after it was started.
AdminStart ==
  /\ pc[Admin] = "start"
  /\ running' = running \cup {First}
  /\ pc' = [pc EXCEPT ![Admin] = "reap"]
  /\ late' = Stopping(First)
  /\ UNCHANGED <<flag, stopped, age, nodes, ready, waiting, forks, got, born, dead, missed>>

\* Broken on purpose: finished threads are handled and stay in running_queue.
ReapKeeps ==
  /\ pc[Admin] = "reap"
  /\ dead' = {t \in running : ~Alive(t)}
  /\ pc' = [pc EXCEPT ![Admin] = "notify"]
  /\ UNCHANGED <<flag, stopped, age, nodes, queues, forks, got, born, history>>

Reap ==
  /\ pc[Admin] = "reap"
  /\ dead' = {t \in running : ~Alive(t)}
  /\ running' = {t \in running : Alive(t)}
  /\ pc' = [pc EXCEPT ![Admin] = "notify"]
  /\ UNCHANGED <<flag, stopped, age, nodes, ready, waiting, forks, got, born, history>>

SonsOf(f) == {s \in Thread : father[s] = f}

\* cv.notify() wakes the father if it is in cv.wait(), and is lost otherwise.
Notify(f) ==
  /\ pc' = IF pc[f] = "wait" THEN [pc EXCEPT ![f] = "woken"] ELSE pc
  /\ missed' = IF pc[f] \in BeforeCv THEN missed \cup {f} ELSE missed

\* Broken on purpose: under policy 1 only the finished son is forgotten, and
\* under policy 2 the father is woken by any of his sons.
NotifyFatherEarly(t, f) ==
  /\ father[t] = f
  /\ ~HoldsCv(f)
  /\ father' = [father EXCEPT ![t] = 0]
  /\ Notify(f)

\* Broken on purpose: the admin thread does not wait for cv.
NotifyWithoutCv(t, f) ==
  /\ father[t] = f
  /\ \/ /\ Policy = 1
        /\ father' = [s \in Thread |-> IF father[s] = f THEN 0 ELSE father[s]]
        /\ Notify(f)
     \/ /\ Policy = 2
        /\ father' = [father EXCEPT ![t] = 0]
        /\ \/ SonsOf(f) = {t} /\ Notify(f)
           \/ SonsOf(f) # {t} /\ UNCHANGED <<pc, missed>>

\* Broken on purpose: policy 1 forgets all sons and notifies for the last.
NotifyForLast(t, f) ==
  /\ father[t] = f
  /\ father' = [s \in Thread |-> IF father[s] = f THEN 0 ELSE father[s]]
  /\ \/ SonsOf(f) = {t} /\ ~HoldsCv(f) /\ Notify(f)
     \/ SonsOf(f) # {t} /\ UNCHANGED <<pc, missed>>

\* One finished thread of "dead" that is the registered son of f.
NotifyFather(t, f) ==
  /\ father[t] = f
  /\ \/ /\ Policy = 1
        /\ ~HoldsCv(f)
        /\ father' = [s \in Thread |-> IF father[s] = f THEN 0 ELSE father[s]]
        /\ Notify(f)
     \/ /\ Policy = 2
        /\ father' = [father EXCEPT ![t] = 0]
        /\ \/ /\ SonsOf(f) = {t}
              /\ ~HoldsCv(f)
              /\ Notify(f)
           \/ SonsOf(f) # {t} /\ UNCHANGED <<pc, missed>>

HandleDead(t) ==
  /\ pc[Admin] = "notify"
  /\ t \in dead
  /\ dead' = dead \ {t}
  /\ \/ /\ father[t] = 0
        /\ missed' = missed \cup {f \in Thread : pc[f] = "register" /\ son[f] = t}
        /\ UNCHANGED <<pc, father>>
     \/ \E f \in Thread : NotifyFather(t, f)
  /\ UNCHANGED <<flag, stopped, age, nodes, queues, kids, son, got, born, late>>

AllHandled ==
  /\ pc[Admin] = "notify"
  /\ dead = {}
  /\ pc' = [pc EXCEPT ![Admin] = "checkRunning"]
  /\ UNCHANGED <<flag, stopped, age, nodes, queues, forks, got, born, dead, history>>

\* len(running_queue) < 1, then len(ready_queue) > 0: two reads, no lock.
CheckRunning ==
  /\ pc[Admin] = "checkRunning"
  /\ pc' = [pc EXCEPT ![Admin] = IF running = {} THEN "checkReady" ELSE "final"]
  /\ UNCHANGED <<flag, stopped, age, nodes, queues, forks, got, born, dead, history>>

\* Broken on purpose: one thread in ready_queue is not enough.
CheckReadyTwo ==
  /\ pc[Admin] = "checkReady"
  /\ pc' = [pc EXCEPT ![Admin] = IF Cardinality(ready) > 1 THEN "fetch" ELSE "final"]
  /\ UNCHANGED <<flag, stopped, age, nodes, queues, forks, got, born, dead, history>>

CheckReady ==
  /\ pc[Admin] = "checkReady"
  /\ pc' = [pc EXCEPT ![Admin] = IF ready # {} THEN "fetch" ELSE "final"]
  /\ UNCHANGED <<flag, stopped, age, nodes, queues, forks, got, born, dead, history>>

Quiet ==
  /\ \A t \in Thread : ~Alive(t)
  /\ running = {} /\ ready = {} /\ waiting = {}

Final ==
  /\ pc[Admin] = "final"
  /\ pc' = [pc EXCEPT ![Admin] = IF Quiet THEN "finished" ELSE "reap"]
  /\ UNCHANGED <<flag, stopped, age, nodes, queues, forks, got, born, dead, history>>

-----------------------------------------------------------------------------
\* The first thread runs and is not in running_queue yet (line 485).
Init ==
  /\ pc = [p \in Proc |-> IF p = Admin THEN "start"
                          ELSE IF p = First THEN "dispatch" ELSE "unborn"]
  /\ flag = [t \in Thread |-> t = First]
  /\ stopped = {}
  /\ age = [t \in Thread |-> 1]
  /\ nodes = [t \in Thread |-> Nodes]
  /\ running = {} /\ ready = {} /\ waiting = {}
  /\ father = [t \in Thread |-> 0]
  /\ got = [p \in Proc |-> {}]
  /\ kids = [t \in Thread |-> {}]
  /\ son = [t \in Thread |-> 0]
  /\ born = First
  /\ dead = {}
  /\ late = FALSE /\ missed = {}

AdminStep ==
  \/ AdminStart \/ Reap \/ AllHandled \/ CheckRunning \/ CheckReady \/ Final
  \/ Fetch(Admin) \/ Resume(Admin)
  \/ \E t \in Thread : HandleDead(t)

Worker(t) ==
  \/ Preempt(t) \/ Yield(t) \/ Enqueue(t) \/ Recheck(t) \/ Finish(t)
  \/ EmitFree(t) \/ BeginIf(t) \/ EmitSon(t) \/ Register(t)
  \/ Park(t) \/ Leave(t) \/ Unready(t) \/ Unwait(t) \/ Back(t) \/ Merge(t)
  \/ Fetch(t) \/ Resume(t)

Next == AdminStep \/ \E t \in Thread : Worker(t)

\* The operating system runs every thread that is not blocked.
Fairness == WF_vars(AdminStep) /\ \A t \in Thread : WF_vars(Worker(t))

Spec == Init /\ [][Next]_vars
FairSpec == Spec /\ Fairness


-----------------------------------------------------------------------------
(* Properties.                                                             *)

\* The thread executes code, as opposed to blocking on its flag or on cv.
Executes(t) ==
  \/ AtNode(t)
  \/ pc[t] \in {"yield", "emit", "register", "park", "leave", "merge"}

\* The admin thread starts new work only when running_queue is empty, so a
\* thread that executes must be in it, the first one once it is registered;
\* and a thread that is queued or sleeps must not be, or nothing would ever be
\* started again, unless it is the first one and was registered late.
RunningIsAccurate ==
  \A t \in Thread :
    /\ Executes(t) => t \in running \/ (t = First /\ pc[Admin] = "start")
    /\ t \in running => ~Sleeps(t) \/ (t = First /\ late)

\* A thread that blocks on its flag can be found by fetch_new_thread, or one
\* call of it holds the thread and is about to resume it.  No interleaving of
\* preempted threads, emitters and the admin thread drops one.
NoThreadLost ==
  \A t \in Thread :
    pc[t] = "dispatch" /\ ~flag[t] =>
      t \in ready \/ (\E p \in Proc : t \in got[p]) \/ (t = First /\ late)

\* branch_son_dad holds sons of the if their father is at, and nothing once
\* the father was woken: the next if of the father starts with a clean table
\* (its sons are counted, and sons[0] gives the condition variable).
NoStaleSons ==
  \A s \in Thread : father[s] # 0 =>
    /\ s \in kids[father[s]]
    /\ pc[father[s]] \in BeforeWake

\* The strengthening that makes NoStaleSons and the join inductive.

\* Names are taken once: by one father, and only up to born.
NamesAreFresh ==
  /\ \A t \in Thread : kids[t] \subseteq 1..born
  /\ \A t \in Thread : t > born => pc[t] = "unborn"
  /\ \A t, u \in Thread : t # u => kids[t] \cap kids[u] = {}
  /\ \A t \in Thread : pc[t] \notin BeforeWake \cup AfterWake => kids[t] = {}

\* Only threads that were started are queued, and only finished ones reaped.
QueuedAreBorn ==
  /\ pc[First] # "unborn"
  /\ \A t \in ready \cup running : pc[t] # "unborn"
  /\ \A p \in Proc : \A t \in got[p] : pc[t] # "unborn"
  /\ \A t \in dead : pc[t] = "dead"

\* A father at line 141 holds a son of this if that runs already.
SonIsKid ==
  \A t \in Thread : pc[t] = "register" => son[t] \in kids[t] \ ArmsLeft(t)

\* Before the father is woken under policy 2, a son is not started, or just
\* about to be registered, or registered, or finished.
SonsAccounted ==
  Policy = 2 =>
    \A t \in Thread : pc[t] \in BeforeWake =>
      \A s \in kids[t] :
        \/ pc[s] = "unborn" /\ pc[t] \in {"emit", "register"}
        \/ pc[t] = "register" /\ son[t] = s
        \/ father[s] = t
        \/ pc[s] = "dead"

\* A father that was woken has what its policy asks for.
WokenRightly ==
  \A t \in Thread : pc[t] \in AfterWake =>
    /\ \E s \in kids[t] : pc[s] = "dead"
    /\ Policy = 2 => \A s \in kids[t] : pc[s] = "dead"

\* The inductive invariant of the join.
JoinInv ==
  /\ TypeOK
  /\ stopped = {}
  /\ NamesAreFresh
  /\ QueuedAreBorn
  /\ SonIsKid
  /\ NoStaleSons
  /\ SonsAccounted
  /\ WokenRightly

\* The admin thread will still find s finished.
WillBeReaped(s) ==
  pc[s] # "dead" \/ s \in running \cup dead \cup ready \/ \E p \in Proc : s \in got[p]

\* A father inside "with cv" has in branch_son_dad a son whose end will wake
\* him: none can end and be handled between his last look and cv.wait(), only
\* before he takes cv.
WaitsForASon ==
  \A t \in Thread : pc[t] \in {"leave", "unready", "wait"} /\ t \notin missed =>
    \E s \in Thread : father[s] = t /\ WillBeReaped(s)

\* Thread t blocks, on its flag or in cv.wait().
Blocks(t) == pc[t] = "wait" \/ (pc[t] = "dispatch" /\ ~flag[t])

\* When all threads block, fathers of fathers among them, the admin thread
\* has one to start or the end of a son to report: they never all wait for
\* one another. Excepted are the known losses, late and missed.
AdminHasWork ==
  LET alive == {t \in Thread : Alive(t)}
  IN alive # {} /\ (\A t \in alive : Blocks(t) /\ t \notin missed) /\ ~late =>
       /\ running \cap alive = {}
       /\ \/ ready # {} \/ \E p \in Proc : got[p] # {}
          \/ \E s \in running \cup dead : father[s] # 0

\* Thread t sleeps on cv and no son is left whose end could wake it.
Abandoned(t) ==
  /\ pc[t] = "wait"
  /\ \A s \in kids[t] : pc[s] = "dead" /\ s \notin running \cup dead \cup ready
  /\ \A p \in Proc : kids[t] \cap got[p] = {}

\* The analysis comes to an end, but for the ways it can be cut short: the
\* admin thread is hit by an IndexError, a father is abandoned, or the first
\* thread was registered late.
Settles ==
  <>(pc[Admin] \in {"finished", "crashed"} \/ late \/ \E t \in Thread : Abandoned(t))

\* Nobody starves in ready_queue while the admin thread is there, if the first
\* thread was registered in time.
NoStarvation ==
  \A t \in Thread : t \in ready ~> t \notin ready \/ pc[Admin] = "crashed" \/ late

-----------------------------------------------------------------------------
(* What HandleIf is promised.                                              *)

Stage(t) ==
  IF pc[t] = "unborn" THEN "idle"
  ELSE IF pc[t] = "dead" THEN "ended"
  ELSE IF pc[t] \in BeforeWake \cup AfterWake THEN "joining"
  ELSE "active"

FJ == INSTANCE ForkJoin WITH
        Root  <- First,
        stage <- [t \in Thread |-> Stage(t)],
        sons  <- [t \in Thread |-> {s \in kids[t] : pc[s] # "unborn"}]

\* Whatever the queues do, a father goes on only when its policy allows it.
ImplementsForkJoin == FJ!FJSpec
=============================================================================
