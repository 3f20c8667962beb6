------------------------------ MODULE Shutdown ------------------------------
(***************************************************************************)
(* The end of an analysis by time-out (core/opgen.py, _test_graph, and     *)
(* core/thread_design.py, stop).  SIGALRM raises TimeoutError in the main  *)
(* thread wherever it is in admin_threads.  The handler notifies the       *)
(* condition variables of branch_son_dad, then stops the threads of        *)
(* thread_infos, while the analysis threads go on as in Scheduler.         *)
(***************************************************************************)
EXTENDS Scheduler

VARIABLES
  phase,    \* where the main thread is: "analysing" is admin_threads
  keys,     \* the keys of branch_son_dad when its iteration began
  unswept,  \* those the iteration has not reached
  key,      \* the one it is at, or 0
  infos,    \* the list of threads to stop
  half      \* the thread stop() has set the flag of and not cleared running, or 0

shutVars == <<phase, keys, unswept, key, infos, half>>
allVars == <<vars, shutVars>>

Registered == {s \in Thread : father[s] # 0}
thread_infos == {t \in Thread : pc[t] # "unborn"}

Interrupted == [pc EXCEPT ![Admin] = "crashed"]

\* The alarm cuts a notification in two: under policy 1 some sons are deleted
\* and the father is not notified, under policy 2 he is notified and the son
\* is not deleted.
CutNotification ==
  /\ pc[Admin] = "notify"
  /\ \E f \in Thread : \E S \in SUBSET SonsOf(f) :
       /\ S # {} /\ SonsOf(f) \cap dead # {}
       /\ \/ /\ Policy = 1
             /\ father' = [s \in Thread |-> IF s \in S THEN 0 ELSE father[s]]
             /\ pc' = Interrupted
          \/ /\ Policy = 2 /\ SonsOf(f) = S /\ Cardinality(S) = 1 /\ ~HoldsCv(f)
             /\ pc' = IF pc[f] = "wait" THEN [Interrupted EXCEPT ![f] = "woken"]
                      ELSE Interrupted
             /\ UNCHANGED father
  /\ UNCHANGED <<flag, running>>

\* The alarm cuts fetch_new_thread in two: of the threads taken from
\* ready_queue some are started, and one more perhaps only queued.
CutResume ==
  /\ pc[Admin] = "resume"
  /\ \E S \in SUBSET (got[Admin] \ running) : \E R \in SUBSET S :
       /\ Cardinality(S \ R) <= 1
       /\ running' = running \cup S
       /\ flag' = [t \in Thread |-> IF t \in R THEN TRUE ELSE flag[t]]
  /\ pc' = Interrupted
  /\ UNCHANGED father

\* The alarm, between two steps of the main thread or within one. (The history
\* of Scheduler is not kept for what the alarm cuts in two.)
Alarm ==
  /\ phase = "analysing"
  /\ pc[Admin] \notin {"finished", "crashed"}
  /\ \/ pc' = Interrupted /\ UNCHANGED <<flag, running, father>>
     \/ CutNotification
     \/ CutResume
  /\ phase' = "sweep"
  /\ keys' = {s \in Thread : father'[s] # 0}
  /\ unswept' = keys'
  /\ UNCHANGED <<stopped, age, nodes, ready, waiting, kids, son, got, born, dead,
                 history, key, infos, half>>

\* The next key, or the end of the iteration and the first list.  The table
\* is read without branch_son_dad_lock: when a father has registered a son
\* meanwhile, Python raises RuntimeError, and nothing catches it.
SweepNext ==
  /\ phase = "sweep" /\ key = 0
  /\ \/ /\ Registered # keys
        /\ phase' = "raised"
        /\ UNCHANGED <<unswept, key, infos>>
     \/ /\ Registered = keys /\ unswept # {}
        /\ \E s \in unswept : key' = s /\ unswept' = unswept \ {s}
        /\ UNCHANGED <<phase, infos>>
     \/ /\ Registered = keys /\ unswept = {}
        /\ phase' = "stop"
        /\ infos' = thread_infos
        /\ UNCHANGED <<unswept, key>>
  /\ UNCHANGED <<vars, keys, half>>

\* Broken on purpose: the loop ends after the first condition variable.
SweepNotifyOne ==
  /\ phase = "sweep" /\ key # 0
  /\ ~HoldsCv(father[key])
  /\ Notify(father[key])
  /\ key' = 0
  /\ unswept' = {}
  /\ UNCHANGED <<flag, stopped, age, nodes, queues, forks, got, born, dead, late,
                 phase, keys, infos, half>>

SweepNotify ==
  /\ phase = "sweep" /\ key # 0
  /\ ~HoldsCv(father[key])
  /\ Notify(father[key])
  /\ key' = 0
  /\ UNCHANGED <<flag, stopped, age, nodes, queues, forks, got, born, dead, late,
                 phase, keys, unswept, infos, half>>

\* stop(): flag.set(), then running.clear().
StopFlag ==
  /\ phase = "stop" /\ half = 0
  /\ \E t \in infos :
       /\ flag' = [flag EXCEPT ![t] = TRUE]
       /\ half' = t
       /\ infos' = infos \ {t}
  /\ UNCHANGED <<pc, stopped, age, nodes, queues, forks, got, born, dead, history,
                 phase, keys, unswept, key>>

StopRunning ==
  /\ half # 0
  /\ stopped' = stopped \cup {half}
  /\ half' = 0
  /\ UNCHANGED <<pc, flag, age, nodes, queues, forks, got, born, dead, history,
                 phase, keys, unswept, key, infos>>

\* Broken on purpose: the stopped threads are listed again.
RelistAll ==
  /\ phase = "stop" /\ infos = {} /\ half = 0
  /\ infos' = thread_infos
  /\ phase' = IF infos' = {} THEN "over" ELSE "stop"
  /\ UNCHANGED <<vars, keys, unswept, key, half>>

\* Threads that were created since are stopped in the next round.
Relist ==
  /\ phase = "stop" /\ infos = {} /\ half = 0
  /\ infos' = thread_infos \ stopped
  /\ phase' = IF infos' = {} THEN "over" ELSE "stop"
  /\ UNCHANGED <<vars, keys, unswept, key, half>>

ShutInit ==
  /\ Init
  /\ phase = "analysing"
  /\ keys = {} /\ unswept = {} /\ key = 0 /\ infos = {} /\ half = 0

MainStep == SweepNext \/ SweepNotify \/ StopFlag \/ StopRunning \/ Relist

ShutNext == Alarm \/ MainStep \/ (Next /\ UNCHANGED shutVars)

\* The alarm may come or not; all else as in Scheduler.
ShutSpec ==
  /\ ShutInit /\ [][ShutNext]_allVars
  /\ WF_allVars(MainStep)
  /\ WF_allVars(AdminStep /\ UNCHANGED shutVars)
  /\ \A t \in Thread : WF_allVars(Worker(t) /\ UNCHANGED shutVars)

-----------------------------------------------------------------------------
\* opgen.py, line 234: although the threads go on creating threads while they
\* are being stopped, the loop over thread_infos comes to an end.
StoppingEnds == phase # "analysing" ~> phase \in {"over", "raised"}

\* opgen.py, line 219: a father who sleeps when the alarm comes, with a son in
\* the table, is woken, unless the sweep is cut short by a registration.
SleepersAreWoken ==
  \A f \in Thread :
    phase = "sweep" /\ pc[f] = "wait" /\ (\E s \in unswept : father[s] = f)
      ~> pc[f] # "wait" \/ phase = "raised"

\* manager.py, line 132: no path through dispatch_node, fetch_new_thread and
\* HandleIf brings a stopped thread to another node.
StoppedLeavesForGood ==
  [][\A t \in Thread :
       t \in stopped /\ pc[t] # "dispatch" => pc'[t] # "dispatch"]_allVars
=============================================================================
