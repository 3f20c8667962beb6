---------------------------- MODULE FlowMonitor ----------------------------
(***************************************************************************)
(* The monitor FSAFlow embeds in an instrumented program                   *)
(* (ifccontrol/fsaflow/security): source_logic, branch_logic, sink_logic.  *)
(*                                                                         *)
(* paths[pathid] is an object per path, but the fields of the object are   *)
(* static: all paths share one curpos.  The calls are not synchronised, so *)
(* each read or write of a static field is a step of its own here.  The    *)
(* program around the calls may reach its nodes in any order.  The names   *)
(* of sources and sinks are left out.                                      *)
(***************************************************************************)
EXTENDS LeakPath

CONSTANT Thread   \* the threads of the instrumented program

VARIABLES
  started,   \* {p : paths[p] # null}
  curpos,    \* detail_embeded_object.curpos: one for all paths
  call,      \* call[t]: the call of the monitor thread t is in
  audit,     \* paths with a record in the audit file
  ran        \* paths whose sink statement was executed after a refusal

\* begun, trail and verdict only record what the calls answered.
vars == <<started, curpos, call, audit, ran, lpVars>>

Policies == {"accept", "reject"}
Lost == -2
Idle == [at |-> "idle"]
Calls == [at : {"new", "reset", "look", "lose", "read", "write",
                "sinkLook", "sinkLose", "audit", "refused"},
          path : Path, node : Node, policy : Policies, got : Int]

TypeOK ==
  /\ started \subseteq Path
  /\ curpos \in Int
  /\ call \in [Thread -> Calls \cup {Idle}]
  /\ audit \subseteq Path
  /\ ran \subseteq Path
  /\ begun \subseteq Path
  /\ trail \in [Path -> Seq(Event)]
  /\ verdict \subseteq [path : Path, node : Node, refused : BOOLEAN]

At(t, step) == call[t].at = step

\* Thread t reaches a node of the program and calls the monitor.
Enter(t, step, p, k, policy) ==
  /\ At(t, "idle")
  /\ Len(trail[p]) < MaxTrail
  /\ call' = [call EXCEPT ![t] =
       [at |-> step, path |-> p, node |-> k, policy |-> policy, got |-> 0]]
  /\ UNCHANGED <<started, curpos, audit, ran, lpVars>>

Goto(t, step) == call' = [call EXCEPT ![t].at = step]
Return(t) == call' = [call EXCEPT ![t] = Idle]

-----------------------------------------------------------------------------
(* source_logic, after the source statement.                               *)

CallSource(t, p) == Enter(t, "new", p, 1, "accept")

New(t) ==
  /\ At(t, "new")
  /\ started' = started \cup {call[t].path}
  /\ Goto(t, "reset")
  /\ UNCHANGED <<curpos, audit, ran, lpVars>>

\* Broken on purpose: the position is set when the object is created only.
ResetOnce(t) ==
  /\ At(t, "reset")
  /\ curpos' = IF call[t].path \in begun THEN curpos ELSE 0
  /\ Begin(call[t].path)
  /\ Return(t)
  /\ UNCHANGED <<started, audit, ran>>

Reset(t) ==
  /\ At(t, "reset")
  /\ curpos' = 0
  /\ Begin(call[t].path)
  /\ Return(t)
  /\ UNCHANGED <<started, audit, ran>>

-----------------------------------------------------------------------------
(* branch_logic, before the branch statement.                              *)

CallBranch(t, p, k, policy) == Enter(t, "look", p, k, policy)

\* The call returns; the program has passed the branch.
BranchReturns(t) ==
  /\ LET c == call[t] IN
       /\ trail' = IF c.path \in begun
                   THEN [trail EXCEPT ![c.path] =
                           Append(@, [node |-> c.node, report |-> c.policy])]
                   ELSE trail
       /\ verdict' = {}
  /\ Return(t)
  /\ UNCHANGED begun

\* Null: nothing is done.  Not the neighbour of the last node, or a rejected
\* arm: the path is given up.
Look(t) ==
  /\ At(t, "look")
  /\ \/ call[t].path \notin started /\ BranchReturns(t)
     \/ /\ call[t].path \in started
        /\ Goto(t, IF curpos = call[t].node - 1 /\ call[t].policy = "accept"
                   THEN "read" ELSE "lose")
        /\ UNCHANGED lpVars
  /\ UNCHANGED <<started, curpos, audit, ran>>

Lose(t) ==
  /\ At(t, "lose")
  /\ curpos' = Lost
  /\ BranchReturns(t)
  /\ UNCHANGED <<started, audit, ran>>

\* curpos++ reads, then writes.
Read(t) ==
  /\ At(t, "read")
  /\ call' = [call EXCEPT ![t].at = "write", ![t].got = curpos]
  /\ UNCHANGED <<started, curpos, audit, ran, lpVars>>

Write(t) ==
  /\ At(t, "write")
  /\ curpos' = call[t].got + 1
  /\ BranchReturns(t)
  /\ UNCHANGED <<started, audit, ran>>

-----------------------------------------------------------------------------
(* sink_logic, before the sink statement.                                  *)

CallSink(t, p, k) == Enter(t, "sinkLook", p, k, "accept")

Answer(t, refused) ==
  /\ LET c == call[t] IN
       /\ verdict' = {[path |-> c.path, node |-> c.node, refused |-> refused]}
       /\ trail' = IF c.path \in begun /\ ~Followed(c.path, c.node)
                   THEN [trail EXCEPT ![c.path] =
                           Append(@, [node |-> c.node, report |-> "sink"])]
                   ELSE trail
  /\ UNCHANGED begun

\* A path that was not started is let through, although the comment on that
\* line leaves its refusal to the sink.
SinkLook(t) ==
  /\ At(t, "sinkLook")
  /\ \/ call[t].path \notin started /\ Answer(t, FALSE) /\ Return(t)
     \/ /\ call[t].path \in started
        /\ Goto(t, IF curpos = call[t].node - 1 THEN "audit" ELSE "sinkLose")
        /\ UNCHANGED lpVars
  /\ UNCHANGED <<started, curpos, audit, ran>>

SinkLose(t) ==
  /\ At(t, "sinkLose")
  /\ curpos' = Lost
  /\ Answer(t, FALSE)
  /\ Return(t)
  /\ UNCHANGED <<started, audit, ran>>

\* Broken on purpose: the node is recorded in place of the path.
AuditNode(t) ==
  /\ At(t, "audit")
  /\ audit' = audit \cup {call[t].node}
  /\ Answer(t, TRUE)
  /\ Goto(t, "refused")
  /\ UNCHANGED <<started, curpos, ran>>

\* The record may fail to be written: writeTxtToFile2 swallows the exception.
Audit(t) ==
  /\ At(t, "audit")
  /\ \/ audit' = audit \cup {call[t].path}
     \/ UNCHANGED audit
  /\ Answer(t, TRUE)
  /\ Goto(t, "refused")
  /\ UNCHANGED <<started, curpos, ran>>

\* insert_sink_logic inserts the call as a statement: its result is dropped
\* and the program goes on to the sink.
RunSink(t) ==
  /\ At(t, "refused")
  /\ ran' = ran \cup {call[t].path}
  /\ Return(t)
  /\ UNCHANGED <<started, curpos, audit, lpVars>>

-----------------------------------------------------------------------------
Init ==
  /\ LPInit
  /\ started = {}
  /\ curpos = -1
  /\ call = [t \in Thread |-> Idle]
  /\ audit = {}
  /\ ran = {}

Program(t) ==
  \E p \in Path :
    \/ CallSource(t, p)
    \/ \E k \in Node : CallSink(t, p, k) \/ \E a \in Policies : CallBranch(t, p, k, a)

Monitor(t) ==
  \/ New(t) \/ Reset(t)
  \/ Look(t) \/ Lose(t) \/ Read(t) \/ Write(t)
  \/ SinkLook(t) \/ SinkLose(t) \/ Audit(t) \/ RunSink(t)

Next == \E t \in Thread : Program(t) \/ Monitor(t)

Spec == Init /\ [][Next]_vars

-----------------------------------------------------------------------------
\* With one path and one thread the monitor answers every call of a sink as
\* the history of the path demands, however the program jumps about.
ImplementsLeakPath == LPSpec

\* Why: curpos is the number of nodes the trail followed, and what a call has
\* read of it still holds.
CallIsCurrent(t) ==
  LET c == call[t] IN
    /\ c.at # "reset" => started = begun
    /\ c.at = "lose" => curpos # c.node - 1 \/ c.policy = "reject"
    /\ c.at \in {"read", "write"} => curpos = c.node - 1 /\ c.policy = "accept"
    /\ c.at = "write" => c.got = curpos
    /\ c.at = "sinkLose" => curpos # c.node - 1
    /\ c.at = "audit" => curpos = c.node - 1
    /\ c.at \in {"look", "lose", "read", "write", "sinkLook", "sinkLose", "audit"} =>
         Len(trail[c.path]) < MaxTrail

PositionIsTrail ==
  /\ \A p \in begun : \A k \in Node : curpos = k - 1 <=> trail[p] = UpTo(k)
  /\ \A t \in Thread : CallIsCurrent(t)

\* detail_embeded_code.java: "getting here means that the leak path has
\* completely appeared".
RefusalIsDeserved ==
  \A v \in verdict : v.refused => Followed(v.path, v.node)
=============================================================================
