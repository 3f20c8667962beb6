------------------------------ MODULE EventBus ------------------------------
(***************************************************************************)
(* The event bus of WebViewJSdetect in its threaded mode: RegisterFunc and *)
(* TriggerEvent (plugins/internal/modeled_extension_builtins.py) and the   *)
(* thread that delivers an event (plugins/internal/handlers/event_loop.py).*)
(*                                                                         *)
(* Two kinds of event stand for the eight of event_listener_dic: an ask    *)
(* (cs_chrome_runtime_sendMessage and its like), whose functions stay      *)
(* registered, and an answer, whose functions are the callbacks carried by *)
(* asks and are unregistered by the first answer.  Every "with lock" block *)
(* is one step; what lies between two blocks can be interrupted.  The      *)
(* scheduling of the threads is Scheduler's business: here they all run.   *)
(***************************************************************************)
EXTENDS Integers, Sequences, FiniteSets

CONSTANTS
  Script,        \* threads that run code of the analysed application
  Ask, Answer,   \* the events that may be triggered
  Handler,       \* functions registered for asks
  MaxFuncs,      \* bounds the registrations for asks; the code has no limit
  EventMaxTime   \* G.event_max_time

ASSUME EventBusAssumption ==
  /\ Script \cap (Ask \cup Answer) = {} /\ Ask \cap Answer = {}
  /\ Handler \cap Ask = {}
  /\ MaxFuncs \in Nat /\ EventMaxTime \in Nat

Event == Ask \cup Answer
Proc == Script \cup Event   \* an event names the thread that delivers it
Kind == {"ask", "answer"}
KindOf(e) == IF e \in Ask THEN "ask" ELSE "answer"
Func == Handler \cup Ask    \* an ask names the callback it carries

VARIABLES
  registered,   \* G.eventRegisteredFuncs; a kind that is no key has <<>>
  loop,         \* G.event_loop
  record,       \* G.event_record; -1 for a kind that is no key
  at,           \* at[p]: what p does next
  arg,          \* arg[p]: the event p is triggering, as a set
  seen,         \* seen[e]: number of keys when the print of e began
  pos,          \* pos[p]: index of the function whose code p runs, 0 for none
  taken,        \* taken[e]: the callbacks an answer has unregistered
  wantsReply,   \* asks that carry a callback
  late,         \* events whose thread was made old (thread_age = -1)
  known, heard  \* functions registered when e's thread looked, functions called

vars == <<registered, loop, record, at, arg, seen, pos, taken, wantsReply, late, known, heard>>

Stages == {"new", "held", "ready", "callback", "print", "printing", "read", "take",
           "code", "scan", "store", "count", "end", "refused", "dropped", "died"}

TypeOK ==
  /\ registered \in [Kind -> Seq(Func)]
  /\ loop \in [Kind -> Seq(Event)]
  /\ record \in [Kind -> Int]
  /\ at \in [Proc -> Stages]
  /\ arg \in [Proc -> SUBSET Event]
  /\ seen \in [Ask -> Nat]
  /\ pos \in [Proc -> Nat]
  /\ taken \in [Answer -> Seq(Ask)]
  /\ wantsReply \subseteq Ask
  /\ late \subseteq Event
  /\ known \in [Ask -> Seq(Func)]
  /\ heard \in [Event -> Seq(Func)]

In(s) == {s[i] : i \in DOMAIN s}
Add(l, k, x) == l' = [l EXCEPT ![k] = Append(@, x)]
Goto(p, step) == at' = [at EXCEPT ![p] = step]

\* A thread that does not run code yet registers its callback; what it scans
\* for and where it goes on.
Listened(p) == IF pos[p] = 0 THEN "answer" ELSE "ask"
Resumed(p) == IF pos[p] = 0 THEN "print" ELSE "code"

Init ==
  /\ registered = [k \in Kind |-> <<>>]
  /\ loop = [k \in Kind |-> <<>>]
  /\ record = [k \in Kind |-> -1]
  /\ at = [p \in Proc |-> IF p \in Script THEN "code" ELSE "new"]
  /\ arg = [p \in Proc |-> {}]
  /\ seen = [e \in Ask |-> 0]
  /\ pos = [p \in Proc |-> IF p \in Script THEN 1 ELSE 0]
  /\ taken = [e \in Answer |-> <<>>]
  /\ wantsReply = {}
  /\ late = {}
  /\ known = [e \in Ask |-> <<>>]
  /\ heard = [e \in Event |-> <<>>]

-----------------------------------------------------------------------------
(* register_event_check: register, then start the stored events.           *)

Enlist(p, k, f) ==
  /\ Add(registered, k, f)
  /\ Goto(p, "scan")

\* Code of the application registers a function for asks, again if it likes.
RegisterFunc(p, h) ==
  /\ at[p] = "code"
  /\ Len(registered["ask"]) < MaxFuncs
  /\ Enlist(p, "ask", h)
  /\ UNCHANGED <<loop, record, arg, seen, pos, taken, wantsReply, late, known, heard>>

\* Broken on purpose: the stored events stay in event_loop.
ScanKeeps(p) ==
  /\ at[p] = "scan"
  /\ at' = [q \in Proc |-> IF q = p THEN Resumed(p)
                           ELSE IF q \in In(loop[Listened(p)]) THEN "ready" ELSE at[q]]
  /\ UNCHANGED <<registered, loop, record, arg, seen, pos, taken, wantsReply, late, known, heard>>

Scan(p) ==
  /\ at[p] = "scan"
  /\ at' = [q \in Proc |-> IF q = p THEN Resumed(p)
                           ELSE IF q \in In(loop[Listened(p)]) THEN "ready" ELSE at[q]]
  /\ loop' = [loop EXCEPT ![Listened(p)] = <<>>]
  /\ UNCHANGED <<registered, record, arg, seen, pos, taken, wantsReply, late, known, heard>>

-----------------------------------------------------------------------------
(* TriggerEvent.                                                           *)

Trigger(p, e, reply) ==
  /\ at[p] = "code" /\ at[e] = "new"
  /\ at' = [at EXCEPT ![e] = "held",
                      ![p] = IF registered[KindOf(e)] = <<>> THEN "store" ELSE "count"]
  /\ arg' = [arg EXCEPT ![p] = {e}]
  /\ wantsReply' = wantsReply \cup (IF reply THEN {e} \cap Ask ELSE {})
  /\ UNCHANGED <<registered, loop, record, seen, pos, taken, late, known, heard>>

Store(p) ==
  /\ at[p] = "store"
  /\ \E e \in arg[p] : Add(loop, KindOf(e), e)
  /\ Goto(p, "code")
  /\ arg' = [arg EXCEPT ![p] = {}]
  /\ UNCHANGED <<registered, record, seen, pos, taken, wantsReply, late, known, heard>>

\* The first event of a kind counts as 0.
Count(p) ==
  /\ at[p] = "count"
  /\ \E e \in arg[p] :
       LET n == record[KindOf(e)] + 1
       IN /\ record' = [record EXCEPT ![KindOf(e)] = n]
          /\ late' = IF n > EventMaxTime THEN late \cup {e} ELSE late
          /\ at' = [at EXCEPT ![p] = "code", ![e] = "ready"]
  /\ arg' = [arg EXCEPT ![p] = {}]
  /\ UNCHANGED <<registered, loop, seen, pos, taken, wantsReply, known, heard>>

-----------------------------------------------------------------------------
(* The thread of an event: event_loop_threading and the function it calls. *)

Check(e) ==
  /\ at[e] = "ready"
  /\ Goto(e, IF registered[KindOf(e)] = <<>> THEN "dropped"
             ELSE IF e \in Answer THEN "take"
             ELSE IF e \in wantsReply THEN "callback" ELSE "read")
  /\ known' = IF e \in Ask THEN [known EXCEPT ![e] = registered["ask"]] ELSE known
  /\ UNCHANGED <<registered, loop, record, arg, seen, pos, taken, wantsReply, late, heard>>

\* The callback of an ask waits for the answer.
AddCallback(e) ==
  /\ at[e] = "callback"
  /\ Enlist(e, "answer", e)
  /\ UNCHANGED <<loop, record, arg, seen, pos, taken, wantsReply, late, known, heard>>

Keys == Cardinality({k \in Kind : registered[k] # <<>>})

\* All registrations are printed without the lock; a key added or removed
\* in between ends the thread with a RuntimeError.
PrintAll(e) ==
  /\ \/ /\ at[e] = "print"
        /\ Goto(e, "printing")
        /\ seen' = [seen EXCEPT ![e] = Keys]
     \/ /\ at[e] = "printing"
        /\ Goto(e, IF Keys = seen[e] THEN "read" ELSE "died")
        /\ seen' = [seen EXCEPT ![e] = 0]
  /\ UNCHANGED <<registered, loop, record, arg, pos, taken, wantsReply, late, known, heard>>

\* The list of an ask is the registered one itself, not a copy.
Functions(e) == IF e \in Ask THEN registered["ask"] ELSE taken[e]

Call(e, i, functions) ==
  /\ pos' = [pos EXCEPT ![e] = i]
  /\ Add(heard, e, functions[i])

\* call_function runs the first function, or returns at once: when its name is
\* more than 20 times on call_stack, a list all threads share, which holds the
\* application's own calls too.
Begin(e, functions) ==
  \/ Goto(e, "code") /\ Call(e, 1, functions)
  \/ Goto(e, "refused") /\ UNCHANGED <<pos, heard>>

Read(e) ==
  /\ at[e] = "read"
  /\ IF registered["ask"] = <<>>
     THEN Goto(e, "died") /\ UNCHANGED <<pos, heard>>
     ELSE Begin(e, registered["ask"])
  /\ UNCHANGED <<registered, loop, record, arg, seen, taken, wantsReply, late, known>>

\* Broken on purpose: the functions of asks are called.
TakeOthers(e) ==
  /\ at[e] = "take"
  /\ IF registered["answer"] = <<>>
     THEN Goto(e, "died") /\ UNCHANGED <<registered, taken, pos, heard>>
     ELSE /\ taken' = [taken EXCEPT ![e] = registered["ask"] \o registered["answer"]]
          /\ registered' = [registered EXCEPT !["answer"] = <<>>]
          /\ Begin(e, taken'[e])
  /\ UNCHANGED <<loop, record, arg, seen, wantsReply, late, known>>

\* Broken on purpose: the callbacks are called and stay registered.
TakeKeeps(e) ==
  /\ at[e] = "take"
  /\ IF registered["answer"] = <<>>
     THEN Goto(e, "died") /\ UNCHANGED <<taken, pos, heard>>
     ELSE /\ taken' = [taken EXCEPT ![e] = registered["answer"]]
          /\ Begin(e, registered["answer"])
  /\ UNCHANGED <<registered, loop, record, arg, seen, wantsReply, late, known>>

\* Broken on purpose: all functions are unregistered, not only callbacks.
TakeAll(e) ==
  /\ at[e] = "take"
  /\ IF registered["answer"] = <<>>
     THEN Goto(e, "died") /\ UNCHANGED <<registered, taken, pos, heard>>
     ELSE /\ taken' = [taken EXCEPT ![e] = registered["answer"]]
          /\ registered' = [k \in Kind |-> <<>>]
          /\ Begin(e, registered["answer"])
  /\ UNCHANGED <<loop, record, arg, seen, wantsReply, late, known>>

\* An answer takes and unregisters all callbacks; when another answer was
\* faster, func_objs is unbound and the thread ends with an error.
Take(e) ==
  /\ at[e] = "take"
  /\ IF registered["answer"] = <<>>
     THEN Goto(e, "died") /\ UNCHANGED <<registered, taken, pos, heard>>
     ELSE /\ taken' = [taken EXCEPT ![e] = registered["answer"]]
          /\ registered' = [registered EXCEPT !["answer"] = <<>>]
          /\ Begin(e, registered["answer"])
  /\ UNCHANGED <<loop, record, arg, seen, wantsReply, late, known>>

\* Broken on purpose: the functions after the first are forgotten.
ReturnOnce(p) ==
  /\ at[p] = "code"
  /\ Goto(p, "end")
  /\ UNCHANGED <<registered, loop, record, arg, seen, pos, taken, wantsReply, late, known, heard>>

\* The code p runs returns; call_function goes on with the next function.
Return(p) ==
  /\ at[p] = "code"
  /\ IF p \in Event /\ pos[p] < Len(Functions(p))
     THEN Call(p, pos[p] + 1, Functions(p)) /\ UNCHANGED at
     ELSE Goto(p, "end") /\ UNCHANGED <<pos, heard>>
  /\ UNCHANGED <<registered, loop, record, arg, seen, taken, wantsReply, late, known>>

-----------------------------------------------------------------------------
Application(p) ==
  \/ \E h \in Handler : RegisterFunc(p, h)
  \/ \E e \in Event, reply \in BOOLEAN : Trigger(p, e, reply)
  \/ Scan(p) \/ Store(p) \/ Count(p) \/ Return(p)

Delivery(e) == Check(e) \/ AddCallback(e) \/ PrintAll(e) \/ Read(e) \/ Take(e)

Next == (\E p \in Proc : Application(p)) \/ (\E e \in Event : Delivery(e))

Spec == Init /\ [][Next]_vars

-----------------------------------------------------------------------------
(* What must be true of the event bus.                                     *)

Waiting(e) == e \in In(loop[KindOf(e)])

\* An event is in one place: in the hands of the thread that triggers it, or
\* stored once, or delivered by a thread of its own (TriggerEvent,
\* register_event_check).
InOnePlace ==
  /\ \A k \in Kind : \A i, j \in DOMAIN loop[k] : loop[k][i] = loop[k][j] => i = j
  /\ \A e \in Event :
       LET holders == {p \in Proc : at[p] \in {"store", "count"} /\ e \in arg[p]}
       IN /\ Cardinality(holders) + (IF Waiting(e) THEN 1 ELSE 0)
               = (IF at[e] = "held" THEN 1 ELSE 0)

\* A callback is called by at most one answer, although two answers may both
\* have found it registered (bg_chrome_runtime_onMessage_response).
OneAnswerPerCallback ==
  /\ \A a, b \in Answer : a # b => In(taken[a]) \cap In(taken[b]) = {}
  /\ \A a \in Answer : In(taken[a]) \cap In(registered["answer"]) = {}

\* The thread of an ask without callback always comes to the call of the
\* functions it looked up before: nothing an answer unregisters takes them away.
RequestsArrive ==
  \A e \in Ask : at[e] \in {"dropped", "died"} => at[e] = "died" /\ e \in wantsReply

\* When the call of an ask has ended, every registration there was when its
\* thread began was called, in their order and each once, although
\* call_function walks a list that grows meanwhile.
AllFunctionsCalled ==
  \A e \in Ask : at[e] = "end" =>
    /\ Len(heard[e]) >= Len(known[e])
    /\ heard[e] = SubSeq(registered["ask"], 1, Len(heard[e]))

\* Stored events have no listener, once no thread is about to look for them
\* (comment of TriggerEvent: stored first, triggered in turn afterwards).
StoredHaveNoListener ==
  \A k \in Kind : loop[k] # <<>> /\ registered[k] # <<>> =>
    \E p \in Proc : at[p] = "scan" /\ Listened(p) = k
=============================================================================
