# Verification of the Android privacy and security prototype

This directory holds TLA+ models of the parts of the repository that carry its
own control logic, the TLC configurations that check them, and theorems about
them that TLAPS checks.  Sources are quoted as `path:line` of the repository;
`W/` stands for `src/Information flow tracking/WebViewJSdetect-main/src/`,
`F/` for `src/ifccontrol/fsaflow/`, `D/` for `src/ifccontrol/difc-wzz/` and `P/` for
`src/Information flow tracking/PDIFT/passes/`.

Contents: 1 inventory, 2 modules and code, 3 runs, 4 fairness, 5 proofs,
6 findings, 7 other observations, 8 what is not modelled, 9 plan,
10 how to run it.

## 1. Inventory

The repository collects five independent tools and some scripts.  Four of
them hold logic of their own that is worth a model: **WebViewJSdetect** (an
analyser of JavaScript in WebViews and extensions, in Python), **FSAFlow** (an
instrumenter and embedded monitor for Android programs, in Java), **DIFC**
(a Linux security module, in C) and **PDIFT** (information flow tracking for
hardware: passes of the synthesiser Yosys, in C++).

### 1.1 WebViewJSdetect: thread scheduler
`W/core/opgen.py`, `W/core/thread_design.py`, `W/plugins/manager.py`,
`W/plugins/internal/utils.py`, `W/plugins/internal/handlers/condition.py`

Threads walk the syntax tree concurrently, one for each arm of an `if` and one
for each delivered event.
*State*: `running_queue`, `ready_queue` (sorted by age), `wait_queue`,
`branch_son_dad` (son -> father and condition variable), one `thread_info` per
thread (the event `flag`, the event `running`, the age).
*Operations*: `dispatch_node` (blocks on the flag, preempts), `emit_thread`,
`HandleIf.process` (forks a thread per arm, sleeps on a condition variable),
`admin_threads` (reaps, notifies fathers, fetches), `fetch_new_thread`.
*Interaction*: shared queues, each with a lock of its own; no step holds two
locks, and several tests read a queue without its lock; a thread is started by
setting its flag, a father by its condition variable.
*Hard*: every interleaving of those critical sections; `notify` without a
predicate; a queue that is tested and then indexed.
*Correct when*: `running_queue` is what executes (new work is started only when
it is empty), no thread is lost or handed out twice, a father goes on only when
its policy allows it, nobody starves, the analysis ends.

### 1.2 WebViewJSdetect: shutdown by time-out
`W/core/opgen.py:205-245`, `W/core/thread_design.py:25-45`, `W/core/timeout.py`

`SIGALRM` raises `TimeoutError` in the main thread at any point of
`admin_threads`; the handler sweeps `branch_son_dad`, notifies the sleeping
fathers and stops threads until no running thread is left in `thread_infos`.
*State*: the iteration over `branch_son_dad`, the list of threads to stop, the
two halves of `stop()`.
*Hard*: the alarm inside an operation; threads that create threads and register
sons during the sweep.
*Correct when*: the loop ends, every sleeper with a registered son is woken, a
stopped thread visits no further node.

### 1.3 WebViewJSdetect: branches (if, assignment, merge)
`W/plugins/internal/handlers/condition.py`, `W/plugins/internal/utils.py`
(`check_condition`, `merge`), `W/core/graph.py`, `W/core/utils.py` (`BranchTag`)

*State*: the edges between a variable and its objects, tagged with the
arms that added or deleted them; the nested calls of `HandleIf.process`.
*Operations*: judge a condition (sure, not sure, passed over), assign, look up,
merge the tags of an `if` into the arm around it.
*Hard*: tags of nested and successive ifs, the hidden `else`, arms that run as
part of the parent branch.
*Correct when*: a lookup finds exactly what the arms on the way there may have
left, a deletion cancels an addition of its own branch only, an arm is passed
over only when no run takes it.

### 1.4 WebViewJSdetect: event bus
`W/plugins/internal/modeled_extension_builtins.py`,
`W/plugins/internal/handlers/event_loop.py`

*State*: `eventRegisteredFuncs`, `event_loop` (events stored until they have a
listener), `event_record` (a counter for each kind of event).
*Operations*: register a function, trigger an event, deliver it in a thread of
its own, register and answer a callback.
*Hard*: a test under one lock and its consequence under another; two answers
racing for the same callbacks; a list that grows while it is walked.
*Correct when*: an event is in one place, a callback is answered once, plain
requests reach every function that was registered for them.

### 1.5 FSAFlow: embedded monitor
`F/security/detail_embeded_code.java`, `F/security/detail_embeded_object.java`

*State*: `paths[]`, one object per leak path, whose fields (`curpos` among them)
are static.
*Operations*: `source_logic`, `branch_logic`, `sink_logic`, called by the
instrumented program from any thread.
*Correct when*: a sink is refused exactly when its whole path was followed
since its source ran.

### 1.6 FSAFlow: instrumenter and driver
`F/instrument/detail_Instrumenter.java`, `F/instrument/detail_driver.java`,
`F/instrument/detail_global_policy.java`, `F/ClassConversion.java`

*State*: the body of a method, the list of policy items, the static flag
`dealsplitsource1`.
*Operations*: one pass per item; each inserts calls of the monitor before or
after the statements its text or its jump number matches.
*Hard*: later passes see the calls of earlier ones; calls move the targets of
jumps; texts are compared with and without digits and `$`.
*Correct when*: calls stand at their statement, sinks are guarded on every
jump, a refusal presupposes that the source of its path ran.

### 1.7 DIFC: Linux security module
`D/difc_lsm.c`, `D/objsec.h`

*State*: marks on credentials, on shared-memory segments and on inodes, and the
attribute on disk.
*Operations*: the hooks of `difc_ops`, called by the kernel on fork, exec, exit,
credential changes, open, lookup, `setxattr`, eviction.
*Hard*: credentials shared by threads, open files and execs; an exec that
prepares a credential before the hook writes into the old one; hooks of one
inode that overlap.
*Correct when*: every credential in use owns marks in memory and none leak; the
mark of an inode is its attribute.

### 1.8 PDIFT: taint logic of cells and flip-flops
`P/cellift/cellift.cc`, `P/cellift/cells/`

The pass `cellift` gives every wire of a netlist a second wire, its taint, and
every cell a circuit that computes the taint of its output.
*State*: none that survives the pass; the instrumented netlist has its
registers and theirs.
*Operations*: `create_cellift_logic` chooses a function by the type of a cell
and two dozen options; each function builds the taint circuit of its cell.
*Hard*: the circuits are right only if every choice of the tainted bits is
covered (carries, borrows, signs, amounts past the width, select lines); cells
of different widths are wired together without a complaint; enables, resets
and latches, whose taint lives from one clock to the next.
*Correct when*: a bit that differs between two runs of the netlist is tainted
(soundness), and, where the logic is not meant to be coarse, no other is
(precision).

### 1.9 PDIFT: execution policies
`P/modift/ModExe.cc`, `P/modift/modift_util.cc`, `Check_and_Refresh` in
`P/cellift/cellift_util.cc`

An expression such as `A+(B+C)*3+D` says in which order data may pass the
modules of a design.
*State*: the label data carries: one bit per module passed, a loop counter.
*Operations*: `get_mod_CheckingList` compiles the expression to checks;
`Check_and_Refresh` accepts a label and gives the next one, or refuses.
*Hard*: bits that are forgotten at each iteration and compared as one number;
a counter of a few bits; the modules after the loop.
*Correct when*: what passes kept to the expression, the loop is bounded, the
taint is cleared only at its end, and what keeps to it passes.

### 1.10 Parts that are not modelled
The abstract interpretation of JavaScript, loading and reports, the JavaScript
parser, PathFuzzer, the rest of PDIFT with its vendored Yosys, and the pattern
classification: see section 8.

## 2. Modules and code

| Module | Models | Composes with |
|---|---|---|
| `ForkJoin` | the promise of 1.1: fork, join by policy | abstract |
| `Scheduler` | 1.1, one action per critical section | implements `ForkJoin` |
| `Shutdown` | 1.2 | extends `Scheduler`: both run interleaved |
| `Conditions` | `check_condition`, `run_if_elem`, and a reference for them | pure operators |
| `BranchMerge` | 1.3 | extends `Conditions` |
| `EventBus` | 1.4 | |
| `LeakPath` | the promise of 1.5 | abstract |
| `FlowMonitor` | 1.5 | extends `LeakPath`, implements it for one path and thread |
| `Instrumenter` | 1.6 | extends `FlowMonitor`: the instrumented body runs under the monitor |
| `Difc` | 1.7 | |
| `TaintCells` | the values and the taint logic of 1.8, cell by cell | pure operators |
| `TaintCircuit` | 1.8: choice of the logic, flip-flops, the netlist beside its twin | extends `TaintCells` |
| `ExecPolicy` | 1.9 | |
| `*Proofs` | theorems and proofs of a module; `SchedulerProofs` has those of `Shutdown` too, `FlowMonitorProofs` those of `Instrumenter` | |
| `MC*` | constants, symmetry and small inputs for TLC | |

**Scheduler.**  A step is the code between two points at which it takes or
releases a lock or reads a queue without one, so `pc[t]` is a position in the
source: `dispatch`, `yield`, `enqueue`, `recheck`, `fetch`, `resume` are
`dispatch_node` with `fetch_new_thread` (`W/plugins/manager.py:128-160`);
`emit`, `register`, `park`, `leave`, `unready`, `wait`, `woken`, `back`, `merge`
are `HandleIf.process` (`condition.py:100-175`).  The main thread (process 0)
has `reap`, `notify`, `checkRunning`, `checkReady`, `final`
(`opgen.py:480-545`).  `father[s]` is the entry of `branch_son_dad` for the son
`s`.  Ages are data; what matters of them (who is at the head of the sorted
queue, which threads have the same age) is kept, and `Batches` distinguishes
the ablation mode `coco`, which resumes all threads of the least age, from the
others.  What an arm computes is left out; a thread passes any number of nodes
up to `Nodes` and may meet an `if` at each of them.  `Fetch` with an empty
`ready_queue` is the `IndexError` of the code: it kills a worker, and takes the
main thread out of `admin_threads` (`pc[Admin] = "crashed"`).  Two history variables,
which no step depends on, record how the code loses a thread (section 7): `late`,
the first thread had stopped when the main thread added it to `running_queue`, and
`missed`, the fathers who missed the end of a son before they took their condition
variable.

**Shutdown.**  `Alarm` is possible at every point of the main thread, also
inside a notification (`CutNotification`) and inside the loop that resumes
threads (`CutResume`).  `SweepNext`/`SweepNotify` iterate over
`branch_son_dad` without its lock; when a registration changes the dictionary
meanwhile, Python's `RuntimeError` is the phase `raised`.  `StopFlag` and
`StopRunning` are the two halves of `stop()`; `Relist` is the outer loop.  The
threads of `Scheduler` go on meanwhile.

**BranchMerge and Conditions.**  One variable, a stack of nested calls of
`HandleIf.process`.  An edge is an object with a tag
`[point, branch, mark]`, `NoTag` when it is untagged.  `Visible` is
`get_objs_by_name_node`, `Reassigned` is `assign_obj_nodes_to_name_node`,
`Merged` is `merge` in its sequential mode.  The history variable `possible` is
computed beside the code, from the program alone: what the variable may hold at
this point of a run of the program.  `MergeRaises` is the `KeyError` of
`utils.py:821`.  `Conditions` counts in tenths what `check_condition` adds up in
fractions, and compares the verdict of `run_if_elem` with `Outcomes`, the truth
values the condition can have when the program runs, by the equality and the truth of
JavaScript.  Objects come in fourteen kinds, those that the counting, `to_values`
or JavaScript tell apart (NaN, the empty string and numbers that read alike among them);
`ToValue` is the text a comparison sees of one, and there are eight comparisons.

**EventBus.**  Two kinds of events stand for the eight of
`event_listener_dic`: an ask, whose functions stay registered, and an answer,
whose functions are callbacks that the first answer removes.  Every `with lock`
block is one step.  An event names the thread that delivers it.  A function may be
registered any number of times (`MaxFuncs` bounds all registrations).  Whether
`call_function` refuses a call, because the function stands on the call stack often enough
already (`functions.py:620-625`), is left open in `Begin`: that stack holds the other calls of
the application too, which are not modelled.

**FlowMonitor and LeakPath.**  Every read or write of a static field is a step.
The program around the calls is arbitrary: it may reach its nodes in any order
from any thread.  `LeakPath` keeps for each path the trail of reports since its
source ran and refuses a sink exactly when the trail is the whole path.

**Instrumenter.**  A unit is a statement of the program or an inserted call.
Of texts the model keeps what the matching looks at: the base, whether it holds
a `$`, and its digits.  `DealSource`, `DealBranch`, `DealSink` and `SkipPath`
are the passes; each works on a snapshot of the body, as the Java iterates over
one.  When no item is left, `RunStatement` and `RunCall` execute the body, and
the monitor actions of `FlowMonitor` do the rest.

**Difc.**  The hooks are translated; the kernel around them is modelled from
how it calls them (marked external in the map).  Credentials and their marks
are slots that are reused after they were freed, so that a dangling pointer or
a leak is visible.  Of the text of an attribute the model keeps what the digits add up
to and the power of ten they shift a mark by (`Stored`); marks wrap at `MarkMod`, which
is 2^32 in the code.

**TaintCells and TaintCircuit.**  A vector is the set of its high bits, so the
circuits read as set algebra: `And` is `\cap`, `Or` is `\cup`.  One operator per
function of `P/cellift/cells/` gives the taint of the output from the values and
taints of the inputs, with its mistakes; what the cells themselves compute is
external.  `Logic` is the choice of `create_cellift_logic` by cell and options.
The state is a netlist at work: `val` what each wire carries, `taint` what the
instrumentation says of it, and, as a history variable, `alt`: what the wire
carries in a second run, the twin, that differs in the secret only.  A step
evaluates one cell with operands and output of its choice (`Evaluate`,
`EvaluatePmux`), clocks a flip-flop or looks at a latch (`Clock`), resets or loads
one asynchronously (`ResetNow`, `LoadNow`), or drives an input (`Drive`).  So
every netlist over the chosen cells, in every order of evaluation, is a behaviour,
and one inductive argument covers them all.  `Logics` names the functions the
netlist is built with; `Handled` says for which uses of a flip-flop its
taint logic is fit (section 7), and `AllUses` lifts that.

**ExecPolicy.**  One datum passes modules in any order; `Check_and_Refresh` or
`Refuse` is what the logic at the end of a module does.  `passed` is a history
variable.  A module is the number of its letter, since labels are compared as
numbers; `HighZ` stands for the `Sz` bits a refused label consists of.

The column "map" of `PROJECT.json` gives the source lines of every definition.
Operators that are introduced with "Broken on purpose" are mutations of the
definition below them: the property they are listed with in `PROJECT.json` is
violated when they replace it, which shows that the property depends on that
piece of code.

## 3. Runs

Every run and its properties are listed in `PROJECT.json`; what the properties
say stands above their definitions.

| Run | Module, specification | Bounds | Distinct states |
|---|---|---|---|
| `sched_live` | `MCScheduler`, `FairSpec` | 3 threads, ifs of up to 2 arms, 2 nodes a thread, policy 1, mode `coco`, one age | 31,029 |
| `shutdown` | `MCShutdown`, `ShutSpec` | 3 threads, 1 node a thread, policy 1 | 82,037 |
| `merge` | `MCBranchMerge` | 3 objects, 3 ifs, nested twice, up to 2 conditions and an else, 1 object per assignment, conditions of any operands of 1 or 2 objects or literals | 486,797 |
| `events` | `MCEventBus` | 1 script, 2 asks, 2 answers, 2 handlers, 2 registrations, `EventMaxTime` 0 | 3,143,281 |
| `events_lost` | `MCEventBus` | 2 scripts, 1 ask, 1 answer, 2 handlers | stops at the violation |
| `flow_single` | `MCFlowMonitor` | one path of 3 nodes, one thread, trails of up to 4 reports | 62,661 |
| `flow_paths` | `MCFlowMonitor` | two paths of 2 nodes, one thread | stops at the violation |
| `instr` | `MCInstrumenter`, `InSpec` | all programs of 3 statements over a small alphabet, one or two policies, ids up to 3 (2 slots) and one ignored | 64,244 |
| `difc` | `MCDifc` | 2 tasks, 4 credential slots, one inode, one segment, one open file, the attribute 20, marks modulo 16 | 406,232 |
| `taint` | `MCTaintCircuit` | 2 wires of 2 bits and one control wire; no options, or ten that choose other logics; all cells and flip-flops but those of section 7 | 7,992 |
| `taint_mul` | `MCTaintCircuit` | the same wires, `$mul` and `$xor` | stops at the violation |
| `policy` | `MCExecPolicy` | expressions of up to 4 modules, loops of 1, 2, 3 and 5, at most one module after the loop, 9 modules passed | 90,705 |

What they show, and why the bounds are enough to be interesting:

- **sched_live.**  Nothing loses, duplicates or misplaces a thread
  (`RunningIsAccurate`, `NoThreadLost`), `branch_son_dad` is clean
  when a father goes on (`NoStaleSons`), the joins are those promised
  (`ImplementsForkJoin`), a father goes to sleep only with a son whose end
  is still to come (`WaitsForASon`), when all threads block the main thread has
  work (`AdminHasWork`), and under fairness no ready thread starves and the analysis
  ends unless the `IndexError` hits the main thread or a father is abandoned.
  Three threads are the least at which a father, a son and an independent
  thread race, and at which a son may itself be a father; two nodes a thread
  let it be preempted and come back, or meet a second `if`.  Late registration of
  the first thread and the lost wake-up of section 7 happen in this run.  A property
  they would break excuses the thread concerned and no other:
  `First` in the first two when it is `late`, and a father in `WaitsForASon` when he `missed` an
  end; `AdminHasWork` demands nothing of states with such a thread, and
  `Settles` and `NoStarvation` nothing of runs that are `late`.  The same
  properties hold in the same instance with policy 2 (30,951 states), with mode `coco-single`
  (79,179 states) and with two ages (393,241 states); the theorems are for all of these.
- **shutdown.**  The alarm comes anywhere.  One node a thread is enough for a
  father, its two sons and a thread created after the first list of threads was
  drawn.
- **merge.**  Three ifs give a sequence after a nested one and a nest in either
  arm; three objects distinguish what an arm adds, what another adds and what
  was there before.  Assignments with two objects on the right were checked with
  two ifs (688,000 states).  `LookupIsExact` and `DeletionsCancel` hold up to the
  two cases that `plain` excludes, in which the code does lose objects
  (section 7); without that exclusion they are false.  `VerdictsAreRight`
  compares every condition whose operands have one or two objects or literals
  with its reference, and the theorem does so for any number.  It excludes the
  operands the code misjudges, which `Miscounted` lists and section 7 explains.
- **events.**  Two answers race for the callbacks of two asks, a handler is
  registered, perhaps for the second time, while the list is walked, calls are
  refused, and the counter of bursts overflows at the second event.
- **flow_single.**  Trails are longer than the path by one, so that an
  out-of-order node can follow a complete path.
- **instr.**  The alphabet holds texts that match exactly, only without digits,
  only without `$`, a backward and a forward jump and a switch; the second policy
  is inserted among the calls of the first.
- **difc.**  Two tasks share a credential after a fork, one executes while the
  other or the open file still holds it; four slots are what two tasks, two
  execs and the file need before a slot has to be reused.  The attribute 20 wraps at 16
  at once; the read of an attribute may fail although there is one.
- **taint.**  The state is small and each state has thousands of successors:
  every cell on every choice of wires.  Values and taints of all wires are
  arbitrary, as an input may drive them, so one step already covers every case of
  every cell; more steps show what flip-flops keep.  Two bits are the least at which a carry
  leaves its position, a sign bit is not the only one, and an amount goes past the
  width; that the logics are sound and exact is a theorem for every width.
  `TaintIsExact` compares a circuit with the definition of influence: a bit is
  tainted when some choice of the tainted operand bits changes it.
- **taint_mul.**  One step suffices.
- **policy.**  Four modules allow a module before the loop, two in it and one
  after it; the loops are counted in two and in three bits; nine modules are four
  iterations of two and one more, or two iterations too many.

Deadlock is checked in `difc`, whose tasks never stop, and in `taint`.  In the other runs the
modelled program really ends (the analysis is over, the application has done
what it does, the datum was refused), so their configurations say `CHECK_DEADLOCK FALSE`; that the end
is not reached too early is what the liveness properties of `sched_live` and
`shutdown` say.

Bounds in guards, all named: `N` threads, `MaxSons`, `Nodes` (Scheduler);
`MaxIfs`, `MaxElems`, `MaxDepth`, `MaxRight`, `MaxPerSide` (BranchMerge,
Conditions); `MaxTrail` (LeakPath, FlowMonitor, Instrumenter); the slots `Cred`,
`Stored` and `MarkMod` (Difc); `Width`, `Data` and `Control` (TaintCircuit);
`Expressions` and `MaxLength` (ExecPolicy); the sets of events and `MaxFuncs` (EventBus).

## 4. Fairness

Fairness is assumed only in `sched_live` and `shutdown`.  It is weak fairness
of the main thread's steps and of each analysis thread's steps: the operating
system runs every Python thread that is not blocked, and a lock in this code is
held only for a few statements.  It is not assumed that a thread meets an `if`,
that a preemption happens or that the alarm comes: `BeginIf`, `EmitFree`,
`Preempt` and `Finish` are alternatives of one action per thread, and `Alarm` is
under no fairness.  `cv.notify()` and `flag.set()` are steps of the thread that
calls them and make the sleeper's next step possible.  That the main thread registers the
first thread before that thread has stopped is not assumed; the properties that need it
say so by `late`.
`Nodes` makes a thread's work finite; that stands for programs whose analysis terminates, which is what
`Settles` and `StoppingEnds` are about: they say that the *scheduling* adds no
endless behaviour.  `StoppingEnds` rests on the number of threads being finite
too: the loop of `opgen.py:234` ends because each round stops all threads that
were created since, and a stopped thread creates no more after its node.

## 5. Proofs

All proofs are checked by TLAPS to the last leaf; the only assumptions are the
named ones on constants, which TLC evaluates in the runs:
`SchedulerAssumption` (at least one thread, policy 1 or 2, a known mode, ages
are integers among them 1), `LeakPathAssumption` (at least
one node, trails are at least as long as a path), `EventBusAssumption` (scripts,
asks, answers and handlers are different things, the bounds are numbers), `DifcAssumption`
(`None` and `Poison` are no credentials, attributes have their form, a mark has a bit), `InstrumenterAssumption` (programs, jumps and policies have
their form), `ConditionsAssumption` and `BranchMergeAssumption` (there is an object, bounds
are numbers, an assignment has a right side and an `if` a condition),
`WidthAssumption` and `WiresAssumption` (a wire has a bit, and one
width), `ExpressionAssumption` (an expression has a module, and at most one loop,
of a number of one digit) and `MaxLengthAssumption`.  `FlowMonitorProofs` has theorems for one path and one thread;
they carry that as a hypothesis of the theorem, and so do the theorems of
`Instrumenter` and `ExecPolicy` with what they need of the policies and expressions.

| Theorem | Says | For every |
|---|---|---|
| `TypeCorrect` | every variable of `Scheduler` keeps its type | number of threads, arms, nodes, both policies, all modes |
| `JoinInvariant` | the inductive invariant of the join | same |
| `StaleSonsNever` | `NoStaleSons` | same |
| `SchedulerImplementsForkJoin` | `ImplementsForkJoin` (refinement) | same |
| `RunningQueueIsAccurate` | `RunningIsAccurate` | same |
| `PausedAreFound` | `NoThreadLost` | same |
| `SleepersHaveASon` | `WaitsForASon` | same |
| `SomebodyCanGoOn` | `AdminHasWork` | same |
| `JoinsAreAcyclic` | `ForkJoin` alone excludes circles | set of threads, policy |
| `ShutdownTypeCorrect` | `Scheduler`'s `TypeOK` holds under `ShutSpec` | number of threads, arms, nodes, both policies, all modes |
| `StoppedThreadsLeave` | `StoppedLeavesForGood` | same |
| `MonitorTypeCorrect` | `TypeOK` of `FlowMonitor` | paths, threads, nodes |
| `MonitorImplementsLeakPath` | `ImplementsLeakPath` (refinement) | number of nodes, one path and thread |
| `InstrumenterTypes` | `InTypeOK` of `Instrumenter` | programs, policies whose sources are statements |
| `CallsStayAtTheirStatement` | `CallsAreAtTheirStatement` | same |
| `EverySinkIsGuarded` | `SinksAreGuarded` | same |
| `RefusalsFollowTheSource` | `RefusedAfterSource` | same, paths, threads |
| `MergeTypes` | `MergeTypeOK` of `BranchMerge` | objects, numbers of ifs, conditions and nested ifs |
| `MergeInvariant` | the inductive invariant of branches and tags | same |
| `LookupsAreExact` | `LookupIsExact` | same |
| `DeletionsAlwaysCancel` | `DeletionsCancel` | same |
| `VerdictsAreSound` | `VerdictsAreRight` | numbers of values and objects of an operand |
| `BusTypeCorrect` | `TypeOK` of `EventBus` | scripts, events, handlers |
| `BusInvariant` | the inductive invariant of the event bus | same |
| `EventsAreInOnePlace` | `InOnePlace` | same |
| `CallbacksAreAnsweredOnce` | `OneAnswerPerCallback` | same |
| `PlainRequestsArrive` | `RequestsArrive` | same |
| `FunctionsAreCalled` | `AllFunctionsCalled` | same |
| `CredInvariant` | the inductive invariant of the credentials | tasks, credentials, programs |
| `MarksAreOwned` | `Owned` | same |
| `ProgramMarksAreLost` | `NoTaskKeepsProgramMarks` | same |
| `DifcTypes` | `TypeOK` of `Difc` | same |
| `PlainMarkIsAttribute` | `MarkIsAttribute` | same |
| `TaintTypeCorrect` | `TaintTypeOK` | width, wires, options, logics, flip-flops |
| `TrackingIsSound` | `DifferencesAreTainted` | width, wires, options, flip-flops; the logics in `Proved`, `AllUses` false |
| `RtliftIsCellift` | the two adders compute the same taint | width, operands |
| `ExactLogicsAreExact` | `TaintIsExact` | width, wires, options |
| `PolicyTypeCorrect` | `PolicyTypeOK` | expressions |
| `LoopsAreBounded` | `LoopIsBounded` | expressions whose loop has a counter and a first module that occurs once |
| `OrderIsKept` | `PassedInOrder` | expressions in alphabetical order |
| `ClearedAtTheEnd` | `ClearedAfterExecution` | the same, loops with a counter |
| `LegalDataPasses` | `LegalIsAccepted` | the same, at most one module after the loop |

**The join.**  `WokenRightly` (a woken father has what its policy asks for) is
what the refinement needs, and is not inductive: the main thread counts the
entries of `branch_son_dad`, so one must know that the entries are sons of this
`if` (`NoStaleSons`), that under policy 2 every son without an entry is not
started, about to be registered, or dead (`SonsAccounted`), that names are
given to one father (`NamesAreFresh`), that only started threads are queued and
only dead ones reaped (`QueuedAreBorn`), and that the son a father registers is
running (`SonIsKid`).  `JoinInv` is their conjunction with `TypeOK` and
`stopped = {}` (nobody is stopped before the time-out).  The refinement maps
`pc` to four stages and hides unborn sons; every step of the queues stutters
except emission, `BeginIf`, `Merge` and `Finish`.

**The queues.**  `QueueInv` adds to `JoinInv` that `ready_queue`, `running_queue` and
the lists of the calls of `fetch_new_thread` have no thread in common
(`InOneQueue`), that what stands in `ready_queue` or in such a list is paused and
between two nodes or dead (`ToResume`), and that a thread is in the queue its
place in the code asks for (`InItsQueue`).  `RunningIsAccurate` and `NoThreadLost`
are read off the last.  The first thread runs before it is registered, so
it is excused until then (`Unregistered`), and afterwards when it had stopped by then
(`Late`); every other thread is in its queue all the same.  `InOneQueue` also
excuses the first thread when it is dead (`Excused`): registered in time or late, it may
have been paused, resumed and finished before.

**The condition variables.**  `WaitsForASon` is not inductive: `WakeInv` says further that
a thread is registered as a son once only, after it was started (`SonsAreNew`), that the end of a
registered son, or of the one about to be registered, is still to be handled
(`EndsAreSeen`), that a father past the registration of his sons has one in the table
(`SonInTable`), and that `dead` is empty outside the main thread's loop
(`DeadAreHandled`).  A son's end is handled once: no step of a thread hides it
(`WorkersKeepEnds`), the main thread hides it only by handling it (`AdminKeepsEnds`,
`HandleKeepsEnds`), and what it then does to the table leaves a father who sleeps another
son, or wakes him (`HandleWakes`).  `AdminHasWork` combines this with the circle below:
when all threads block and none can be started, all of them are fathers who wait; one of
them has no waiting son, so the son he has in the table has ended and its end is
still to be handled.

**Stopped threads.**  `ShutInv` is `TypeOK` with the types of the main thread's own
variables, and says that threads come into being in the order of their names
(`NamesInOrder`) and that only threads that exist are stopped (`StoppedAreBorn`).
`Moves` describes how a step may move a thread: to a next node only if it is
not stopped, or into being.  A stopped thread exists, so it moves to no node.
`JoinInv` is not used: a stopped son breaks it.

**The circle.**  In `ForkJoin`, sons are idle when they are given an arm, so a
son cannot be a father already: `FJInv` adds that only joining threads have
sons.  A new son is therefore
in no set of joining fathers when it is given an arm, and every other step takes
waits away or leaves them as they are (`FewerWaits`).  The refinement carries this over
to the threads of `Scheduler` (`FathersWaitInNoCircle`), where it is a lemma of `AdminHasWork`.

**The monitor.**  `PositionIsTrail` says that `curpos = k - 1` exactly when the
trail is the first `k` nodes, and that what an unfinished call has read still
holds (`CallIsCurrent`): with one path and one thread nobody moves `curpos` in
between.  Two paths break that, as `flow_paths` shows, which is why the theorem
is for one.

**The instrumented body.**  `SinksAreGuarded` speaks of the finished body and
`CallsAreAtTheirStatement` of single calls; neither survives a pass by itself,
since a pass moves what earlier ones inserted and the jumps with it.  `BodyInv`
states them for every moment: a source call has its statement
in front of it and a branch call its jump behind it, with only calls between
(`SourceAt`, `BranchAt`), the guards hold for the items dealt with so far, and
the statements carry their numbers (`Numbered`), which is what jumps refer to.  The passes are described
as insertions behind or in front of units (what stood at a place, and where it
goes), and each part of `BodyInv` is carried through an insertion.  When the body runs, `RanBefore`
says that the statement in front of the source calls to come has run and
`StartedRan` that a path is started only when its source has; with `CallsAreStarted`,
of the monitor, `RefusedAfterSource` follows.  The theorems suppose
`StatementSources`: no policy names a call of the monitor as its source.  Such a policy would be
served by the calls of an earlier one, and then there need be no statement in front.

**Branches and tags.**  `MergeInv` tells the edges of a variable level by level, where a
level is an `if` under way.  `InHeld(E, s, k, o)` is what a lookup finds that goes no deeper than level `k`.
The invariant says that every tag belongs to a branch of an `if` under way
(`TagsAreOpen`), that an object is added at one level only (`AddedOnce`), that what an
arm has deleted was there below it (`DeletedWasHeld`), and that the history variables can be read off
the edges: what an arm not taken leaves (`rest`), what the arms walked have left (`found`), what
the variable may hold here (`possible`).  `LookupIsExact` alone is not inductive:
a merge writes into the level below what arms that are long finished have
left, so the invariant has to speak of all branches of all levels at once.  Under
`plain` all of this holds; without it only `ShapeInv` does (numbers of ifs grow from
the outside in, a frame has no more branches than conditions and an else), which is
what `MergeTypeOK` needs.  `Branches` and `Visible` are recursive functions over the
frames; what they compute is proved by induction over the frames (see below).

**The verdict on a condition.**  `VerdictsAreRight` speaks of `check_condition` alone.  A
comparison that is no guess has ten tenths for each pair of values on which it is true, so the
count is full only when it is true on all pairs and zero only when it is on none
(`ComparisonCount`).  What the texts of two values say of a comparison is what
JavaScript says of the values, unless the pair is `Misjudged` (section 7).
For objects the tenths of undefined and null are at most two,
fewer than an object that is false would have to contribute (`TruthsAreRight`); NaN, which is
false and counts a whole, is excluded by `Miscounted`.

**The event bus.**  `BusInv` says where each event is (`Placed`), which thread
delivers it and what it has taken (`Answered`), and what a thread that looked up
functions may still rely on (`Arriving`).  `Calling` says that the functions an ask
has called are the first registrations, as many as its position tells, and
that those it knew are registered still: no function for asks is ever unregistered, so the walk over
a list that grows covers what it began with.

**The credentials.**  `CredInv` pairs credentials with marks one to one
(`OwnMarks`), keeps the credential an exec prepares away from every other task
(`Apart`), and confines the marks of a program to the task between
`committing` and `commit` (`ProgramMarksGo`).

**The mark of an inode.**  `InodeInv` says that nobody works on an inode that is not in
memory and that, while `plain` holds, at most one task works on it, has read what
the attribute is, and adds to a mark of 0.  So a mark departs from its attribute by the
causes that make `plain` FALSE only: the inode is a root or has no `getxattr`, the
attribute could not be read, another attribute was set, the attribute was removed, a
value had no end, or two operations overlapped.  Section 7 says what
each does.  The mark that an attribute asks for is its number modulo `MarkMod`, and the mark stays
below it however often it wraps (`MarksWrap`, `DigitsOfMark`).

**Information flow.**  `DifferencesAreTainted` is inductive with `TaintTypeOK`: if
every difference is tainted before a step, it is after it.  So the proof is one
lemma per cell (`*Sound`: whatever operands agree outside their taints, the
outputs agree outside the taint the logic computes), one per kind of flip-flop,
and one step per action.  Set algebra proves the bitwise cells; the adder, the
negation and the comparisons rest on monotonicity (a carry that both
extremes agree on is that of every value in between).  `rtlift_add` is the same
function as `cellift_add` (`RtliftIsCellift`): by induction over the positions its tainted carry
is the carry on which the extremes differ.  The shifts by a variable amount rest
on what `Num` adds up to: a variant of an amount is the number of its untainted bits and a
number that tainted bits reach (`NumVariant`), and where the logic is silent all these
amounts bring the same bit (`ShlStays`, `ShrStays`, `ShiftxStays`).  `Proved` lists the
logics the lemmas cover: all stateless ones that are sound, and `pmux_small_cells`.

`TaintIsExact` needs no invariant but the types.  One half is soundness; for the
other each `*Exact` lemma names two choices of the tainted bits between which the
output differs (`TwoVariants`): the two extremes for the gates, the adders' carries,
the comparisons and the reductions, one flipped bit for sums and parities
(a carry depends on lower bits only, `CarryIsLocal`), two amounts for the shifts.

**The loop.**  `LoopInv` says that the counter of the label is the number of times the
first module of the loop was passed, that it stays within its bits, and that
the module's check is what bounds it (`Counted`: the loop is not 4 or 8, and the
first module of the loop occurs once).

**The order of an expression.**  The label says less than the properties: it is a set of
bits, partly forgotten at each iteration, and the checks compare it as a number.
`OrderInv` relates it to the history: a module whose bit is set is among those the
datum has already gone through in order (`Matched`), and so was the one in front of it.
`ClearInv` does so for the unfolded loop (`Execution`): the bits of the label are the last ones of
the iteration that the counter says.  `LegalInv` is its converse for data
that has kept to the expression: the bit of its last module is set and the counter is its
iteration.  The hypotheses are needed: with modules out of alphabetical order,
a loop of 4 or 8 or two modules after the loop the properties are false
(section 7).

**Induction over data.**  The library's induction theorems take an operator as
parameter, which the installed provers cannot instantiate.  Where a proof needs
induction over the positions of a sequence, the levels of a stack or the bits of a vector,
it speaks of the set of numbers for which the claim holds (`Induction`), or argues by the least
counterexample (`LeastOf`, from the well-founded order of the naturals).  That a recursive
function exists and what it computes is proved in the same way (`CountsExist`, `NumCounts`).
It does not serve sums over sets, which the library defines by recursive operators:
`Conditions` counts with cardinalities instead, for which the library has theorems.

Only model-checked is liveness (`Settles`, `NoStarvation`, `StoppingEnds`,
`SleepersAreWoken`), which with fairness and `ENABLED` is out of TLAPS's reach here.

## 6. Findings

Each is a run whose one property states what a line of the repository says, and
which the code does not do.  The quotations are in `PROJECT.json`.

1. **Paths share their position** (`flow_paths`,
   `detail_embeded_object.java:10`).  The fields of a path are static: a branch of
   path 1 moves path 2, whose sink is refused although its path was not followed.
2. **Events are lost** (`events_lost`, `modeled_extension_builtins.py:93`).  An event is
   stored after its listener was registered and had looked for stored events.
3. **Products are untainted** (`taint_mul`, `mul.cc:29`).  The OR reductions of
   the operands' taints go into signals of width 0, and the taint of a product is
   the constant 0.

## 7. Other observations

What follows was seen in the models or in the code beside them.  Nothing in the
repository promises otherwise, or the repair is a matter of design, so it is
noted and not a run.

*Scheduler.*
- Lost wake-up: a father registers its son and enters `cv.wait()` later; a son
  that ends in between makes the main thread notify nobody and delete the
  registration (`opgen.py:516`).  The father sleeps until the time-out (`missed`).
- The first thread is started before it is registered (`opgen.py:485-487`).  If
  it is already asleep at an `if` or preempted when it is registered, it stays in
  `running_queue`, and no thread is started again (`late`).
- `fetch_new_thread` indexes `ready_queue[0]` after a test made without the lock.
  Two callers can meet one entry; in the main thread the `IndexError` leaves
  `admin_threads`, is caught by the bare `except` of `opgen.py:246`, and the
  analysis threads are not stopped.

*Shutdown.*
- After the sweep, nobody wakes a father that reaches `cv.wait()` later, nor one
  whose notification the alarm cut in two.  A registration during the sweep
  raises `RuntimeError`, and then no thread is stopped.
- A thread that pauses itself to give up its slice between the two halves of
  `stop()` (`thread_design.py:29-31`) blocks on its flag for ever.

*Branches.*
- `check_condition` returns 1.1 for "undefined or an object" and 2 for a literal
  (`utils.py:678`): literals are counted by two loops.  The caller takes neither for
  true, and passes over an arm the program may run.
- The object NaN counts as a true one (`utils.py:693-695`), and compared with itself
  it is equal.
- `to_values` turns operands into texts before they are compared
  (`utils.py:564-565`), numbers with six digits: objects that read alike are equal even to
  `===`, and `==` finds none of JavaScript's conversions (`"1.0" == 1`).
- `undefined <= undefined` is taken for sure (`utils.py:645-668`); it is false.
- `x = a; if (c) { x = a } else { x = b }`: object `a` is created in one arm and
  deleted in all, so the merge adds its edge and removes it
  (`utils.py:792,806-839`) and `x` loses `a`.
- An arm that is sure to run after one that is not runs in the parent branch
  (`condition.py:58-61`): it replaces what the earlier arm added, and with an
  `else` the number of branches is one short.  `merge` may then read an object
  whose last edge was removed: `KeyError` at `utils.py:821`, `MergeRaises` here.
- With threads (`-pq`), `merge` goes through `G.affected_name_nodes`, an empty
  tuple that nothing is added to (`graph.py:240`, `utils.py:767`): it does
  nothing, and lookups after the `if` do not see what the arms assigned.
- `switch` merges with the number of its cases and no hidden default
  (`switch.py:85`), so `switch (u) { case 1: x = o1 }` loses what `x` held
  before.
- `all_branch` never increments `branch_num_counter`: all its arms share one tag,
  and with an `else` `merge` is told that there are no branches.
- Comparisons by `<` and its like are guesses as soon as one value is defined
  (an `or` where `!=` seems meant); a literal empty string is counted as true by
  the first of the two loops, and `if ("")` is taken for sure.
- At the top level, the condition of a later `else if` is evaluated on what
  earlier arms have added.

*Event bus.*
- `RegisterFunc` appends without a test: a listener registered twice is called twice.
- When `call_function` refuses a call (`functions.py:620-625`), the callbacks of an answer
  are unregistered and never called.
- The loser of two answers that race for the callbacks ends with
  `UnboundLocalError` (`event_loop.py:345`).

*Monitor and instrumenter.*
- All calls for the arms of a fork stand before the fork, so the call with
  `accept` runs whichever arm is taken (`detail_Instrumenter.java:496`).
- Two threads of the program may test and advance one position at once
  (`detail_embeded_code.java:46`).
- The result of `sink_logic` is not used: the sink runs after a refusal.
- A sink of a path that was not started is let through
  (`detail_embeded_code.java:69`); the comments of lines 44 and 70 speak of refusing it.
- Ids over 200 are ignored, but `paths` has slots 0 to 199: a policy with id 200
  is instrumented and its first call throws (`Overrun`).
- When a sink's text has no `$`, the fuzzy comparison compares two empty strings
  and matches every statement without one.
- `dealsplitsource1` is static: after one exact match, fuzzy matching of sources
  is off for all later policies.
- A fork of two or more unit boxes always gets a call with `reject` after the
  one with `accept`, so its path is never detected.

*DIFC.*
- When `getxattr` fails although there is an attribute (a value of more than 255 bytes, no
  memory, an I/O error), the inode is marked 0 and counts as read
  (`difc_lsm.c:380-383`).
- The mark has 32 bits (`objsec.h:44`) and wraps while digits are read, so an attribute
  of ten digits may give the mark of another.
- A root and an inode without `getxattr` keep the mark 1 of their allocation.  Overlapping
  hooks of one inode add their digits to one mark.
- `bprm_committing_creds` writes the marks of a program into the credential that
  exec is about to drop: no program ever has them (`ProgramMarksAreLost`).
- `inode_post_setxattr` takes the value of an attribute of any name for the
  mark; removal has no hook.
- `d_instantiate` dereferences what `d_find_alias` answers before it tests it,
  and reads digits up to 255 bytes although fewer were filled.

*PDIFT, taint logic.*  Sound and exact at every width: `and`, `or`, `xor`,
`not`, `mux`, `add`, `rtlift_add`, `neg`, `eq_ne`, `ge`, `gt`, `le`, `lt`, the `logic_`
and `reduce_` functions, `shl_sshl_precise`, `shr`, `shift_shiftx_precise`.  Sound and
coarser than need be: `shl_sshl_imprecise`, `shr_sshr_imprecise`, `shiftx_imprecise`,
`pmux_small_cells` (on a one-hot select) and the conjunctive functions.  Not sound, and therefore
left out of `Logics`:
- `sub`: only the extremes of `a` are taken, `b` has the value it has
  (`sub.cc:91-92`);
- `sshr`, signed: a shift past the end compares the value of the sign bit and
  not its taint (`sshr.cc:153-163`);
- `shift_imprecise`: the reduction that should ask for `b`'s taint is given `a`'s
  (`shift_imprecise.cc:29`; the comment one line above says B);
- `pmux_large_cells`: the comparison with `a` is computed and left out;
- `mul`: the finding above.

*PDIFT, flip-flops.*  Taint is lost (`AllUses`) when the enable of `$dffe`, `$sdffe`,
`$adffe` or a latch is tainted; when `$sdffce` is reset while its enable is low;
when `$aldff` loads (the value of `AD` is taken for its taint); when a one-bit
flop with enable and reset resets to 0 at a high level or to 1 at a low one: the
polarity is read from the letter of the reset value.

*PDIFT, options.*  `$_DFF_PP1_` is not supported, `$_DFF_PP0_` is listed twice
(`cellift.cc:226-227`); `-imprecise-shr-sshr` is missing from the help;
`-conjunctive-not` is accepted and unused; the branch for memories is commented out.

*PDIFT, policies.*
- Two or more modules after the loop: data that keeps to the expression is
  refused (`modift_util.cc:231`, where an `else` is missing; the comment of line
  220 says otherwise).  `Accepted` has at most one.
- Loops of 4 and 8 fall between the ranges of `ModExe.cc:53-60` and have no
  counter: any number of iterations passes.  The number is one character long.
- Modules out of alphabetical order: labels are compared as numbers, and
  modules may be skipped.
- After the last module, modules of the loop are accepted again.
- A second run of `ModExe` keeps the first policy: `state_map.insert` overwrites
  nothing.
- The label `Check_and_Refresh` computes is connected to nothing (`and.cc:139`,
  `or.cc:91`, `xor.cc:77`, `mux.cc:95`; commented out in `not.cc`, `dffe.cc`, `sdffe.cc`).

## 8. What is not modelled

- **Abstract interpretation of JavaScript** (`W/plugins/internal/handlers/`):
  the object graph is unbounded data; what its handlers do to threads is in
  `Scheduler` and what an `if` does to a variable is in `BranchMerge`.
- **Loading, attack entries, reports**
  (`W/core/multi_run_helper.py`, `W/core/checker.py`, ...): input, output and one
  sequential query.
- **JavaScript parser** (`W/core/esprima.py`): calls a third-party parser.
- **PathFuzzer**: an Android application without shared or persistent state.
- **PDIFT**: the worker of `cellift` (ports and wires for taints, order of modules,
  removal of cells), `ModTrace` and `ModTools`: sequential rewriting and printing of
  Yosys data structures.  **Yosys** itself is vendored: about nine tenths of the
  lines of the repository, so that the share of all lines that the models cover
  stays small whatever is modelled of the rest.
- **Pattern classification**: one training script, and CSP models that are
  models themselves.
- Within the modelled parts: policy 3 and `thread_stmt` of the scheduler, and
  the branch of `emit_thread` for `is_event` (`utils.py:859-864`), which no caller asks for; the
  second time limit; `all_branch`, `single_branch`, `switch` and loop tags, and
  the threaded `merge`; the unthreaded event loop; several methods and classes,
  and the policy file, in FSAFlow; the text of audit records; hooks of DIFC that
  only print; in the taint logic, path labels, several taints at once, ports of
  different widths and module attributes; in the policies, the parsing of an
  expression and the way of a label from cell to cell.

## 9. Plan

The order so far was: the scheduler with its abstract promise, then the monitor,
the event bus, DIFC, the instrumenter on top of the monitor, the shutdown on top
of the scheduler, the branches, and last the taint logic and the execution
policies of PDIFT; the queues of the scheduler, the calls of the event bus, the
safety of the shutdown, the order of the policies, the instrumenter, the branches, the verdicts on
conditions and the exactness of the taint logic were proved after them.
What is next, the most important first:

1. The way of a policy label from cell to cell, which joins `TaintCircuit` and
   `ExecPolicy`; several taints at once.
2. The threaded mode of `BranchMerge` (a merge that does nothing, arms that run
   concurrently), composed with `ForkJoin`.
3. `switch` and `all_branch` as further ways to begin and end a frame of
   `BranchMerge`; the verdicts of `and`, `or`, `not`.
4. Policy 3 and `thread_stmt` in `Scheduler`.
5. The unthreaded event loop, with `EventBus` as its abstract specification.
6. Several methods in `Instrumenter`.

## 10. How to run it

`tlc -workers 2 -config <run>.cfg <module>.tla` checks a run (at most about three
minutes each), `tlapm <module>Proofs.tla` checks the proofs of a module.
