-------------------------------- MODULE Difc --------------------------------
(***************************************************************************)
(* The DIFC Linux security module (ifccontrol/difc-wzz/difc_lsm.c): marks  *)
(* on credentials, on shared-memory segments and on inodes.                *)
(*                                                                         *)
(* The hooks are translated; the kernel that calls them (fork, exec, exit, *)
(* setxattr, lookup, eviction) is modelled from how its hooks are used.    *)
(* There is one inode, one segment and one open file.  The hooks that only *)
(* print and answer 0 (file_open, file_permission, shm_*, *security) leave *)
(* the state alone and are left out.                                       *)
(***************************************************************************)
EXTENDS Integers, FiniteSets

CONSTANTS
  Task,
  Cred,     \* slots for struct cred; as many for the structs of marks (a bound)
  None,     \* no credential
  Poison,   \* cred->security after cred_free (0x7UL), and of an unused slot
  FileNames,  \* what executed files may contain of "gedit", "vi", "pool"
  Stored,   \* what stored attributes may hold: the number their digits give,
            \* and 10 to the power of how many digits they are
  MarkMod   \* marks are unsigned: 2^32 (in the runs, a smaller modulus)

ASSUME DifcAssumption ==
  /\ None \notin Cred /\ Poison \notin Cred
  /\ Stored \subseteq [number : Nat, tens : Nat \ {0}]
  /\ MarkMod \in Nat \ {0, 1}

Gone == [cur |-> -1, cap |-> -1, de |-> -1]    \* memory given back

VARIABLES
  cred,       \* cred[t]: current->cred, None when t does not run
  group,      \* group[t]: the thread group of t
  bprm,       \* bprm[t]: the credentials an exec of t prepared
  doing,      \* doing[t]: where t is in exec or in a hook of the inode
  security,   \* security[c]: cred->security
  marks,      \* marks[b]: a task_security_struct
  file,       \* f_cred of the open file
  ipc,        \* cur_mark of the segment, -1 when there is none
  inode,      \* the inode in memory: [loaded, mark, inited]
  attr,       \* security.difc on disk: [text, ended], or NoAttr
  plain       \* history: see MarkIsAttribute

credVars == <<cred, group, bprm, security, marks, file>>
inodeVars == <<inode, attr, plain>>
vars == <<credVars, inodeVars, doing, ipc>>

Mark(cur, cap, de) == [cur |-> cur, cap |-> cap, de |-> de]
Initial == Mark(0, 2147483647, 2147483647)
Blank == Mark(0, 0, 0)

NoAttr == [text |-> [number |-> 0, tens |-> 0], ended |-> TRUE]
Value == [text : Stored, ended : BOOLEAN]
User == [at |-> "user", by |-> "none", got |-> NoAttr]

Runs(t) == cred[t] # None
InUser(t) == Runs(t) /\ doing[t] = User
Live(c) == security[c] # Poison
MarksOf(t) == marks[security[cred[t]]]

-----------------------------------------------------------------------------
(* Credentials.  The kernel drops a reference and frees what nobody holds. *)

HeldNext(c) ==
  file' = c \/ \E t \in Task : cred'[t] = c \/ bprm'[t] = c

\* Broken on purpose: cred->security is poisoned and the memory kept.
CredFreeLeaks(sec, mk) ==
  /\ security' = [c \in Cred |->
       IF ~HeldNext(c) THEN Poison ELSE sec[c]]
  /\ marks' = mk

\* difc_cred_free, for every credential that lost its last holder.
CredFree(sec, mk) ==
  LET dead == {c \in Cred : sec[c] # Poison /\ ~HeldNext(c)}
  IN /\ security' = [c \in Cred |-> IF c \in dead THEN Poison ELSE sec[c]]
     /\ marks' = [b \in Cred |->
          IF \E c \in dead : sec[c] = b THEN Gone ELSE mk[b]]

\* A free slot; the marks allocated for a credential have its name.
New(c) == ~Live(c) /\ marks[c] = Gone

\* Broken on purpose: the new credential points to the marks of the old one.
CredPrepareAlias(c, old) ==
  CredFree([security EXCEPT ![c] = security[old]], marks)

\* difc_cred_prepare: kmemdup.  When it fails there is no credential, and the
\* call of the kernel that asked for it fails: nothing has changed.
CredPrepare(c, old) ==
  CredFree([security EXCEPT ![c] = c], [marks EXCEPT ![c] = marks[security[old]]])

\* difc_cred_alloc_blank
CredAllocBlank(c) ==
  CredFree([security EXCEPT ![c] = c], [marks EXCEPT ![c] = Blank])

\* fork: a thread shares the credential, a process has a copy.
Fork(t, u) ==
  /\ InUser(t) /\ ~Runs(u)
  /\ \/ /\ cred' = [cred EXCEPT ![u] = cred[t]]
        /\ group' = [group EXCEPT ![u] = group[t]]
        /\ UNCHANGED <<bprm, security, marks, file>>
     \/ \E c \in Cred :
          /\ New(c)
          /\ cred' = [cred EXCEPT ![u] = c]
          /\ \E g \in Task : /\ \A v \in Task : Runs(v) => group[v] # g
                           /\ group' = [group EXCEPT ![u] = g]
          /\ UNCHANGED <<bprm, file>>
          /\ CredPrepare(c, cred[t])
  /\ UNCHANGED <<doing, ipc, inodeVars>>

\* setuid and the like: prepare_creds, commit_creds.
ChangeCreds(t) ==
  /\ InUser(t)
  /\ \E c \in Cred :
       /\ New(c)
       /\ cred' = [cred EXCEPT ![t] = c]
       /\ UNCHANGED <<group, bprm, file>>
       /\ CredPrepare(c, cred[t])
  /\ UNCHANGED <<doing, ipc, inodeVars>>

\* keyctl replaces the credential of a parent by a blank one; the marks are
\* not transferred, for the module has no cred_transfer hook.
SessionToParent(t) ==
  /\ InUser(t)
  /\ \E c \in Cred :
       /\ New(c)
       /\ cred' = [cred EXCEPT ![t] = c]
       /\ UNCHANGED <<group, bprm, file>>
       /\ CredAllocBlank(c)
  /\ UNCHANGED <<doing, ipc, inodeVars>>

\* execve: the credential of the new program is copied before it is loaded.
PrepareExec(t) ==
  /\ InUser(t)
  /\ \E c \in Cred :
       /\ New(c)
       /\ bprm' = [bprm EXCEPT ![t] = c]
       /\ UNCHANGED <<cred, group, file>>
       /\ CredPrepare(c, cred[t])
  /\ doing' = [doing EXCEPT ![t].at = "exec"]
  /\ UNCHANGED <<ipc, inodeVars>>

FailExec(t) ==
  /\ doing[t].at = "exec"
  /\ bprm' = [bprm EXCEPT ![t] = None]
  /\ doing' = [doing EXCEPT ![t] = User]
  /\ UNCHANGED <<cred, group, file>>
  /\ CredFree(security, marks)
  /\ UNCHANGED <<ipc, inodeVars>>

\* The names the file name contains; the last `if' that matches wins.
MarksOfProgram(names, old) ==
  CASE "pool" \in names -> Mark(444, 444, 244)
    [] "vi" \in names /\ "pool" \notin names -> Mark(222, 222, 222)
    [] names = {"gedit"} -> Mark(546, 546, 546)
    [] OTHER -> old

\* The other threads of the group are gone; then difc_bprm_committing_creds
\* writes into the credential the task still has.
Committing(t, names) ==
  /\ doing[t].at = "exec"
  /\ LET gone == {u \in Task \ {t} : Runs(u) /\ group[u] = group[t]}
     IN /\ \A u \in gone : doing[u] = User
        /\ cred' = [u \in Task |-> IF u \in gone THEN None ELSE cred[u]]
  /\ doing' = [doing EXCEPT ![t].at = "committing"]
  /\ UNCHANGED <<group, bprm, file>>
  /\ CredFree(security, [marks EXCEPT ![security[cred[t]]] = MarksOfProgram(names, @)])
  /\ UNCHANGED <<ipc, inodeVars>>

\* commit_creds(bprm->cred)
Commit(t) ==
  /\ doing[t].at = "committing"
  /\ cred' = [cred EXCEPT ![t] = bprm[t]]
  /\ bprm' = [bprm EXCEPT ![t] = None]
  /\ doing' = [doing EXCEPT ![t] = User]
  /\ UNCHANGED <<group, file>>
  /\ CredFree(security, marks)
  /\ UNCHANGED <<ipc, inodeVars>>

Exit(t) ==
  /\ InUser(t) /\ \E u \in Task \ {t} : Runs(u)
  /\ cred' = [cred EXCEPT ![t] = None]
  /\ UNCHANGED <<group, bprm, file>>
  /\ CredFree(security, marks)
  /\ UNCHANGED <<doing, ipc, inodeVars>>

\* An open file keeps the credential it was opened with.
OpenFile(t) ==
  /\ InUser(t) /\ file = None
  /\ file' = cred[t]
  /\ UNCHANGED <<cred, group, bprm, security, marks, doing, ipc, inodeVars>>

CloseFile ==
  /\ file # None
  /\ file' = None
  /\ UNCHANGED <<cred, group, bprm>>
  /\ CredFree(security, marks)
  /\ UNCHANGED <<doing, ipc, inodeVars>>

\* ipc_alloc_security, ipc_free_security
ShmAlloc(t) ==
  /\ InUser(t) /\ ipc = -1
  /\ ipc' = MarksOf(t).cur
  /\ UNCHANGED <<credVars, doing, inodeVars>>

ShmFree(t) ==
  /\ InUser(t) /\ ipc # -1
  /\ ipc' = -1
  /\ UNCHANGED <<credVars, doing, inodeVars>>

-----------------------------------------------------------------------------
(* The inode.  A hook sets cur_mark to 0 and then adds digit by digit, in  *)
(* 32 bits; a value without an end is read on into what lies behind it.    *)

Busy == {t \in Task : doing[t].at \in {"get", "zero", "add"}}
At(t, step) == doing[t].at = step

\* Broken on purpose: the new struct keeps what the slab held (no __GFP_ZERO).
InodeAllocDirty ==
  /\ ~inode.loaded
  /\ inode' = [inode EXCEPT !.loaded = TRUE, !.mark = 1]
  /\ plain' = TRUE
  /\ UNCHANGED <<credVars, doing, ipc, attr>>

\* inode_alloc_security
InodeAlloc ==
  /\ ~inode.loaded
  /\ inode' = [loaded |-> TRUE, mark |-> 1, inited |-> FALSE]
  /\ plain' = TRUE
  /\ UNCHANGED <<credVars, doing, ipc, attr>>

InodeFree ==
  /\ inode.loaded /\ Busy = {}
  /\ inode' = [inode EXCEPT !.loaded = FALSE, !.mark = 1]
  /\ plain' = TRUE
  /\ UNCHANGED <<credVars, doing, ipc, attr>>

\* difc_d_instantiate, to the allocation: the root of a file system and an
\* inode without getxattr keep the mark of the allocation; without a dentry
\* or memory the inode stays as it is, to be tried again.
Instantiate(t) ==
  /\ InUser(t) /\ inode.loaded /\ ~inode.inited
  /\ \/ /\ inode' = [inode EXCEPT !.inited = TRUE]
        /\ plain' = FALSE
        /\ UNCHANGED doing
     \/ /\ doing' = [doing EXCEPT ![t].at = "get", ![t].by = "instantiate"]
        /\ plain' = (plain /\ Busy = {})
        /\ UNCHANGED inode
  /\ UNCHANGED <<credVars, ipc, attr>>

\* The read may fail although there is a value (one of more than 255 bytes,
\* no memory, an I/O error): then, as without one, no digit is looked at.
GetXattr(t) ==
  /\ At(t, "get")
  /\ \E got \in {attr, NoAttr} :
       /\ doing' = [doing EXCEPT ![t].at = "zero", ![t].got = got]
       /\ plain' = (plain /\ got = attr)
  /\ UNCHANGED <<credVars, ipc, inode, attr>>

\* setfattr: the file system stores the value, then difc_inode_post_setxattr
\* runs, whatever the name of the attribute.  i_mutex lets one in at a time.
SetXattr(t, v, name) ==
  /\ InUser(t) /\ inode.loaded
  /\ \A u \in Busy : doing[u].by # "setxattr"
  /\ attr' = IF name = "security.difc" THEN v ELSE attr
  /\ plain' = (plain /\ Busy = {} /\ name = "security.difc")
  /\ doing' = [doing EXCEPT ![t] = [at |-> "zero", by |-> "setxattr", got |-> v]]
  /\ UNCHANGED <<credVars, ipc, inode>>

\* No hook of the module sees it.
RemoveXattr(t) ==
  /\ InUser(t) /\ inode.loaded /\ attr # NoAttr
  /\ \A u \in Busy : doing[u].by # "setxattr"
  /\ attr' = NoAttr
  /\ plain' = FALSE
  /\ UNCHANGED <<credVars, doing, ipc, inode>>

Zero(t) ==
  /\ At(t, "zero")
  /\ inode' = [inode EXCEPT !.mark = 0]
  /\ doing' = [doing EXCEPT ![t].at = "add"]
  /\ UNCHANGED <<credVars, ipc, attr, plain>>

\* The digits of v added to mark m.
Added(v, m) == m * v.text.tens + v.text.number

\* Broken on purpose: the mark is not cut to its width.
DigitsWide(v, m) ==
  IF v = NoAttr THEN {m}
  ELSE {Added(v, m)} \cup (IF v.ended THEN {} ELSE {Added(v, m) * 10 + 9})

\* What follows a value without an end may be a digit (9 stands for all).
Digits(v, m) ==
  IF v = NoAttr THEN {m}
  ELSE {Added(v, m) % MarkMod}
       \cup (IF v.ended THEN {} ELSE {(Added(v, m) * 10 + 9) % MarkMod})

Add(t) ==
  /\ At(t, "add")
  /\ \E m \in Digits(doing[t].got, inode.mark) :
       inode' = [inode EXCEPT !.mark = m,
                              !.inited = @ \/ doing[t].by = "instantiate"]
  /\ plain' = (plain /\ doing[t].got.ended)
  /\ doing' = [doing EXCEPT ![t] = User]
  /\ UNCHANGED <<credVars, ipc, attr>>

-----------------------------------------------------------------------------
\* cred_init_security, on the first task.
Init ==
  /\ \E t \in Task, c \in Cred :
       /\ cred = [u \in Task |-> IF u = t THEN c ELSE None]
       /\ security = [d \in Cred |-> IF d = c THEN c ELSE Poison]
       /\ marks = [b \in Cred |-> IF b = c THEN Initial ELSE Gone]
  /\ group = [t \in Task |-> t]
  /\ bprm = [t \in Task |-> None]
  /\ doing = [t \in Task |-> User]
  /\ file = None
  /\ ipc = -1
  /\ inode = [loaded |-> FALSE, mark |-> 1, inited |-> FALSE]
  /\ attr \in Value \cup {NoAttr}
  /\ plain = TRUE

CredNext(t) ==
  \/ \E u \in Task : Fork(t, u)
  \/ ChangeCreds(t) \/ SessionToParent(t)
  \/ PrepareExec(t) \/ FailExec(t) \/ Commit(t) \/ Exit(t)
  \/ \E names \in FileNames : Committing(t, names)
  \/ OpenFile(t) \/ ShmAlloc(t) \/ ShmFree(t)

InodeNext(t) ==
  \/ Instantiate(t) \/ GetXattr(t) \/ Zero(t) \/ Add(t) \/ RemoveXattr(t)
  \/ \E v \in Value, name \in {"security.difc", "another"} : SetXattr(t, v, name)

Next ==
  \/ \E t \in Task : CredNext(t) \/ InodeNext(t)
  \/ CloseFile \/ InodeAlloc \/ InodeFree

Spec == Init /\ [][Next]_vars

-----------------------------------------------------------------------------
TypeOK ==
  /\ cred \in [Task -> Cred \cup {None}]
  /\ group \in [Task -> Task]
  /\ bprm \in [Task -> Cred \cup {None}]
  /\ \A t \in Task : /\ doing[t].at \in {"user", "exec", "committing", "get", "zero", "add"}
                     /\ doing[t].by \in {"none", "instantiate", "setxattr"}
                     /\ doing[t].got \in Value \cup {NoAttr}
  /\ security \in [Cred -> Cred \cup {Poison}]
  /\ file \in Cred \cup {None}
  /\ ipc \in Int
  /\ inode \in [loaded : BOOLEAN, mark : 0..(MarkMod - 1), inited : BOOLEAN]
  /\ plain \in BOOLEAN
  /\ attr \in Value \cup {NoAttr}

\* cred_prepare, cred_alloc_blank, cred_free: whatever is forked, executed and
\* closed in whatever order, every credential in use has marks of its own,
\* which are in memory, and no marks are left without a credential.
Owned ==
  LET used == ({cred[t] : t \in Task} \cup {bprm[t] : t \in Task} \cup {file}) \ {None}
  IN /\ \A c \in used : security[c] \in Cred /\ marks[security[c]] # Gone
     /\ \A c, d \in used : security[c] = security[d] => c = d
     /\ \A b \in Cred : marks[b] # Gone => \E c \in used : security[c] = b

\* bprm_committing_creds writes into the credential that exec is about to drop:
\* the marks of a program reach neither the program nor its children nor the
\* segments they create.  Only the task between the two steps has them.
NoTaskKeepsProgramMarks ==
  /\ \A t \in Task :
       Runs(t) /\ doing[t].at # "committing" => MarksOf(t) \in {Initial, Blank}
  /\ ipc \in {-1, 0}

\* The mark an attribute asks for: its number, modulo the width of a mark.
MarkOf(v) == IF v = NoAttr THEN 0 ELSE v.text.number % MarkMod

\* d_instantiate, post_setxattr: the mark of an initialised inode is the one its
\* attribute asks for, but for these causes, which `plain' records since the
\* inode was read: it is the root or has no getxattr, the attribute could not
\* be read, another attribute was set, the attribute was removed, a value had
\* no end, or two of these operations overlapped.
MarkIsAttribute ==
  inode.loaded /\ inode.inited /\ plain /\ Busy = {} => inode.mark = MarkOf(attr)
=============================================================================
