----------------------------- MODULE DifcProofs -----------------------------
(* Who owns which marks, and where the marks of a program go, for every    *)
(* number of tasks and credentials.                                        *)
EXTENDS Difc, TLAPS

USE DifcAssumption DEF DifcAssumption

-----------------------------------------------------------------------------
(* The inductive invariant.                                                *)

Plain == {Initial, Blank}
OfPrograms == {Mark(546, 546, 546), Mark(222, 222, 222), Mark(444, 444, 244)}
Places == {"user", "exec", "committing", "get", "zero", "add"}
Doing == [at : Places, by : {"none", "instantiate", "setxattr"}, got : Value \cup {NoAttr}]

CredTypes ==
  /\ cred \in [Task -> Cred \cup {None}]
  /\ bprm \in [Task -> Cred \cup {None}]
  /\ file \in Cred \cup {None}
  /\ group \in [Task -> Task]
  /\ security \in [Cred -> Cred \cup {Poison}]
  /\ marks \in [Cred -> Plain \cup OfPrograms \cup {Gone}]
  /\ doing \in [Task -> Doing]
  /\ attr \in Value \cup {NoAttr}

Used(c) == file = c \/ \E t \in Task : cred[t] = c \/ bprm[t] = c

\* A credential in use points to the marks allocated for it; the others have
\* been freed with theirs.
OwnMarks ==
  \A c \in Cred : IF Used(c) THEN security[c] = c /\ marks[c] # Gone
                             ELSE security[c] = Poison /\ marks[c] = Gone

\* An exec prepares a credential nobody else has, only the threads of a group
\* share one, and a task in exec or in a hook exists.
Apart ==
  /\ \A t, u \in Task : bprm[t] # None => cred[u] # bprm[t] /\ (t # u => bprm[u] # bprm[t])
  /\ \A t, u \in Task : Runs(t) /\ cred[t] = cred[u] => group[t] = group[u]
  /\ \A t \in Task : doing[t] # User => Runs(t)
  /\ \A t \in Task : doing[t].at \in {"exec", "committing"} => bprm[t] # None

\* The marks of a program are in a credential that its task is about to drop.
ProgramMarksGo ==
  \A c \in Cred : marks[c] \in OfPrograms =>
    \A t \in Task : bprm[t] # c /\ (cred[t] = c => doing[t].at = "committing")

CredInv == CredTypes /\ OwnMarks /\ Apart /\ ProgramMarksGo /\ ipc \in {-1, 0}

-----------------------------------------------------------------------------
(* Freeing credentials.                                                    *)

Marks == Plain \cup OfPrograms \cup {Gone}

\* Marks in memory are not marks given back, and the kinds of marks differ.
LEMMA MarksDiffer ==
  /\ Gone \notin Plain \cup OfPrograms
  /\ Plain \cap OfPrograms = {}
  /\ \A m \in Plain : m.cur = 0
BY DEF Gone, Plain, OfPrograms, Mark, Initial, Blank

\* What a step hands to cred_free.  sec and mk are security and marks after
\* the hooks of the step: a credential that is in use then has marks of its
\* own, and one that is not has them or was freed before.
Freeing(sec, mk) ==
  /\ sec \in [Cred -> Cred \cup {Poison}] /\ mk \in [Cred -> Marks]
  /\ \A c \in Cred : HeldNext(c) => sec[c] = c /\ mk[c] # Gone
  /\ \A c \in Cred : sec[c] = c \/ (sec[c] = Poison /\ mk[c] = Gone)

\* cred_free gives back the marks of the credentials nobody holds, and no others.
LEMMA FreeKeepsOwners ==
  ASSUME NEW sec, NEW mk, Freeing(sec, mk), CredFree(sec, mk)
  PROVE  /\ security' \in [Cred -> Cred \cup {Poison}]
         /\ marks' \in [Cred -> Plain \cup OfPrograms \cup {Gone}]
         /\ OwnMarks'
         /\ \A c \in Cred : marks'[c] = mk[c] \/ marks'[c] = Gone
<1> DEFINE dead == {c \in Cred : sec[c] # Poison /\ ~HeldNext(c)}
<1>1. /\ security' = [c \in Cred |-> IF c \in dead THEN Poison ELSE sec[c]]
      /\ marks' = [b \in Cred |-> IF \E c \in dead : sec[c] = b THEN Gone ELSE mk[b]]
  BY DEF CredFree
<1>2. \A c \in Cred : (\E d \in dead : sec[d] = c) <=> c \in dead
  BY DEF Freeing
<1>3. \A c \in Cred : Used(c)' <=> HeldNext(c)
  BY DEF Used, HeldNext
<1>4. \A c \in Cred : /\ security'[c] = IF c \in dead THEN Poison ELSE sec[c]
                      /\ marks'[c] = IF c \in dead THEN Gone ELSE mk[c]
  BY <1>1, <1>2
<1>5. OwnMarks'
  BY <1>3, <1>4 DEF OwnMarks, Freeing
<1>6. security' \in [Cred -> Cred \cup {Poison}]
  BY <1>1 DEF Freeing
<1>7. marks' \in [Cred -> Plain \cup OfPrograms \cup {Gone}]
  BY <1>1 DEF Freeing, Marks
<1> QED
  BY <1>4, <1>5, <1>6, <1>7

\* A free slot is in nobody's hands.
LEMMA NewIsUnused ==
  ASSUME OwnMarks, NEW c \in Cred, New(c)
  PROVE  ~Used(c)
BY DEF OwnMarks, New, Live

\* A step that only drops references.
LEMMA DropOnly ==
  ASSUME CredTypes, OwnMarks, CredFree(security, marks),
         \A c \in Cred : HeldNext(c) => Used(c)
  PROVE  /\ security' \in [Cred -> Cred \cup {Poison}]
         /\ marks' \in [Cred -> Plain \cup OfPrograms \cup {Gone}]
         /\ OwnMarks'
         /\ \A c \in Cred : marks'[c] = marks[c] \/ marks'[c] = Gone
<1>1. Freeing(security, marks)
  BY DEF Freeing, CredTypes, OwnMarks, Marks
<1> QED
  BY <1>1, FreeKeepsOwners

\* A step that gives a free slot marks m, and drops references.
LEMMA NewCredential ==
  ASSUME CredTypes, OwnMarks, NEW c \in Cred, New(c), NEW m \in Plain \cup OfPrograms,
         CredFree([security EXCEPT ![c] = c], [marks EXCEPT ![c] = m]),
         \A d \in Cred : HeldNext(d) => Used(d) \/ d = c
  PROVE  /\ security' \in [Cred -> Cred \cup {Poison}]
         /\ marks' \in [Cred -> Plain \cup OfPrograms \cup {Gone}]
         /\ OwnMarks'
         /\ \A d \in Cred \ {c} : marks'[d] = marks[d] \/ marks'[d] = Gone
         /\ marks'[c] = m \/ marks'[c] = Gone
<1> DEFINE sec == [security EXCEPT ![c] = c]
           mk == [marks EXCEPT ![c] = m]
<1>1. /\ sec[c] = c /\ mk[c] = m /\ m # Gone
      /\ \A d \in Cred \ {c} : sec[d] = security[d] /\ mk[d] = marks[d]
      /\ sec \in [Cred -> Cred \cup {Poison}] /\ mk \in [Cred -> Marks]
  BY MarksDiffer DEF CredTypes, Marks
<1> HIDE DEF sec, mk
<1>2. Freeing(sec, mk)
  BY <1>1 DEF Freeing, OwnMarks
<1>3. CredFree(sec, mk)
  BY DEF sec, mk
<1> QED
  BY <1>1, <1>2, <1>3, FreeKeepsOwners

-----------------------------------------------------------------------------
(* The invariant.                                                          *)

\* The first task has the initial marks.
LEMMA CredInit == Init => CredInv
<1> SUFFICES ASSUME Init PROVE CredInv
  OBVIOUS
<1>1. PICK t \in Task, c \in Cred :
        /\ cred = [u \in Task |-> IF u = t THEN c ELSE None]
        /\ security = [d \in Cred |-> IF d = c THEN c ELSE Poison]
        /\ marks = [b \in Cred |-> IF b = c THEN Initial ELSE Gone]
  BY DEF Init
<1>2. /\ group = [u \in Task |-> u] /\ bprm = [u \in Task |-> None]
      /\ doing = [u \in Task |-> User] /\ file = None /\ ipc = -1
      /\ attr \in Value \cup {NoAttr}
  BY DEF Init
<1>3. User \in Doing
  BY DEF User, Doing, Places
<1>4. CredTypes
  BY <1>1, <1>2, <1>3 DEF CredTypes, Plain
<1>5. OwnMarks
  BY <1>1, <1>2, MarksDiffer DEF OwnMarks, Used, Plain
<1>6. Apart
  BY <1>1, <1>2 DEF Apart, Runs, User
<1>7. ProgramMarksGo
  BY <1>1, MarksDiffer DEF ProgramMarksGo, Plain, OfPrograms, Gone, Mark
<1> QED
  BY <1>2, <1>4, <1>5, <1>6, <1>7 DEF CredInv

\* A running task outside exec has plain marks of its own credential.
LEMMA RunningIsPlain ==
  ASSUME CredInv, NEW t \in Task, InUser(t)
  PROVE  /\ cred[t] \in Cred /\ Used(cred[t]) /\ security[cred[t]] = cred[t]
         /\ marks[cred[t]] \in Plain
         /\ MarksOf(t) = marks[cred[t]]
<1>1. cred[t] \in Cred /\ Used(cred[t]) /\ security[cred[t]] = cred[t] /\ marks[cred[t]] # Gone
  BY DEF CredInv, CredTypes, InUser, Runs, Used, OwnMarks
<1>2. marks[cred[t]] \in Plain \cup OfPrograms
  BY <1>1 DEF CredInv, CredTypes
<1>3. doing[t].at # "committing"
  BY DEF InUser, User
<1>4. marks[cred[t]] \in Plain
  BY <1>1, <1>2, <1>3 DEF CredInv, ProgramMarksGo
<1> QED
  BY <1>1, <1>4 DEF MarksOf

\* Steps of the hooks of the inode leave the credentials alone.
LEMMA InodeKeepsCreds ==
  ASSUME CredInv, NEW t \in Task, UNCHANGED <<credVars, ipc>>,
         doing[t].at \in {"user", "get", "zero", "add"}, Runs(t),
         NEW d \in Doing, doing' = [doing EXCEPT ![t] = d],
         d.at \in {"user", "get", "zero", "add"}, attr' \in Value \cup {NoAttr}
  PROVE  CredInv'
<1>1. CredTypes'
  BY DEF CredInv, CredTypes, credVars
<1>2. OwnMarks'
  BY DEF CredInv, OwnMarks, Used, credVars
<1>3. Apart'
  BY DEF CredInv, CredTypes, Apart, Runs, credVars
<1>4. ProgramMarksGo'
  BY DEF CredInv, CredTypes, ProgramMarksGo, credVars
<1> QED
  BY <1>1, <1>2, <1>3, <1>4 DEF CredInv

\* A task replaces its credential by a new one with plain marks (setuid and
\* its like, keyctl).
LEMMA NewForTask ==
  ASSUME CredInv, NEW t \in Task, InUser(t), NEW c \in Cred, New(c), NEW m \in Plain,
         cred' = [cred EXCEPT ![t] = c], UNCHANGED <<group, bprm, file, doing, ipc, attr>>,
         CredFree([security EXCEPT ![c] = c], [marks EXCEPT ![c] = m])
  PROVE  CredInv'
<1>a. CredTypes /\ OwnMarks /\ Apart /\ ProgramMarksGo
  BY DEF CredInv
<1>0. ~Used(c)
  BY <1>a, NewIsUnused
<1>1. \A u \in Task : cred'[u] = IF u = t THEN c ELSE cred[u]
  BY <1>a DEF CredTypes
<1>2. \A d \in Cred : HeldNext(d) => Used(d) \/ d = c
  BY <1>1 DEF HeldNext, Used
<1>3. /\ security' \in [Cred -> Cred \cup {Poison}]
      /\ marks' \in [Cred -> Plain \cup OfPrograms \cup {Gone}]
      /\ OwnMarks'
      /\ \A d \in Cred \ {c} : marks'[d] = marks[d] \/ marks'[d] = Gone
      /\ marks'[c] = m \/ marks'[c] = Gone
  BY <1>a, <1>2, NewCredential
<1>4. CredTypes'
  BY <1>a, <1>3 DEF CredTypes
<1>5. Apart'
  BY <1>a, <1>0, <1>1 DEF Apart, Used, Runs, InUser
<1>6. ProgramMarksGo'
  <2>1. \A d \in Cred : marks'[d] \in OfPrograms => d # c /\ marks[d] \in OfPrograms
    BY <1>3, MarksDiffer
  <2> QED
    BY <1>a, <1>1, <2>1 DEF ProgramMarksGo
<1> QED
  BY <1>3, <1>4, <1>5, <1>6 DEF CredInv

\* Every step of the kernel and of its hooks keeps the invariant.
LEMMA CredStep == CredInv /\ [Next]_vars => CredInv'
<1> SUFFICES ASSUME CredInv, [Next]_vars PROVE CredInv'
  OBVIOUS
<1>a. CredTypes /\ OwnMarks /\ Apart /\ ProgramMarksGo /\ ipc \in {-1, 0}
  BY DEF CredInv
<1>b. \A d \in Cred : marks[d] \in Plain \cup OfPrograms \cup {Gone}
  BY <1>a DEF CredTypes
<1>1. ASSUME NEW t \in Task, NEW u \in Task, Fork(t, u) PROVE CredInv'
  <2>0. t # u /\ ~Runs(u) /\ InUser(t)
    BY <1>1 DEF Fork, InUser
  <2>b. cred[t] \in Cred /\ Used(cred[t]) /\ security[cred[t]] = cred[t] /\ marks[cred[t]] \in Plain
    BY <2>0, RunningIsPlain
  <2>1. CASE /\ cred' = [cred EXCEPT ![u] = cred[t]]
             /\ group' = [group EXCEPT ![u] = group[t]]
             /\ UNCHANGED <<bprm, security, marks, file>>
    <3>1. /\ \A v \in Task : cred'[v] = IF v = u THEN cred[t] ELSE cred[v]
          /\ \A v \in Task : group'[v] = IF v = u THEN group[t] ELSE group[v]
      BY <1>a, <2>1 DEF CredTypes
    <3>2. CredTypes'
      BY <1>1, <1>a, <2>1, <2>b DEF CredTypes, Fork, inodeVars
    <3>3. \A c \in Cred : Used(c)' <=> Used(c)
      BY <2>0, <2>1, <3>1 DEF Used, Runs
    <3>4. OwnMarks'
      BY <1>a, <2>1, <3>3 DEF OwnMarks
    <3>5. Apart'
      BY <1>1, <1>a, <2>0, <2>1, <2>b, <3>1 DEF Apart, Runs, Fork, InUser
    <3>6. ProgramMarksGo'
      BY <1>1, <1>a, <2>1, <2>b, <3>1, MarksDiffer DEF ProgramMarksGo, Fork
    <3> QED
      BY <1>1, <1>a, <3>2, <3>4, <3>5, <3>6 DEF CredInv, Fork
  <2>2. ASSUME NEW c \in Cred, New(c), NEW g \in Task,
               cred' = [cred EXCEPT ![u] = c], \A v \in Task : Runs(v) => group[v] # g,
               group' = [group EXCEPT ![u] = g], UNCHANGED <<bprm, file>>,
               CredPrepare(c, cred[t])
        PROVE  CredInv'
    <3>0. ~Used(c)
      BY <1>a, <2>2, NewIsUnused
    <3>1. /\ \A v \in Task : cred'[v] = IF v = u THEN c ELSE cred[v]
          /\ \A v \in Task : group'[v] = IF v = u THEN g ELSE group[v]
      BY <1>a, <2>2 DEF CredTypes
    <3>2. \A d \in Cred : HeldNext(d) => Used(d) \/ d = c
      BY <2>2, <3>1 DEF HeldNext, Used
    <3>3. CredFree([security EXCEPT ![c] = c], [marks EXCEPT ![c] = marks[cred[t]]])
      BY <2>2, <2>b DEF CredPrepare
    <3>4. /\ security' \in [Cred -> Cred \cup {Poison}]
          /\ marks' \in [Cred -> Plain \cup OfPrograms \cup {Gone}]
          /\ OwnMarks'
          /\ \A d \in Cred \ {c} : marks'[d] = marks[d] \/ marks'[d] = Gone
          /\ marks'[c] = marks[cred[t]] \/ marks'[c] = Gone
      BY <1>a, <2>b, <2>2, <3>2, <3>3, NewCredential
    <3>5. CredTypes'
      BY <1>1, <1>a, <2>2, <3>4 DEF CredTypes, Fork, inodeVars
    <3>6. Apart'
      BY <1>1, <1>a, <2>0, <2>2, <3>0, <3>1 DEF Apart, Used, Runs, Fork
    <3>7. ProgramMarksGo'
      <4>1. \A d \in Cred : marks'[d] \in OfPrograms => d # c /\ marks[d] \in OfPrograms
        BY <2>b, <3>4, MarksDiffer
      <4> QED
        BY <1>1, <1>a, <2>2, <3>1, <4>1 DEF ProgramMarksGo, Fork
    <3> QED
      BY <1>1, <1>a, <3>4, <3>5, <3>6, <3>7 DEF CredInv, Fork
  <2> QED
    BY <1>1, <2>1, <2>2 DEF Fork
<1>2. ASSUME NEW t \in Task, ChangeCreds(t) PROVE CredInv'
  <2>1. InUser(t)
    BY <1>2 DEF ChangeCreds
  <2>2. security[cred[t]] = cred[t] /\ marks[cred[t]] \in Plain
    BY <2>1, RunningIsPlain
  <2>3. PICK c \in Cred : New(c) /\ cred' = [cred EXCEPT ![t] = c] /\ CredPrepare(c, cred[t])
    BY <1>2 DEF ChangeCreds
  <2>4. CredFree([security EXCEPT ![c] = c], [marks EXCEPT ![c] = marks[cred[t]]])
    BY <2>2, <2>3 DEF CredPrepare
  <2>5. UNCHANGED <<group, bprm, file, doing, ipc, attr>>
    BY <1>2 DEF ChangeCreds, inodeVars
  <2> QED
    BY <2>1, <2>2, <2>3, <2>4, <2>5, NewForTask
<1>3. ASSUME NEW t \in Task, SessionToParent(t) PROVE CredInv'
  <2>1. InUser(t) /\ UNCHANGED <<group, bprm, file, doing, ipc, attr>>
    BY <1>3 DEF SessionToParent, inodeVars
  <2>2. PICK c \in Cred : New(c) /\ cred' = [cred EXCEPT ![t] = c] /\ CredAllocBlank(c)
    BY <1>3 DEF SessionToParent
  <2>3. Blank \in Plain /\ CredFree([security EXCEPT ![c] = c], [marks EXCEPT ![c] = Blank])
    BY <2>2 DEF CredAllocBlank, Plain
  <2> QED
    BY <2>1, <2>2, <2>3, NewForTask
<1>4. ASSUME NEW t \in Task, PrepareExec(t) PROVE CredInv'
  <2>1. InUser(t) /\ doing[t] = User
    BY <1>4 DEF PrepareExec, InUser
  <2>2. cred[t] \in Cred /\ security[cred[t]] = cred[t] /\ marks[cred[t]] \in Plain
    BY <2>1, RunningIsPlain
  <2>3. PICK c \in Cred : New(c) /\ bprm' = [bprm EXCEPT ![t] = c] /\ CredPrepare(c, cred[t])
    BY <1>4 DEF PrepareExec
  <2>4. ~Used(c) /\ CredFree([security EXCEPT ![c] = c], [marks EXCEPT ![c] = marks[cred[t]]])
    BY <1>a, <2>2, <2>3, NewIsUnused DEF CredPrepare
  <2>5. /\ \A u \in Task : bprm'[u] = IF u = t THEN c ELSE bprm[u]
        /\ \A u \in Task \ {t} : doing'[u] = doing[u]
        /\ UNCHANGED <<cred, group, file, attr, ipc>>
    <3>1. \A u \in Task : bprm'[u] = IF u = t THEN c ELSE bprm[u]
      BY <1>a, <2>3 DEF CredTypes
    <3>2. doing' = [doing EXCEPT ![t].at = "exec"] /\ doing \in [Task -> Doing]
      BY <1>4, <1>a DEF CredTypes, PrepareExec
    <3>3. \A u \in Task \ {t} : doing'[u] = doing[u]
      BY <3>2
    <3>4. UNCHANGED <<cred, group, file, attr, ipc>>
      BY <1>4 DEF PrepareExec, inodeVars
    <3> QED
      BY <3>1, <3>3, <3>4
  <2>6. \A d \in Cred : HeldNext(d) => Used(d) \/ d = c
    BY <2>5 DEF HeldNext, Used
  <2>7. /\ security' \in [Cred -> Cred \cup {Poison}]
        /\ marks' \in [Cred -> Plain \cup OfPrograms \cup {Gone}]
        /\ OwnMarks'
        /\ \A d \in Cred \ {c} : marks'[d] = marks[d] \/ marks'[d] = Gone
        /\ marks'[c] = marks[cred[t]] \/ marks'[c] = Gone
    BY <1>a, <2>2, <2>3, <2>4, <2>6, NewCredential
  <2>8. doing' \in [Task -> Doing] /\ doing'[t].at = "exec"
    <3> DEFINE d == [doing[t] EXCEPT !.at = "exec"]
    <3>1. doing[t] \in Doing /\ doing \in [Task -> Doing]
      BY <1>a DEF CredTypes
    <3>2. d \in Doing /\ d.at = "exec"
      BY <3>1 DEF Doing, Places
    <3>3. doing' = [doing EXCEPT ![t] = d]
      BY <1>4 DEF PrepareExec
    <3> HIDE DEF d
    <3> QED
      BY <3>1, <3>2, <3>3
  <2>9. CredTypes'
    BY <1>a, <2>3, <2>5, <2>7, <2>8 DEF CredTypes
  <2>10. Apart'
    BY <1>a, <2>1, <2>4, <2>5 DEF Apart, Used, Runs, InUser
  <2>11. ProgramMarksGo'
    <3>1. \A d \in Cred : marks'[d] \in OfPrograms => d # c /\ marks[d] \in OfPrograms
      BY <2>2, <2>7, MarksDiffer
    <3>2. \A u \in Task : doing[u].at = "committing" => doing'[u].at = "committing"
      BY <2>1, <2>5 DEF User
    <3> QED
      BY <1>a, <2>5, <3>1, <3>2 DEF ProgramMarksGo
  <2> QED
    BY <1>a, <2>5, <2>7, <2>9, <2>10, <2>11 DEF CredInv
<1>5. ASSUME NEW t \in Task, FailExec(t) PROVE CredInv'
  <2>1. /\ doing[t].at = "exec"
        /\ \A u \in Task : bprm'[u] = IF u = t THEN None ELSE bprm[u]
        /\ \A u \in Task : doing'[u] = IF u = t THEN User ELSE doing[u]
        /\ UNCHANGED <<cred, group, file, attr, ipc>>
    BY <1>5, <1>a DEF CredTypes, FailExec, inodeVars
  <2>2. \A c \in Cred : HeldNext(c) => Used(c)
    BY <2>1 DEF HeldNext, Used
  <2>3. /\ security' \in [Cred -> Cred \cup {Poison}]
        /\ marks' \in [Cred -> Plain \cup OfPrograms \cup {Gone}]
        /\ OwnMarks'
        /\ \A c \in Cred : marks'[c] = marks[c] \/ marks'[c] = Gone
    BY <1>5, <1>a, <2>2, DropOnly DEF FailExec
  <2>4. bprm' \in [Task -> Cred \cup {None}] /\ doing' \in [Task -> Doing]
    BY <1>5, <1>a DEF CredTypes, FailExec, Doing, Places, User
  <2>5. CredTypes'
    BY <1>a, <2>1, <2>3, <2>4 DEF CredTypes
  <2>6. Apart'
    BY <1>a, <2>1 DEF Apart, Runs, User
  <2>7. ProgramMarksGo'
    BY <1>a, <2>1, <2>3, MarksDiffer DEF ProgramMarksGo
  <2> QED
    BY <1>a, <2>1, <2>3, <2>5, <2>6, <2>7 DEF CredInv
<1>6. ASSUME NEW t \in Task, NEW names \in FileNames, Committing(t, names) PROVE CredInv'
  <2> DEFINE gone == {u \in Task \ {t} : Runs(u) /\ group[u] = group[t]}
             c == cred[t]
  <2>1. /\ doing[t].at = "exec" /\ \A u \in gone : doing[u] = User
        /\ \A u \in Task : cred'[u] = IF u \in gone THEN None ELSE cred[u]
        /\ cred' \in [Task -> Cred \cup {None}]
        /\ \A u \in Task \ {t} : doing'[u] = doing[u]
        /\ doing' \in [Task -> Doing] /\ doing'[t].at = "committing"
        /\ UNCHANGED <<group, bprm, file, attr, ipc>>
    BY <1>6, <1>a, SMTT(30) DEF CredTypes, Committing, inodeVars, Doing, Places
  <2>2. c \in Cred /\ Used(c) /\ security[c] = c /\ marks[c] # Gone
    BY <1>a, <2>1 DEF CredTypes, OwnMarks, Apart, Runs, Used, User
  <2>3. MarksOfProgram(names, marks[c]) \in Plain \cup OfPrograms
    <3>1. marks[c] \in Plain \cup OfPrograms
      BY <1>b, <2>2
    <3> QED
      BY <3>1 DEF MarksOfProgram, OfPrograms
  <2> DEFINE mk == [marks EXCEPT ![c] = MarksOfProgram(names, marks[c])]
  <2>4. CredFree(security, mk)
    BY <1>6, <2>2 DEF Committing
  <2>5. \A d \in Cred : HeldNext(d) => Used(d)
    BY <2>1 DEF HeldNext, Used
  <2>6. mk \in [Cred -> Marks] /\ mk[c] # Gone /\ \A d \in Cred \ {c} : mk[d] = marks[d]
    BY <1>a, <2>2, <2>3, MarksDiffer DEF CredTypes, Marks
  <2> HIDE DEF mk
  <2>7. Freeing(security, mk)
    BY <1>a, <2>2, <2>5, <2>6 DEF Freeing, CredTypes, OwnMarks
  <2>8. /\ security' \in [Cred -> Cred \cup {Poison}]
        /\ marks' \in [Cred -> Plain \cup OfPrograms \cup {Gone}]
        /\ OwnMarks'
        /\ \A d \in Cred : marks'[d] = mk[d] \/ marks'[d] = Gone
    BY <2>4, <2>7, FreeKeepsOwners
  <2>9. CredTypes'
    BY <1>a, <2>1, <2>8 DEF CredTypes
  <2>10. Apart'
    <3>1. \A u \in Task : cred'[u] # None => cred'[u] = cred[u]
      BY <2>1
    <3>2. Runs(t) /\ cred'[t] = cred[t]
      BY <1>a, <2>1 DEF Apart, User
    <3>3. \A u \in Task : doing'[u] # User => Runs(u)'
      BY <1>a, <2>1, <3>2 DEF Apart, Runs
    <3>4. \A u \in Task : doing'[u].at \in {"exec", "committing"} => bprm'[u] # None
      BY <1>a, <2>1 DEF Apart
    <3>5. \A u, v \in Task : bprm'[u] # None => cred'[v] # bprm'[u] /\ (u # v => bprm'[v] # bprm'[u])
      BY <1>a, <2>1, <3>1 DEF Apart
    <3>6. \A u, v \in Task : Runs(u)' /\ cred'[u] = cred'[v] => group'[u] = group'[v]
      BY <1>a, <2>1, <3>1 DEF Apart, Runs
    <3> QED
      BY <3>3, <3>4, <3>5, <3>6 DEF Apart
  <2>11. ProgramMarksGo'
    <3>1. ASSUME NEW d \in Cred, marks'[d] \in OfPrograms, NEW u \in Task
          PROVE  bprm'[u] # d /\ (cred'[u] = d => doing'[u].at = "committing")
      <4>1. CASE d = c
        <5>1. bprm[u] # c
          BY <1>a, <2>2 DEF Apart
        <5>2. u # t /\ cred[u] = c => u \in gone
          BY <1>a, <2>2 DEF Apart, Runs
        <5> QED
          BY <2>1, <2>2, <4>1, <5>1, <5>2
      <4>2. CASE d # c
        <5>1. marks[d] \in OfPrograms
          BY <2>6, <2>8, <3>1, <4>2, MarksDiffer
        <5>2. u # t => doing'[u] = doing[u]
          BY <2>1
        <5>3. bprm[u] # d /\ (cred[u] = d => doing[u].at = "committing")
          BY <1>a, <3>1, <5>1 DEF ProgramMarksGo
        <5> QED
          BY <2>1, <4>2, <5>2, <5>3
      <4> QED
        BY <4>1, <4>2
    <3> QED
      BY <3>1 DEF ProgramMarksGo
  <2> QED
    BY <1>a, <2>1, <2>8, <2>9, <2>10, <2>11 DEF CredInv
<1>7. ASSUME NEW t \in Task, Commit(t) PROVE CredInv'
  <2>1. /\ doing[t].at = "committing" /\ bprm[t] \in Cred
        /\ \A u \in Task : cred'[u] = IF u = t THEN bprm[t] ELSE cred[u]
        /\ \A u \in Task : bprm'[u] = IF u = t THEN None ELSE bprm[u]
        /\ \A u \in Task : doing'[u] = IF u = t THEN User ELSE doing[u]
        /\ UNCHANGED <<group, file, attr, ipc>>
    BY <1>7, <1>a DEF CredTypes, Commit, inodeVars, Apart
  <2>2. \A c \in Cred : HeldNext(c) => Used(c)
    BY <2>1 DEF HeldNext, Used
  <2>3. /\ security' \in [Cred -> Cred \cup {Poison}]
        /\ marks' \in [Cred -> Plain \cup OfPrograms \cup {Gone}]
        /\ OwnMarks'
        /\ \A c \in Cred : marks'[c] = marks[c] \/ marks'[c] = Gone
    BY <1>7, <1>a, <2>2, DropOnly DEF Commit
  <2>4. /\ cred' \in [Task -> Cred \cup {None}] /\ bprm' \in [Task -> Cred \cup {None}]
        /\ doing' \in [Task -> Doing]
    BY <1>7, <1>a DEF CredTypes, Commit, Doing, Places, User
  <2>5. CredTypes'
    BY <1>a, <2>1, <2>3, <2>4 DEF CredTypes
  <2>6. Apart'
    BY <1>a, <2>1 DEF Apart, Runs, User
  <2>7. ProgramMarksGo'
    BY <1>a, <2>1, <2>3, MarksDiffer DEF ProgramMarksGo
  <2> QED
    BY <1>a, <2>1, <2>3, <2>5, <2>6, <2>7 DEF CredInv
<1>8. ASSUME NEW t \in Task, Exit(t) PROVE CredInv'
  <2>1. /\ doing[t] = User
        /\ \A u \in Task : cred'[u] = IF u = t THEN None ELSE cred[u]
        /\ cred' \in [Task -> Cred \cup {None}]
        /\ UNCHANGED <<group, bprm, doing, file, attr, ipc>>
    BY <1>8, <1>a DEF CredTypes, Exit, inodeVars, InUser
  <2>2. \A c \in Cred : HeldNext(c) => Used(c)
    BY <2>1 DEF HeldNext, Used
  <2>3. /\ security' \in [Cred -> Cred \cup {Poison}]
        /\ marks' \in [Cred -> Plain \cup OfPrograms \cup {Gone}]
        /\ OwnMarks'
        /\ \A c \in Cred : marks'[c] = marks[c] \/ marks'[c] = Gone
    BY <1>8, <1>a, <2>2, DropOnly DEF Exit
  <2>5. CredTypes'
    BY <1>a, <2>1, <2>3 DEF CredTypes
  <2>6. Apart'
    BY <1>a, <2>1 DEF Apart, Runs, User
  <2>7. ProgramMarksGo'
    BY <1>a, <2>1, <2>3, MarksDiffer DEF ProgramMarksGo
  <2> QED
    BY <1>a, <2>1, <2>3, <2>5, <2>6, <2>7 DEF CredInv
<1>9. ASSUME NEW t \in Task, OpenFile(t) PROVE CredInv'
  <2>1. /\ cred[t] \in Cred /\ Used(cred[t]) /\ file = None /\ file' = cred[t]
        /\ UNCHANGED <<cred, group, bprm, security, marks, doing, attr, ipc>>
    BY <1>9, RunningIsPlain DEF OpenFile, inodeVars
  <2>2. \A c \in Cred : Used(c)' <=> Used(c)
    BY <2>1 DEF Used
  <2>3. CredTypes' /\ OwnMarks'
    BY <1>a, <2>1, <2>2 DEF CredTypes, OwnMarks
  <2>4. Apart' /\ ProgramMarksGo'
    BY <1>a, <2>1 DEF Apart, Runs, ProgramMarksGo
  <2> QED
    BY <1>a, <2>1, <2>3, <2>4 DEF CredInv
<1>10. ASSUME CloseFile PROVE CredInv'
  <2>1. file' = None /\ UNCHANGED <<cred, group, bprm, doing, attr, ipc>>
    BY <1>10 DEF CloseFile, inodeVars
  <2>2. \A c \in Cred : HeldNext(c) => Used(c)
    BY <2>1 DEF HeldNext, Used
  <2>3. /\ security' \in [Cred -> Cred \cup {Poison}]
        /\ marks' \in [Cred -> Plain \cup OfPrograms \cup {Gone}]
        /\ OwnMarks'
        /\ \A c \in Cred : marks'[c] = marks[c] \/ marks'[c] = Gone
    BY <1>10, <1>a, <2>2, DropOnly DEF CloseFile
  <2>4. CredTypes'
    BY <1>a, <2>1, <2>3 DEF CredTypes
  <2>5. Apart'
    BY <1>a, <2>1 DEF Apart, Runs
  <2>6. ProgramMarksGo'
    BY <1>a, <2>1, <2>3, MarksDiffer DEF ProgramMarksGo
  <2> QED
    BY <1>a, <2>1, <2>3, <2>4, <2>5, <2>6 DEF CredInv
<1>11. ASSUME NEW t \in Task, ShmAlloc(t) \/ ShmFree(t) PROVE CredInv'
  <2>1. InUser(t) /\ UNCHANGED <<credVars, doing, attr>>
    BY <1>11 DEF ShmAlloc, ShmFree, inodeVars
  <2>2. MarksOf(t).cur = 0
    BY <2>1, RunningIsPlain, MarksDiffer
  <2>3. ipc' \in {-1, 0}
    BY <1>11, <2>2 DEF ShmAlloc, ShmFree
  <2>4. CredTypes' /\ OwnMarks' /\ Apart' /\ ProgramMarksGo'
    BY <1>a, <2>1 DEF credVars, CredTypes, OwnMarks, Used, Apart, Runs, ProgramMarksGo
  <2> QED
    BY <2>3, <2>4 DEF CredInv
<1>12. ASSUME NEW t \in Task, InodeNext(t) PROVE CredInv'
  <2>1. /\ UNCHANGED <<credVars, ipc>>
        /\ doing[t].at \in {"user", "get", "zero", "add"}
        /\ Runs(t)
        /\ attr' \in Value \cup {NoAttr}
    <3>1. InUser(t) \/ doing[t].at \in {"get", "zero", "add"}
      BY <1>12 DEF InodeNext, Instantiate, GetXattr, Zero, Add, RemoveXattr, SetXattr, At
    <3>2. Runs(t) /\ doing[t].at \in {"user", "get", "zero", "add"}
      BY <1>a, <3>1 DEF InUser, Apart, User
    <3>3. attr' \in Value \cup {NoAttr}
      BY <1>12, <1>a DEF InodeNext, Instantiate, GetXattr, Zero, Add, RemoveXattr, SetXattr,
                         CredTypes, inodeVars
    <3>4. UNCHANGED <<credVars, ipc>>
      BY <1>12 DEF InodeNext, Instantiate, GetXattr, Zero, Add, RemoveXattr, SetXattr
    <3> QED
      BY <3>2, <3>3, <3>4
  <2>2. PICK d \in Doing : /\ doing' = [doing EXCEPT ![t] = d]
                           /\ d.at \in {"user", "get", "zero", "add"}
    <3>1. doing[t] \in Doing /\ attr \in Value \cup {NoAttr}
      BY <1>a DEF CredTypes
    <3>2. CASE UNCHANGED doing
      BY <1>a, <2>1, <3>1, <3>2 DEF CredTypes
    <3>3. ASSUME doing' = [doing EXCEPT ![t].at = "get", ![t].by = "instantiate"]
          PROVE  \E d \in Doing : /\ doing' = [doing EXCEPT ![t] = d]
                                  /\ d.at \in {"user", "get", "zero", "add"}
      <4> DEFINE d == [doing[t] EXCEPT !.at = "get", !.by = "instantiate"]
      <4>1. d \in Doing /\ d.at = "get"
        BY <3>1 DEF Doing, Places
      <4>2. doing' = [doing EXCEPT ![t] = d]
        BY <1>a, <3>3 DEF CredTypes
      <4> QED
        BY <4>1, <4>2
    <3>4. ASSUME NEW g \in {attr, NoAttr},
                 doing' = [doing EXCEPT ![t].at = "zero", ![t].got = g]
          PROVE  \E d \in Doing : /\ doing' = [doing EXCEPT ![t] = d]
                                  /\ d.at \in {"user", "get", "zero", "add"}
      <4> DEFINE d == [doing[t] EXCEPT !.at = "zero", !.got = g]
      <4>1. d \in Doing /\ d.at = "zero"
        BY <3>1 DEF Doing, Places
      <4>2. doing' = [doing EXCEPT ![t] = d]
        BY <1>a, <3>4 DEF CredTypes
      <4> QED
        BY <4>1, <4>2
    <3>5. ASSUME doing' = [doing EXCEPT ![t].at = "add"]
          PROVE  \E d \in Doing : /\ doing' = [doing EXCEPT ![t] = d]
                                  /\ d.at \in {"user", "get", "zero", "add"}
      <4> DEFINE d == [doing[t] EXCEPT !.at = "add"]
      <4>1. d \in Doing /\ d.at = "add"
        BY <3>1 DEF Doing, Places
      <4>2. doing' = [doing EXCEPT ![t] = d]
        BY <3>5
      <4> QED
        BY <4>1, <4>2
    <3>6. ASSUME NEW v \in Value,
                 doing' = [doing EXCEPT ![t] = [at |-> "zero", by |-> "setxattr", got |-> v]]
          PROVE  \E d \in Doing : /\ doing' = [doing EXCEPT ![t] = d]
                                  /\ d.at \in {"user", "get", "zero", "add"}
      <4>1. [at |-> "zero", by |-> "setxattr", got |-> v] \in Doing
        BY DEF Doing, Places
      <4> QED
        BY <3>6, <4>1
    <3>7. CASE doing' = [doing EXCEPT ![t] = User]
      <4>1. User \in Doing /\ User.at = "user"
        BY DEF Doing, Places, User
      <4> QED
        BY <3>7, <4>1
    <3> QED
      BY <1>12, <3>2, <3>3, <3>4, <3>5, <3>6, <3>7
      DEF InodeNext, Instantiate, GetXattr, Zero, Add, RemoveXattr, SetXattr
  <2> QED
    BY <2>1, <2>2, InodeKeepsCreds
<1>13. ASSUME InodeAlloc \/ InodeFree \/ UNCHANGED vars PROVE CredInv'
  <2>1. UNCHANGED <<credVars, doing, ipc, attr>>
    BY <1>13 DEF InodeAlloc, InodeFree, vars, inodeVars
  <2> QED
    BY <1>a, <2>1 DEF CredInv, credVars, CredTypes, OwnMarks, Used, Apart, Runs, ProgramMarksGo
<1> QED
  BY <1>1, <1>2, <1>3, <1>4, <1>5, <1>6, <1>7, <1>8, <1>9, <1>10, <1>11, <1>12, <1>13
  DEF Next, CredNext

\* Whatever is forked, executed, opened and labelled, and by however many
\* tasks: the invariant of difc_lsm.c's credentials.
THEOREM CredInvariant == Spec => []CredInv
BY CredInit, CredStep, PTL DEF Spec

\* cred_prepare, cred_alloc_blank, cred_free: every credential in use has marks
\* of its own in memory, and no marks are left without a credential.
THEOREM MarksAreOwned == Spec => []Owned
<1>1. CredInv => Owned
  <2> SUFFICES ASSUME CredInv PROVE Owned
    OBVIOUS
  <2> DEFINE used == ({cred[t] : t \in Task} \cup {bprm[t] : t \in Task} \cup {file}) \ {None}
  <2>1. \A c : c \in used => c \in Cred /\ Used(c)
    BY DEF CredInv, CredTypes, Used
  <2>2. \A c \in Cred : Used(c) => c \in used
    BY DEF Used
  <2>3. \A c \in Cred : c \in used => security[c] = c /\ marks[c] # Gone
    BY <2>1 DEF CredInv, OwnMarks
  <2>4. \A c \in Cred : c \notin used => marks[c] = Gone
    BY <2>2 DEF CredInv, OwnMarks
  <2>5. \A b \in Cred : marks[b] # Gone => \E c \in used : security[c] = b
    BY <2>3, <2>4
  <2> HIDE DEF used
  <2>6. \A c \in used : security[c] \in Cred /\ marks[security[c]] # Gone
    BY <2>1, <2>3
  <2>7. \A c, d \in used : security[c] = security[d] => c = d
    BY <2>1, <2>3
  <2> QED
    BY <2>5, <2>6, <2>7 DEF Owned, used
<1> QED
  BY <1>1, CredInvariant, PTL

\* bprm_committing_creds: the marks of a program reach neither a task outside
\* exec nor a segment, for every program and every history of the tasks.
THEOREM ProgramMarksAreLost == Spec => []NoTaskKeepsProgramMarks
<1>1. CredInv => NoTaskKeepsProgramMarks
  <2> SUFFICES ASSUME CredInv PROVE NoTaskKeepsProgramMarks
    OBVIOUS
  <2>1. ASSUME NEW t \in Task, Runs(t), doing[t].at # "committing"
        PROVE  MarksOf(t) \in {Initial, Blank}
    <3>1. cred[t] \in Cred /\ security[cred[t]] = cred[t] /\ marks[cred[t]] # Gone
      BY <2>1 DEF CredInv, CredTypes, OwnMarks, Used, Runs
    <3>2. marks[cred[t]] \in Plain \cup OfPrograms
      BY <3>1 DEF CredInv, CredTypes
    <3> QED
      BY <2>1, <3>1, <3>2 DEF CredInv, ProgramMarksGo, MarksOf, Plain
  <2> QED
    BY <2>1 DEF CredInv, NoTaskKeepsProgramMarks
<1> QED
  BY <1>1, CredInvariant, PTL

-----------------------------------------------------------------------------
(* The inode.                                                              *)

Working == {"get", "zero", "add"}

\* Nobody works on an inode that is not in memory.  While `plain' holds at most
\* one task does, and what it is about to add up is the attribute, from 0 on.
InodeInv ==
  /\ inode \in [loaded : BOOLEAN, mark : 0..(MarkMod - 1), inited : BOOLEAN]
  /\ plain \in BOOLEAN
  /\ ~inode.loaded => Busy = {}
  /\ plain => \A t, u \in Busy : t = u
  /\ plain => \A t \in Busy : /\ At(t, "zero") => doing[t].got = attr
                              /\ At(t, "add") => doing[t].got = attr /\ inode.mark = 0
  /\ MarkIsAttribute

LEMMA InodeInit == Init => InodeInv
<1> SUFFICES ASSUME Init PROVE InodeInv
  OBVIOUS
<1>1. inode = [loaded |-> FALSE, mark |-> 1, inited |-> FALSE] /\ plain = TRUE
  BY DEF Init
<1>2. Busy = {}
  BY DEF Init, Busy, User
<1> QED
  BY <1>1, <1>2 DEF InodeInv, MarkIsAttribute

\* However the digits wrap, the result is a mark.
LEMMA MarksWrap == \A n \in Nat : n % MarkMod \in 0..(MarkMod - 1)
OBVIOUS

\* A value adds its digits, and without a value the mark stays.
LEMMA DigitsOfMark ==
  ASSUME NEW v \in Value \cup {NoAttr}, NEW m \in 0..(MarkMod - 1), NEW n \in Digits(v, m)
  PROVE  /\ n \in 0..(MarkMod - 1)
         /\ m = 0 /\ v.ended => n = MarkOf(v)
<1>1. CASE v = NoAttr
  BY <1>1 DEF Digits, MarkOf
<1>2. CASE v # NoAttr
  <2>1. v.text.number \in Nat /\ v.text.tens \in Nat
    BY <1>2 DEF Value
  <2>2. m * v.text.tens \in Nat
    BY <2>1
  <2>3. Added(v, m) \in Nat /\ (m = 0 => Added(v, m) = v.text.number)
    BY <2>1, <2>2 DEF Added
  <2>4. n = Added(v, m) % MarkMod \/ (~v.ended /\ n = (Added(v, m) * 10 + 9) % MarkMod)
    BY <1>2 DEF Digits
  <2>5. Added(v, m) * 10 + 9 \in Nat
    BY <2>3
  <2> QED
    BY <1>2, <2>3, <2>4, <2>5, MarksWrap DEF MarkOf
<1> QED
  BY <1>1, <1>2

\* A step that leaves the inode alone, and who works on it.
LEMMA InodeUntouched ==
  ASSUME InodeInv, UNCHANGED inodeVars,
         \A t \in Task : \/ doing'[t] = doing[t]
                         \/ doing[t].at \notin Working /\ doing'[t].at \notin Working
  PROVE  InodeInv'
<1>1. Busy' = Busy
  BY DEF Busy, Working
<1>2. \A t \in Busy : doing'[t] = doing[t]
  BY DEF Busy, Working
<1> QED
  BY <1>1, <1>2 DEF InodeInv, MarkIsAttribute, At, inodeVars

\* Credentials come and go without the inode.
LEMMA CredsLeaveInode ==
  ASSUME InodeInv, CredTypes, NEW t \in Task, CredNext(t)
  PROVE  InodeInv'
<1>1. UNCHANGED inodeVars
  BY DEF CredNext, Fork, ChangeCreds, SessionToParent, PrepareExec, FailExec, Commit, Exit,
         Committing, OpenFile, ShmAlloc, ShmFree, inodeVars
<1>2. \/ UNCHANGED doing
      \/ /\ doing' = [doing EXCEPT ![t].at = "exec"]
         /\ doing[t] = User
      \/ /\ doing' = [doing EXCEPT ![t] = User]
         /\ doing[t].at \in {"exec", "committing"}
      \/ /\ doing' = [doing EXCEPT ![t].at = "committing"]
         /\ doing[t].at = "exec"
  BY DEF CredNext, Fork, ChangeCreds, SessionToParent, PrepareExec, FailExec, Commit, Exit,
         Committing, OpenFile, ShmAlloc, ShmFree, InUser
<1>3. \A u \in Task : \/ doing'[u] = doing[u]
                      \/ doing[u].at \notin Working /\ doing'[u].at \notin Working
  <2>1. doing \in [Task -> Doing]
    BY DEF CredTypes
  <2>2. CASE UNCHANGED doing
    BY <2>2
  <2>3. CASE doing' = [doing EXCEPT ![t].at = "exec"] /\ doing[t] = User
    BY <2>1, <2>3 DEF Doing, User, Working
  <2>4. CASE doing' = [doing EXCEPT ![t] = User] /\ doing[t].at \in {"exec", "committing"}
    BY <2>1, <2>4 DEF User, Working
  <2>5. CASE doing' = [doing EXCEPT ![t].at = "committing"] /\ doing[t].at = "exec"
    BY <2>1, <2>5 DEF Doing, Working
  <2> QED
    BY <1>2, <2>2, <2>3, <2>4, <2>5
<1> QED
  BY <1>1, <1>3, InodeUntouched

\* Every step of the hooks of the inode keeps the invariant.
LEMMA InodeStep == CredTypes /\ InodeInv /\ [Next]_vars => InodeInv'
<1> SUFFICES ASSUME CredTypes, InodeInv, [Next]_vars PROVE InodeInv'
  OBVIOUS
<1>a. doing \in [Task -> Doing] /\ attr \in Value \cup {NoAttr}
  BY DEF CredTypes
<1>b. /\ inode \in [loaded : BOOLEAN, mark : 0..(MarkMod - 1), inited : BOOLEAN]
      /\ plain \in BOOLEAN
      /\ inode.mark \in 0..(MarkMod - 1) /\ inode.loaded \in BOOLEAN /\ inode.inited \in BOOLEAN
  BY DEF InodeInv
<1>1. ASSUME NEW t \in Task, CredNext(t) PROVE InodeInv'
  BY <1>1, CredsLeaveInode
<1>2. ASSUME NEW t \in Task, Instantiate(t) PROVE InodeInv'
  <2>1. InUser(t) /\ inode.loaded /\ ~inode.inited /\ UNCHANGED attr
    BY <1>2 DEF Instantiate
  <2>2. CASE inode' = [inode EXCEPT !.inited = TRUE] /\ plain' = FALSE /\ UNCHANGED doing
    BY <1>b, <2>1, <2>2 DEF InodeInv, MarkIsAttribute
  <2>3. CASE /\ doing' = [doing EXCEPT ![t].at = "get", ![t].by = "instantiate"]
             /\ plain' = (plain /\ Busy = {})
             /\ UNCHANGED inode
    <3>1. doing'[t].at = "get" /\ \A u \in Task \ {t} : doing'[u] = doing[u]
      BY <1>a, <2>3 DEF Doing
    <3>2. Busy' = Busy \cup {t}
      BY <3>1 DEF Busy
    <3>3. plain' => Busy' = {t}
      BY <2>3, <3>2
    <3> QED
      BY <1>b, <2>1, <2>3, <3>1, <3>2, <3>3 DEF InodeInv, MarkIsAttribute, At
  <2> QED
    BY <1>2, <2>2, <2>3 DEF Instantiate
<1>3. ASSUME NEW t \in Task, GetXattr(t) PROVE InodeInv'
  <2>1. PICK g \in {attr, NoAttr} :
          /\ doing' = [doing EXCEPT ![t].at = "zero", ![t].got = g]
          /\ plain' = (plain /\ g = attr)
    BY <1>3 DEF GetXattr
  <2>2. At(t, "get") /\ UNCHANGED <<inode, attr>>
    BY <1>3 DEF GetXattr
  <2>3. doing'[t].at = "zero" /\ doing'[t].got = g /\ \A u \in Task \ {t} : doing'[u] = doing[u]
    BY <1>a, <2>1 DEF Doing
  <2>4. t \in Busy /\ Busy' = Busy
    BY <2>2, <2>3 DEF Busy, At
  <2>5. plain' \in BOOLEAN /\ (plain' => plain /\ g = attr)
    BY <1>b, <2>1
  <2> QED
    BY <1>b, <2>2, <2>3, <2>4, <2>5 DEF InodeInv, MarkIsAttribute, At
<1>4. ASSUME NEW t \in Task, Zero(t) PROVE InodeInv'
  <2>1. /\ At(t, "zero") /\ UNCHANGED <<attr, plain>>
        /\ doing' = [doing EXCEPT ![t].at = "add"]
        /\ inode' = [inode EXCEPT !.mark = 0]
    BY <1>4 DEF Zero
  <2>2. /\ doing'[t].at = "add" /\ doing'[t].got = doing[t].got
        /\ \A u \in Task \ {t} : doing'[u] = doing[u]
    BY <1>a, <2>1 DEF Doing
  <2>3. t \in Busy /\ Busy' = Busy
    BY <2>1, <2>2 DEF Busy, At
  <2>4. inode'.mark = 0 /\ inode'.loaded = inode.loaded /\ inode' \in [loaded : BOOLEAN, mark : 0..(MarkMod - 1), inited : BOOLEAN]
    BY <1>b, <2>1
  <2> QED
    BY <1>b, <2>1, <2>2, <2>3, <2>4 DEF InodeInv, MarkIsAttribute, At
<1>5. ASSUME NEW t \in Task, Add(t) PROVE InodeInv'
  <2>1. PICK m \in Digits(doing[t].got, inode.mark) :
          inode' = [inode EXCEPT !.mark = m, !.inited = @ \/ doing[t].by = "instantiate"]
    BY <1>5 DEF Add
  <2>2. /\ At(t, "add") /\ UNCHANGED attr
        /\ plain' = (plain /\ doing[t].got.ended)
        /\ doing' = [doing EXCEPT ![t] = User]
    BY <1>5 DEF Add
  <2>3. doing[t].got \in Value \cup {NoAttr}
    BY <1>a DEF Doing
  <2>4. /\ m \in 0..(MarkMod - 1)
        /\ inode.mark = 0 /\ doing[t].got.ended =>
             m = MarkOf(doing[t].got)
    BY <1>b, <2>1, <2>3, DigitsOfMark
  <2>5. doing'[t] = User /\ \A u \in Task \ {t} : doing'[u] = doing[u]
    BY <1>a, <2>2
  <2>6. t \in Busy /\ Busy' = Busy \ {t}
    BY <2>2, <2>5 DEF Busy, At, User
  <2>7. /\ inode' \in [loaded : BOOLEAN, mark : 0..(MarkMod - 1), inited : BOOLEAN]
        /\ inode'.mark = m /\ inode'.loaded = inode.loaded
    BY <1>b, <2>1, <2>4
  <2>8. plain' \in BOOLEAN
    BY <1>b, <2>2, <2>3 DEF Value, NoAttr
  <2>9. plain' => Busy' = {}
    BY <2>2, <2>6 DEF InodeInv
  <2>10. plain' => m = MarkOf(attr)
    BY <2>2, <2>4, <2>6 DEF InodeInv
  <2>11. MarkIsAttribute'
    BY <2>2, <2>7, <2>10 DEF MarkIsAttribute
  <2>12. inode.loaded
    BY <2>6 DEF InodeInv
  <2> QED
    BY <2>7, <2>8, <2>9, <2>11, <2>12 DEF InodeInv
<1>6. ASSUME NEW t \in Task, RemoveXattr(t) PROVE InodeInv'
  <2>1. inode.loaded /\ plain' = FALSE /\ UNCHANGED <<inode, doing>>
    BY <1>6 DEF RemoveXattr
  <2> QED
    BY <1>b, <2>1 DEF InodeInv, MarkIsAttribute
<1>7. ASSUME NEW t \in Task, NEW v \in Value, NEW name, SetXattr(t, v, name) PROVE InodeInv'
  <2>1. /\ inode.loaded /\ UNCHANGED inode
        /\ attr' = IF name = "security.difc" THEN v ELSE attr
        /\ plain' = (plain /\ Busy = {} /\ name = "security.difc")
        /\ doing' = [doing EXCEPT ![t] = [at |-> "zero", by |-> "setxattr", got |-> v]]
    BY <1>7 DEF SetXattr
  <2>2. /\ doing'[t].at = "zero" /\ doing'[t].got = v
        /\ \A u \in Task \ {t} : doing'[u] = doing[u]
    BY <1>a, <2>1
  <2>3. Busy' = Busy \cup {t}
    BY <2>2 DEF Busy
  <2>4. plain' \in BOOLEAN /\ (plain' => Busy' = {t} /\ attr' = v)
    BY <1>b, <2>1, <2>3
  <2> QED
    BY <1>b, <2>1, <2>2, <2>3, <2>4 DEF InodeInv, MarkIsAttribute, At
<1>8. ASSUME InodeAlloc PROVE InodeInv'
  <2>1. /\ ~inode.loaded /\ plain' = TRUE /\ UNCHANGED doing
        /\ inode' = [loaded |-> TRUE, mark |-> 1, inited |-> FALSE]
    BY <1>8 DEF InodeAlloc
  <2>2. Busy' = {}
    BY <2>1 DEF InodeInv, Busy
  <2> QED
    BY <2>1, <2>2 DEF InodeInv, MarkIsAttribute
<1>9. ASSUME InodeFree PROVE InodeInv'
  <2>1. /\ Busy = {} /\ plain' = TRUE /\ UNCHANGED doing
        /\ inode' = [inode EXCEPT !.loaded = FALSE, !.mark = 1]
    BY <1>9 DEF InodeFree
  <2>2. Busy' = {}
    BY <2>1 DEF Busy
  <2>3. 1 \in 0..(MarkMod - 1)
    OBVIOUS
  <2>4. /\ inode' \in [loaded : BOOLEAN, mark : 0..(MarkMod - 1), inited : BOOLEAN]
        /\ ~inode'.loaded
    BY <1>b, <2>1, <2>3
  <2> QED
    BY <2>1, <2>2, <2>4 DEF InodeInv, MarkIsAttribute
<1>10. ASSUME CloseFile \/ UNCHANGED vars PROVE InodeInv'
  <2>1. UNCHANGED <<inodeVars, doing>>
    BY <1>10 DEF CloseFile, vars
  <2> QED
    BY <2>1, InodeUntouched
<1> QED
  BY <1>1, <1>2, <1>3, <1>4, <1>5, <1>6, <1>7, <1>8, <1>9, <1>10 DEF Next, InodeNext

\* Every variable keeps its type; in particular the mark of the inode fits its
\* width, whatever is read from the disk, by however many tasks at a time.
THEOREM DifcTypes == Spec => []TypeOK
<1>1. CredInv /\ InodeInv => TypeOK
  BY DEF CredInv, CredTypes, InodeInv, TypeOK, Doing, Places, Plain, OfPrograms
<1>2. CredInv => CredTypes
  BY DEF CredInv
<1> QED
  BY <1>1, <1>2, CredInvariant, InodeInit, InodeStep, PTL DEF Spec

\* d_instantiate, post_setxattr: the mark of an initialised inode is the one its
\* attribute asks for, modulo 2^32, unless one of the six causes that `plain'
\* records occurred; for every number of tasks, every number and every width.
THEOREM PlainMarkIsAttribute == Spec => []MarkIsAttribute
<1>1. InodeInv => MarkIsAttribute
  BY DEF InodeInv
<1>2. CredInv => CredTypes
  BY DEF CredInv
<1> QED
  BY <1>1, <1>2, CredInvariant, InodeInit, InodeStep, PTL DEF Spec
=============================================================================
