--------------------------- MODULE EventBusProofs ---------------------------
(* Where events are, who answers a callback, and that requests arrive, for *)
(* every number of threads, events and functions.                          *)
EXTENDS EventBus, FiniteSetTheorems, SequenceTheorems, TLAPS

USE EventBusAssumption DEF EventBusAssumption

-----------------------------------------------------------------------------
(* The inductive invariant.                                                *)

\* Only asks register callbacks, and callbacks are asks.
BusTypes ==
  /\ TypeOK
  /\ registered["answer"] \in Seq(Ask)
  /\ \A p \in Proc : at[p] = "callback" => p \in Ask

Triggers(p) == at[p] \in {"store", "count"}

\* A triggering thread holds one event; a stored event is stored once, under
\* its kind; and no event is in two of these places.
Placed ==
  /\ \A p \in Proc : Triggers(p) => \E e \in Event : arg[p] = {e} /\ at[e] = "held"
  /\ \A p, q \in Proc : p # q /\ Triggers(p) /\ Triggers(q) => arg[p] \cap arg[q] = {}
  /\ \A k \in Kind : \A e \in In(loop[k]) : at[e] = "held" /\ KindOf(e) = k
  /\ \A k \in Kind : \A p \in Proc : Triggers(p) => arg[p] \cap In(loop[k]) = {}
  /\ \A k \in Kind : \A i, j \in DOMAIN loop[k] : loop[k][i] = loop[k][j] => i = j
  /\ \A e \in Event : at[e] = "held" =>
       \/ \E p \in Proc : Triggers(p) /\ e \in arg[p]
       \/ e \in In(loop[KindOf(e)])

BeforeCallback == {"new", "held", "ready", "callback"}

\* An ask registers its callback once, so it is not registered again after an
\* answer took it.
Answered ==
  /\ OneAnswerPerCallback
  /\ \A f \in Ask : f \in In(registered["answer"]) \/ (\E a \in Answer : f \in In(taken[a]))
       => at[f] \notin BeforeCallback

\* A thread that is about to start an ask has seen a function for it, and only
\* asks with a callback come to the places where a delivery can end early.
Arriving ==
  /\ RequestsArrive
  /\ \A p \in Proc : Triggers(p) \/ at[p] = "code" => pos[p] # 0
  /\ \A p \in Proc : at[p] = "scan" =>
       registered["ask"] # <<>> /\ (pos[p] = 0 => p \in wantsReply)
  /\ \A p \in Proc : at[p] = "count" /\ arg[p] \cap Ask # {} => registered["ask"] # <<>>
  /\ \A e \in Ask : at[e] \in {"callback", "print", "printing"} => e \in wantsReply
  /\ \A e \in Ask : at[e] \in {"ready", "callback", "print", "printing", "read"} =>
       registered["ask"] # <<>>
  /\ \A e \in Ask : at[e] # "take"

BusInv == BusTypes /\ Placed /\ Answered /\ Arriving

-----------------------------------------------------------------------------
(* Lists and kinds.                                                        *)

\* Appending to a list adds one element and keeps the others in their places.
LEMMA InAppend ==
  ASSUME NEW S, NEW s \in Seq(S), NEW x \in S
  PROVE  /\ Append(s, x) \in Seq(S)
         /\ In(Append(s, x)) = In(s) \cup {x}
         /\ Append(s, x) # <<>>
<1>1. Append(s, x) \in Seq(S) /\ Len(Append(s, x)) = Len(s) + 1
      /\ \A i \in 1..Len(s) : Append(s, x)[i] = s[i]
      /\ Append(s, x)[Len(s) + 1] = x
  BY AppendProperties
<1>2. DOMAIN Append(s, x) = 1..(Len(s) + 1) /\ DOMAIN s = 1..Len(s) /\ Len(s) \in Nat
  BY <1>1, LenProperties
<1>3. In(Append(s, x)) = In(s) \cup {x}
  BY <1>1, <1>2 DEF In
<1> QED
  BY <1>1, <1>3, EmptySeq

\* Nothing is in the empty list, and something is in any other.
LEMMA InEmpty ==
  /\ In(<<>>) = {}
  /\ \A S : \A s \in Seq(S) : In(s) \subseteq S /\ (s # <<>> => s[1] \in S)
<1>1. In(<<>>) = {}
  BY EmptySeq DEF In
<1>2. ASSUME NEW S, NEW s \in Seq(S)
      PROVE  In(s) \subseteq S /\ (s # <<>> => s[1] \in S)
  <2>1. Len(s) \in Nat /\ DOMAIN s = 1..Len(s) /\ \A i \in 1..Len(s) : s[i] \in S
    BY <1>2, LenProperties, ElementOfSeq
  <2>2. s # <<>> => Len(s) >= 1
    BY <1>2, <2>1, EmptySeq
  <2> QED
    BY <2>1, <2>2 DEF In
<1> QED
  BY <1>1, <1>2

\* Threads and events, and the two kinds of event.
LEMMA Kinds ==
  /\ Event \subseteq Proc
  /\ \A e \in Event : KindOf(e) \in Kind
  /\ \A e \in Ask : e \in Event /\ e \in Func /\ e \notin Answer /\ KindOf(e) = "ask"
  /\ \A e \in Answer : e \in Event /\ e \notin Ask /\ KindOf(e) = "answer"
  /\ \A h \in Handler : h \in Func
  /\ "ask" \in Kind /\ "answer" \in Kind
BY DEF Event, Proc, Func, KindOf, Kind

\* The number of keys is a number.
LEMMA KeysAreCounted == Keys \in Nat
<1>1. IsFiniteSet({"ask"}) /\ IsFiniteSet({"ask"} \cup {"answer"})
  BY FS_Singleton, FS_AddElement
<1>2. {k \in Kind : registered[k] # <<>>} \in SUBSET ({"ask"} \cup {"answer"})
  BY DEF Kind
<1>3. IsFiniteSet({k \in Kind : registered[k] # <<>>})
  BY <1>1, <1>2, FS_Subset
<1> QED
  BY <1>3, FS_CardinalityType DEF Keys

-----------------------------------------------------------------------------
(* Types.                                                                  *)

\* Nothing is registered, stored or taken.
LEMMA BusTypesInit == Init => BusTypes
<1> SUFFICES ASSUME Init PROVE BusTypes
  OBVIOUS
<1>1. \A S : <<>> \in Seq(S)
  BY EmptySeq
<1> QED
  BY <1>1, Kinds DEF Init, BusTypes, TypeOK, Stages, Proc, Event

\* No step of the application or of a delivery breaks the types.
LEMMA BusTypesStep == BusTypes /\ [Next]_vars => BusTypes'
<1> SUFFICES ASSUME BusTypes, [Next]_vars PROVE BusTypes'
  OBVIOUS
<1> USE DEF BusTypes, TypeOK, Stages, Goto
<1>1. ASSUME NEW p \in Proc, NEW h \in Handler, RegisterFunc(p, h) PROVE BusTypes'
  <2>1. Append(registered["ask"], h) \in Seq(Func)
    BY Kinds, InAppend
  <2> QED
    BY <1>1, <2>1, Kinds DEF RegisterFunc, Enlist, Add
<1>2. ASSUME NEW p \in Proc, NEW e \in Event, NEW reply \in BOOLEAN, Trigger(p, e, reply)
      PROVE  BusTypes'
  BY <1>2, Kinds DEF Trigger
<1>3. ASSUME NEW p \in Proc, Scan(p) PROVE BusTypes'
  <2>1. <<>> \in Seq(Event)
    BY EmptySeq
  <2>2. Resumed(p) \in {"print", "code"} /\ Listened(p) \in Kind
    BY Kinds DEF Resumed, Listened
  <2>3. \A q \in Proc : at'[q] \in Stages /\ (at'[q] = "callback" => at[q] = "callback")
    BY <1>3, <2>2 DEF Scan
  <2>4. at' \in [Proc -> Stages] /\ loop' \in [Kind -> Seq(Event)]
    BY <1>3, <2>1, <2>2, <2>3 DEF Scan
  <2> QED
    BY <1>3, <2>3, <2>4 DEF Scan
<1>4. ASSUME NEW p \in Proc, Store(p) PROVE BusTypes'
  <2>1. \A e \in Event : Append(loop[KindOf(e)], e) \in Seq(Event)
    BY Kinds, InAppend
  <2>2. loop' \in [Kind -> Seq(Event)]
    BY <1>4, <2>1, Kinds DEF Store, Add
  <2> QED
    BY <1>4, <2>2 DEF Store
<1>5. ASSUME NEW p \in Proc, Count(p) PROVE BusTypes'
  <2>1. PICK e \in arg[p] :
          /\ record' = [record EXCEPT ![KindOf(e)] = record[KindOf(e)] + 1]
          /\ late' = IF record[KindOf(e)] + 1 > EventMaxTime THEN late \cup {e} ELSE late
          /\ at' = [at EXCEPT ![p] = "code", ![e] = "ready"]
    BY <1>5 DEF Count
  <2>2. e \in Event
    BY <2>1
  <2>3. record' \in [Kind -> Int]
    <3>1. KindOf(e) \in Kind /\ record[KindOf(e)] + 1 \in Int
      BY <2>2, Kinds
    <3> QED
      BY <2>1, <3>1
  <2>4. late' \subseteq Event /\ at' \in [Proc -> Stages]
    BY <2>1, <2>2, Kinds
  <2> QED
    BY <1>5, <2>1, <2>3, <2>4 DEF Count
<1>6. ASSUME NEW p \in Proc, Return(p) PROVE BusTypes'
  <2>1. CASE p \in Event /\ pos[p] < Len(Functions(p))
    <3>1. Functions(p) \in Seq(Func)
      <4>1. p \in Ask \/ p \in Answer
        BY <2>1 DEF Event
      <4>2. \A s \in Seq(Ask) : s \in Seq(Func)
        BY SeqMonotonic, Kinds
      <4> QED
        BY <4>1, <4>2, Kinds DEF Functions
    <3>2. pos[p] + 1 \in 1..Len(Functions(p)) /\ Functions(p)[pos[p] + 1] \in Func
      BY <2>1, <3>1, LenProperties, ElementOfSeq
    <3>3. Append(heard[p], Functions(p)[pos[p] + 1]) \in Seq(Func)
      BY <2>1, <3>2, InAppend
    <3>4. /\ pos' = [pos EXCEPT ![p] = pos[p] + 1]
          /\ heard' = [heard EXCEPT ![p] = Append(heard[p], Functions(p)[pos[p] + 1])]
          /\ UNCHANGED at
      BY <1>6, <2>1 DEF Return, Call, Add
    <3>5. heard' \in [Event -> Seq(Func)]
      BY <3>3, <3>4, Zenon
    <3>6. pos' \in [Proc -> Nat]
      BY <3>4
    <3> QED
      BY <1>6, <3>4, <3>5, <3>6 DEF Return
  <2>2. CASE ~(p \in Event /\ pos[p] < Len(Functions(p)))
    BY <1>6, <2>2 DEF Return
  <2> QED
    BY <2>1, <2>2
<1>7. ASSUME NEW e \in Event, Check(e) PROVE BusTypes'
  <2>1. known' \in [Ask -> Seq(Func)]
    BY <1>7, Kinds DEF Check
  <2>2. at' \in [Proc -> Stages]
    BY <1>7, Kinds DEF Check
  <2> QED
    BY <1>7, <2>1, <2>2 DEF Check
<1>8. ASSUME NEW e \in Event, AddCallback(e) PROVE BusTypes'
  <2>0. e \in Ask
    BY <1>8, Kinds DEF AddCallback
  <2>1. Append(registered["answer"], e) \in Seq(Ask) /\ Append(registered["answer"], e) \in Seq(Func)
    BY <2>0, Kinds, InAppend
  <2>2. registered' = [registered EXCEPT !["answer"] = Append(registered["answer"], e)]
    BY <1>8 DEF AddCallback, Enlist, Add
  <2>3. at' = [at EXCEPT ![e] = "scan"]
    BY <1>8 DEF AddCallback, Enlist
  <2>4. registered' \in [Kind -> Seq(Func)] /\ registered'["answer"] \in Seq(Ask)
    BY <2>1, <2>2, Kinds
  <2> QED
    BY <1>8, <2>3, <2>4, Kinds DEF AddCallback
<1>9. ASSUME NEW e \in Event, PrintAll(e) PROVE BusTypes'
  <2>1. PICK n \in Nat : seen' = [seen EXCEPT ![e] = n]
    BY <1>9, KeysAreCounted DEF PrintAll
  <2>2. PICK step \in {"printing", "read", "died"} : at' = [at EXCEPT ![e] = step]
    BY <1>9 DEF PrintAll
  <2>3. seen' \in [Ask -> Nat]
    BY <2>1
  <2> QED
    BY <1>9, <2>2, <2>3, Kinds DEF PrintAll
<1>10. ASSUME NEW e \in Event, Read(e) PROVE BusTypes'
  <2>1. CASE registered["ask"] = <<>>
    BY <1>10, <2>1, Kinds DEF Read
  <2>2. CASE registered["ask"] # <<>>
    <3>1. registered["ask"][1] \in Func
      BY <2>2, Kinds, InEmpty
    <3>2. Append(heard[e], registered["ask"][1]) \in Seq(Func)
      BY <3>1, InAppend
    <3>3. /\ \/ /\ pos' = [pos EXCEPT ![e] = 1]
                /\ heard' = [heard EXCEPT ![e] = Append(heard[e], registered["ask"][1])]
             \/ UNCHANGED <<pos, heard>>
          /\ at' = [at EXCEPT ![e] = "code"] \/ at' = [at EXCEPT ![e] = "refused"]
      BY <1>10, <2>2 DEF Read, Begin, Call, Add
    <3>4. pos' \in [Proc -> Nat]
      <4>1. pos' = [pos EXCEPT ![e] = 1] \/ pos' = pos
        BY <3>3
      <4>2. CASE pos' = [pos EXCEPT ![e] = 1]
        BY <4>2
      <4> QED
        BY <4>1, <4>2
    <3>5. heard' \in [Event -> Seq(Func)]
      BY <3>2, <3>3, Zenon
    <3> QED
      BY <1>10, <3>3, <3>4, <3>5, Kinds DEF Read
  <2> QED
    BY <2>1, <2>2
<1>11. ASSUME NEW e \in Event, Take(e) PROVE BusTypes'
  <2>1. CASE registered["answer"] = <<>>
    BY <1>11, <2>1, Kinds DEF Take
  <2>2. CASE registered["answer"] # <<>>
    <3>1. registered["answer"][1] \in Func
      BY <2>2, Kinds, InEmpty
    <3>2. Append(heard[e], registered["answer"][1]) \in Seq(Func)
      BY <3>1, InAppend
    <3>3. /\ \/ /\ pos' = [pos EXCEPT ![e] = 1]
                /\ heard' = [heard EXCEPT ![e] = Append(heard[e], registered["answer"][1])]
             \/ UNCHANGED <<pos, heard>>
          /\ at' = [at EXCEPT ![e] = "code"] \/ at' = [at EXCEPT ![e] = "refused"]
          /\ taken' = [taken EXCEPT ![e] = registered["answer"]]
          /\ registered' = [registered EXCEPT !["answer"] = <<>>]
      BY <1>11, <2>2 DEF Take, Begin, Call, Add
    <3>4. pos' \in [Proc -> Nat]
      <4>1. pos' = [pos EXCEPT ![e] = 1] \/ pos' = pos
        BY <3>3
      <4>2. CASE pos' = [pos EXCEPT ![e] = 1]
        BY <4>2
      <4> QED
        BY <4>1, <4>2
    <3>5. heard' \in [Event -> Seq(Func)]
      BY <3>2, <3>3, Zenon
    <3>6. taken' \in [Answer -> Seq(Ask)]
      BY <3>3
    <3>7. registered' \in [Kind -> Seq(Func)] /\ registered'["answer"] \in Seq(Ask)
      BY <3>3, Kinds, EmptySeq
    <3> QED
      BY <1>11, <3>3, <3>4, <3>5, <3>6, <3>7, Kinds DEF Take
  <2> QED
    BY <2>1, <2>2
<1>12. CASE UNCHANGED vars
  BY <1>12 DEF vars
<1> QED
  BY <1>1, <1>2, <1>3, <1>4, <1>5, <1>6, <1>7, <1>8, <1>9, <1>10, <1>11, <1>12,
     SMTT(30)
  DEF Next, Application, Delivery

-----------------------------------------------------------------------------
(* Where events are.                                                       *)

\* Nothing is triggered yet.
LEMMA PlacedInit == Init => Placed
BY InEmpty, Kinds, EmptySeq DEF Init, Placed, Triggers, Proc, In

\* A thread that neither triggers nor holds an event moves on by itself.
LEMMA PlacedOwnStep ==
  ASSUME BusTypes, Placed, NEW p \in Proc, NEW s \in Stages,
         at[p] \notin {"held", "store", "count"}, s \notin {"held", "store", "count"},
         at' = [at EXCEPT ![p] = s], UNCHANGED <<arg, loop>>
  PROVE  Placed'
<1>1. at'[p] = s /\ \A q \in Proc \ {p} : at'[q] = at[q]
  BY DEF BusTypes, TypeOK
<1>2. \A q \in Proc : /\ Triggers(q)' <=> Triggers(q)
                      /\ at'[q] = "held" <=> at[q] = "held"
  BY <1>1 DEF Triggers
<1> QED
  BY <1>2, Kinds DEF Placed

\* Every step leaves each event in one place.
LEMMA PlacedStep == BusTypes /\ Placed /\ [Next]_vars => Placed'
<1> SUFFICES ASSUME BusTypes, Placed, [Next]_vars PROVE Placed'
  OBVIOUS
<1>a. at \in [Proc -> Stages] /\ arg \in [Proc -> SUBSET Event] /\ loop \in [Kind -> Seq(Event)]
  BY DEF BusTypes, TypeOK
<1>1. ASSUME NEW p \in Proc, NEW h \in Handler, RegisterFunc(p, h) PROVE Placed'
  <2>1. at[p] = "code" /\ at' = [at EXCEPT ![p] = "scan"] /\ UNCHANGED <<arg, loop>>
    BY <1>1 DEF RegisterFunc, Enlist, Goto
  <2> QED
    BY <2>1, PlacedOwnStep DEF Stages
<1>2. ASSUME NEW p \in Proc, NEW e \in Event, NEW reply \in BOOLEAN, Trigger(p, e, reply)
      PROVE  Placed'
  <2>1. /\ at[p] = "code" /\ at[e] = "new" /\ p # e
        /\ at'[p] \in {"store", "count"} /\ at'[e] = "held"
        /\ \A q \in Proc \ {p, e} : at'[q] = at[q]
        /\ arg'[p] = {e} /\ \A q \in Proc \ {p} : arg'[q] = arg[q]
        /\ UNCHANGED loop
    BY <1>2, <1>a, Kinds DEF Trigger
  <2>2. ~Triggers(p) /\ ~Triggers(e) /\ Triggers(p)' /\ ~Triggers(e)'
        /\ \A q \in Proc \ {p, e} : Triggers(q)' <=> Triggers(q)
    BY <2>1 DEF Triggers
  <2>3. \A q \in Proc : Triggers(q) => e \notin arg[q]
    BY <2>1 DEF Placed
  <2>4. \A k \in Kind : e \notin In(loop[k])
    BY <2>1 DEF Placed
  <2>5. \A q \in Proc : Triggers(q)' => \E d \in Event : arg'[q] = {d} /\ at'[d] = "held"
    <3>1. ASSUME NEW q \in Proc, Triggers(q)' PROVE \E d \in Event : arg'[q] = {d} /\ at'[d] = "held"
      <4>1. CASE q = p
        BY <2>1, <4>1
      <4>2. CASE q # p
        <5>1. q # e /\ Triggers(q)
          BY <2>2, <3>1, <4>2, Kinds
        <5>2. PICK d \in Event : arg[q] = {d} /\ at[d] = "held"
          BY <5>1 DEF Placed
        <5>3. d # p /\ d # e /\ d \in Proc
          BY <2>1, <5>2, Kinds
        <5> QED
          BY <2>1, <4>2, <5>2, <5>3
      <4> QED
        BY <4>1, <4>2
    <3> QED
      BY <3>1
  <2>6. \A q, r \in Proc : q # r /\ Triggers(q)' /\ Triggers(r)' => arg'[q] \cap arg'[r] = {}
    BY <2>1, <2>2, <2>3, Kinds DEF Placed
  <2>7. \A k \in Kind : \A d \in In(loop'[k]) : at'[d] = "held" /\ KindOf(d) = k
    <3>1. ASSUME NEW k \in Kind, NEW d \in In(loop[k]) PROVE at'[d] = "held" /\ KindOf(d) = k
      <4>1. at[d] = "held" /\ KindOf(d) = k /\ d \in Event
        BY <1>a, InEmpty DEF Placed
      <4>2. d # p /\ d # e /\ d \in Proc
        BY <2>1, <4>1, Kinds
      <4> QED
        BY <2>1, <4>1, <4>2
    <3> QED
      BY <2>1, <3>1
  <2>8. \A k \in Kind : \A q \in Proc : Triggers(q)' => arg'[q] \cap In(loop'[k]) = {}
    BY <2>1, <2>2, <2>4, Kinds DEF Placed
  <2>9. \A d \in Event : at'[d] = "held" =>
          \/ \E q \in Proc : Triggers(q)' /\ d \in arg'[q]
          \/ d \in In(loop'[KindOf(d)])
    <3>1. ASSUME NEW d \in Event, at'[d] = "held", d # e
          PROVE  \/ \E q \in Proc : Triggers(q)' /\ d \in arg'[q]
                 \/ d \in In(loop'[KindOf(d)])
      <4>1. d # p /\ at[d] = "held" /\ d \in Proc
        BY <2>1, <3>1, Kinds
      <4>2. CASE d \in In(loop[KindOf(d)])
        BY <2>1, <4>2
      <4>3. ASSUME NEW q \in Proc, Triggers(q), d \in arg[q] PROVE \E r \in Proc : Triggers(r)' /\ d \in arg'[r]
        BY <2>1, <2>2, <4>3
      <4> QED
        BY <4>1, <4>2, <4>3 DEF Placed
    <3> QED
      BY <2>1, <2>2, <3>1
  <2> QED
    BY <2>1, <2>5, <2>6, <2>7, <2>8, <2>9 DEF Placed
<1>3. ASSUME NEW p \in Proc, Scan(p) PROVE Placed'
  <2> DEFINE k == Listened(p)
  <2>1. k \in Kind /\ at[p] = "scan" /\ Resumed(p) \in {"print", "code"}
    BY <1>3 DEF Scan, Listened, Resumed, Kind
  <2> HIDE DEF k
  <2>2. /\ at'[p] = Resumed(p)
        /\ \A q \in Proc \ {p} : at'[q] = IF q \in In(loop[k]) THEN "ready" ELSE at[q]
        /\ loop' = [loop EXCEPT ![k] = <<>>]
        /\ UNCHANGED arg
    BY <1>3 DEF Scan, k
  <2>3. p \notin In(loop[k]) /\ \A q \in In(loop[k]) : at[q] = "held"
    BY <2>1 DEF Placed
  <2>4. \A q \in Proc : Triggers(q)' <=> Triggers(q)
    BY <2>1, <2>2, <2>3 DEF Triggers
  <2>5. \A q \in Proc : at'[q] = "held" <=> at[q] = "held" /\ q \notin In(loop[k])
    BY <2>1, <2>2
  <2>6. loop'[k] = <<>> /\ In(loop'[k]) = {} /\ \A m \in Kind \ {k} : loop'[m] = loop[m]
    BY <2>1, <2>2, <1>a, InEmpty
  <2>7. \A q \in Proc : Triggers(q)' => \E d \in Event : arg'[q] = {d} /\ at'[d] = "held"
    <3>1. ASSUME NEW q \in Proc, Triggers(q)' PROVE \E d \in Event : arg'[q] = {d} /\ at'[d] = "held"
      <4>1. PICK d \in Event : arg[q] = {d} /\ at[d] = "held"
        BY <2>4, <3>1 DEF Placed
      <4>2. d \notin In(loop[k])
        BY <2>1, <2>4, <3>1, <4>1 DEF Placed
      <4> QED
        BY <2>2, <2>5, <4>1, <4>2, Kinds
    <3> QED
      BY <3>1
  <2>8. \A m \in Kind : \A d \in In(loop'[m]) : at'[d] = "held" /\ KindOf(d) = m
    <3>1. ASSUME NEW m \in Kind, NEW d \in In(loop'[m]) PROVE at'[d] = "held" /\ KindOf(d) = m
      <4>1. m # k /\ d \in In(loop[m])
        BY <2>6, <3>1
      <4>2. at[d] = "held" /\ KindOf(d) = m /\ d \in Proc
        BY <1>a, <4>1, InEmpty, Kinds DEF Placed
      <4>3. d \notin In(loop[k])
        BY <2>1, <4>1, <4>2 DEF Placed
      <4> QED
        BY <2>5, <4>2, <4>3
    <3> QED
      BY <3>1
  <2>9. \A m \in Kind : \A i, j \in DOMAIN loop'[m] : loop'[m][i] = loop'[m][j] => i = j
    BY <2>6, EmptySeq DEF Placed
  <2>10. \A d \in Event : at'[d] = "held" =>
          \/ \E q \in Proc : Triggers(q)' /\ d \in arg'[q]
          \/ d \in In(loop'[KindOf(d)])
    <3>1. ASSUME NEW d \in Event, at'[d] = "held"
          PROVE  \/ \E q \in Proc : Triggers(q)' /\ d \in arg'[q]
                 \/ d \in In(loop'[KindOf(d)])
      <4>1. at[d] = "held" /\ d \notin In(loop[k])
        BY <2>5, <3>1, Kinds
      <4>2. CASE d \in In(loop[KindOf(d)])
        BY <2>6, <4>1, <4>2, Kinds
      <4>3. ASSUME NEW q \in Proc, Triggers(q), d \in arg[q] PROVE \E r \in Proc : Triggers(r)' /\ d \in arg'[r]
        BY <2>2, <2>4, <4>3
      <4> QED
        BY <4>1, <4>2, <4>3 DEF Placed
    <3> QED
      BY <3>1
  <2>11. \A m \in Kind : \A q \in Proc : Triggers(q)' => arg'[q] \cap In(loop'[m]) = {}
    BY <2>2, <2>4, <2>6 DEF Placed
  <2>12. \A q, r \in Proc : q # r /\ Triggers(q)' /\ Triggers(r)' => arg'[q] \cap arg'[r] = {}
    BY <2>2, <2>4 DEF Placed
  <2> QED
    BY <2>7, <2>8, <2>9, <2>10, <2>11, <2>12 DEF Placed
<1>4. ASSUME NEW p \in Proc, Store(p) PROVE Placed'
  <2>1. PICK e \in arg[p] : loop' = [loop EXCEPT ![KindOf(e)] = Append(loop[KindOf(e)], e)]
    BY <1>4 DEF Store, Add
  <2>2. Triggers(p) /\ e \in Event /\ arg[p] = {e} /\ at[e] = "held" /\ KindOf(e) \in Kind
        /\ e # p /\ e \notin In(loop[KindOf(e)])
    BY <1>4, <1>a, <2>1, Kinds DEF Store, Triggers, Placed
  <2>3. /\ at'[p] = "code" /\ \A q \in Proc \ {p} : at'[q] = at[q]
        /\ \A q \in Proc \ {p} : arg'[q] = arg[q]
    BY <1>4, <1>a DEF Store, Goto
  <2>4. ~Triggers(p)' /\ \A q \in Proc \ {p} : Triggers(q)' <=> Triggers(q)
    BY <2>3 DEF Triggers
  <2>5. /\ loop'[KindOf(e)] = Append(loop[KindOf(e)], e)
        /\ In(loop'[KindOf(e)]) = In(loop[KindOf(e)]) \cup {e}
        /\ \A m \in Kind \ {KindOf(e)} : loop'[m] = loop[m]
    BY <1>a, <2>1, <2>2, InAppend
  <2>6. \A d \in Event : at'[d] = "held" <=> at[d] = "held"
    BY <1>4, <2>2, <2>3, Kinds DEF Store
  <2>7. \A q \in Proc : Triggers(q)' => \E d \in Event : arg'[q] = {d} /\ at'[d] = "held"
    BY <2>3, <2>4, <2>6 DEF Placed
  <2>8. \A q, r \in Proc : q # r /\ Triggers(q)' /\ Triggers(r)' => arg'[q] \cap arg'[r] = {}
    BY <2>3, <2>4 DEF Placed
  <2>9. \A m \in Kind : \A d \in In(loop'[m]) : at'[d] = "held" /\ KindOf(d) = m
    <3>1. ASSUME NEW m \in Kind, NEW d \in In(loop'[m]) PROVE at'[d] = "held" /\ KindOf(d) = m
      <4>1. CASE d = e /\ m = KindOf(e)
        BY <2>2, <2>6, <4>1
      <4>2. CASE d \in In(loop[m])
        BY <1>a, <2>6, <4>2, InEmpty DEF Placed
      <4> QED
        BY <2>5, <3>1, <4>1, <4>2
    <3> QED
      BY <3>1
  <2>10. \A m \in Kind : \A q \in Proc : Triggers(q)' => arg'[q] \cap In(loop'[m]) = {}
    <3>1. ASSUME NEW m \in Kind, NEW q \in Proc, Triggers(q)' PROVE arg'[q] \cap In(loop'[m]) = {}
      <4>1. q # p /\ Triggers(q) /\ arg'[q] = arg[q]
        BY <2>3, <2>4, <3>1
      <4>2. arg[q] \cap In(loop[m]) = {} /\ e \notin arg[q]
        BY <2>2, <4>1 DEF Placed
      <4> QED
        BY <2>5, <4>1, <4>2
    <3> QED
      BY <3>1
  <2>11. \A m \in Kind : \A i, j \in DOMAIN loop'[m] : loop'[m][i] = loop'[m][j] => i = j
    <3>1. ASSUME NEW i \in DOMAIN loop'[KindOf(e)], NEW j \in DOMAIN loop'[KindOf(e)],
                 loop'[KindOf(e)][i] = loop'[KindOf(e)][j]
          PROVE  i = j
      <4> DEFINE s == loop[KindOf(e)]
      <4>1. s \in Seq(Event)
        BY <1>a, <2>2
      <4>2. e \notin In(s) /\ \A g, h \in DOMAIN s : s[g] = s[h] => g = h
        BY <2>2 DEF Placed
      <4>3. loop'[KindOf(e)] = Append(s, e)
        BY <2>5
      <4> HIDE DEF s
      <4>4. /\ DOMAIN Append(s, e) = 1..(Len(s) + 1) /\ Len(s) \in Nat /\ DOMAIN s = 1..Len(s)
            /\ Append(s, e)[Len(s) + 1] = e
            /\ \A g \in 1..Len(s) : Append(s, e)[g] = s[g]
        BY <2>2, <4>1, AppendProperties, LenProperties
      <4>5. \A g \in 1..Len(s) : Append(s, e)[g] # e
        BY <4>2, <4>4 DEF In
      <4> QED
        BY <3>1, <4>2, <4>3, <4>4, <4>5
    <3> QED
      BY <2>5, <3>1 DEF Placed
  <2>12. \A d \in Event : at'[d] = "held" =>
          \/ \E q \in Proc : Triggers(q)' /\ d \in arg'[q]
          \/ d \in In(loop'[KindOf(d)])
    <3>1. ASSUME NEW d \in Event, at'[d] = "held"
          PROVE  \/ \E q \in Proc : Triggers(q)' /\ d \in arg'[q]
                 \/ d \in In(loop'[KindOf(d)])
      <4>1. CASE d = e
        BY <2>5, <4>1
      <4>2. CASE d \in In(loop[KindOf(d)])
        BY <2>2, <2>5, <4>2, Kinds
      <4>3. ASSUME d # e, NEW q \in Proc, Triggers(q), d \in arg[q]
            PROVE  \E r \in Proc : Triggers(r)' /\ d \in arg'[r]
        BY <2>2, <2>3, <2>4, <4>3
      <4> QED
        BY <2>6, <3>1, <4>1, <4>2, <4>3 DEF Placed
    <3> QED
      BY <3>1
  <2> QED
    BY <2>7, <2>8, <2>9, <2>10, <2>11, <2>12 DEF Placed
<1>5. ASSUME NEW p \in Proc, Count(p) PROVE Placed'
  <2>1. PICK e \in arg[p] : at' = [at EXCEPT ![p] = "code", ![e] = "ready"]
    BY <1>5 DEF Count
  <2>2. Triggers(p) /\ e \in Event /\ e \in Proc /\ arg[p] = {e} /\ at[e] = "held" /\ e # p
    BY <1>5, <1>a, <2>1, Kinds DEF Count, Triggers, Placed
  <2>3. /\ at'[p] = "code" /\ at'[e] = "ready" /\ \A q \in Proc \ {p, e} : at'[q] = at[q]
        /\ \A q \in Proc \ {p} : arg'[q] = arg[q]
        /\ UNCHANGED loop
    BY <1>5, <1>a, <2>1, <2>2 DEF Count
  <2>4. ~Triggers(p)' /\ \A q \in Proc \ {p} : Triggers(q)' <=> Triggers(q)
    BY <2>2, <2>3 DEF Triggers
  <2>5. (\A q \in Proc \ {p} : Triggers(q) => e \notin arg[q]) /\ \A m \in Kind : e \notin In(loop[m])
    BY <2>2 DEF Placed
  <2>6. \A d \in Event : at'[d] = "held" <=> at[d] = "held" /\ d # e
    BY <1>5, <2>2, <2>3, Kinds DEF Count
  <2>7. \A q \in Proc : Triggers(q)' => \E d \in Event : arg'[q] = {d} /\ at'[d] = "held"
    BY <2>3, <2>4, <2>5, <2>6 DEF Placed
  <2>8. \A q, r \in Proc : q # r /\ Triggers(q)' /\ Triggers(r)' => arg'[q] \cap arg'[r] = {}
    BY <2>3, <2>4 DEF Placed
  <2>9. \A m \in Kind : \A d \in In(loop'[m]) : at'[d] = "held" /\ KindOf(d) = m
    BY <1>a, <2>3, <2>5, <2>6, InEmpty DEF Placed
  <2>10. \A m \in Kind : \A q \in Proc : Triggers(q)' => arg'[q] \cap In(loop'[m]) = {}
    BY <2>3, <2>4 DEF Placed
  <2>11. \A d \in Event : at'[d] = "held" =>
          \/ \E q \in Proc : Triggers(q)' /\ d \in arg'[q]
          \/ d \in In(loop'[KindOf(d)])
    BY <2>2, <2>3, <2>4, <2>6 DEF Placed
  <2> QED
    BY <2>3, <2>7, <2>8, <2>9, <2>10, <2>11 DEF Placed
<1>6. ASSUME NEW p \in Proc, Return(p) PROVE Placed'
  <2>1. CASE UNCHANGED at
    BY <1>6, <2>1 DEF Return, Placed, Triggers
  <2>2. CASE at' = [at EXCEPT ![p] = "end"]
    BY <1>6, <2>2, PlacedOwnStep DEF Return, Stages
  <2> QED
    BY <1>6, <2>1, <2>2 DEF Return, Goto
<1>7. ASSUME NEW e \in Event, Delivery(e) PROVE Placed'
  <2>1. PICK s \in Stages \ {"held", "store", "count"} : at' = [at EXCEPT ![e] = s]
    BY <1>7 DEF Delivery, Check, AddCallback, Enlist, PrintAll, Read, Take, Begin, Goto, Stages
  <2>2. at[e] \notin {"held", "store", "count"} /\ UNCHANGED <<arg, loop>>
    BY <1>7 DEF Delivery, Check, AddCallback, PrintAll, Read, Take
  <2> QED
    BY <2>1, <2>2, PlacedOwnStep, Kinds
<1>8. CASE UNCHANGED vars
  BY <1>8 DEF vars, Placed, Triggers
<1> QED
  BY <1>1, <1>2, <1>3, <1>4, <1>5, <1>6, <1>7, <1>8 DEF Next, Application

-----------------------------------------------------------------------------
(* Who answers a callback.                                                 *)

\* No callback is registered.
LEMMA AnsweredInit == Init => Answered
BY InEmpty, Kinds DEF Init, Answered, OneAnswerPerCallback

\* Steps that leave the callbacks alone and take no thread back.
LEMMA AnsweredOwnStep ==
  ASSUME BusTypes, Answered, registered'["answer"] = registered["answer"], UNCHANGED taken,
         \A f \in Ask : at'[f] \in BeforeCallback => at[f] \in BeforeCallback
  PROVE  Answered'
BY DEF Answered, OneAnswerPerCallback

\* A callback is registered before it is answered and taken once.
LEMMA AnsweredStep == BusTypes /\ Placed /\ Answered /\ [Next]_vars => Answered'
<1> SUFFICES ASSUME BusTypes, Placed, Answered, [Next]_vars PROVE Answered'
  OBVIOUS
<1>a. /\ at \in [Proc -> Stages] /\ registered \in [Kind -> Seq(Func)]
      /\ registered["answer"] \in Seq(Ask) /\ taken \in [Answer -> Seq(Ask)]
      /\ loop \in [Kind -> Seq(Event)] /\ arg \in [Proc -> SUBSET Event]
  BY DEF BusTypes, TypeOK
<1>1. ASSUME NEW p \in Proc, NEW h \in Handler, RegisterFunc(p, h) PROVE Answered'
  <2>1. /\ at' = [at EXCEPT ![p] = "scan"] /\ UNCHANGED taken
        /\ registered'["answer"] = registered["answer"]
    BY <1>1, <1>a, Kinds DEF RegisterFunc, Enlist, Add, Goto
  <2>2. \A f \in Ask : at'[f] \in BeforeCallback => at[f] \in BeforeCallback
    BY <2>1, <1>a, Kinds DEF BeforeCallback
  <2> QED
    BY <2>1, <2>2, AnsweredOwnStep
<1>2. ASSUME NEW p \in Proc, NEW e \in Event, NEW reply \in BOOLEAN, Trigger(p, e, reply)
      PROVE  Answered'
  <2>1. \A f \in Ask : at'[f] \in BeforeCallback => at[f] \in BeforeCallback
    BY <1>2, <1>a, Kinds DEF Trigger, BeforeCallback
  <2> QED
    BY <1>2, <2>1, AnsweredOwnStep DEF Trigger
<1>3. ASSUME NEW p \in Proc, Scan(p) PROVE Answered'
  <2>1. Listened(p) \in Kind /\ Resumed(p) \in {"print", "code"}
    BY DEF Listened, Resumed, Kind
  <2>2. \A q \in In(loop[Listened(p)]) : at[q] = "held"
    BY <2>1 DEF Placed
  <2>3. \A f \in Ask : at'[f] \in BeforeCallback => at[f] \in BeforeCallback
    BY <1>3, <2>1, <2>2, Kinds DEF Scan, BeforeCallback
  <2> QED
    BY <1>3, <2>3, AnsweredOwnStep DEF Scan
<1>4. ASSUME NEW p \in Proc, Store(p) PROVE Answered'
  <2>1. \A f \in Ask : at'[f] \in BeforeCallback => at[f] \in BeforeCallback
    BY <1>4, <1>a, Kinds DEF Store, Goto, BeforeCallback
  <2> QED
    BY <1>4, <2>1, AnsweredOwnStep DEF Store
<1>5. ASSUME NEW p \in Proc, Count(p) PROVE Answered'
  <2>1. PICK e \in arg[p] : at' = [at EXCEPT ![p] = "code", ![e] = "ready"]
    BY <1>5 DEF Count
  <2>2. at[e] = "held"
    BY <1>5, <2>1 DEF Count, Placed, Triggers
  <2>3. \A f \in Ask : at'[f] \in BeforeCallback => at[f] \in BeforeCallback
    BY <2>1, <2>2, <1>a, Kinds DEF BeforeCallback
  <2> QED
    BY <1>5, <2>3, AnsweredOwnStep DEF Count
<1>6. ASSUME NEW p \in Proc, Return(p) PROVE Answered'
  <2>1. UNCHANGED at \/ at' = [at EXCEPT ![p] = "end"]
    BY <1>6 DEF Return, Goto
  <2>2. \A f \in Ask : at'[f] \in BeforeCallback => at[f] \in BeforeCallback
    BY <2>1, <1>a, Kinds DEF BeforeCallback
  <2> QED
    BY <1>6, <2>2, AnsweredOwnStep DEF Return
<1>7. ASSUME NEW e \in Event, Check(e) PROVE Answered'
  <2>1. \A f \in Ask : at'[f] \in BeforeCallback => at[f] \in BeforeCallback
    BY <1>7, <1>a, Kinds DEF Check, Goto, BeforeCallback
  <2> QED
    BY <1>7, <2>1, AnsweredOwnStep DEF Check
<1>8. ASSUME NEW e \in Event, AddCallback(e) PROVE Answered'
  <2>1. /\ at[e] = "callback" /\ at' = [at EXCEPT ![e] = "scan"] /\ e \in Ask /\ e \in Proc
        /\ registered' = [registered EXCEPT !["answer"] = Append(registered["answer"], e)]
        /\ UNCHANGED taken
    BY <1>8, Kinds DEF AddCallback, Enlist, Add, Goto, BusTypes
  <2>2. In(registered'["answer"]) = In(registered["answer"]) \cup {e}
    BY <1>a, <2>1, InAppend, Kinds
  <2>3. \A a \in Answer : e \notin In(taken[a])
    BY <2>1 DEF Answered, BeforeCallback
  <2>4. at'[e] = "scan" /\ \A f \in Ask \ {e} : at'[f] = at[f]
    BY <1>a, <2>1, Kinds
  <2>5. OneAnswerPerCallback'
    BY <2>1, <2>2, <2>3 DEF Answered, OneAnswerPerCallback
  <2>6. \A f \in Ask : at'[f] \in BeforeCallback => f # e /\ at[f] \in BeforeCallback
    BY <2>4 DEF BeforeCallback
  <2> QED
    BY <2>1, <2>2, <2>5, <2>6 DEF Answered
<1>9. ASSUME NEW e \in Event, PrintAll(e) \/ Read(e) PROVE Answered'
  <2>1. PICK s \in {"printing", "read", "died", "code", "refused"} : at' = [at EXCEPT ![e] = s]
    BY <1>9 DEF PrintAll, Read, Begin, Goto
  <2>2. \A f \in Ask : at'[f] \in BeforeCallback => at[f] \in BeforeCallback
    BY <2>1, <1>a, Kinds DEF BeforeCallback
  <2> QED
    BY <1>9, <2>2, AnsweredOwnStep DEF PrintAll, Read
<1>10. ASSUME NEW e \in Event, Take(e) PROVE Answered'
  <2>1. PICK s \in {"died", "code", "refused"} : at' = [at EXCEPT ![e] = s]
    BY <1>10 DEF Take, Begin, Goto
  <2>2. \A f \in Ask : at'[f] \in BeforeCallback => at[f] \in BeforeCallback
    BY <2>1, <1>a, Kinds DEF BeforeCallback
  <2>3. CASE registered["answer"] = <<>>
    BY <1>10, <2>2, <2>3, AnsweredOwnStep DEF Take
  <2>4. CASE registered["answer"] # <<>>
    <3>1. /\ taken' = [taken EXCEPT ![e] = registered["answer"]]
          /\ registered' = [registered EXCEPT !["answer"] = <<>>]
      BY <1>10, <2>4 DEF Take
    <3>2. In(registered'["answer"]) = {}
      BY <1>a, <3>1, InEmpty, Kinds
    <3>3. \A a \in Answer : In(taken'[a]) = IF a = e THEN In(registered["answer"]) ELSE In(taken[a])
      BY <1>a, <3>1
    <3>4. OneAnswerPerCallback'
      BY <3>2, <3>3 DEF Answered, OneAnswerPerCallback
    <3>5. \A f \in Ask : (\E a \in Answer : f \in In(taken'[a])) => at'[f] \notin BeforeCallback
      BY <2>2, <3>3 DEF Answered
    <3> QED
      BY <3>2, <3>4, <3>5 DEF Answered
  <2> QED
    BY <2>3, <2>4
<1>11. CASE UNCHANGED vars
  BY <1>11 DEF vars, Answered, OneAnswerPerCallback
<1> QED
  BY <1>1, <1>2, <1>3, <1>4, <1>5, <1>6, <1>7, <1>8, <1>9, <1>10, <1>11
  DEF Next, Application, Delivery

-----------------------------------------------------------------------------
(* Requests arrive.                                                        *)

\* Nothing was triggered.
LEMMA ArrivingInit == Init => Arriving
<1> SUFFICES ASSUME Init PROVE Arriving
  OBVIOUS
<1>1. \A e \in Ask : e \in Proc /\ e \notin Script /\ at[e] = "new"
  BY Kinds DEF Init
<1> QED
  BY <1>1, Kinds DEF Init, Arriving, RequestsArrive, Triggers

\* The list of functions for asks is never emptied, callbacks are only wanted
\* for asks, and so no delivery of a plain ask ends early.
LEMMA ArrivingStep == BusTypes /\ Placed /\ Arriving /\ [Next]_vars => Arriving'
<1> SUFFICES ASSUME BusTypes, Placed, Arriving, [Next]_vars PROVE Arriving'
  OBVIOUS
<1>a. /\ at \in [Proc -> Stages] /\ registered \in [Kind -> Seq(Func)] /\ pos \in [Proc -> Nat]
      /\ loop \in [Kind -> Seq(Event)] /\ arg \in [Proc -> SUBSET Event] /\ wantsReply \subseteq Ask
  BY DEF BusTypes, TypeOK
<1>1. ASSUME NEW p \in Proc, NEW h \in Handler, RegisterFunc(p, h) PROVE Arriving'
  <2>1. /\ at[p] = "code" /\ \A q \in Proc : at'[q] = IF q = p THEN "scan" ELSE at[q]
        /\ registered'["ask"] # <<>>
        /\ UNCHANGED <<arg, pos, wantsReply>>
    BY <1>1, <1>a, Kinds, InAppend, ZenonT(40) DEF RegisterFunc, Enlist, Add, Goto
  <2> QED
    BY <2>1, Kinds DEF Arriving, RequestsArrive, Triggers
<1>2. ASSUME NEW p \in Proc, NEW e \in Event, NEW reply \in BOOLEAN, Trigger(p, e, reply)
      PROVE  Arriving'
  <2>1. /\ at[p] = "code" /\ at[e] = "new" /\ p # e
        /\ \A q \in Proc \ {p, e} : at'[q] = at[q]
        /\ at'[e] = "held"
        /\ at'[p] = IF registered[KindOf(e)] = <<>> THEN "store" ELSE "count"
        /\ \A q \in Proc : arg'[q] = IF q = p THEN {e} ELSE arg[q]
        /\ wantsReply \subseteq wantsReply'
        /\ UNCHANGED <<registered, pos>>
    BY <1>2, <1>a, Kinds DEF Trigger
  <2>2. at'[p] = "count" /\ e \in Ask => registered["ask"] # <<>>
    BY <2>1, Kinds
  <2> QED
    BY <2>1, <2>2, Kinds DEF Arriving, RequestsArrive, Triggers
<1>3. ASSUME NEW p \in Proc, Scan(p) PROVE Arriving'
  <2>1. /\ at[p] = "scan" /\ Listened(p) \in Kind
        /\ at'[p] = Resumed(p)
        /\ \A q \in Proc \ {p} : at'[q] = IF q \in In(loop[Listened(p)]) THEN "ready" ELSE at[q]
        /\ UNCHANGED <<registered, arg, pos, wantsReply>>
    BY <1>3, <1>a, Kinds DEF Scan, Listened
  <2>2. \A q \in In(loop[Listened(p)]) : KindOf(q) = Listened(p)
    BY <2>1 DEF Placed
  <2>3. registered["ask"] # <<>>
    BY <2>1 DEF Arriving
  <2>4. IF pos[p] = 0 THEN at'[p] = "print" /\ p \in wantsReply ELSE at'[p] = "code"
    BY <2>1 DEF Resumed, Arriving
  <2> QED
    BY <2>1, <2>3, <2>4, Kinds DEF Arriving, RequestsArrive, Triggers
<1>4. ASSUME NEW p \in Proc, Store(p) PROVE Arriving'
  <2>1. /\ at[p] = "store" /\ \A q \in Proc : at'[q] = IF q = p THEN "code" ELSE at[q]
        /\ \A q \in Proc \ {p} : arg'[q] = arg[q]
        /\ UNCHANGED <<registered, pos, wantsReply>>
    BY <1>4, <1>a DEF Store, Goto
  <2> QED
    BY <2>1, Kinds DEF Arriving, RequestsArrive, Triggers
<1>5. ASSUME NEW p \in Proc, Count(p) PROVE Arriving'
  <2>1. PICK e \in arg[p] : at' = [at EXCEPT ![p] = "code", ![e] = "ready"]
    BY <1>5 DEF Count
  <2>2. /\ at[p] = "count" /\ e \in Event /\ e \in Proc /\ at[e] = "held" /\ e # p
        /\ e \in Ask => registered["ask"] # <<>>
    BY <1>5, <1>a, <2>1, Kinds DEF Count, Placed, Triggers, Arriving
  <2>3. /\ at'[p] = "code" /\ at'[e] = "ready" /\ \A q \in Proc \ {p, e} : at'[q] = at[q]
        /\ \A q \in Proc \ {p} : arg'[q] = arg[q]
        /\ UNCHANGED <<registered, pos, wantsReply>>
    BY <1>5, <1>a, <2>1, <2>2 DEF Count
  <2> QED
    BY <2>2, <2>3, Kinds DEF Arriving, RequestsArrive, Triggers
<1>6. ASSUME NEW p \in Proc, Return(p) PROVE Arriving'
  <2>1. CASE UNCHANGED at /\ pos' = [pos EXCEPT ![p] = pos[p] + 1]
    <3>1. /\ at[p] = "code" /\ \A q \in Proc : pos'[q] = 0 => pos[q] = 0
          /\ \A q \in Proc \ {p} : pos'[q] = pos[q]
          /\ pos'[p] # 0
      BY <1>6, <1>a, <2>1 DEF Return, Arriving
    <3> QED
      BY <1>6, <2>1, <3>1, Kinds DEF Return, Arriving, RequestsArrive, Triggers
  <2>2. CASE at' = [at EXCEPT ![p] = "end"] /\ UNCHANGED pos
    <3>1. \A q \in Proc : at'[q] = IF q = p THEN "end" ELSE at[q]
      BY <1>a, <2>2
    <3> QED
      BY <1>6, <2>2, <3>1, Kinds DEF Return, Arriving, RequestsArrive, Triggers
  <2> QED
    BY <1>6, <2>1, <2>2 DEF Return, Goto, Call
<1>7. ASSUME NEW e \in Event, Check(e) PROVE Arriving'
  <2>1. /\ at[e] = "ready" /\ e \in Proc
        /\ \A q \in Proc \ {e} : at'[q] = at[q]
        /\ UNCHANGED <<registered, arg, pos, wantsReply>>
    BY <1>7, <1>a, Kinds DEF Check, Goto
  <2>2. at'[e] = IF registered[KindOf(e)] = <<>> THEN "dropped"
                 ELSE IF e \in Answer THEN "take"
                 ELSE IF e \in wantsReply THEN "callback" ELSE "read"
    BY <1>7, <1>a, <2>1 DEF Check, Goto
  <2>3. CASE e \in Ask
    <3>1. registered["ask"] # <<>> /\ at'[e] = IF e \in wantsReply THEN "callback" ELSE "read"
      BY <2>1, <2>2, <2>3, Kinds DEF Arriving
    <3> QED
      BY <2>1, <3>1, Kinds DEF Arriving, RequestsArrive, Triggers
  <2>4. CASE e \notin Ask
    <3>1. at'[e] \in {"dropped", "take"}
      BY <2>2, <2>4 DEF Event
    <3> QED
      BY <2>1, <2>4, <3>1, Kinds DEF Arriving, RequestsArrive, Triggers
  <2> QED
    BY <2>3, <2>4
<1>8. ASSUME NEW e \in Event, AddCallback(e) PROVE Arriving'
  <2>1. /\ at[e] = "callback" /\ e \in Ask /\ e \in Proc
        /\ \A q \in Proc : at'[q] = IF q = e THEN "scan" ELSE at[q]
        /\ registered'["ask"] = registered["ask"]
        /\ UNCHANGED <<arg, pos, wantsReply>>
    BY <1>8, <1>a, Kinds DEF AddCallback, Enlist, Add, Goto, BusTypes
  <2>2. registered["ask"] # <<>> /\ e \in wantsReply
    BY <2>1 DEF Arriving
  <2> QED
    BY <2>1, <2>2, Kinds DEF Arriving, RequestsArrive, Triggers
<1>9. ASSUME NEW e \in Event, PrintAll(e) PROVE Arriving'
  <2>1. /\ at[e] \in {"print", "printing"} /\ e \in Proc
        /\ at'[e] \in {"printing", "read", "died"}
        /\ \A q \in Proc \ {e} : at'[q] = at[q]
        /\ UNCHANGED <<registered, arg, pos, wantsReply>>
    BY <1>9, <1>a, Kinds DEF PrintAll, Goto
  <2> QED
    BY <2>1, Kinds DEF Arriving, RequestsArrive, Triggers
<1>10. ASSUME NEW e \in Event, Read(e) PROVE Arriving'
  <2>1. /\ at[e] = "read" /\ e \in Proc
        /\ \A q \in Proc \ {e} : at'[q] = at[q] /\ pos'[q] = pos[q]
        /\ UNCHANGED <<registered, arg, wantsReply>>
    BY <1>10, <1>a, Kinds DEF Read, Begin, Goto, Call
  <2>2. \/ registered["ask"] = <<>> /\ at'[e] = "died"
        \/ at'[e] = "code" /\ pos'[e] = 1
        \/ at'[e] = "refused"
    BY <1>10, <1>a, <2>1 DEF Read, Begin, Goto, Call
  <2>3. e \in Ask => at'[e] = "refused" \/ (at'[e] = "code" /\ pos'[e] = 1)
    BY <2>1, <2>2 DEF Arriving
  <2> QED
    BY <2>1, <2>2, <2>3, Kinds DEF Arriving, RequestsArrive, Triggers
<1>11. ASSUME NEW e \in Event, Take(e) PROVE Arriving'
  <2>1. /\ at[e] = "take" /\ e \in Proc /\ e \notin Ask
        /\ \A q \in Proc \ {e} : at'[q] = at[q] /\ pos'[q] = pos[q]
        /\ registered'["ask"] = registered["ask"]
        /\ UNCHANGED <<arg, wantsReply>>
    BY <1>11, <1>a, Kinds DEF Take, Begin, Goto, Call, Arriving
  <2>2. \/ at'[e] \in {"died", "refused"}
        \/ at'[e] = "code" /\ pos'[e] = 1
    <3>1. \/ at' = [at EXCEPT ![e] = "died"] \/ at' = [at EXCEPT ![e] = "refused"]
          \/ at' = [at EXCEPT ![e] = "code"] /\ pos' = [pos EXCEPT ![e] = 1]
      <4>1. CASE registered["answer"] = <<>>
        BY <1>11, <4>1 DEF Take, Goto
      <4>2. CASE registered["answer"] # <<>>
        BY <1>11, <4>2 DEF Take, Begin, Goto, Call
      <4> QED
        BY <4>1, <4>2
    <3> QED
      BY <1>a, <2>1, <3>1
  <2> QED
    BY <2>1, <2>2, Kinds DEF Arriving, RequestsArrive, Triggers
<1>12. CASE UNCHANGED vars
  BY <1>12 DEF vars, Arriving, RequestsArrive, Triggers
<1> QED
  BY <1>1, <1>2, <1>3, <1>4, <1>5, <1>6, <1>7, <1>8, <1>9, <1>10, <1>11, <1>12
  DEF Next, Application, Delivery

-----------------------------------------------------------------------------
(* The invariant and what follows from it.                                 *)

\* RegisterFunc, TriggerEvent and the delivery threads keep the invariant, for
\* every number of threads, events and functions.
THEOREM BusInvariant == Spec => []BusInv
<1>1. Init => BusInv
  BY BusTypesInit, PlacedInit, AnsweredInit, ArrivingInit DEF BusInv
<1>2. BusInv /\ [Next]_vars => BusInv'
  BY BusTypesStep, PlacedStep, AnsweredStep, ArrivingStep DEF BusInv
<1> QED
  BY <1>1, <1>2, PTL DEF Spec

\* An event is in one place: in the hands of the thread that triggers it, or
\* stored once, or delivered (TriggerEvent, register_event_check).
THEOREM EventsAreInOnePlace == Spec => []InOnePlace
<1>1. BusInv => InOnePlace
  <2> SUFFICES ASSUME BusInv PROVE InOnePlace
    OBVIOUS
  <2>1. Placed
    BY DEF BusInv
  <2>2. ASSUME NEW e \in Event
        PROVE  Cardinality({p \in Proc : at[p] \in {"store", "count"} /\ e \in arg[p]})
                 + (IF Waiting(e) THEN 1 ELSE 0) = (IF at[e] = "held" THEN 1 ELSE 0)
    <3> DEFINE holders == {p \in Proc : at[p] \in {"store", "count"} /\ e \in arg[p]}
    <3>1. \A p \in holders : Triggers(p) /\ p \in Proc /\ e \in arg[p]
      BY DEF Triggers
    <3>2. Waiting(e) => at[e] = "held"
      BY <2>1, <2>2, Kinds DEF Waiting, Placed
    <3>3. Waiting(e) => holders = {}
      BY <2>1, <2>2, <3>1, Kinds DEF Waiting, Placed
    <3>4. holders # {} => at[e] = "held"
      BY <2>1, <3>1 DEF Placed
    <3>5. \A p, q \in holders : p = q
      BY <2>1, <3>1 DEF Placed
    <3>6. at[e] = "held" => Waiting(e) \/ holders # {}
      BY <2>1, <2>2 DEF Waiting, Placed, Triggers
    <3> HIDE DEF holders
    <3>7. CASE holders = {}
      <4>1. Cardinality(holders) = 0
        BY <3>7, FS_EmptySet
      <4> QED
        BY <4>1, <3>2, <3>6, <3>7 DEF holders
    <3>8. CASE holders # {}
      <4>1. PICK p \in holders : holders = {p}
        BY <3>5, <3>8
      <4>2. Cardinality(holders) = 1
        BY <4>1, FS_Singleton
      <4> QED
        BY <4>2, <3>3, <3>4, <3>8 DEF holders
    <3> QED
      BY <3>7, <3>8
  <2> QED
    BY <2>1, <2>2 DEF InOnePlace, Placed
<1> QED
  BY <1>1, BusInvariant, PTL

\* A callback is called by at most one answer, although any number of answers
\* may have found it registered (bg_chrome_runtime_onMessage_response).
THEOREM CallbacksAreAnsweredOnce == Spec => []OneAnswerPerCallback
<1>1. BusInv => OneAnswerPerCallback
  BY DEF BusInv, Answered
<1> QED
  BY <1>1, BusInvariant, PTL

\* The thread of an ask without a callback always comes to the call of its
\* functions, whatever is registered and unregistered meanwhile
\* (event_loop_threading).
THEOREM PlainRequestsArrive == Spec => []RequestsArrive
<1>1. BusInv => RequestsArrive
  BY DEF BusInv, Arriving
<1> QED
  BY <1>1, BusInvariant, PTL

-----------------------------------------------------------------------------
(* All functions are called.                                               *)

BeforeCode == {"new", "held", "ready", "callback", "print", "printing", "read"}

\* The functions called for an ask are the first pos[e] registered ones; those
\* its thread knew are registered still; it ends only beyond them.
Calling ==
  \A e \in Ask :
    /\ Len(heard[e]) = pos[e] /\ pos[e] <= Len(registered["ask"])
    /\ \A i \in 1..pos[e] : heard[e][i] = registered["ask"][i]
    /\ Len(known[e]) <= Len(registered["ask"])
    /\ at[e] = "end" => Len(known[e]) <= pos[e]
    /\ at[e] \in BeforeCode => pos[e] = 0

LEMMA CallingInit == Init => Calling
<1> SUFFICES ASSUME Init PROVE Calling
  OBVIOUS
<1>1. \A e \in Ask : e \in Event /\ e \in Proc /\ e \notin Script
  BY Kinds
<1>2. \A e \in Ask : /\ heard[e] = <<>> /\ known[e] = <<>> /\ pos[e] = 0 /\ at[e] = "new"
  BY <1>1 DEF Init
<1>3. registered["ask"] = <<>>
  BY Kinds DEF Init
<1>4. Len(<<>>) = 0
  OBVIOUS
<1> QED
  BY <1>2, <1>3, <1>4 DEF Calling

\* A step that calls nothing, and may add a function for asks.
LEMMA CallingFrame ==
  ASSUME BusTypes, BusTypes', Calling,
         registered'["ask"] = registered["ask"]
           \/ \E h \in Handler : registered'["ask"] = Append(registered["ask"], h),
         \A e \in Ask : /\ heard'[e] = heard[e] /\ pos'[e] = pos[e] /\ known'[e] = known[e]
                        /\ at'[e] = "end" => at[e] = "end"
                        /\ at'[e] \in BeforeCode => at[e] \in BeforeCode \/ pos[e] = 0
  PROVE  Calling'
<1>1. registered["ask"] \in Seq(Func)
  BY Kinds DEF BusTypes, TypeOK
<1>2. /\ Len(registered["ask"]) <= Len(registered'["ask"])
      /\ \A i \in 1..Len(registered["ask"]) : registered'["ask"][i] = registered["ask"][i]
      /\ Len(registered["ask"]) \in Nat /\ Len(registered'["ask"]) \in Nat
  <2>1. CASE registered'["ask"] = registered["ask"]
    BY <1>1, <2>1, LenProperties
  <2>2. ASSUME NEW h \in Handler, registered'["ask"] = Append(registered["ask"], h)
        PROVE  <1>2!:
    BY <1>1, <2>2, Kinds, AppendProperties, LenProperties
  <2> QED
    BY <2>1, <2>2
<1>3. \A e \in Ask : pos[e] \in Nat /\ Len(known[e]) \in Nat
  BY Kinds, LenProperties DEF BusTypes, TypeOK
<1>4. ASSUME NEW e \in Ask
      PROVE  /\ Len(heard'[e]) = pos'[e] /\ pos'[e] <= Len(registered'["ask"])
             /\ \A i \in 1..pos'[e] : heard'[e][i] = registered'["ask"][i]
             /\ Len(known'[e]) <= Len(registered'["ask"])
             /\ at'[e] = "end" => Len(known'[e]) <= pos'[e]
             /\ at'[e] \in BeforeCode => pos'[e] = 0
  <2>1. /\ Len(heard[e]) = pos[e] /\ pos[e] <= Len(registered["ask"])
        /\ \A i \in 1..pos[e] : heard[e][i] = registered["ask"][i]
        /\ Len(known[e]) <= Len(registered["ask"])
        /\ at[e] = "end" => Len(known[e]) <= pos[e]
        /\ at[e] \in BeforeCode => pos[e] = 0
    BY DEF Calling
  <2> QED
    BY <1>2, <1>3, <2>1, SMTT(30)
<1> QED
  BY <1>4 DEF Calling

\* The thread of an ask calls the next registered function.
LEMMA NextCall ==
  ASSUME BusTypes, BusTypes', Calling, NEW e \in Ask, pos[e] < Len(registered["ask"]),
         pos' = [pos EXCEPT ![e] = pos[e] + 1],
         heard' = [heard EXCEPT ![e] = Append(heard[e], registered["ask"][pos[e] + 1])],
         UNCHANGED <<registered, known>>,
         at'[e] = "code", \A f \in Ask \ {e} : at'[f] = at[f]
  PROVE  Calling'
<1>1. /\ registered["ask"] \in Seq(Func) /\ heard[e] \in Seq(Func) /\ pos[e] \in Nat
      /\ pos \in [Proc -> Nat] /\ heard \in [Event -> Seq(Func)]
      /\ \A f \in Ask : f \in Event /\ f \in Proc
  BY Kinds DEF BusTypes, TypeOK
<1>2. Len(registered["ask"]) \in Nat /\ pos[e] + 1 \in 1..Len(registered["ask"])
  BY <1>1, LenProperties
<1>3. registered["ask"][pos[e] + 1] \in Func
  BY <1>1, <1>2, ElementOfSeq
<1>4. /\ pos'[e] = pos[e] + 1 /\ heard'[e] = Append(heard[e], registered["ask"][pos[e] + 1])
      /\ \A f \in Ask \ {e} : pos'[f] = pos[f] /\ heard'[f] = heard[f]
  BY <1>1
<1>5. Len(heard[e]) = pos[e] /\ \A i \in 1..pos[e] : heard[e][i] = registered["ask"][i]
  BY DEF Calling
<1>6. /\ Len(heard'[e]) = pos[e] + 1 /\ heard'[e][pos[e] + 1] = registered["ask"][pos[e] + 1]
      /\ \A i \in 1..pos[e] : heard'[e][i] = heard[e][i]
  BY <1>1, <1>3, <1>4, <1>5, AppendProperties
<1>7. \A i \in 1..(pos[e] + 1) : heard'[e][i] = registered["ask"][i]
  BY <1>1, <1>5, <1>6
<1>8. ASSUME NEW f \in Ask
      PROVE  /\ Len(heard'[f]) = pos'[f] /\ pos'[f] <= Len(registered'["ask"])
             /\ \A i \in 1..pos'[f] : heard'[f][i] = registered'["ask"][i]
             /\ Len(known'[f]) <= Len(registered'["ask"])
             /\ at'[f] = "end" => Len(known'[f]) <= pos'[f]
             /\ at'[f] \in BeforeCode => pos'[f] = 0
  <2>1. CASE f = e
    BY <1>2, <1>4, <1>6, <1>7, <2>1 DEF Calling, BeforeCode
  <2>2. CASE f # e
    BY <1>4, <2>2 DEF Calling
  <2> QED
    BY <2>1, <2>2
<1> QED
  BY <1>8 DEF Calling

LEMMA CallingStep == BusInv /\ BusTypes' /\ Calling /\ [Next]_vars => Calling'
<1> SUFFICES ASSUME BusInv, BusTypes', Calling, [Next]_vars PROVE Calling'
  OBVIOUS
<1>b. BusTypes /\ Placed /\ Arriving
  BY DEF BusInv
<1>a. /\ at \in [Proc -> Stages] /\ registered \in [Kind -> Seq(Func)] /\ pos \in [Proc -> Nat]
      /\ heard \in [Event -> Seq(Func)] /\ known \in [Ask -> Seq(Func)]
      /\ loop \in [Kind -> Seq(Event)] /\ arg \in [Proc -> SUBSET Event]
      /\ \A e \in Ask : e \in Event /\ e \in Proc
  BY <1>b, Kinds DEF BusTypes, TypeOK
<1>1. ASSUME NEW p \in Proc, NEW h \in Handler, RegisterFunc(p, h) PROVE Calling'
  <2>1. /\ registered'["ask"] = Append(registered["ask"], h)
        /\ \A q \in Proc : at'[q] = IF q = p THEN "scan" ELSE at[q]
        /\ UNCHANGED <<pos, known, heard>>
    BY <1>1, <1>a, Kinds DEF RegisterFunc, Enlist, Add, Goto
  <2> QED
    BY <1>a, <1>b, <2>1, CallingFrame DEF BeforeCode
<1>2. ASSUME NEW p \in Proc, NEW e \in Event, NEW reply \in BOOLEAN, Trigger(p, e, reply)
      PROVE  Calling'
  <2>1. /\ at[e] = "new" /\ p # e
        /\ \A q \in Proc \ {p, e} : at'[q] = at[q]
        /\ at'[e] = "held" /\ at'[p] \in {"store", "count"}
        /\ UNCHANGED <<registered, pos, known, heard>>
    BY <1>2, <1>a, Kinds DEF Trigger
  <2> QED
    BY <1>a, <1>b, <2>1, CallingFrame DEF BeforeCode
<1>3. ASSUME NEW p \in Proc, Scan(p) PROVE Calling'
  <2>1. /\ at[p] = "scan" /\ Listened(p) \in Kind
        /\ at'[p] = Resumed(p)
        /\ \A q \in Proc \ {p} : at'[q] = IF q \in In(loop[Listened(p)]) THEN "ready" ELSE at[q]
        /\ UNCHANGED <<registered, pos, known, heard>>
    BY <1>3, <1>a, Kinds DEF Scan, Listened
  <2>2. \A q \in In(loop[Listened(p)]) : at[q] = "held"
    BY <1>b, <2>1 DEF Placed
  <2>3. IF pos[p] = 0 THEN at'[p] = "print" ELSE at'[p] = "code"
    BY <2>1 DEF Resumed
  <2> QED
    BY <1>a, <1>b, <2>1, <2>2, <2>3, CallingFrame DEF BeforeCode
<1>4. ASSUME NEW p \in Proc, Store(p) PROVE Calling'
  <2>1. /\ \A q \in Proc : at'[q] = IF q = p THEN "code" ELSE at[q]
        /\ UNCHANGED <<registered, pos, known, heard>>
    BY <1>4, <1>a DEF Store, Goto
  <2> QED
    BY <1>a, <1>b, <2>1, CallingFrame DEF BeforeCode
<1>5. ASSUME NEW p \in Proc, Count(p) PROVE Calling'
  <2>1. PICK e \in arg[p] : at' = [at EXCEPT ![p] = "code", ![e] = "ready"]
    BY <1>5 DEF Count
  <2>2. e \in Event /\ e \in Proc /\ at[e] = "held"
    BY <1>5, <1>a, <1>b, <2>1, Kinds DEF Count, Placed, Triggers
  <2>3. /\ \A q \in Proc : at'[q] = IF q = e THEN "ready" ELSE IF q = p THEN "code" ELSE at[q]
        /\ UNCHANGED <<registered, pos, known, heard>>
    BY <1>5, <1>a, <2>1, <2>2 DEF Count
  <2> QED
    BY <1>a, <1>b, <2>2, <2>3, CallingFrame DEF BeforeCode
<1>6. ASSUME NEW p \in Proc, Return(p) PROVE Calling'
  <2>0. at[p] = "code" /\ UNCHANGED <<registered, known>>
    BY <1>6 DEF Return
  <2>1. CASE p \in Event /\ pos[p] < Len(Functions(p))
    <3>1. /\ pos' = [pos EXCEPT ![p] = pos[p] + 1]
          /\ heard' = [heard EXCEPT ![p] = Append(heard[p], Functions(p)[pos[p] + 1])]
          /\ UNCHANGED at
      BY <1>6, <2>1 DEF Return, Call, Add
    <3>2. CASE p \in Ask
      <4>1. Functions(p) = registered["ask"]
        BY <3>2 DEF Functions
      <4> QED
        BY <1>b, <2>0, <2>1, <3>1, <3>2, <4>1, NextCall
    <3>3. CASE p \notin Ask
      <4>1. \A e \in Ask : pos'[e] = pos[e] /\ heard'[e] = heard[e]
        BY <1>a, <3>1, <3>3
      <4> QED
        BY <1>b, <2>0, <3>1, <4>1, CallingFrame
    <3> QED
      BY <3>2, <3>3
  <2>2. CASE ~(p \in Event /\ pos[p] < Len(Functions(p)))
    <3>1. UNCHANGED <<registered, pos, known, heard>> /\ at' = [at EXCEPT ![p] = "end"]
      BY <1>6, <2>2 DEF Return, Goto
    <3>2. p \in Ask => ~(pos[p] < Len(registered["ask"]))
      BY <1>a, <2>2 DEF Functions
    <3>3. Len(registered["ask"]) \in Nat /\ \A e \in Ask : Len(known[e]) \in Nat /\ pos[e] \in Nat
      BY <1>a, Kinds, LenProperties
    <3>4. \A e \in Ask : e = p => Len(known[e]) <= pos[e]
      BY <3>2, <3>3 DEF Calling
    <3>5. \A q \in Proc : at'[q] = IF q = p THEN "end" ELSE at[q]
      BY <1>a, <3>1
    <3>6. ASSUME NEW e \in Ask
          PROVE  (at'[e] = "end" => Len(known[e]) <= pos[e]) /\ (at'[e] \in BeforeCode => pos[e] = 0)
      BY <1>a, <3>4, <3>5 DEF Calling, BeforeCode
    <3> QED
      BY <3>1, <3>6 DEF Calling
  <2> QED
    BY <2>1, <2>2
<1>7. ASSUME NEW e \in Event, Check(e) PROVE Calling'
  <2>1. /\ at[e] = "ready" /\ e \in Proc
        /\ at'[e] \notin {"end"}
        /\ \A q \in Proc \ {e} : at'[q] = at[q]
        /\ UNCHANGED <<registered, pos, heard>>
    BY <1>7, <1>a, Kinds DEF Check, Goto
  <2>2. \A f \in Ask : known'[f] = known[f] \/ (f = e /\ known'[f] = registered["ask"])
    BY <1>7, <1>a DEF Check
  <2>3. Len(registered["ask"]) \in Nat
    BY <1>a, Kinds, LenProperties
  <2>4. ASSUME NEW f \in Ask
        PROVE  /\ Len(known'[f]) <= Len(registered["ask"])
               /\ at'[f] = "end" => Len(known'[f]) <= pos[f]
               /\ at'[f] \in BeforeCode => pos[f] = 0
    <3>1. CASE f = e
      BY <2>1, <2>2, <2>3, <3>1 DEF Calling, BeforeCode
    <3>2. CASE f # e
      BY <1>a, <2>1, <2>2, <3>2 DEF Calling
    <3> QED
      BY <3>1, <3>2
  <2> QED
    BY <2>1, <2>4 DEF Calling
<1>8. ASSUME NEW e \in Event, AddCallback(e) PROVE Calling'
  <2>1. /\ \A q \in Proc : at'[q] = IF q = e THEN "scan" ELSE at[q]
        /\ registered'["ask"] = registered["ask"]
        /\ UNCHANGED <<pos, known, heard>>
    BY <1>8, <1>a, Kinds DEF AddCallback, Enlist, Add, Goto
  <2> QED
    BY <1>a, <1>b, <2>1, CallingFrame DEF BeforeCode
<1>9. ASSUME NEW e \in Event, PrintAll(e) PROVE Calling'
  <2>1. /\ at[e] \in {"print", "printing"}
        /\ at'[e] \in {"printing", "read", "died"}
        /\ \A q \in Proc \ {e} : at'[q] = at[q]
        /\ UNCHANGED <<registered, pos, known, heard>>
    BY <1>9, <1>a, Kinds DEF PrintAll, Goto
  <2> QED
    BY <1>a, <1>b, <2>1, CallingFrame DEF BeforeCode
<1>10. ASSUME NEW e \in Event, Read(e) PROVE Calling'
  <2>0. at[e] = "read" /\ e \in Proc /\ UNCHANGED <<registered, known>>
    BY <1>10, Kinds DEF Read
  <2>1. CASE registered["ask"] = <<>>
    <3>1. at' = [at EXCEPT ![e] = "died"] /\ UNCHANGED <<pos, heard>>
      BY <1>10, <2>1 DEF Read, Goto
    <3>2. \A q \in Proc : at'[q] = IF q = e THEN "died" ELSE at[q]
      BY <1>a, <3>1
    <3> QED
      BY <1>a, <1>b, <2>0, <3>1, <3>2, CallingFrame DEF BeforeCode
  <2>2. CASE registered["ask"] # <<>> /\ UNCHANGED <<pos, heard>>
                /\ at' = [at EXCEPT ![e] = "refused"]
    <3>1. \A q \in Proc : at'[q] = IF q = e THEN "refused" ELSE at[q]
      BY <1>a, <2>2
    <3> QED
      BY <1>a, <1>b, <2>0, <2>2, <3>1, CallingFrame DEF BeforeCode
  <2>3. CASE registered["ask"] # <<>> /\ Goto(e, "code") /\ Call(e, 1, registered["ask"])
    <3>1. /\ pos' = [pos EXCEPT ![e] = 1] /\ at' = [at EXCEPT ![e] = "code"]
          /\ heard' = [heard EXCEPT ![e] = Append(heard[e], registered["ask"][1])]
      BY <2>3 DEF Goto, Call, Add
    <3>2. CASE e \in Ask
      <4>1. pos[e] = 0
        BY <2>0, <3>2 DEF Calling, BeforeCode
      <4>2. Len(registered["ask"]) > 0
        BY <1>a, <2>3, Kinds, LenProperties, EmptySeq
      <4>3. at'[e] = "code" /\ \A f \in Ask \ {e} : at'[f] = at[f]
        BY <1>a, <2>0, <3>1
      <4>4. pos[e] + 1 = 1
        BY <4>1
      <4> QED
        BY <1>b, <2>0, <3>1, <3>2, <4>1, <4>2, <4>3, <4>4, NextCall
    <3>3. CASE e \notin Ask
      <4>1. \A f \in Ask : pos'[f] = pos[f] /\ heard'[f] = heard[f] /\ at'[f] = at[f]
        BY <1>a, <3>1, <3>3
      <4> QED
        BY <1>b, <2>0, <4>1, CallingFrame
    <3> QED
      BY <3>2, <3>3
  <2> QED
    BY <1>10, <2>1, <2>2, <2>3 DEF Read, Begin, Goto
<1>11. ASSUME NEW e \in Event, Take(e) PROVE Calling'
  <2>1. at[e] = "take" /\ UNCHANGED known
    BY <1>11 DEF Take
  <2>2. e \notin Ask
    BY <1>b, <2>1 DEF Arriving
  <2>3. registered'["ask"] = registered["ask"]
    BY <1>11, <1>a, Kinds DEF Take
  <2>4. \A f \in Ask : at'[f] = at[f] /\ pos'[f] = pos[f] /\ heard'[f] = heard[f]
    <3>1. CASE registered["answer"] = <<>>
      BY <1>11, <1>a, <2>2, <3>1 DEF Take, Goto
    <3>2. CASE registered["answer"] # <<>>
      BY <1>11, <1>a, <2>2, <3>2 DEF Take, Begin, Goto, Call, Add
    <3> QED
      BY <3>1, <3>2
  <2> QED
    BY <1>b, <2>1, <2>3, <2>4, CallingFrame
<1>12. CASE UNCHANGED vars
  BY <1>12 DEF vars, Calling
<1> QED
  BY <1>1, <1>2, <1>3, <1>4, <1>5, <1>6, <1>7, <1>8, <1>9, <1>10, <1>11, <1>12
  DEF Next, Application, Delivery

\* Every variable of the event bus keeps its type, for every number of threads,
\* events and functions (modeled_extension_builtins.py, event_loop.py).
THEOREM BusTypeCorrect == Spec => []TypeOK
<1>1. BusTypes => TypeOK
  BY DEF BusTypes
<1> QED
  BY <1>1, BusTypesInit, BusTypesStep, PTL DEF Spec

\* When the call of an ask has ended it has run every registration there was
\* when its thread began, in their order and each once (call_function walks the
\* registered list itself, which grows meanwhile).
THEOREM FunctionsAreCalled == Spec => []AllFunctionsCalled
<1> DEFINE CallInv == BusInv /\ BusTypes /\ Calling
<1>1. Init => CallInv
  BY BusTypesInit, PlacedInit, AnsweredInit, ArrivingInit, CallingInit DEF BusInv
<1>2. CallInv /\ [Next]_vars => CallInv'
  BY BusTypesStep, PlacedStep, AnsweredStep, ArrivingStep, CallingStep DEF BusInv
<1>3. CallInv => AllFunctionsCalled
  <2> SUFFICES ASSUME BusTypes, Calling, NEW e \in Ask, at[e] = "end"
               PROVE  /\ Len(heard[e]) >= Len(known[e])
                      /\ heard[e] = SubSeq(registered["ask"], 1, Len(heard[e]))
    BY DEF AllFunctionsCalled
  <2>1. /\ Len(heard[e]) = pos[e] /\ pos[e] <= Len(registered["ask"])
        /\ \A i \in 1..pos[e] : heard[e][i] = registered["ask"][i]
        /\ Len(known[e]) <= pos[e]
    BY DEF Calling
  <2>2. /\ heard[e] \in Seq(Func) /\ registered["ask"] \in Seq(Func) /\ known[e] \in Seq(Func)
        /\ pos[e] \in Nat
    BY Kinds DEF BusTypes, TypeOK
  <2>3. Len(registered["ask"]) \in Nat /\ Len(known[e]) \in Nat
    BY <2>2, LenProperties
  <2>4. \A i \in 1..pos[e] : registered["ask"][i] \in Func
    BY <2>1, <2>2, <2>3, ElementOfSeq
  <2> DEFINE called == SubSeq(registered["ask"], 1, pos[e])
  <2>5. /\ called \in Seq(Func) /\ Len(called) = pos[e]
        /\ \A i \in 1..pos[e] : called[i] = registered["ask"][i]
    <3>1. /\ called \in Seq(Func)
          /\ Len(called) = IF 1 <= pos[e] THEN pos[e] - 1 + 1 ELSE 0
          /\ \A i \in 1..(pos[e] - 1 + 1) : called[i] = registered["ask"][1 + i - 1]
      BY <2>2, <2>4, SubSeqProperties
    <3> QED
      BY <2>2, <3>1
  <2> HIDE DEF called
  <2>6. heard[e] = called
    BY <2>1, <2>2, <2>5, SeqEqual
  <2> QED
    BY <2>1, <2>2, <2>3, <2>6 DEF called
<1> QED
  BY <1>1, <1>2, <1>3, PTL DEF Spec
====
