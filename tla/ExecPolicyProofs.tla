--------------------------- MODULE ExecPolicyProofs ---------------------------
(* Theorems about ExecPolicy, for every set of expressions and every number *)
(* of modules passed.                                                       *)
EXTENDS ExecPolicy, FiniteSetTheorems, SequenceTheorems, WellFoundedInduction, TLAPS

\* What ExpressionAssumption says of one expression.
LEMMA ExpressionFacts ==
  ASSUME NEW e \in Expressions
  PROVE  /\ e.mods \in Seq(1 .. 5)
         /\ e.open \in Nat /\ e.close \in Nat /\ e.loop \in 0 .. 9
         /\ HasLoop(e) => e.open \in DOMAIN e.mods /\ e.loop \in 1 .. 9
         /\ e.loop \in Nat
BY ExpressionAssumption DEF HasLoop

\* The counter of an expression has 1, 4, 8 or 16 values, and more of them than
\* iterations unless the loop is of 4 or of 8.
LEMMA CounterSizes ==
  ASSUME NEW e \in Expressions
  PROVE  /\ CounterValues(e) \in {1, 4, 8, 16}
         /\ HasLoop(e) /\ e.loop \notin {4, 8} => e.loop < CounterValues(e)
<1>1. CASE ~HasLoop(e) \/ e.loop \in {4, 8}
  BY <1>1 DEF CounterValues
<1>2. CASE HasLoop(e) /\ e.loop \notin {4, 8}
  <2>1. e.loop \in 1 .. 9
    BY <1>2, ExpressionFacts
  <2>2. CASE e.loop \in 1 .. 3
    BY <1>2, <2>2 DEF CounterValues
  <2>3. CASE e.loop \in 5 .. 7
    BY <1>2, <2>3 DEF CounterValues
  <2>4. CASE e.loop = 9
    BY <1>2, <2>4 DEF CounterValues
  <2> QED  BY <1>2, <2>1, <2>2, <2>3, <2>4
<1> QED  BY <1>1, <1>2

\* A counter value fits the counter, and a number that fits is its own value.
LEMMA CounterFits ==
  ASSUME NEW e \in Expressions, NEW n \in Int
  PROVE  /\ Counter(e, n) \in 0 .. CounterValues(e) - 1
         /\ n \in 0 .. CounterValues(e) - 1 => Counter(e, n) = n
<1>1. CASE CounterValues(e) = 1
  BY <1>1 DEF Counter
<1>2. CASE CounterValues(e) = 4
  BY <1>2 DEF Counter
<1>3. CASE CounterValues(e) = 8
  BY <1>3 DEF Counter
<1>4. CASE CounterValues(e) = 16
  BY <1>4 DEF Counter
<1> QED  BY <1>1, <1>2, <1>3, <1>4, CounterSizes

\* A label that is not high impedance.
IsLabel(e, y) ==
  y \in [mod : SUBSET Modules(e), loop : 0 .. CounterValues(e) - 1]

LEMMA RefreshedIsLabel ==
  ASSUME NEW e \in Expressions, NEW m \in Modules(e), NEW y, IsLabel(e, y)
  PROVE  IsLabel(e, Refreshed(e, m, y))
<1>1. y.mod \subseteq Modules(e) /\ y.loop \in 0 .. CounterValues(e) - 1
  BY DEF IsLabel
<1>2. y.loop + 1 \in Int
  BY <1>1, CounterSizes
<1>3. Counter(e, y.loop + 1) \in 0 .. CounterValues(e) - 1
  BY <1>2, CounterFits
<1> QED  BY <1>1, <1>3 DEF IsLabel, Refreshed

LEMMA LabelIsNotHighZ ==
  ASSUME NEW e \in Expressions, NEW y, IsLabel(e, y)
  PROVE  y # HighZ
<1>1. y.loop \in 0 .. CounterValues(e) - 1
  BY DEF IsLabel
<1>2. HighZ.loop = -1
  BY DEF HighZ
<1> QED  BY <1>1, <1>2, CounterSizes

LEMMA InitialLabel ==
  ASSUME NEW e \in Expressions
  PROVE  IsLabel(e, [mod |-> {}, loop |-> 0])
<1>1. 0 \in 0 .. CounterValues(e) - 1
  BY CounterSizes
<1> QED  BY <1>1 DEF IsLabel

\* The label is kept as a record: what PolicyTypeOK says of its fields, and more.
PolicyInv ==
  /\ STM_express \in Expressions
  /\ passed \in Seq(Modules(STM_express))
  /\ cleared \in BOOLEAN
  /\ label = HighZ \/ IsLabel(STM_express, label)

LEMMA PolicyInvInitial ==
  ASSUME Init
  PROVE  PolicyInv
<1>1. label = [mod |-> {}, loop |-> 0] /\ STM_express \in Expressions
  BY DEF Init
<1>2. IsLabel(STM_express, [mod |-> {}, loop |-> 0])
  BY <1>1, InitialLabel
<1>3. IsLabel(STM_express, label)
  BY <1>1, <1>2
<1>4. passed \in Seq(Modules(STM_express))
  <2>1. passed = <<>>
    BY DEF Init
  <2> QED  BY <2>1
<1>5. cleared \in BOOLEAN
  BY DEF Init
<1> QED  BY <1>1, <1>3, <1>4, <1>5 DEF PolicyInv

LEMMA PolicyInvInductive ==
  ASSUME PolicyInv, [Next]_vars
  PROVE  PolicyInv'
<1>1. CASE UNCHANGED vars
  BY <1>1 DEF PolicyInv, vars, IsLabel, Modules, CounterValues, HasLoop
<1>2. ASSUME NEW m \in Modules(STM_express), Check_and_Refresh(m)
      PROVE  PolicyInv'
  <2>1. STM_express' = STM_express /\ STM_express \in Expressions
    BY <1>2 DEF Check_and_Refresh, PolicyInv
  <2>2. IsLabel(STM_express, label)
    BY <1>2 DEF Check_and_Refresh, PolicyInv
  <2>3. IsLabel(STM_express, label')
    BY <1>2, <2>1, <2>2, RefreshedIsLabel DEF Check_and_Refresh
  <2>4. passed' \in Seq(Modules(STM_express))
    BY <1>2 DEF Check_and_Refresh, PolicyInv
  <2>5. cleared' \in BOOLEAN
    BY <1>2 DEF Check_and_Refresh, PolicyInv
  <2> QED  BY <2>1, <2>3, <2>4, <2>5 DEF PolicyInv, IsLabel, Modules, CounterValues, HasLoop
<1>3. ASSUME NEW m \in Modules(STM_express), Refuse(m)
      PROVE  PolicyInv'
  BY <1>3 DEF Refuse, PolicyInv, Modules, HighZ
<1> QED  BY <1>1, <1>2, <1>3 DEF Next

\* PolicyTypeOK holds: whatever is entered as expression and however the data
\* run through the modules, the label of Check_and_Refresh fits its bits.
THEOREM PolicyTypeCorrect == Spec => []PolicyTypeOK
<1>1. Init => PolicyInv
  BY PolicyInvInitial
<1>2. PolicyInv /\ [Next]_vars => PolicyInv'
  BY PolicyInvInductive
<1>3. PolicyInv => PolicyTypeOK
  BY DEF PolicyInv, PolicyTypeOK, IsLabel
<1> QED  BY <1>1, <1>2, <1>3, PTL DEF Spec

-----------------------------------------------------------------------------
(* The loop.  The expressions it is proved for: the counter exists, and the *)
(* first module of the loop is at no other place of the expression, where   *)
(* data could pass it without being counted.                                *)
Counted(e) ==
  HasLoop(e) => /\ e.loop \notin {4, 8}
                /\ \A i \in DOMAIN e.mods : e.mods[i] = e.mods[e.open] => i = e.open

LoopHead == STM_express.mods[STM_express.open]
HeadPasses == {k \in DOMAIN passed : passed[k] = LoopHead}

\* The counter is the number of times the head was passed, up to the loop's.
LoopInv ==
  HasLoop(STM_express) =>
    /\ IsFiniteSet(HeadPasses)
    /\ Cardinality(HeadPasses) <= STM_express.loop
    /\ label # HighZ => label.loop = Cardinality(HeadPasses)

\* The head is let through only while an iteration is left, and is counted.
LEMMA HeadIsCounted ==
  ASSUME NEW e \in Expressions, Counted(e), HasLoop(e),
         NEW y, IsLabel(e, y), y.loop <= e.loop,
         Passing(e, e.mods[e.open], y) # {}
  PROVE  y.loop < e.loop /\ Refreshed(e, e.mods[e.open], y).loop = y.loop + 1
<1> DEFINE m == e.mods[e.open]
<1>1. /\ e.loop \in 1 .. 9 /\ e.loop < CounterValues(e)
      /\ e.open \in DOMAIN e.mods /\ y.loop \in 0 .. CounterValues(e) - 1
      /\ CounterValues(e) \in {1, 4, 8, 16}
  BY ExpressionFacts, CounterSizes DEF Counted, IsLabel
<1>2. get_mod_CheckingList(e, m) = ChecksAt(e, e.open)
  BY <1>1 DEF get_mod_CheckingList, Counted
<1>3. ChecksAt(e, e.open) =
        {Check(0, Front(e, e.open), "eq", 2),
         Check(Counter(e, e.loop - 1), {e.mods[e.close]}, "ge", 2)}
  <2>1. HasLoop(e) /\ ~(~HasLoop(e) \/ e.open < e.open) /\ e.open = e.open
    BY <1>1, ExpressionFacts
  <2>2. /\ ~(HasLoop(e) /\ e.open < e.open /\ e.open <= e.close)
        /\ ~(HasLoop(e) /\ e.open = e.close + 1 /\ e.open = Len(e.mods))
    BY ExpressionAssumption DEF HasLoop
  <2> QED  BY <2>1, <2>2 DEF ChecksAt
<1>4. Counter(e, e.loop - 1) = e.loop - 1
  BY <1>1, CounterFits
<1>5. \A c \in Passing(e, m, y) : c.refresh = 2 /\ y.loop < e.loop
  <2> SUFFICES ASSUME NEW c \in Passing(e, m, y)
               PROVE  c.refresh = 2 /\ y.loop < e.loop
    OBVIOUS
  <2>1. c \in ChecksAt(e, e.open) /\ Holds(c, y)
    BY <1>2 DEF Passing
  <2>2. CASE c = Check(0, Front(e, e.open), "eq", 2)
    BY <1>1, <2>1, <2>2 DEF Check, Holds
  <2>3. CASE c = Check(e.loop - 1, {e.mods[e.close]}, "ge", 2)
    BY <1>1, <2>1, <2>3 DEF Check, Holds
  <2> QED  BY <1>3, <1>4, <2>1, <2>2, <2>3
<1>6. y.loop < e.loop /\ \E c \in Passing(e, m, y) : c.refresh = 2
  BY <1>5
<1>7. Refreshed(e, m, y).loop = Counter(e, y.loop + 1)
  BY <1>6 DEF Refreshed
<1>8. Counter(e, y.loop + 1) = y.loop + 1
  BY <1>1, <1>6, CounterFits
<1> QED  BY <1>6, <1>7, <1>8

\* No other module is counted: its checks ask for refresh policy 1 or 4.
LEMMA OthersAreNotCounted ==
  ASSUME NEW e \in Expressions, Counted(e), HasLoop(e),
         NEW m \in Modules(e), m # e.mods[e.open], NEW y
  PROVE  Refreshed(e, m, y).loop = y.loop
<1>1. ASSUME NEW i \in DOMAIN e.mods, e.mods[i] = m, NEW c \in ChecksAt(e, i)
      PROVE  c.refresh # 2
  <2>1. i # e.open /\ i \in Nat /\ e.open \in Nat /\ e.close \in Nat
    BY <1>1, ExpressionFacts
  <2> QED  BY <1>1, <2>1 DEF ChecksAt, Check
<1>2. \A c \in Passing(e, m, y) : c.refresh # 2
  BY <1>1 DEF Passing, get_mod_CheckingList
<1> QED  BY <1>2 DEF Refreshed

LEMMA LoopInvInductive ==
  ASSUME \A e \in Expressions : Counted(e),
         PolicyInv, LoopInv, [Next]_vars
  PROVE  LoopInv'
<1>1. CASE UNCHANGED vars
  BY <1>1 DEF LoopInv, vars, HeadPasses, LoopHead
<1>2. ASSUME NEW m \in Modules(STM_express), Check_and_Refresh(m)
      PROVE  LoopInv'
  <2> SUFFICES ASSUME HasLoop(STM_express)
               PROVE  /\ IsFiniteSet(HeadPasses')
                      /\ Cardinality(HeadPasses') <= STM_express.loop
                      /\ label'.loop = Cardinality(HeadPasses')
    BY <1>2 DEF LoopInv, Check_and_Refresh
  <2>1. /\ STM_express \in Expressions /\ STM_express' = STM_express
        /\ IsLabel(STM_express, label) /\ Counted(STM_express)
        /\ passed \in Seq(Modules(STM_express)) /\ passed' = Append(passed, m)
        /\ Passing(STM_express, m, label) # {}
        /\ label' = Refreshed(STM_express, m, label)
    BY <1>2 DEF Check_and_Refresh, PolicyInv
  <2>2. /\ IsFiniteSet(HeadPasses) /\ label.loop = Cardinality(HeadPasses)
        /\ Cardinality(HeadPasses) <= STM_express.loop
    BY <1>2, <2>1, LabelIsNotHighZ DEF LoopInv
  <2>3. CASE m = LoopHead
    <3>1. label.loop < STM_express.loop /\ label'.loop = label.loop + 1
      BY <2>1, <2>2, <2>3, HeadIsCounted DEF LoopHead
    <3>2. HeadPasses' = HeadPasses \cup {Len(passed) + 1} /\ Len(passed) + 1 \notin HeadPasses
      BY <2>1, <2>3 DEF HeadPasses, LoopHead
    <3>3. /\ IsFiniteSet(HeadPasses')
          /\ Cardinality(HeadPasses') = Cardinality(HeadPasses) + 1
      BY <2>2, <3>2, FS_AddElement
    <3>4. label.loop \in Nat /\ STM_express.loop \in Nat
      BY <2>2, FS_CardinalityType, <2>1, ExpressionFacts
    <3> QED  BY <2>2, <3>1, <3>3, <3>4
  <2>4. CASE m # LoopHead
    <3>1. label'.loop = label.loop
      BY <2>1, <2>4, OthersAreNotCounted DEF LoopHead
    <3>2. HeadPasses' = HeadPasses
      BY <2>1, <2>4 DEF HeadPasses, LoopHead
    <3> QED  BY <2>2, <3>1, <3>2
  <2> QED  BY <2>3, <2>4
<1>3. ASSUME NEW m \in Modules(STM_express), Refuse(m)
      PROVE  LoopInv'
  BY <1>3 DEF Refuse, LoopInv, HeadPasses, LoopHead
<1> QED  BY <1>1, <1>2, <1>3 DEF Next

\* LoopIsBounded holds: no datum passes the first module of a loop more often
\* than the expression says, in whatever order it comes to the modules.
THEOREM LoopsAreBounded ==
  ASSUME \A e \in Expressions : Counted(e)
  PROVE  Spec => []LoopIsBounded
<1>1. Init => PolicyInv /\ LoopInv
  <2> SUFFICES ASSUME Init PROVE PolicyInv /\ LoopInv  OBVIOUS
  <2>1. STM_express.loop \in Nat
    BY ExpressionFacts DEF Init
  <2>2. PolicyInv
    BY PolicyInvInitial
  <2>3. HeadPasses = {} /\ label.loop = 0
    BY DEF Init, HeadPasses
  <2> QED  BY <2>1, <2>2, <2>3, FS_EmptySet DEF LoopInv
<1>2. PolicyInv /\ LoopInv /\ [Next]_vars => PolicyInv' /\ LoopInv'
  BY PolicyInvInductive, LoopInvInductive
<1>3. LoopInv => LoopIsBounded
  BY DEF LoopInv, LoopIsBounded, HeadPasses, LoopHead
<1> QED  BY <1>1, <1>2, <1>3, PTL DEF Spec

-----------------------------------------------------------------------------
(* Matched, whose recursion goes over the places of a sequence.             *)

\* What holds of 0, and of n + 1 if of n, holds of all numbers.
LEMMA Induction ==
  ASSUME NEW S, 0 \in S, \A n \in Nat : n \in S => n + 1 \in S
  PROVE  Nat \subseteq S
<1> SUFFICES ASSUME NEW n \in Nat, n \notin S PROVE FALSE
  OBVIOUS
<1> DEFINE T == {m \in Nat : m \notin S}
           R == OpToRel(<, Nat)
<1>1. IsWellFoundedOn(R, Nat)
  BY NatLessThanWellFounded
<1>2. \A x, y : <<x, y>> \in R <=> x \in Nat /\ y \in Nat /\ x < y
  BY DEF OpToRel
<1> HIDE DEF R
<1>3. PICK x \in T : \A y \in T : <<y, x>> \notin R
  BY <1>1, WFMin
<1>4. x # 0 /\ x - 1 \in Nat
  BY <1>3
<1>5. x - 1 \in S
  <2>1. <<x - 1, x>> \in R
    BY <1>2, <1>4
  <2> QED  BY <1>3, <1>4, <2>1
<1> QED  BY <1>3, <1>4, <1>5

\* Going through t, how many elements of s were found up to each place.
Found(s, n, x) == IF n < Len(s) /\ s[n + 1] = x THEN n + 1 ELSE n
Counts(s, t, n, g) ==
  /\ g \in [0 .. n -> Nat] /\ g[0] = 0
  /\ \A k \in 1 .. n : g[k] = Found(s, g[k - 1], t[k])

\* The recursion of Matched has a solution.
LEMMA CountsExist ==
  ASSUME NEW s, NEW t, NEW n \in Nat, Len(s) \in Nat
  PROVE  \E g : Counts(s, t, n, g)
<1> DEFINE S == {m \in Nat : \E g : Counts(s, t, m, g)}
<1>1. 0 \in S
  <2>1. Counts(s, t, 0, [k \in 0 .. 0 |-> 0])
    BY DEF Counts
  <2> QED  BY <2>1
<1>2. ASSUME NEW m \in Nat, m \in S PROVE m + 1 \in S
  <2>1. PICK g : Counts(s, t, m, g)
    BY <1>2
  <2> DEFINE h == [k \in 0 .. m + 1 |-> IF k = m + 1 THEN Found(s, g[m], t[m + 1]) ELSE g[k]]
  <2>2. Found(s, g[m], t[m + 1]) \in Nat
    BY <2>1 DEF Counts, Found
  <2>3. h \in [0 .. m + 1 -> Nat] /\ h[0] = 0
    BY <2>1, <2>2 DEF Counts
  <2>4. \A k \in 1 .. m + 1 : h[k] = Found(s, h[k - 1], t[k])
    BY <2>1 DEF Counts
  <2>5. Counts(s, t, m + 1, h)
    BY <2>3, <2>4 DEF Counts
  <2> QED  BY <2>5
<1> HIDE DEF S
<1>3. Nat \subseteq S
  BY <1>1, <1>2, Induction
<1> QED  BY <1>3 DEF S

\* And one only.
LEMMA CountsAgree ==
  ASSUME NEW s, NEW t, NEW u, NEW m \in Nat, NEW n \in Nat, NEW g, NEW h,
         Counts(s, t, m, g), Counts(s, u, n, h),
         m <= n, \A k \in 1 .. m : t[k] = u[k]
  PROVE  g[m] = h[m]
<1> DEFINE S == {k \in Nat : k <= m => g[k] = h[k]}
<1>1. 0 \in S
  BY DEF Counts
<1>2. ASSUME NEW k \in Nat, k \in S PROVE k + 1 \in S
  BY <1>2 DEF Counts
<1> HIDE DEF S
<1>3. Nat \subseteq S
  BY <1>1, <1>2, Induction
<1> QED  BY <1>3 DEF S

LEMMA MatchedCounts ==
  ASSUME NEW s, NEW t, NEW g, Len(s) \in Nat, Len(t) \in Nat, Counts(s, t, Len(t), g)
  PROVE  Matched(s, t) = g[Len(t)]
<1> DEFINE f == CHOOSE f : f = [k \in 0 .. Len(t) |->
                  IF k = 0 THEN 0
                  ELSE IF f[k - 1] < Len(s) /\ s[f[k - 1] + 1] = t[k]
                       THEN f[k - 1] + 1 ELSE f[k - 1]]
<1>1. Matched(s, t) = f[Len(t)]
  BY DEF Matched
<1>2. g = [k \in 0 .. Len(t) |->
                  IF k = 0 THEN 0
                  ELSE IF g[k - 1] < Len(s) /\ s[g[k - 1] + 1] = t[k]
                       THEN g[k - 1] + 1 ELSE g[k - 1]]
  BY DEF Counts, Found
<1>3. f = [k \in 0 .. Len(t) |->
                  IF k = 0 THEN 0
                  ELSE IF f[k - 1] < Len(s) /\ s[f[k - 1] + 1] = t[k]
                       THEN f[k - 1] + 1 ELSE f[k - 1]]
  BY <1>2
<1> HIDE DEF f
<1>4. f[0] = 0 /\ \A k \in 1 .. Len(t) : f[k] = Found(s, f[k - 1], t[k])
  BY <1>3 DEF Found
<1>5. \A k \in 0 .. Len(t) : f[k] = g[k]
  <2> DEFINE S == {k \in Nat : k <= Len(t) => f[k] = g[k]}
  <2>1. 0 \in S
    BY <1>4 DEF Counts
  <2>2. ASSUME NEW k \in Nat, k \in S PROVE k + 1 \in S
    BY <1>4, <2>2 DEF Counts
  <2> HIDE DEF S
  <2>3. Nat \subseteq S
    BY <2>1, <2>2, Induction
  <2> QED  BY <2>3 DEF S
<1> QED  BY <1>1, <1>5

\* One more element of t, and s cut off.
LEMMA MatchedSteps ==
  ASSUME NEW T, NEW s \in Seq(T), NEW t \in Seq(T)
  PROVE  /\ Matched(s, t) \in 0 .. Len(s)
         /\ \A x \in T : Matched(s, Append(t, x)) = Found(s, Matched(s, t), x)
         /\ \A j \in 0 .. Len(s) :
              Matched(SubSeq(s, 1, j), t) = j <=> j <= Matched(s, t)
         /\ Matched(s, <<>>) = 0
<1>0. Len(s) \in Nat /\ Len(t) \in Nat
  OBVIOUS
<1>1. PICK g : Counts(s, t, Len(t), g)
  BY <1>0, CountsExist
<1>2. Matched(s, t) = g[Len(t)]
  BY <1>0, <1>1, MatchedCounts
<1>3. \A k \in 0 .. Len(t) : g[k] \in 0 .. Len(s)
  <2> DEFINE S == {k \in Nat : k <= Len(t) => g[k] \in 0 .. Len(s)}
  <2>1. 0 \in S
    BY <1>0, <1>1 DEF Counts
  <2>2. ASSUME NEW k \in Nat, k \in S PROVE k + 1 \in S
    <3> SUFFICES ASSUME k + 1 <= Len(t) PROVE g[k + 1] \in 0 .. Len(s)
      OBVIOUS
    <3>1. g[k] \in 0 .. Len(s)
      BY <1>0, <2>2
    <3>2. g[k + 1] = Found(s, g[k], t[k + 1])
      BY <1>0, <1>1 DEF Counts
    <3> QED  BY <1>0, <3>1, <3>2 DEF Found
  <2> HIDE DEF S
  <2>3. Nat \subseteq S
    BY <2>1, <2>2, Induction
  <2> QED  BY <2>3, <1>0 DEF S
<1>4. Matched(s, t) \in 0 .. Len(s)
  BY <1>0, <1>2, <1>3
<1>5. ASSUME NEW x \in T
      PROVE  Matched(s, Append(t, x)) = Found(s, Matched(s, t), x)
  <2> DEFINE u == Append(t, x)
             n == Len(u)
  <2>1. /\ n = Len(t) + 1 /\ n \in Nat /\ u[n] = x
        /\ \A k \in 1 .. Len(t) : t[k] = u[k]
    OBVIOUS
  <2> HIDE DEF u
  <2>2. PICK h : Counts(s, u, n, h)
    BY <1>0, <2>1, CountsExist
  <2>3. Matched(s, u) = h[n]
    BY <1>0, <2>1, <2>2, MatchedCounts
  <2> HIDE DEF n
  <2>4. g[Len(t)] = h[Len(t)]
    BY <1>0, <1>1, <2>1, <2>2, CountsAgree
  <2>5. h[n] = Found(s, h[Len(t)], x) /\ h[Len(t)] = g[Len(t)]
    BY <1>0, <2>1, <2>2, <2>4 DEF Counts
  <2> QED  BY <1>2, <2>3, <2>5 DEF u
<1>6. ASSUME NEW j \in 0 .. Len(s)
      PROVE  Matched(SubSeq(s, 1, j), t) = j <=> j <= Matched(s, t)
  <2> DEFINE r == SubSeq(s, 1, j)
             h == [k \in 0 .. Len(t) |-> IF g[k] < j THEN g[k] ELSE j]
  <2>1. Len(r) = j /\ \A i \in 1 .. j : r[i] = s[i]
    BY <1>0
  <2>2. h \in [0 .. Len(t) -> Nat] /\ h[0] = 0
    BY <1>0, <1>1, <1>3 DEF Counts
  <2>3. ASSUME NEW k \in 1 .. Len(t) PROVE h[k] = Found(r, h[k - 1], t[k])
    <3>1. /\ g[k] = Found(s, g[k - 1], t[k])
          /\ g[k - 1] \in 0 .. Len(s) /\ g[k] \in 0 .. Len(s)
      BY <1>0, <1>1, <1>3 DEF Counts
    <3>2. /\ h[k] = IF g[k] < j THEN g[k] ELSE j
          /\ h[k - 1] = IF g[k - 1] < j THEN g[k - 1] ELSE j
      BY <1>0
    <3> HIDE DEF r, h
    <3> QED  BY <1>0, <2>1, <3>1, <3>2 DEF Found
  <2>4. Counts(r, t, Len(t), h)
    BY <2>2, <2>3 DEF Counts
  <2> HIDE DEF r
  <2>5. Matched(r, t) = h[Len(t)]
    <3> HIDE DEF h
    <3> QED  BY <1>0, <2>1, <2>4, MatchedCounts
  <2>6. Matched(r, t) = IF g[Len(t)] < j THEN g[Len(t)] ELSE j
    BY <1>0, <2>5
  <2> QED  BY <1>2, <1>4, <2>6 DEF r
<1>7. Matched(s, <<>>) = 0
  <2>1. PICK h : Counts(s, <<>>, 0, h)
    BY <1>0, CountsExist
  <2>2. Matched(s, <<>>) = h[0]
    BY <1>0, <2>1, MatchedCounts
  <2> QED  BY <2>1, <2>2 DEF Counts
<1> QED  BY <1>4, <1>5, <1>6, <1>7

-----------------------------------------------------------------------------
(* The order.  The expressions it is proved for have their modules in       *)
(* alphabetical order: Le compares the bits of a label as numbers.          *)
Ascending(e) ==
  \A i, j \in DOMAIN e.mods : i < j => e.mods[i] < e.mods[j]

LEMMA AscendingFacts ==
  ASSUME NEW e \in Expressions, Ascending(e)
  PROVE  /\ \A i, j \in DOMAIN e.mods : e.mods[i] = e.mods[j] => i = j
         /\ \A i, j \in DOMAIN e.mods : e.mods[i] <= e.mods[j] => i <= j
         /\ \A i \in DOMAIN e.mods : get_mod_CheckingList(e, e.mods[i]) = ChecksAt(e, i)
<1>1. e.mods \in Seq(1 .. 5) /\ DOMAIN e.mods = 1 .. Len(e.mods) /\ Len(e.mods) \in Nat
  BY ExpressionFacts
<1>2. \A i \in DOMAIN e.mods : i \in Nat /\ e.mods[i] \in 1 .. 5
  BY <1>1
<1>3. \A i, j \in DOMAIN e.mods : e.mods[i] <= e.mods[j] => i <= j
  BY <1>2 DEF Ascending
<1>4. \A i, j \in DOMAIN e.mods : e.mods[i] = e.mods[j] => i = j
  BY <1>2 DEF Ascending
<1>5. ASSUME NEW i \in DOMAIN e.mods
      PROVE  get_mod_CheckingList(e, e.mods[i]) = ChecksAt(e, i)
  <2>1. {j \in DOMAIN e.mods : e.mods[j] = e.mods[i]} = {i}
    BY <1>4
  <2> QED  BY <2>1 DEF get_mod_CheckingList
<1> QED  BY <1>3, <1>4, <1>5

\* Before a module is passed the label has a bit at or behind its predecessor.
LEMMA FrontWasPassed ==
  ASSUME NEW e \in Expressions, Ascending(e), NEW y, IsLabel(e, y),
         NEW i \in DOMAIN e.mods, Passing(e, e.mods[i], y) # {}
  PROVE  i = 1 \/ \E j \in DOMAIN e.mods : i - 1 <= j /\ e.mods[j] \in y.mod
<1>1. PICK c \in ChecksAt(e, i) : Holds(c, y)
  BY AscendingFacts DEF Passing
<1>2. i \in Nat /\ e.open \in Nat /\ e.close \in Nat /\ DOMAIN e.mods = 1 .. Len(e.mods)
      /\ Len(e.mods) \in Nat
  BY ExpressionFacts
<1>3. c.front = Front(e, i) \/ (HasLoop(e) /\ i = e.open /\ c.front = {e.mods[e.close]})
  BY <1>1, <1>2 DEF ChecksAt, Check
<1> SUFFICES ASSUME i # 1
             PROVE  \E j \in DOMAIN e.mods : i - 1 <= j /\ e.mods[j] \in y.mod
  OBVIOUS
<1>4. PICK f \in DOMAIN e.mods : e.mods[f] \in c.front /\ i - 1 <= f
  <2>1. CASE c.front = Front(e, i)
    BY <1>2, <2>1 DEF Front
  <2>2. CASE HasLoop(e) /\ i = e.open /\ c.front = {e.mods[e.close]}
    <3>1. e.close \in DOMAIN e.mods /\ e.open <= e.close
      BY <2>2, <1>2, ExpressionAssumption DEF HasLoop
    <3> QED  BY <1>2, <2>2, <3>1
  <2> QED  BY <1>3, <2>1, <2>2
<1>5. PICK m \in y.mod : e.mods[f] <= m
  BY <1>1, <1>4 DEF Holds
<1>6. PICK j \in DOMAIN e.mods : m = e.mods[j]
  BY <1>5 DEF IsLabel, Modules
<1>7. f <= j
  BY <1>5, <1>6, AscendingFacts
<1> QED  BY <1>2, <1>4, <1>5, <1>6, <1>7

\* What has been found of the expression reaches every module of the label,
\* and reached the predecessor of every module when that was passed.
OrderInv ==
  LET s == STM_express.mods IN
  /\ \A i \in DOMAIN s : s[i] \in label.mod => i <= Matched(s, passed)
  /\ \A k \in DOMAIN passed, i \in DOMAIN s :
       passed[k] = s[i] => i - 1 <= Matched(s, SubSeq(passed, 1, k - 1))

LEMMA OrderInvInductive ==
  ASSUME \A e \in Expressions : Ascending(e),
         PolicyInv, OrderInv, [Next]_vars
  PROVE  OrderInv'
<1>1. CASE UNCHANGED vars
  BY <1>1 DEF OrderInv, vars
<1>2. ASSUME NEW m \in Modules(STM_express), Check_and_Refresh(m)
      PROVE  OrderInv'
  <2> DEFINE e == STM_express
             s == STM_express.mods
             n == Matched(s, passed)
  <2>1. /\ e \in Expressions /\ STM_express' = e /\ Ascending(e) /\ IsLabel(e, label)
        /\ Passing(e, m, label) # {}
        /\ label' = Refreshed(e, m, label)
        /\ passed' = Append(passed, m)
    BY <1>2 DEF Check_and_Refresh, PolicyInv
  <2>2. /\ s \in Seq(1 .. 5) /\ passed \in Seq(1 .. 5) /\ m \in 1 .. 5
        /\ DOMAIN s = 1 .. Len(s) /\ Len(s) \in Nat
    BY <2>1, ExpressionFacts DEF PolicyInv, Modules
  <2>3. PICK i \in DOMAIN s : m = s[i]
    BY DEF Modules
  <2>4. /\ n \in 0 .. Len(s) /\ Matched(s, passed') = Found(s, n, m)
    BY <2>1, <2>2, MatchedSteps
  <2>5. i - 1 <= n
    <3>1. i = 1 \/ \E j \in DOMAIN s : i - 1 <= j /\ s[j] \in label.mod
      BY <2>1, <2>3, FrontWasPassed
    <3>2. \A j \in DOMAIN s : s[j] \in label.mod => j <= n
      BY DEF OrderInv
    <3> QED  BY <2>2, <2>4, <3>1, <3>2
  <2>6. i <= Found(s, n, m) /\ n <= Found(s, n, m)
    BY <2>2, <2>3, <2>4, <2>5 DEF Found
  <2>7. \A j \in DOMAIN s : s[j] \in label'.mod => j <= Matched(s, passed')
    <3> SUFFICES ASSUME NEW j \in DOMAIN s, s[j] \in label'.mod
                 PROVE  j <= Found(s, n, m)
      BY <2>4
    <3>1. s[j] = m \/ s[j] \in label.mod
      BY <2>1 DEF Refreshed
    <3>2. CASE s[j] = m
      BY <2>1, <2>3, <2>6, <3>2, AscendingFacts
    <3>3. CASE s[j] \in label.mod
      <4>1. j <= n
        BY <3>3 DEF OrderInv
      <4> QED  BY <2>2, <2>4, <2>6, <4>1 DEF Found
    <3> QED  BY <3>1, <3>2, <3>3
  <2>8. ASSUME NEW k \in DOMAIN passed', NEW j \in DOMAIN s, passed'[k] = s[j]
        PROVE  j - 1 <= Matched(s, SubSeq(passed', 1, k - 1))
    <3>1. CASE k \in DOMAIN passed
      <4>1. passed'[k] = passed[k] /\ SubSeq(passed', 1, k - 1) = SubSeq(passed, 1, k - 1)
        BY <2>1, <2>2, <3>1
      <4> QED  BY <2>8, <3>1, <4>1 DEF OrderInv
    <3>2. CASE k = Len(passed) + 1
      <4>1. passed'[k] = m /\ SubSeq(passed', 1, k - 1) = passed
        BY <2>1, <2>2, <3>2
      <4>2. i = j
        BY <2>1, <2>3, <2>8, <4>1, AscendingFacts
      <4> QED  BY <2>5, <4>1, <4>2
    <3> QED  BY <2>1, <2>2, <3>1, <3>2
  <2> QED  BY <2>1, <2>7, <2>8 DEF OrderInv
<1>3. ASSUME NEW m \in Modules(STM_express), Refuse(m)
      PROVE  OrderInv'
  BY <1>3 DEF Refuse, OrderInv, HighZ
<1> QED  BY <1>1, <1>2, <1>3 DEF Next

\* PassedInOrder holds for every set of expressions in alphabetical order: the
\* check "mod le" of one number against another, and the bits forgotten in a
\* loop, never let a module be passed before those in front of it were.
THEOREM OrderIsKept ==
  ASSUME \A e \in Expressions : Ascending(e)
  PROVE  Spec => []PassedInOrder
<1>1. Init => PolicyInv /\ OrderInv
  <2> SUFFICES ASSUME Init PROVE OrderInv
    BY PolicyInvInitial
  <2> QED  BY DEF Init, OrderInv
<1>2. PolicyInv /\ OrderInv /\ [Next]_vars => PolicyInv' /\ OrderInv'
  BY PolicyInvInductive, OrderInvInductive
<1>3. PolicyInv /\ OrderInv => PassedInOrder
  <2> SUFFICES ASSUME PolicyInv, OrderInv,
                      NEW k \in DOMAIN passed, NEW i \in DOMAIN STM_express.mods,
                      passed[k] = STM_express.mods[i]
               PROVE  Matched(SubSeq(STM_express.mods, 1, i - 1), SubSeq(passed, 1, k - 1)) = i - 1
    BY DEF PassedInOrder
  <2> DEFINE s == STM_express.mods
             t == SubSeq(passed, 1, k - 1)
  <2>1. s \in Seq(1 .. 5) /\ passed \in Seq(1 .. 5)
    BY ExpressionFacts DEF PolicyInv, Modules
  <2>2. t \in Seq(1 .. 5) /\ i - 1 \in 0 .. Len(s)
    BY <2>1
  <2>3. i - 1 <= Matched(s, t)
    BY DEF OrderInv
  <2> HIDE DEF s, t
  <2>4. Matched(SubSeq(s, 1, i - 1), t) = i - 1 <=> i - 1 <= Matched(s, t)
    BY <2>1, <2>2, MatchedSteps
  <2> QED  BY <2>3, <2>4 DEF s, t
<1> QED  BY <1>1, <1>2, <1>3, PTL DEF Spec

-----------------------------------------------------------------------------
(* The execution: the modules in order, the loop repeated.                  *)

Width(e) == e.close - e.open + 1

\* Where the j-th module is in the k-th iteration.
Place(e, k, j) == (k - 1) * Width(e) + j

\* At most five modules fit the letters.
LEMMA LoopSizes ==
  ASSUME NEW e \in Expressions, Ascending(e), HasLoop(e)
  PROVE  /\ e.mods \in Seq(1 .. 5) /\ Len(e.mods) \in 1 .. 5
         /\ e.open \in 1 .. e.close /\ e.close \in 1 .. Len(e.mods) /\ e.loop \in 1 .. 9
         /\ e.open \in Nat /\ e.close \in Nat
         /\ Width(e) \in 1 .. 5
<1>1. /\ e.mods \in Seq(1 .. 5) /\ e.mods # <<>>
      /\ e.open \in 1 .. e.close /\ e.close \in 1 .. Len(e.mods) /\ e.loop \in 1 .. 9
  BY ExpressionAssumption DEF HasLoop
<1>2. DOMAIN e.mods = 1 .. Len(e.mods) /\ Len(e.mods) \in Nat /\ e.close \in Nat /\ e.open \in Nat
  BY <1>1
<1>3. \A i \in 1 .. Len(e.mods) : e.mods[i] \in 1 .. 5
  BY <1>1
<1>4. Len(e.mods) < 6
  <2> SUFFICES ASSUME Len(e.mods) >= 6 PROVE FALSE
    BY <1>2
  <2>1. \A i \in 1 .. 6 : i \in DOMAIN e.mods /\ e.mods[i] \in 1 .. 5
    BY <1>2, <1>3
  <2>2. /\ e.mods[1] < e.mods[2] /\ e.mods[2] < e.mods[3] /\ e.mods[3] < e.mods[4]
        /\ e.mods[4] < e.mods[5] /\ e.mods[5] < e.mods[6]
    BY <2>1 DEF Ascending
  <2>3. /\ e.mods[1] \in 1 .. 5 /\ e.mods[2] \in 1 .. 5 /\ e.mods[3] \in 1 .. 5
        /\ e.mods[4] \in 1 .. 5 /\ e.mods[5] \in 1 .. 5 /\ e.mods[6] \in 1 .. 5
    BY <2>1
  <2> QED  BY <2>2, <2>3
<1> DEFINE n == Len(e.mods)
           o == e.open
           c == e.close
<1>5. n \in Nat /\ n < 6 /\ o \in Nat /\ c \in Nat /\ o \in 1 .. c /\ c \in 1 .. n
  BY <1>1, <1>2, <1>4
<1> HIDE DEF n, o, c
<1>6. n \in 1 .. 5 /\ c - o + 1 \in 1 .. 5
  BY <1>5
<1>7. Len(e.mods) \in 1 .. 5 /\ Width(e) \in 1 .. 5
  BY <1>6 DEF n, o, c, Width
<1> QED  BY <1>1, <1>2, <1>7

\* Division by a width, and the places where its multiples are.
LEMMA Division ==
  ASSUME NEW w \in 1 .. 5, NEW x \in Nat
  PROVE  \E q \in Nat, r \in 0 .. w - 1 : x = q * w + r
<1> DEFINE q == x \div w
           r == x % w
<1>1. q \in Int /\ r \in 0 .. w - 1
  OBVIOUS
<1>2. x = w * q + r
  OBVIOUS
<1> HIDE DEF q, r
<1>3. q \in Nat
  BY <1>1, <1>2
<1>4. w * q = q * w
  BY <1>1
<1> QED  BY <1>1, <1>2, <1>3, <1>4

LEMMA Remainder ==
  ASSUME NEW w \in 1 .. 5, NEW k \in Nat, NEW r \in 0 .. w - 1
  PROVE  (k * w + r) % w = r /\ k * w + r \in Nat
OBVIOUS

LEMMA Multiples ==
  ASSUME NEW w \in 1 .. 5, NEW k \in 1 .. 9, NEW l \in 1 .. 9
  PROVE  /\ k * w \in Nat /\ (k - 1) * w \in Nat /\ (k - 1) * w = k * w - w
         /\ k <= l => k * w <= l * w
         /\ k < l => k * w + w <= l * w
OBVIOUS

\* A sequence repeated.
LEMMA Repeated ==
  ASSUME NEW T, NEW b \in Seq(T), NEW w \in 1 .. 5, NEW l \in 1 .. 9, Len(b) = w
  PROVE  /\ Repeat(b, l) \in Seq(T) /\ Len(Repeat(b, l)) = l * w
         /\ \A k \in 1 .. l, i \in 1 .. w : Repeat(b, l)[(k - 1) * w + i] = b[i]
<1>1. l * w \in Nat /\ \A k \in 1 .. l : /\ (k - 1) * w \in Nat /\ k * w <= l * w
                                         /\ (k - 1) * w = k * w - w
  BY Multiples
<1>2. Repeat(b, l) = [i \in 1 .. l * w |-> b[((i - 1) % w) + 1]]
  BY DEF Repeat
<1>3. \A i \in 1 .. l * w : ((i - 1) % w) + 1 \in 1 .. w
  <2> TAKE i \in 1 .. l * w
  <2>1. i - 1 \in Nat
    BY <1>1
  <2> QED  BY <2>1
<1>4. \A i \in 1 .. l * w : b[((i - 1) % w) + 1] \in T
  BY <1>3
<1>5. Repeat(b, l) \in Seq(T) /\ Len(Repeat(b, l)) = l * w
  BY <1>1, <1>2, <1>4
<1>6. ASSUME NEW k \in 1 .. l, NEW i \in 1 .. w
      PROVE  Repeat(b, l)[(k - 1) * w + i] = b[i]
  <2> DEFINE m == (k - 1) * w
  <2>1. m \in Nat /\ m + i \in 1 .. l * w
    BY <1>1
  <2>2. ((k - 1) * w + (i - 1)) % w = i - 1
    <3>1. k - 1 \in Nat /\ i - 1 \in 0 .. w - 1
      OBVIOUS
    <3> QED  BY <3>1, Remainder
  <2>3. (m + (i - 1)) % w = i - 1
    BY <2>2
  <2> HIDE DEF m
  <2>4. Repeat(b, l)[m + i] = b[(((m + i) - 1) % w) + 1]
    BY <1>2, <2>1
  <2>5. (m + i) - 1 = m + (i - 1)
    BY <2>1
  <2>6. Repeat(b, l)[m + i] = b[(i - 1) + 1]
    BY <2>3, <2>4, <2>5
  <2> QED  BY <2>6 DEF m
<1> QED  BY <1>5, <1>6

\* A sequence cut in three, the middle repeated.
Unroll(s, o, c, l) ==
  SubSeq(s, 1, o - 1) \o Repeat(SubSeq(s, o, c), l) \o SubSeq(s, c + 1, Len(s))

IsUnrolled(s, o, c, l, w, x, T) ==
  /\ x \in Seq(T) /\ Len(x) = l * w + Len(s) - w
  /\ \A i \in 1 .. o - 1 : x[i] = s[i]
  /\ \A k \in 1 .. l, j \in o .. c : x[(k - 1) * w + j] = s[j]
  /\ \A i \in c + 1 .. Len(s) : x[l * w + i - w] = s[i]

LEMMA Unrolled ==
  ASSUME NEW T, NEW s \in Seq(T), NEW o \in Nat, NEW c \in Nat, NEW l \in 1 .. 9, NEW w \in 1 .. 5,
         w = c - o + 1, 1 <= o, o <= c, c <= Len(s)
  PROVE  IsUnrolled(s, o, c, l, w, Unroll(s, o, c, l), T)
<1> DEFINE a == SubSeq(s, 1, o - 1)
           b == SubSeq(s, o, c)
           r == Repeat(b, l)
           z == SubSeq(s, c + 1, Len(s))
           ar == a \o r
           x == Unroll(s, o, c, l)
<1>0. /\ Len(s) \in Nat /\ \A i \in 1 .. Len(s) : s[i] \in T
      /\ l * w \in Nat
      /\ \A k \in 1 .. l : (k - 1) * w \in Nat /\ k * w <= l * w /\ (k - 1) * w = k * w - w
  BY Multiples
<1>1. /\ a \in Seq(T) /\ Len(a) = o - 1
      /\ \A i \in 1 .. o - 1 : a[i] = s[i]
  <2>1. 1 \in Int /\ o - 1 \in Int /\ \A i \in 1 .. o - 1 : s[i] \in T
    BY <1>0
  <2>2. /\ a \in Seq(T) /\ Len(a) = IF 1 <= o - 1 THEN o - 1 - 1 + 1 ELSE 0
        /\ \A i \in 1 .. o - 1 - 1 + 1 : a[i] = s[1 + i - 1]
    BY <2>1, SubSeqProperties
  <2> HIDE DEF a
  <2> QED  BY <2>2
<1>2. b \in Seq(T) /\ Len(b) = w
  BY <1>0, SubSeqProperties
<1>3. \A i \in 1 .. w : b[i] = s[o + i - 1]
  <2>1. \A i \in 1 .. c - o + 1 : b[i] = s[o + i - 1]
    BY <1>0, SubSeqProperties
  <2> QED  BY <2>1
<1>4. z \in Seq(T) /\ Len(z) = Len(s) - c
  BY <1>0, SubSeqProperties
<1>5. \A i \in 1 .. Len(s) - c : z[i] = s[c + i]
  <2>1. \A i \in 1 .. Len(s) - (c + 1) + 1 : z[i] = s[(c + 1) + i - 1]
    BY <1>0, SubSeqProperties
  <2> QED  BY <1>0, <2>1
<1> HIDE DEF a, b, z
<1>6. /\ r \in Seq(T) /\ Len(r) = l * w
      /\ \A k \in 1 .. l, i \in 1 .. w : r[(k - 1) * w + i] = b[i]
  BY <1>2, Repeated
<1> HIDE DEF r
<1>7. ar \in Seq(T) /\ Len(ar) = o - 1 + l * w
  BY <1>1, <1>6, ConcatProperties
<1>8. /\ \A i \in 1 .. o - 1 : ar[i] = a[i]
      /\ \A i \in 1 .. l * w : ar[o - 1 + i] = r[i]
  <2>1. \A i \in 1 .. Len(a) + Len(r) : ar[i] = IF i <= Len(a) THEN a[i] ELSE r[i - Len(a)]
    BY <1>1, <1>6, ConcatProperties
  <2>2. \A i \in 1 .. o - 1 : ar[i] = a[i]
    BY <1>0, <1>1, <1>6, <2>1
  <2>3. ASSUME NEW i \in 1 .. l * w PROVE ar[o - 1 + i] = r[i]
    <3> DEFINE y == o - 1 + i
    <3>1. y \in 1 .. Len(a) + Len(r) /\ ~(y <= Len(a)) /\ y - Len(a) = i
      BY <1>0, <1>1, <1>6
    <3> HIDE DEF y
    <3>2. ar[y] = r[i]
      BY <2>1, <3>1
    <3> QED  BY <3>2 DEF y
  <2> QED  BY <2>2, <2>3
<1> HIDE DEF ar
<1>9. /\ x = ar \o z
      /\ x \in Seq(T) /\ Len(x) = Len(ar) + Len(z)
  BY <1>4, <1>7, ConcatProperties DEF Unroll, ar, r, a, b, z
<1> HIDE DEF x
<1>10. \A i \in 1 .. Len(ar) + Len(z) : x[i] = IF i <= Len(ar) THEN ar[i] ELSE z[i - Len(ar)]
  BY <1>4, <1>7, <1>9, ConcatProperties
<1>11. Len(x) = l * w + Len(s) - w
  <2> DEFINE y == l * w
  <2>1. y \in Nat /\ Len(ar) = o - 1 + y
    BY <1>0, <1>7
  <2> HIDE DEF y
  <2>2. Len(s) \in Nat /\ Len(z) = Len(s) - c /\ Len(x) = Len(ar) + Len(z)
    BY <1>0, <1>4, <1>9
  <2>3. Len(x) = y + Len(s) - w
    BY <2>1, <2>2
  <2> QED  BY <2>3 DEF y
<1>12. ASSUME NEW i \in 1 .. o - 1 PROVE x[i] = s[i]
  <2>1. i \in 1 .. Len(ar) + Len(z) /\ i <= Len(ar)
    BY <1>0, <1>4, <1>7
  <2> QED  BY <1>1, <1>8, <1>10, <2>1
<1>13. ASSUME NEW k \in 1 .. l, NEW j \in o .. c PROVE x[(k - 1) * w + j] = s[j]
  <2> DEFINE m == (k - 1) * w
             i == j - o + 1
  <2>1. m \in Nat /\ m + w <= l * w
    BY <1>0
  <2>2. i \in 1 .. w /\ o + i - 1 = j
    OBVIOUS
  <2>3. r[m + i] = b[i]
    BY <1>6, <2>2
  <2> HIDE DEF m
  <2>4. /\ m + i \in 1 .. l * w /\ o - 1 + (m + i) = m + j
        /\ m + j \in 1 .. Len(ar) + Len(z) /\ m + j <= Len(ar)
    BY <1>0, <1>4, <1>7, <2>1, <2>2
  <2>5. x[m + j] = ar[m + j] /\ ar[o - 1 + (m + i)] = r[m + i]
    BY <1>8, <1>10, <2>4
  <2> QED  BY <1>3, <2>2, <2>3, <2>4, <2>5 DEF m
<1>14. ASSUME NEW i \in c + 1 .. Len(s) PROVE x[l * w + i - w] = s[i]
  <2> DEFINE y == l * w + i - w
  <2>1. /\ y \in 1 .. Len(ar) + Len(z) /\ ~(y <= Len(ar)) /\ y - Len(ar) = i - c
        /\ i - c \in 1 .. Len(s) - c /\ c + (i - c) = i
    BY <1>0, <1>4, <1>7
  <2> HIDE DEF y
  <2>2. x[y] = z[i - c] /\ z[i - c] = s[c + (i - c)]
    BY <1>5, <1>10, <2>1
  <2> QED  BY <2>1, <2>2 DEF y
<1> QED  BY <1>9, <1>11, <1>12, <1>13, <1>14 DEF x, IsUnrolled

\* What Execution is made of.
LEMMA ExecutionOf ==
  ASSUME NEW e \in Expressions, Ascending(e), HasLoop(e)
  PROVE  /\ Execution(e) \in Seq(1 .. 5)
         /\ Len(Execution(e)) = e.loop * Width(e) + Len(e.mods) - Width(e)
         /\ \A i \in 1 .. e.open - 1 : Execution(e)[i] = e.mods[i]
         /\ \A k \in 1 .. e.loop, j \in e.open .. e.close :
              Execution(e)[Place(e, k, j)] = e.mods[j]
         /\ \A i \in e.close + 1 .. Len(e.mods) :
              Execution(e)[e.loop * Width(e) + i - Width(e)] = e.mods[i]
<1>1. /\ e.mods \in Seq(1 .. 5) /\ Len(e.mods) \in 1 .. 5
      /\ e.open \in 1 .. e.close /\ e.close \in 1 .. Len(e.mods) /\ e.loop \in 1 .. 9
      /\ e.open \in Nat /\ e.close \in Nat /\ Width(e) \in 1 .. 5
      /\ Width(e) = e.close - e.open + 1
  BY LoopSizes DEF Width
<1>2. Execution(e) = Unroll(e.mods, e.open, e.close, e.loop)
  BY DEF Execution, Unroll
<1>3. LET s == e.mods  o == e.open  c == e.close  l == e.loop  w == Width(e)
      IN  /\ s \in Seq(1 .. 5) /\ o \in Nat /\ c \in Nat /\ l \in 1 .. 9 /\ w \in 1 .. 5
          /\ w = c - o + 1 /\ 1 <= o /\ o <= c /\ c <= Len(s)
  BY <1>1
<1> DEFINE s == e.mods
           o == e.open
           c == e.close
           l == e.loop
           w == Width(e)
<1>4. /\ s \in Seq(1 .. 5) /\ o \in Nat /\ c \in Nat /\ l \in 1 .. 9 /\ w \in 1 .. 5
      /\ w = c - o + 1 /\ 1 <= o /\ o <= c /\ c <= Len(s)
  BY <1>3
<1> HIDE DEF s, o, c, l, w
<1>5. IsUnrolled(s, o, c, l, w, Unroll(s, o, c, l), 1 .. 5)
  BY <1>4, Unrolled
<1> QED  BY <1>2, <1>5 DEF s, o, c, l, w, IsUnrolled, Place

-----------------------------------------------------------------------------
(* The end of the execution.                                                *)

\* Only the last module, right after the loop, sets the taint to zero, and only
\* a datum that has done every iteration.
LEMMA LastClears ==
  ASSUME NEW e \in Expressions, NEW i \in DOMAIN e.mods, NEW c \in ChecksAt(e, i),
         c.refresh \in {3, 4}
  PROVE  /\ HasLoop(e) /\ i = e.close + 1 /\ i = Len(e.mods)
         /\ c = Check(Counter(e, e.loop), Front(e, i), "eq", 4)
<1>1. i \in Nat /\ e.open \in Nat /\ e.close \in Nat
  BY ExpressionFacts
<1>2. CASE ~HasLoop(e) \/ i < e.open
  BY <1>2 DEF ChecksAt, Check
<1>3. CASE HasLoop(e) /\ ~(i < e.open) /\ i = e.open
  <2>1. ChecksAt(e, i) = {Check(0, Front(e, i), "eq", 2),
                          Check(Counter(e, e.loop - 1), {e.mods[e.close]}, "ge", 2)}
    <3>1. e.open <= e.close
      BY <1>3, ExpressionAssumption DEF HasLoop
    <3> QED  BY <1>1, <1>3, <3>1 DEF ChecksAt
  <2> QED  BY <2>1 DEF Check
<1>4. CASE HasLoop(e) /\ e.open < i /\ i <= e.close
  <2>1. ChecksAt(e, i) = {Check(Counter(e, e.loop), Front(e, i), "ge", 1)}
    BY <1>1, <1>4 DEF ChecksAt
  <2> QED  BY <2>1 DEF Check
<1>5. CASE HasLoop(e) /\ e.close < i /\ e.open < i /\ ~(i = e.close + 1 /\ i = Len(e.mods))
  <2>1. ChecksAt(e, i) = {Check(Counter(e, e.loop + 1), Front(e, i), "eq", 1)}
    BY <1>1, <1>5 DEF ChecksAt
  <2> QED  BY <2>1 DEF Check
<1>6. CASE HasLoop(e) /\ e.close < i /\ e.open < i /\ i = e.close + 1 /\ i = Len(e.mods)
  <2>1. ChecksAt(e, i) = {Check(Counter(e, e.loop), Front(e, i), "eq", 4)}
    BY <1>1, <1>6 DEF ChecksAt
  <2> QED  BY <1>6, <2>1
<1>7. HasLoop(e) => e.open <= e.close
  BY ExpressionAssumption DEF HasLoop
<1> QED  BY <1>1, <1>2, <1>3, <1>4, <1>5, <1>6, <1>7

\* What the policy asks of the counter, module by module.
LEMMA CounterAsked ==
  ASSUME NEW e \in Expressions, Ascending(e), Counted(e), HasLoop(e),
         NEW y, IsLabel(e, y), NEW i \in DOMAIN e.mods, NEW c \in Passing(e, e.mods[i], y)
  PROVE  /\ i < e.open => y.loop = 0
         /\ i = e.open => y.loop = 0 \/ \E m \in y.mod : e.mods[e.close] <= m
         /\ i = e.close + 1 /\ i = Len(e.mods) => y.loop = e.loop /\ c.refresh = 4
<1>1. /\ i \in Nat /\ e.open \in Nat /\ e.close \in Nat /\ e.open <= e.close
      /\ e.loop \in 1 .. 9 /\ e.loop < CounterValues(e)
  BY ExpressionFacts, CounterSizes, ExpressionAssumption DEF HasLoop, Counted
<1>2. c \in ChecksAt(e, i) /\ Holds(c, y)
  BY AscendingFacts DEF Passing
<1>3. CASE i < e.open
  <2>1. c = Check(0, Front(e, i), "eq", 1)
    BY <1>1, <1>2, <1>3 DEF ChecksAt
  <2> QED  BY <1>1, <1>2, <1>3, <2>1 DEF Check, Holds
<1>4. CASE i = e.open
  <2>1. ChecksAt(e, i) = {Check(0, Front(e, i), "eq", 2),
                          Check(Counter(e, e.loop - 1), {e.mods[e.close]}, "ge", 2)}
    BY <1>1, <1>4 DEF ChecksAt
  <2>2. CASE c = Check(0, Front(e, i), "eq", 2)
    BY <1>1, <1>2, <1>4, <2>2 DEF Check, Holds
  <2>3. CASE c = Check(Counter(e, e.loop - 1), {e.mods[e.close]}, "ge", 2)
    BY <1>1, <1>2, <1>4, <2>3 DEF Check, Holds
  <2> QED  BY <1>2, <2>1, <2>2, <2>3
<1>5. CASE i = e.close + 1 /\ i = Len(e.mods)
  <2>1. c = Check(Counter(e, e.loop), Front(e, i), "eq", 4)
    BY <1>1, <1>2, <1>5 DEF ChecksAt
  <2>2. Counter(e, e.loop) = e.loop
    BY <1>1, CounterSizes, CounterFits
  <2> QED  BY <1>1, <1>2, <1>5, <2>1, <2>2 DEF Check, Holds
<1> QED  BY <1>1, <1>3, <1>4, <1>5

\* What has been found when the modules with the numbers Y are in the label and
\* the counter is k: up to those modules, in the iteration the counter says.
Reached(o, c, w, k, Y, n) ==
  \A j \in Y : IF k = 0 THEN j < o /\ j <= n
               ELSE j \in o .. c /\ (k - 1) * w + j <= n

\* What the policy asks before the i-th module is passed, and what becomes of the
\* label, Z: before the loop no iteration may have begun, at its head one must be
\* left and the one before complete, behind it all must be done.
Asked(o, c, l, k, Y, Z, i) ==
  /\ i = 1 \/ \E j \in Y : i - 1 <= j
  /\ i < o => k = 0
  /\ i = o => k < l /\ (k = 0 \/ \E j \in Y : c <= j) /\ Z = {i}
  /\ i = c + 1 => k = l
  /\ Z \subseteq Y \cup {i}

\* That suffices to find the i-th module next, and the one behind the loop is the
\* last of all.
Loop(s, o, c, l, w, x, T) ==
  /\ s \in Seq(T) /\ o \in Nat /\ c \in Nat /\ l \in 1 .. 9 /\ w \in 1 .. 5
  /\ w = c - o + 1 /\ 1 <= o /\ o <= c /\ Len(s) = c + 1
  /\ IsUnrolled(s, o, c, l, w, x, T)
Passes(s, o, c, l, w, x, T, n, k, Y, Z, i) ==
  /\ Loop(s, o, c, l, w, x, T)
  /\ n \in Nat /\ k \in 0 .. l /\ Y \in SUBSET Nat /\ Z \in SUBSET Nat
  /\ n <= Len(x) /\ i \in 1 .. c + 1
  /\ Reached(o, c, w, k, Y, n)
  /\ Asked(o, c, l, k, Y, Z, i)

LEMMA ReachedNext ==
  ASSUME NEW T, NEW s, NEW o, NEW c, NEW l, NEW w, NEW x, NEW n, NEW k, NEW i, NEW Y, NEW Z,
         Passes(s, o, c, l, w, x, T, n, k, Y, Z, i)
  PROVE  /\ i <= c => Reached(o, c, w, IF i = o THEN k + 1 ELSE k, Z, Found(x, n, s[i]))
         /\ i = c + 1 => Found(x, n, s[i]) = Len(x)
<1>t. /\ s \in Seq(T) /\ o \in Nat /\ c \in Nat /\ l \in 1 .. 9 /\ w \in 1 .. 5
      /\ w = c - o + 1 /\ 1 <= o /\ o <= c /\ Len(s) = c + 1
      /\ IsUnrolled(s, o, c, l, w, x, T)
      /\ n \in Nat /\ k \in 0 .. l /\ Y \in SUBSET Nat /\ Z \in SUBSET Nat
      /\ n <= Len(x) /\ i \in 1 .. c + 1
      /\ Reached(o, c, w, k, Y, n)
      /\ Asked(o, c, l, k, Y, Z, i)
  BY DEF Passes, Loop
<1>n. o \in Nat /\ i \in Nat /\ n \in Nat
  BY <1>t
<1>0. /\ i = 1 \/ \E j \in Y : i - 1 <= j
      /\ i < o => k = 0
      /\ i = o => k < l /\ (k = 0 \/ \E j \in Y : c <= j) /\ Z = {i}
      /\ i = c + 1 => k = l
      /\ Z \subseteq Y \cup {i}
  BY <1>t DEF Asked
<1> DEFINE f == Found(x, n, s[i])
           d == (k - 1) * w
           a == k * w
           b == l * w
<1>1. /\ a \in Nat /\ b \in Nat /\ d \in Int /\ a = d + w
      /\ a <= b /\ (k < l => a + w <= b) /\ (k = 0 => a = 0) /\ (k # 0 => d \in Nat)
      /\ (k = l => a = b)
  <2>1. CASE k = 0
    <3>1. a = 0 /\ d = -w /\ b \in Nat /\ (k < l => w <= b)
      <4>1. 1 \in 1 .. 9 /\ 1 <= l /\ 1 * w = w
        BY <1>t
      <4> QED  BY <1>t, <2>1, <4>1, Multiples
    <3> QED  BY <1>t, <2>1, <3>1
  <2>2. CASE k # 0
    <3>1. k \in 1 .. 9
      BY <1>t, <2>2
    <3> QED  BY <1>t, <2>2, <3>1, Multiples
  <2> QED  BY <1>t, <2>1, <2>2
<1>2. /\ Len(x) = b + Len(s) - w /\ x \in Seq(T) /\ Len(x) \in Nat
      /\ \A j \in 1 .. o - 1 : x[j] = s[j]
      /\ \A j \in o .. c : k # 0 => x[d + j] = s[j]
      /\ k < l => x[a + o] = s[o]
      /\ x[b + (c + 1) - w] = s[c + 1]
  <2>1. /\ Len(x) = b + Len(s) - w /\ x \in Seq(T)
        /\ \A j \in 1 .. o - 1 : x[j] = s[j]
        /\ \A h \in 1 .. l, j \in o .. c : x[(h - 1) * w + j] = s[j]
        /\ \A j \in c + 1 .. Len(s) : x[b + j - w] = s[j]
    BY <1>t DEF IsUnrolled
  <2>2. ASSUME NEW j \in o .. c, k # 0 PROVE x[d + j] = s[j]
    <3>1. k \in 1 .. l
      BY <1>t, <2>2
    <3> QED  BY <1>t, <2>1, <3>1
  <2>3. ASSUME k < l PROVE x[a + o] = s[o]
    <3>1. k + 1 \in 1 .. l /\ o \in o .. c /\ (k + 1) - 1 = k
      BY <1>t, <2>3
    <3>2. x[((k + 1) - 1) * w + o] = s[o]
      BY <1>t, <2>1, <3>1
    <3> QED  BY <1>t, <3>1, <3>2
  <2>4. x[b + (c + 1) - w] = s[c + 1] /\ Len(x) \in Nat
    BY <1>t, <2>1
  <2> QED  BY <1>t, <2>1, <2>2, <2>3, <2>4
<1> HIDE DEF d, a, b
<1>3. /\ k = 0 => \A j \in Y : j < o /\ j <= n
      /\ k # 0 => \A j \in Y : j \in o .. c /\ d + j <= n
  BY <1>t DEF Reached, d
<1>4. ASSUME NEW q \in Nat, 1 <= q, q <= Len(x), q - 1 <= n, x[q] = s[i]
      PROVE  f \in Nat /\ q <= f /\ n <= f /\ f <= Len(x)
  BY <1>t, <1>2, <1>4 DEF Found
<1> HIDE DEF f
<1>5. CASE i < o
  <2>1. k = 0 /\ x[i] = s[i] /\ i - 1 <= n /\ i <= Len(x)
    BY <1>t, <1>0, <1>1, <1>2, <1>3, <1>5
  <2>2. i <= f /\ n <= f /\ f \in Nat
    BY <1>t, <1>0, <1>4, <2>1
  <2>3. \A j \in Z : j < o /\ j <= f
    BY <1>t, <1>0, <1>3, <1>5, <2>1, <2>2
  <2> QED  BY <1>t, <1>0, <1>5, <2>1, <2>3 DEF Reached, f
<1>6. CASE i = o
  <2>1. a + o \in Nat /\ 1 <= a + o /\ a + o <= Len(x) /\ x[a + o] = s[i]
    BY <1>t, <1>0, <1>1, <1>2, <1>6
  <2>2. a + o - 1 <= n
    BY <1>t, <1>0, <1>1, <1>3, <1>6
  <2>3. a + o <= f
    <3> DEFINE q == a + o
    <3>1. q \in Nat /\ 1 <= q /\ q <= Len(x) /\ q - 1 <= n /\ x[q] = s[i]
      BY <1>n, <1>1, <1>2, <2>1, <2>2
    <3> HIDE DEF q
    <3>2. q <= f
      BY <1>4, <3>1
    <3> QED  BY <3>2 DEF q
  <2>4. \A j \in Z : j \in o .. c /\ a + j <= f
    BY <1>t, <1>0, <1>6, <2>3
  <2>5. (k + 1) - 1 = k
    BY <1>t
  <2> QED  BY <1>t, <1>0, <1>6, <2>4, <2>5 DEF Reached, f, a
<1>7. CASE o < i /\ i <= c
  <2>1. PICK j \in Y : i - 1 <= j
    BY <1>t, <1>0, <1>7
  <2>2. k # 0 /\ d + j <= n /\ j \in o .. c
    BY <1>t, <1>0, <1>3, <1>7, <2>1
  <2>3. d + i \in Nat /\ 1 <= d + i /\ d + i <= Len(x) /\ x[d + i] = s[i] /\ d + i - 1 <= n
    BY <1>t, <1>0, <1>1, <1>2, <1>7, <2>1, <2>2
  <2>4. d + i <= f /\ n <= f /\ f \in Nat
    <3> DEFINE q == d + i
    <3>1. q \in Nat /\ 1 <= q /\ q <= Len(x) /\ q - 1 <= n /\ x[q] = s[i]
      BY <1>n, <1>1, <1>2, <2>3
    <3> HIDE DEF q
    <3>2. q <= f /\ n <= f /\ f \in Nat
      BY <1>4, <3>1
    <3> QED  BY <3>2 DEF q
  <2>5. \A h \in Z : h \in o .. c /\ d + h <= f
    BY <1>t, <1>0, <1>1, <1>3, <1>7, <2>2, <2>4
  <2>6. (IF i = o THEN k + 1 ELSE k) = k /\ i # c + 1
    BY <1>t, <1>0, <1>7
  <2>7. Reached(o, c, w, k, Z, f)
    BY <1>t, <2>2, <2>5 DEF Reached, d
  <2> QED  BY <1>t, <2>6, <2>7 DEF f
<1>8. CASE i = c + 1
  <2>1. PICK j \in Y : c <= j
    BY <1>t, <1>0, <1>8
  <2>2. k = l /\ k # 0 /\ j = c /\ d + c <= n
    BY <1>t, <1>0, <1>3, <1>8, <2>1
  <2>3. Len(x) = d + c + 1 /\ x[Len(x)] = s[i]
    <3>1. Len(x) = b + (c + 1) - w
      BY <1>t, <1>0, <1>2
    <3> QED  BY <1>t, <1>0, <1>1, <1>2, <1>8, <2>2, <3>1
  <2>4. Len(x) <= f /\ f <= Len(x) /\ f \in Nat
    BY <1>t, <1>0, <1>1, <1>2, <1>4, <2>2, <2>3
  <2> QED  BY <1>t, <1>0, <1>2, <1>8, <2>4 DEF f
<1> QED  BY <1>t, <1>5, <1>6, <1>7, <1>8

\* The places in the expression of the modules that a label has.
InLabel(e, y) == {j \in DOMAIN e.mods : e.mods[j] \in y.mod}

\* The modules of the label are the last ones found of the execution: before
\* the loop, or in the iteration that the counter says.
ClearInv ==
  LET e == STM_express
      n == Matched(Execution(e), passed)
  IN  /\ cleared => n = Len(Execution(e))
      /\ HasLoop(e) /\ label # HighZ => label.loop \in 0 .. e.loop
      /\ HasLoop(e) /\ Len(e.mods) = e.close + 1 /\ ~cleared /\ label # HighZ =>
           Reached(e.open, e.close, Width(e), label.loop, InLabel(e, label), n)

LEMMA ExecutionIsSeq ==
  ASSUME NEW e \in Expressions, Ascending(e)
  PROVE  Execution(e) \in Seq(1 .. 5) /\ Len(Execution(e)) \in Nat
<1>1. CASE HasLoop(e)
  BY <1>1, ExecutionOf
<1>2. CASE ~HasLoop(e)
  BY <1>2, ExpressionFacts DEF Execution
<1> QED  BY <1>1, <1>2

\* The counter of a label that is let through.
LEMMA CounterStep ==
  ASSUME NEW e \in Expressions, Ascending(e), Counted(e), HasLoop(e),
         NEW y, IsLabel(e, y), y.loop \in 0 .. e.loop,
         NEW i \in DOMAIN e.mods, Passing(e, e.mods[i], y) # {}
  PROVE  /\ Refreshed(e, e.mods[i], y).loop = IF i = e.open THEN y.loop + 1 ELSE y.loop
         /\ i = e.open => y.loop < e.loop
         /\ Refreshed(e, e.mods[i], y).loop \in 0 .. e.loop
<1>1. e.open \in DOMAIN e.mods /\ e.loop \in 1 .. 9
  BY ExpressionFacts
<1>2. CASE i = e.open
  <2>1. y.loop < e.loop /\ Refreshed(e, e.mods[e.open], y).loop = y.loop + 1
    BY <1>1, <1>2, HeadIsCounted
  <2> QED  BY <1>1, <1>2, <2>1
<1>3. CASE i # e.open
  <2>1. e.mods[i] \in Modules(e)
    BY DEF Modules
  <2>2. e.mods[i] # e.mods[e.open]
    BY <1>1, <1>3, AscendingFacts
  <2>3. Refreshed(e, e.mods[i], y).loop = y.loop
    BY <2>1, <2>2, OthersAreNotCounted
  <2> QED  BY <1>3, <2>3
<1> QED  BY <1>2, <1>3

\* The modules of a label that is let through.
LEMMA ModulesStep ==
  ASSUME NEW e \in Expressions, Ascending(e),
         NEW y, NEW i \in DOMAIN e.mods, Passing(e, e.mods[i], y) # {}
  PROVE  LET z == Refreshed(e, e.mods[i], y) IN
         /\ i \in InLabel(e, z) /\ InLabel(e, z) \subseteq InLabel(e, y) \cup {i}
         /\ HasLoop(e) /\ i = e.open => InLabel(e, z) = {i}
<1> DEFINE z == Refreshed(e, e.mods[i], y)
<1>1. e.mods[i] \in z.mod /\ z.mod \subseteq y.mod \cup {e.mods[i]}
  BY DEF Refreshed
<1>2. \A j \in DOMAIN e.mods : e.mods[j] = e.mods[i] => j = i
  BY AscendingFacts
<1>3. ASSUME HasLoop(e), i = e.open PROVE z.mod = {e.mods[i]}
  <2>1. PICK c \in Passing(e, e.mods[i], y) : TRUE
    OBVIOUS
  <2>2. c \in ChecksAt(e, i)
    BY <2>1, AscendingFacts DEF Passing
  <2>3. i \in Nat /\ e.close \in Nat /\ i <= e.close
    BY <1>3, ExpressionAssumption DEF HasLoop
  <2>4. ChecksAt(e, i) = {Check(0, Front(e, i), "eq", 2),
                          Check(Counter(e, e.loop - 1), {e.mods[e.close]}, "ge", 2)}
    BY <1>3, <2>3 DEF ChecksAt
  <2>5. c.refresh = 2
    BY <2>2, <2>4 DEF Check
  <2> QED  BY <2>1, <2>5 DEF Refreshed
<1> HIDE DEF z
<1>4. i \in InLabel(e, z) /\ InLabel(e, z) \subseteq InLabel(e, y) \cup {i}
  BY <1>1, <1>2 DEF InLabel
<1>5. HasLoop(e) /\ i = e.open => InLabel(e, z) = {i}
  BY <1>2, <1>3 DEF InLabel
<1> QED  BY <1>4, <1>5 DEF z

LEMMA ClearInvInductive ==
  ASSUME \A e \in Expressions : Ascending(e) /\ Counted(e),
         PolicyInv, ClearInv, [Next]_vars
  PROVE  ClearInv'
<1>1. CASE UNCHANGED vars
  BY <1>1 DEF ClearInv, vars
<1>2. ASSUME NEW m \in Modules(STM_express), Check_and_Refresh(m)
      PROVE  ClearInv'
  <2> DEFINE e == STM_express
             y == label
             x == Execution(e)
             n == Matched(x, passed)
  <2>1. PICK i \in DOMAIN e.mods : m = e.mods[i]
    BY DEF Modules
  <2> DEFINE z == Refreshed(e, e.mods[i], y)
             f == Found(x, n, e.mods[i])
  <2>2. /\ e \in Expressions /\ STM_express' = e /\ Ascending(e) /\ Counted(e)
        /\ IsLabel(e, y) /\ y # HighZ /\ Passing(e, e.mods[i], y) # {} /\ label' = z
        /\ passed' = Append(passed, e.mods[i])
        /\ cleared' = (cleared \/ \E c \in Passing(e, e.mods[i], y) : c.refresh \in {3, 4})
    BY <1>2, <2>1 DEF Check_and_Refresh, PolicyInv
  <2>3. /\ e.mods \in Seq(1 .. 5) /\ passed \in Seq(1 .. 5) /\ e.mods[i] \in 1 .. 5
        /\ DOMAIN e.mods = 1 .. Len(e.mods) /\ Len(e.mods) \in Nat
    BY <2>2, ExpressionFacts DEF PolicyInv, Modules
  <2>4. x \in Seq(1 .. 5) /\ Len(x) \in Nat
    BY <2>2, ExecutionIsSeq
  <2>5. n \in 0 .. Len(x) /\ Matched(x, passed') = f
    <3>1. /\ Matched(x, passed) \in 0 .. Len(x)
          /\ \A h \in 1 .. 5 : Matched(x, Append(passed, h)) = Found(x, Matched(x, passed), h)
      <4> HIDE DEF x
      <4> QED  BY <2>3, <2>4, MatchedSteps
    <3> QED  BY <2>2, <2>3, <3>1
  <2>6. HasLoop(e) => /\ z.loop = IF i = e.open THEN y.loop + 1 ELSE y.loop
                      /\ i = e.open => y.loop < e.loop
                      /\ z.loop \in 0 .. e.loop
    BY <2>2, CounterStep DEF ClearInv
  <2>7. CASE cleared
    <3>1. n = Len(x)
      BY <2>7 DEF ClearInv
    <3>2. f = Len(x)
      BY <2>4, <3>1 DEF Found
    <3> QED  BY <2>2, <2>5, <2>6, <2>7, <3>2 DEF ClearInv
  <2>8. CASE ~cleared /\ HasLoop(e) /\ Len(e.mods) = e.close + 1
    <3> DEFINE s == e.mods
               o == e.open
               c == e.close
               l == e.loop
               w == Width(e)
               k == y.loop
               Y == InLabel(e, y)
               Z == InLabel(e, z)
    <3>1. /\ s \in Seq(1 .. 5) /\ o \in Nat /\ c \in Nat /\ l \in 1 .. 9 /\ w \in 1 .. 5
          /\ w = c - o + 1 /\ 1 <= o /\ o <= c /\ Len(s) = c + 1
      BY <2>2, <2>8, LoopSizes DEF Width
    <3>2. k \in 0 .. l /\ i \in Nat /\ 1 <= i /\ i <= c + 1
      BY <2>2, <2>3, <2>8 DEF ClearInv
    <3>3. Y \in SUBSET Nat /\ Z \in SUBSET Nat
      BY <2>3 DEF InLabel
    <3>4. IsUnrolled(s, o, c, l, w, x, 1 .. 5)
      BY <2>2, <2>8, ExecutionOf DEF IsUnrolled, Place
    <3>5. Reached(o, c, w, k, Y, n)
      BY <2>2, <2>8 DEF ClearInv
    <3>6. i = 1 \/ \E j \in Y : i - 1 <= j
      BY <2>2, FrontWasPassed DEF InLabel
    <3>7. /\ i < o => k = 0
          /\ i = o => k = 0 \/ \E j \in Y : c <= j
          /\ i = c + 1 => k = l
      <4>1. PICK g \in Passing(e, e.mods[i], y) : TRUE
        BY <2>2
      <4>2. /\ i < e.open => y.loop = 0
            /\ i = e.open => y.loop = 0 \/ \E h \in y.mod : e.mods[e.close] <= h
            /\ i = e.close + 1 /\ i = Len(e.mods) => y.loop = e.loop
        BY <2>2, <2>8, <4>1, CounterAsked
      <4>3. ASSUME NEW h \in y.mod, e.mods[e.close] <= h
            PROVE  \E j \in Y : c <= j
        <5>1. PICK j \in DOMAIN e.mods : h = e.mods[j]
          BY <2>2, <4>3 DEF IsLabel, Modules
        <5>2. e.close \in DOMAIN e.mods
          BY <2>3, <3>1
        <5>3. e.close <= j
          BY <2>2, <4>3, <5>1, <5>2, AscendingFacts
        <5> QED  BY <4>3, <5>1, <5>3 DEF InLabel
      <4> QED  BY <2>8, <4>2, <4>3
    <3>8. i = o => k < l /\ Z = {i}
      BY <2>2, <2>6, <2>8, ModulesStep
    <3>9. Z \subseteq Y \cup {i}
      BY <2>2, ModulesStep
    <3>10. n \in Nat /\ n <= Len(x)
      BY <2>4, <2>5
    <3>11. z.loop = IF i = o THEN k + 1 ELSE k
      BY <2>6, <2>8
    <3>a. Asked(o, c, l, k, Y, Z, i)
      BY <3>6, <3>7, <3>8, <3>9 DEF Asked
    <3>b. Loop(s, o, c, l, w, x, 1 .. 5)
      BY <3>1, <3>4 DEF Loop
    <3>c. Passes(s, o, c, l, w, x, 1 .. 5, n, k, Y, Z, i)
      <4> HIDE DEF s, o, c, l, w, k, Y, Z, x, n
      <4> QED  BY <3>2, <3>3, <3>5, <3>a, <3>b, <3>10 DEF Passes
    <3> HIDE DEF s, o, c, l, w, k, Y, Z, x, n
    <3>12. /\ i <= c => Reached(o, c, w, IF i = o THEN k + 1 ELSE k, Z, Found(x, n, s[i]))
           /\ i = c + 1 => Found(x, n, s[i]) = Len(x)
      BY <3>c, ReachedNext
    <3>13. /\ i <= c => Reached(o, c, w, z.loop, Z, f)
           /\ i = c + 1 => f = Len(x)
      BY <3>11, <3>12 DEF s
    <3>14. CASE i <= c
      <4>1. ~cleared'
        <5> SUFFICES ASSUME NEW g \in Passing(e, e.mods[i], y), g.refresh \in {3, 4} PROVE FALSE
          BY <2>2, <2>8
        <5>1. g \in ChecksAt(e, i)
          BY <2>2, AscendingFacts DEF Passing
        <5> QED  BY <2>2, <3>1, <3>2, <3>14, <5>1, LastClears DEF c
      <4>2. Reached(e.open, e.close, Width(e), z.loop, InLabel(e, z), f)
        BY <3>13, <3>14 DEF o, c, w, Z
      <4> QED  BY <2>2, <2>5, <2>6, <4>1, <4>2 DEF ClearInv, x, n
    <3>15. CASE i = c + 1
      <4>1. cleared'
        <5>1. PICK g \in Passing(e, e.mods[i], y) : TRUE
          BY <2>2
        <5>2. g.refresh = 4
          BY <2>2, <2>8, <3>1, <3>15, <5>1, CounterAsked DEF s, c
        <5> QED  BY <2>2, <5>1, <5>2
      <4>2. f = Len(x)
        BY <3>13, <3>15
      <4> QED  BY <2>2, <2>5, <2>6, <4>1, <4>2 DEF ClearInv, x, n
    <3> QED  BY <3>1, <3>2, <3>14, <3>15
  <2>9. CASE ~cleared /\ ~(HasLoop(e) /\ Len(e.mods) = e.close + 1)
    <3>1. ~cleared'
      <4> SUFFICES ASSUME NEW g \in Passing(e, e.mods[i], y), g.refresh \in {3, 4} PROVE FALSE
        BY <2>2, <2>9
      <4>1. g \in ChecksAt(e, i)
        BY <2>2, AscendingFacts DEF Passing
      <4>2. HasLoop(e) /\ i = e.close + 1 /\ i = Len(e.mods)
        BY <2>2, <4>1, LastClears
      <4> QED  BY <2>9, <4>2
    <3> QED  BY <2>2, <2>6, <2>9, <3>1 DEF ClearInv
  <2> QED  BY <2>7, <2>8, <2>9
<1>3. ASSUME NEW m \in Modules(STM_express), Refuse(m)
      PROVE  ClearInv'
  BY <1>3 DEF Refuse, ClearInv
<1> QED  BY <1>1, <1>2, <1>3 DEF Next

\* ClearedAfterExecution holds for every set of expressions in alphabetical
\* order whose loops have a counter: the taint is never set to zero before the
\* datum has gone through every iteration and all the modules.
THEOREM ClearedAtTheEnd ==
  ASSUME \A e \in Expressions : Ascending(e) /\ Counted(e)
  PROVE  Spec => []ClearedAfterExecution
<1>1. Init => PolicyInv /\ ClearInv
  <2> SUFFICES ASSUME Init PROVE ClearInv
    BY PolicyInvInitial
  <2>1. ~cleared /\ label.loop = 0 /\ InLabel(STM_express, label) = {}
    BY DEF Init, InLabel
  <2>2. STM_express.loop \in Nat
    BY ExpressionFacts DEF Init
  <2> QED  BY <2>1, <2>2 DEF ClearInv, Reached
<1>2. PolicyInv /\ ClearInv /\ [Next]_vars => PolicyInv' /\ ClearInv'
  BY PolicyInvInductive, ClearInvInductive
<1>3. ClearInv => ClearedAfterExecution
  BY DEF ClearInv, ClearedAfterExecution
<1> QED  BY <1>1, <1>2, <1>3, PTL DEF Spec

-----------------------------------------------------------------------------
(* A datum that keeps to the expression.                                    *)

\* Where p modules of the execution were passed: before the loop nothing was
\* counted, in the loop the counter is the number of the iteration, and the
\* module passed last is in the label.
KeptTo(o, c, l, w, k, Y, p) ==
  /\ p < o => k = 0 /\ (1 <= p => p \in Y)
  /\ \A h \in 1 .. l, j \in o .. c : p = (h - 1) * w + j => k = h /\ j \in Y

\* The next place of a place.
Keeps(s, o, c, l, w, x, T, k, Y, Z, p, i) ==
  /\ o \in Nat /\ c \in Nat /\ l \in 1 .. 9 /\ w \in 1 .. 5 /\ k \in Nat /\ p \in Nat
  /\ w = c - o + 1 /\ 1 <= o /\ o <= c
  /\ IsUnrolled(s, o, c, l, w, x, T)
  /\ \A j \in 1 .. c : s[j] = x[p + 1] => j = i
  /\ i \in Z
  /\ KeptTo(o, c, l, w, k, Y, p)

LEMMA KeptToNext ==
  ASSUME NEW s, NEW o, NEW c, NEW l, NEW w, NEW x, NEW T, NEW k, NEW Y, NEW Z, NEW p, NEW i,
         Keeps(s, o, c, l, w, x, T, k, Y, Z, p, i)
  PROVE  KeptTo(o, c, l, w, IF i = o THEN k + 1 ELSE k, Z, p + 1)
<1> USE DEF Keeps
<1> DEFINE n == IF i = o THEN k + 1 ELSE k
<1>1. ASSUME p + 1 < o PROVE n = 0 /\ p + 1 \in Z
  <2>1. x[p + 1] = s[p + 1]
    BY <1>1 DEF IsUnrolled
  <2>2. i = p + 1
    BY <1>1, <2>1
  <2> QED  BY <1>1, <2>2 DEF KeptTo
<1>2. ASSUME NEW h \in 1 .. l, NEW j \in o .. c, p + 1 = (h - 1) * w + j
      PROVE  n = h /\ j \in Z
  <2>1. x[p + 1] = s[j]
    <3>1. x[(h - 1) * w + j] = s[j]
      BY DEF IsUnrolled
    <3> QED  BY <1>2, <3>1
  <2>2. i = j
    BY <2>1
  <2>3. CASE o < j
    <3> DEFINE a == (h - 1) * w
    <3>1. a \in Int /\ p + 1 = a + j
      BY <1>2
    <3>2. \A g \in o .. c : p = a + g => k = h
      BY DEF KeptTo
    <3> HIDE DEF a
    <3>3. p = a + (j - 1) /\ j - 1 \in o .. c
      BY <2>3, <3>1
    <3>4. k = h
      BY <3>2, <3>3
    <3> QED  BY <2>2, <2>3, <3>4
  <2>4. CASE j = o /\ h = 1
    <3>1. p + 1 = o
      BY <1>2, <2>4
    <3>2. k = 0
      BY <3>1 DEF KeptTo
    <3> QED  BY <2>2, <2>4, <3>2
  <2>5. CASE j = o /\ h # 1
    <3> DEFINE g == h - 1
               a == (h - 1) * w
               b == (g - 1) * w
    <3>1. g \in 1 .. l /\ g \in 1 .. 9
      BY <2>5
    <3>2. b = a - w /\ a \in Nat
      <4>1. (g - 1) * w = g * w - w /\ g * w \in Nat
        <5> HIDE DEF g
        <5> QED  BY <3>1, Multiples
      <4> QED  BY <4>1
    <3>3. \A f \in o .. c : p = b + f => k = g
      BY <3>1 DEF KeptTo
    <3>4. p + 1 = a + o
      BY <1>2, <2>5
    <3> HIDE DEF a, b
    <3>5. p = b + c /\ c \in o .. c
      BY <3>2, <3>4
    <3>6. k = g
      BY <3>3, <3>5
    <3> QED  BY <2>2, <2>5, <3>6
  <2> QED  BY <2>2, <2>3, <2>4, <2>5
<1> QED  BY <1>1, <1>2 DEF KeptTo

\* Every place of the execution is before the loop, in it, or behind it.
Within(o, c, l, w, q) ==
  /\ o \in Nat /\ c \in Nat /\ l \in 1 .. 9 /\ w \in 1 .. 5 /\ q \in Nat
  /\ w = c - o + 1 /\ 1 <= o /\ o <= c /\ q <= l * w + c - w

LEMMA PlacesOf ==
  ASSUME NEW o, NEW c, NEW l, NEW w, NEW q, Within(o, c, l, w, q)
  PROVE  q < o \/ \E h \in 1 .. l, j \in o .. c : q = (h - 1) * w + j
<1> USE DEF Within
<1> SUFFICES ASSUME o <= q PROVE \E h \in 1 .. l, j \in o .. c : q = (h - 1) * w + j
  OBVIOUS
<1>1. PICK d \in Nat, r \in 0 .. w - 1 : q - o = d * w + r
  <2>1. q - o \in Nat
    OBVIOUS
  <2> QED  BY <2>1, Division
<1>2. d < l
  <2> DEFINE a == d * w
             b == l * w
  <2>1. a \in Nat /\ b \in Nat /\ q - o = a + r
    BY <1>1
  <2>2. l <= d => b <= a
    OBVIOUS
  <2> HIDE DEF a, b
  <2>3. q <= b + c - w
    BY DEF b
  <2> QED  BY <2>1, <2>2, <2>3
<1>3. d + 1 \in 1 .. l /\ o + r \in o .. c /\ (d + 1) - 1 = d
  BY <1>2
<1>4. q = ((d + 1) - 1) * w + (o + r)
  <2> DEFINE a == d * w
  <2>1. a \in Nat /\ q - o = a + r
    BY <1>1
  <2> HIDE DEF a
  <2>2. q = a + (o + r)
    BY <2>1
  <2> QED  BY <1>3, <2>2 DEF a
<1> QED  BY <1>3, <1>4

\* The label of a datum that has kept to the execution so far.
LegalInv ==
  LET e == STM_express
      p == Len(passed)
  IN  label # HighZ /\ p <= Len(Execution(e)) /\ passed = SubSeq(Execution(e), 1, p) =>
        /\ HasLoop(e) =>
             KeptTo(e.open, e.close, e.loop, Width(e), label.loop, InLabel(e, label), p)
        /\ ~HasLoop(e) => label.loop = 0 /\ (1 <= p => p \in InLabel(e, label))

LEMMA LegalInvInductive ==
  ASSUME \A e \in Expressions : Ascending(e) /\ Counted(e),
         PolicyInv, ClearInv, LegalInv, [Next]_vars
  PROVE  LegalInv'
<1>1. CASE UNCHANGED vars
  BY <1>1 DEF LegalInv, vars
<1>2. ASSUME NEW m \in Modules(STM_express), Check_and_Refresh(m)
      PROVE  LegalInv'
  <2> DEFINE e == STM_express
             y == label
             x == Execution(e)
             p == Len(passed)
  <2>1. PICK i \in DOMAIN e.mods : m = e.mods[i]
    BY DEF Modules
  <2> DEFINE z == Refreshed(e, e.mods[i], y)
  <2>2. /\ e \in Expressions /\ STM_express' = e /\ Ascending(e) /\ Counted(e)
        /\ IsLabel(e, y) /\ y # HighZ /\ Passing(e, e.mods[i], y) # {} /\ label' = z
        /\ passed' = Append(passed, e.mods[i])
    BY <1>2, <2>1 DEF Check_and_Refresh, PolicyInv
  <2>3. /\ e.mods \in Seq(1 .. 5) /\ passed \in Seq(1 .. 5) /\ e.mods[i] \in 1 .. 5
        /\ DOMAIN e.mods = 1 .. Len(e.mods) /\ Len(e.mods) \in Nat /\ p \in Nat
    BY <2>2, ExpressionFacts DEF PolicyInv, Modules
  <2>4. x \in Seq(1 .. 5) /\ Len(x) \in Nat
    BY <2>2, ExecutionIsSeq
  <2>5. Len(passed') = p + 1
    BY <2>2, <2>3
  <2> SUFFICES ASSUME p + 1 <= Len(x), passed' = SubSeq(x, 1, p + 1)
               PROVE  /\ HasLoop(e) => KeptTo(e.open, e.close, e.loop, Width(e), z.loop, InLabel(e, z), p + 1)
                      /\ ~HasLoop(e) => z.loop = 0 /\ p + 1 \in InLabel(e, z)
    BY <2>2, <2>5 DEF LegalInv
  <2>6. passed = SubSeq(x, 1, p) /\ e.mods[i] = x[p + 1]
    <3> HIDE DEF x
    <3>1. \A j \in 1 .. p + 1 : SubSeq(x, 1, p + 1)[j] = x[j]
      BY <2>3, <2>4
    <3>2. /\ \A j \in 1 .. p : Append(passed, e.mods[i])[j] = passed[j]
          /\ Append(passed, e.mods[i])[p + 1] = e.mods[i]
      BY <2>3
    <3>3. \A j \in 1 .. p : passed[j] = x[j]
      BY <2>2, <2>3, <3>1, <3>2
    <3>4. e.mods[i] = x[p + 1]
      BY <2>2, <2>3, <3>1, <3>2
    <3>5. passed = SubSeq(x, 1, p)
      <4>1. SubSeq(x, 1, p) \in Seq(1 .. 5) /\ Len(SubSeq(x, 1, p)) = p
        BY <2>3, <2>4
      <4>2. \A j \in 1 .. p : SubSeq(x, 1, p)[j] = x[j]
        BY <2>3, <2>4
      <4> QED  BY <2>3, <3>3, <4>1, <4>2, SeqEqual
    <3> QED  BY <3>4, <3>5
  <2>7. i \in InLabel(e, z) /\ \A j \in DOMAIN e.mods : e.mods[j] = x[p + 1] => j = i
    BY <2>2, <2>6, ModulesStep, AscendingFacts
  <2>8. p <= Len(x)
    BY <2>3, <2>4
  <2>9. CASE HasLoop(e)
    <3> DEFINE s == e.mods
               o == e.open
               c == e.close
               l == e.loop
               w == Width(e)
               k == y.loop
               Y == InLabel(e, y)
               Z == InLabel(e, z)
    <3>1. /\ o \in Nat /\ c \in Nat /\ l \in 1 .. 9 /\ w \in 1 .. 5
          /\ w = c - o + 1 /\ 1 <= o /\ o <= c /\ c <= Len(s)
      BY <2>2, <2>9, LoopSizes DEF Width
    <3>2. KeptTo(o, c, l, w, k, Y, p)
      BY <2>2, <2>6, <2>8, <2>9 DEF LegalInv
    <3>3. IsUnrolled(s, o, c, l, w, x, 1 .. 5)
      BY <2>2, <2>9, ExecutionOf DEF IsUnrolled, Place
    <3>4. k \in Nat /\ z.loop = IF i = o THEN k + 1 ELSE k
      <4>1. y.loop \in 0 .. e.loop
        BY <2>2, <2>9 DEF ClearInv
      <4>2. Refreshed(e, e.mods[i], y).loop = IF i = e.open THEN y.loop + 1 ELSE y.loop
        BY <2>2, <2>9, <4>1, CounterStep
      <4>3. y.loop \in Nat
        BY <3>1, <4>1
      <4> QED  BY <4>2, <4>3
    <3>5. \A j \in 1 .. c : s[j] = x[p + 1] => j = i
      <4>1. \A j \in 1 .. c : j \in DOMAIN e.mods
        BY <2>3, <3>1
      <4> QED  BY <2>7, <4>1
    <3>6. i \in Z
      BY <2>7
    <3> HIDE DEF s, o, c, l, w, k, Y, Z, x
    <3>7. Keeps(s, o, c, l, w, x, 1 .. 5, k, Y, Z, p, i)
      BY <2>3, <3>1, <3>2, <3>3, <3>4, <3>5, <3>6 DEF Keeps
    <3>8. KeptTo(o, c, l, w, IF i = o THEN k + 1 ELSE k, Z, p + 1)
      BY <3>7, KeptToNext
    <3> QED  BY <2>9, <3>4, <3>8 DEF o, c, l, w, Z
  <2>10. CASE ~HasLoop(e)
    <3>1. y.loop = 0
      BY <2>2, <2>6, <2>8, <2>10 DEF LegalInv
    <3>2. z.loop = 0
      <4>1. \A c \in Passing(e, e.mods[i], y) : c.refresh = 1
        <5> TAKE c \in Passing(e, e.mods[i], y)
        <5>1. c \in ChecksAt(e, i)
          BY <2>2, AscendingFacts DEF Passing
        <5> QED  BY <2>10, <5>1 DEF ChecksAt, Check
      <4> QED  BY <3>1, <4>1 DEF Refreshed
    <3>3. x[p + 1] = e.mods[p + 1] /\ p + 1 \in DOMAIN e.mods
      BY <2>3, <2>10 DEF Execution
    <3> QED  BY <2>7, <2>10, <3>2, <3>3
  <2> QED  BY <2>9, <2>10
<1>3. ASSUME NEW m \in Modules(STM_express), Refuse(m)
      PROVE  LegalInv'
  BY <1>3 DEF Refuse, LegalInv
<1> QED  BY <1>1, <1>2, <1>3 DEF Next

\* The module that comes next for a datum that keeps to the execution, and what
\* its label then holds.
Due(s, o, c, l, x, k, Y, p, i) ==
  /\ i \in 1 .. Len(s) /\ x[p + 1] = s[i]
  /\ \/ i < o /\ k = 0 /\ (i = 1 \/ i - 1 \in Y)
     \/ i = o /\ k = 0 /\ (i = 1 \/ i - 1 \in Y)
     \/ i = o /\ k \in 1 .. l - 1 /\ c \in Y
     \/ i \in o + 1 .. c /\ k \in 1 .. l /\ i - 1 \in Y
     \/ i = c + 1 /\ i = Len(s) /\ k = l /\ i - 1 \in Y

Underway(s, o, c, l, w, x, T, k, Y, p) ==
  /\ s \in Seq(T) /\ o \in Nat /\ c \in Nat /\ l \in 1 .. 9 /\ w \in 1 .. 5
  /\ w = c - o + 1 /\ 1 <= o /\ o <= c /\ c <= Len(s) /\ Len(s) <= c + 1
  /\ IsUnrolled(s, o, c, l, w, x, T)
  /\ p \in Nat /\ p < Len(x)
  /\ KeptTo(o, c, l, w, k, Y, p)

LEMMA NextPlace ==
  ASSUME NEW s, NEW o, NEW c, NEW l, NEW w, NEW x, NEW T, NEW k, NEW Y, NEW p,
         Underway(s, o, c, l, w, x, T, k, Y, p)
  PROVE  \E i \in 1 .. Len(s) : Due(s, o, c, l, x, k, Y, p, i)
<1>1. /\ s \in Seq(T) /\ o \in Nat /\ c \in Nat /\ l \in 1 .. 9 /\ w \in 1 .. 5
      /\ w = c - o + 1 /\ 1 <= o /\ o <= c /\ c <= Len(s) /\ Len(s) <= c + 1
      /\ IsUnrolled(s, o, c, l, w, x, T)
      /\ p \in Nat /\ p < Len(x)
      /\ KeptTo(o, c, l, w, k, Y, p)
  BY DEF Underway
<1>2. Len(s) \in Nat /\ Len(x) \in Nat /\ Len(x) = l * w + Len(s) - w
  BY <1>1 DEF IsUnrolled
<1>3. CASE p + 1 < o
  <2>1. x[p + 1] = s[p + 1] /\ p + 1 \in 1 .. Len(s)
    BY <1>1, <1>2, <1>3 DEF IsUnrolled
  <2>2. k = 0 /\ (1 <= p => p \in Y)
    BY <1>1, <1>3 DEF KeptTo
  <2>3. p + 1 = 1 \/ (p + 1) - 1 \in Y
    BY <1>1, <2>2
  <2> QED  BY <1>3, <2>1, <2>2, <2>3 DEF Due
<1>4. ASSUME NEW h \in 1 .. l, NEW j \in o .. c, p + 1 = (h - 1) * w + j
      PROVE  \E i \in 1 .. Len(s) : Due(s, o, c, l, x, k, Y, p, i)
  <2>1. x[p + 1] = s[j] /\ j \in 1 .. Len(s) /\ h \in 1 .. 9
    <3>1. x[(h - 1) * w + j] = s[j]
      BY <1>1 DEF IsUnrolled
    <3>2. j \in 1 .. Len(s) /\ h \in 1 .. 9
      BY <1>1, <1>2
    <3> QED  BY <1>4, <3>1, <3>2
  <2>2. CASE j = o /\ h = 1
    <3>1. p + 1 = o
      BY <1>1, <1>4, <2>2
    <3>2. k = 0 /\ (1 <= p => p \in Y)
      BY <1>1, <3>1 DEF KeptTo
    <3>3. j = 1 \/ j - 1 \in Y
      BY <1>1, <2>2, <3>1, <3>2
    <3> QED  BY <2>1, <2>2, <3>2, <3>3 DEF Due
  <2>3. CASE j = o /\ h # 1
    <3> DEFINE f == h - 1
               a == (h - 1) * w
               b == (f - 1) * w
    <3>1. f \in 1 .. l /\ f \in 1 .. 9 /\ f \in 1 .. l - 1
      BY <1>1, <2>3
    <3>2. b = a - w /\ a \in Nat
      <4>1. (f - 1) * w = f * w - w /\ f * w \in Nat
        <5> HIDE DEF f
        <5> QED  BY <1>1, <3>1, Multiples
      <4> QED  BY <4>1
    <3>3. \A d \in o .. c : p = b + d => k = f /\ d \in Y
      BY <1>1, <3>1 DEF KeptTo
    <3>4. p + 1 = a + o
      BY <1>4, <2>3
    <3> HIDE DEF a, b
    <3>5. p = b + c /\ c \in o .. c
      BY <1>1, <3>2, <3>4
    <3>6. k = f /\ c \in Y
      BY <3>3, <3>5
    <3> QED  BY <2>1, <2>3, <3>1, <3>6 DEF Due
  <2>4. CASE o < j
    <3> DEFINE a == (h - 1) * w
    <3>1. a \in Int /\ p + 1 = a + j
      BY <1>1, <1>4, <2>1
    <3>2. \A d \in o .. c : p = a + d => k = h /\ d \in Y
      BY <1>1 DEF KeptTo
    <3> HIDE DEF a
    <3>3. p = a + (j - 1) /\ j - 1 \in o .. c
      BY <1>1, <2>4, <3>1
    <3>4. k = h /\ j - 1 \in Y
      BY <3>2, <3>3
    <3>5. j \in o + 1 .. c
      BY <1>1, <2>4
    <3> QED  BY <2>1, <3>4, <3>5 DEF Due
  <2> QED  BY <1>1, <2>2, <2>3, <2>4
<1>5. CASE p + 1 > l * w + c - w
  <2> DEFINE b == l * w
             a == (l - 1) * w
  <2>1. a = b - w /\ b \in Nat
    BY <1>1, Multiples
  <2>2. \A d \in o .. c : p = a + d => k = l /\ d \in Y
    BY <1>1 DEF KeptTo
  <2>3. \A i \in c + 1 .. Len(s) : x[b + i - w] = s[i]
    BY <1>1 DEF IsUnrolled
  <2>4. Len(x) = b + Len(s) - w /\ p + 1 > b + c - w
    BY <1>2, <1>5
  <2> HIDE DEF a, b
  <2>5. Len(s) = c + 1 /\ p + 1 = b + (c + 1) - w
    BY <1>1, <1>2, <2>1, <2>4
  <2>6. x[p + 1] = s[c + 1] /\ c + 1 \in 1 .. Len(s)
    BY <1>1, <1>2, <2>3, <2>5
  <2>7. p = a + c /\ c \in o .. c
    BY <1>1, <2>1, <2>5
  <2>8. k = l /\ (c + 1) - 1 \in Y
    BY <1>1, <2>2, <2>7
  <2> QED  BY <2>5, <2>6, <2>8 DEF Due
<1>6. p + 1 <= l * w + c - w => p + 1 < o \/ \E h \in 1 .. l, j \in o .. c : p + 1 = (h - 1) * w + j
  <2> DEFINE q == p + 1
  <2> SUFFICES ASSUME q <= l * w + c - w
               PROVE  q < o \/ \E h \in 1 .. l, j \in o .. c : q = (h - 1) * w + j
    OBVIOUS
  <2>1. q \in Nat
    BY <1>1
  <2>2. Within(o, c, l, w, q)
    BY <1>1, <2>1 DEF Within
  <2> HIDE DEF q
  <2> QED  BY <2>2, PlacesOf
<1>7. l * w \in Nat
  BY <1>1, Multiples
<1>8. p + 1 <= l * w + c - w \/ p + 1 > l * w + c - w
  <2> DEFINE b == l * w
  <2>1. b \in Nat
    BY <1>7
  <2> HIDE DEF b
  <2>2. p + 1 <= b + c - w \/ p + 1 > b + c - w
    BY <1>1, <2>1
  <2> QED  BY <2>2 DEF b
<1> QED  BY <1>3, <1>4, <1>5, <1>6, <1>8

\* The checks of a module, by its place in the expression.
LEMMA ChecksOf ==
  ASSUME NEW e \in Expressions, NEW i \in DOMAIN e.mods
  PROVE  /\ ~HasLoop(e) \/ i < e.open => ChecksAt(e, i) = {Check(0, Front(e, i), "eq", 1)}
         /\ HasLoop(e) /\ i = e.open =>
              ChecksAt(e, i) = {Check(0, Front(e, i), "eq", 2),
                                Check(Counter(e, e.loop - 1), {e.mods[e.close]}, "ge", 2)}
         /\ HasLoop(e) /\ e.open < i /\ i <= e.close =>
              ChecksAt(e, i) = {Check(Counter(e, e.loop), Front(e, i), "ge", 1)}
         /\ HasLoop(e) /\ i = e.close + 1 /\ i = Len(e.mods) =>
              ChecksAt(e, i) = {Check(Counter(e, e.loop), Front(e, i), "eq", 4)}
<1>1. /\ i \in Nat /\ e.open \in Nat /\ e.close \in Nat
      /\ HasLoop(e) => e.open <= e.close
  BY ExpressionFacts, ExpressionAssumption DEF HasLoop
<1>2. CASE ~HasLoop(e)
  BY <1>2 DEF ChecksAt
<1>3. CASE HasLoop(e) /\ i < e.open
  BY <1>1, <1>3 DEF ChecksAt
<1>4. CASE HasLoop(e) /\ i = e.open
  BY <1>1, <1>4 DEF ChecksAt
<1>5. CASE HasLoop(e) /\ e.open < i /\ i <= e.close
  BY <1>1, <1>5 DEF ChecksAt
<1>6. CASE HasLoop(e) /\ e.close < i
  BY <1>1, <1>6 DEF ChecksAt
<1>7. i < e.open \/ i = e.open \/ (e.open < i /\ i <= e.close) \/ e.close < i
  BY <1>1
<1> QED  BY <1>2, <1>3, <1>4, <1>5, <1>6, <1>7

\* Where the last module of the execution was passed, the next one is let through.
LEMMA NextIsAccepted ==
  ASSUME NEW e \in Expressions, NEW y, NEW p \in Nat,
         Ascending(e), Counted(e), HasLoop(e) => Len(e.mods) <= e.close + 1,
         p < Len(Execution(e)),
         HasLoop(e) => KeptTo(e.open, e.close, e.loop, Width(e), y.loop, InLabel(e, y), p),
         ~HasLoop(e) => y.loop = 0 /\ (1 <= p => p \in InLabel(e, y))
  PROVE  Passing(e, Execution(e)[p + 1], y) # {}
<1> DEFINE x == Execution(e)
<1>1. /\ e.mods \in Seq(1 .. 5) /\ DOMAIN e.mods = 1 .. Len(e.mods) /\ Len(e.mods) \in Nat
      /\ e.open \in Nat /\ e.close \in Nat
  BY ExpressionFacts
<1>2. ASSUME NEW i \in DOMAIN e.mods, x[p + 1] = e.mods[i],
             NEW c \in ChecksAt(e, i), Holds(c, y)
      PROVE  Passing(e, x[p + 1], y) # {}
  BY <1>2, AscendingFacts DEF Passing
<1>3. ASSUME NEW i \in DOMAIN e.mods, i = 1 \/ i - 1 \in InLabel(e, y)
      PROVE  \A f \in Front(e, i) : \E m \in y.mod : f <= m
  <2>1. CASE i = 1
    BY <2>1 DEF Front
  <2>2. CASE i # 1
    <3>1. i - 1 \in DOMAIN e.mods /\ e.mods[i - 1] \in y.mod /\ Front(e, i) = {e.mods[i - 1]}
      BY <1>1, <1>3, <2>2 DEF InLabel, Front
    <3>2. e.mods[i - 1] \in Nat
      BY <1>1, <3>1
    <3> QED  BY <3>1, <3>2
  <2> QED  BY <2>1, <2>2
<1>4. ASSUME NEW i \in DOMAIN e.mods, x[p + 1] = e.mods[i], y.loop = 0,
             i = 1 \/ i - 1 \in InLabel(e, y), ~HasLoop(e) \/ i < e.open
      PROVE  Passing(e, x[p + 1], y) # {}
  <2> DEFINE c == Check(0, Front(e, i), "eq", 1)
  <2>1. c \in ChecksAt(e, i)
    <3>1. ChecksAt(e, i) = {Check(0, Front(e, i), "eq", 1)}
      BY <1>4, ChecksOf
    <3> QED  BY <3>1
  <2>2. Holds(c, y)
    BY <1>3, <1>4 DEF Holds, Check
  <2> QED  BY <1>2, <1>4, <2>1, <2>2
<1>5. CASE ~HasLoop(e)
  <2>1. p + 1 \in DOMAIN e.mods /\ x[p + 1] = e.mods[p + 1]
    BY <1>1, <1>5 DEF Execution
  <2>2. y.loop = 0 /\ (p + 1 = 1 \/ (p + 1) - 1 \in InLabel(e, y))
    BY <1>5
  <2> QED  BY <1>4, <1>5, <2>1, <2>2
<1>6. CASE HasLoop(e)
  <2>1. /\ e.open \in 1 .. e.close /\ e.close \in 1 .. Len(e.mods) /\ Len(e.mods) <= e.close + 1
        /\ Width(e) \in 1 .. 5 /\ e.loop \in 1 .. 9 /\ e.loop < CounterValues(e)
        /\ Width(e) = e.close - e.open + 1
    BY <1>6, LoopSizes, CounterSizes DEF Counted, Width
  <2>2. IsUnrolled(e.mods, e.open, e.close, e.loop, Width(e), x, 1 .. 5)
    BY <1>6, ExecutionOf DEF IsUnrolled, Place
  <2>3. Underway(e.mods, e.open, e.close, e.loop, Width(e), x, 1 .. 5, y.loop, InLabel(e, y), p)
    BY <1>1, <1>6, <2>1, <2>2 DEF Underway
  <2>4. PICK i \in 1 .. Len(e.mods) :
              Due(e.mods, e.open, e.close, e.loop, x, y.loop, InLabel(e, y), p, i)
    <3> HIDE DEF x
    <3> QED  BY <2>3, NextPlace
  <2>5. i \in DOMAIN e.mods /\ x[p + 1] = e.mods[i]
    BY <1>1, <2>4 DEF Due
  <2>6. Counter(e, e.loop - 1) = e.loop - 1 /\ Counter(e, e.loop) = e.loop
    <3>1. CounterValues(e) \in Nat
      BY CounterSizes
    <3> DEFINE v == CounterValues(e)
               l == e.loop
    <3>2. l \in 1 .. 9 /\ l < v /\ v \in Nat
      BY <2>1, <3>1
    <3> HIDE DEF v, l
    <3>3. l - 1 \in 0 .. v - 1 /\ l \in 0 .. v - 1 /\ l - 1 \in Int /\ l \in Int
      BY <3>2
    <3> QED  BY <3>3, CounterFits DEF l, v
  <2>7. CASE i < e.open /\ y.loop = 0 /\ (i = 1 \/ i - 1 \in InLabel(e, y))
    BY <1>4, <2>5, <2>7
  <2>8. CASE i = e.open /\ y.loop = 0 /\ (i = 1 \/ i - 1 \in InLabel(e, y))
    <3> DEFINE c == Check(0, Front(e, i), "eq", 2)
    <3>1. c \in ChecksAt(e, i)
      <4>1. ChecksAt(e, i) = {Check(0, Front(e, i), "eq", 2),
                              Check(Counter(e, e.loop - 1), {e.mods[e.close]}, "ge", 2)}
        BY <1>6, <2>5, <2>8, ChecksOf
      <4> QED  BY <4>1
    <3>2. Holds(c, y)
      BY <1>3, <2>5, <2>8 DEF Holds, Check
    <3> QED  BY <1>2, <2>5, <3>1, <3>2
  <2>9. CASE i = e.open /\ y.loop \in 1 .. e.loop - 1 /\ e.close \in InLabel(e, y)
    <3> DEFINE c == Check(Counter(e, e.loop - 1), {e.mods[e.close]}, "ge", 2)
    <3>1. c \in ChecksAt(e, i)
      <4>1. ChecksAt(e, i) = {Check(0, Front(e, i), "eq", 2),
                              Check(Counter(e, e.loop - 1), {e.mods[e.close]}, "ge", 2)}
        BY <1>6, <2>5, <2>9, ChecksOf
      <4> QED  BY <4>1
    <3>2. e.mods[e.close] \in y.mod /\ e.mods[e.close] \in Nat
      <4>1. e.mods[e.close] \in y.mod
        <5> DEFINE last == e.close
        <5>1. last \in InLabel(e, y)
          BY <2>9
        <5> HIDE DEF last
        <5>2. e.mods[last] \in y.mod
          BY <5>1 DEF InLabel
        <5> QED  BY <5>2 DEF last
      <4>2. e.close \in 1 .. Len(e.mods)
        BY <2>1
      <4>3. e.mods[e.close] \in 1 .. 5
        BY <1>1, <4>2
      <4> QED  BY <4>1, <4>3
    <3>3. e.loop - 1 >= y.loop
      BY <2>1, <2>9
    <3>4. Holds(c, y)
      BY <2>6, <3>2, <3>3 DEF Holds, Check
    <3> QED  BY <1>2, <2>5, <3>1, <3>4
  <2>10. CASE i \in e.open + 1 .. e.close /\ y.loop \in 1 .. e.loop /\ i - 1 \in InLabel(e, y)
    <3> DEFINE c == Check(Counter(e, e.loop), Front(e, i), "ge", 1)
    <3>1. e.open < i /\ i <= e.close /\ ~(i < e.open) /\ i # e.open
      BY <1>1, <2>10
    <3>2. c \in ChecksAt(e, i)
      BY <1>6, <2>5, <3>1, ChecksOf
    <3>3. e.loop >= y.loop
      BY <2>1, <2>10
    <3>4. Holds(c, y)
      BY <1>3, <2>5, <2>6, <2>10, <3>3 DEF Holds, Check
    <3> QED  BY <1>2, <2>5, <3>2, <3>4
  <2>11. CASE i = e.close + 1 /\ i = Len(e.mods) /\ y.loop = e.loop /\ i - 1 \in InLabel(e, y)
    <3> DEFINE c == Check(Counter(e, e.loop), Front(e, i), "eq", 4)
    <3>2. c \in ChecksAt(e, i)
      <4>1. ChecksAt(e, i) = {Check(Counter(e, e.loop), Front(e, i), "eq", 4)}
        BY <1>6, <2>5, <2>11, ChecksOf
      <4> QED  BY <4>1
    <3>3. Holds(c, y)
      BY <1>3, <2>5, <2>6, <2>11 DEF Holds, Check
    <3> QED  BY <1>2, <2>5, <3>2, <3>3
  <2> QED  BY <2>4, <2>7, <2>8, <2>9, <2>10, <2>11 DEF Due
<1> QED  BY <1>5, <1>6

\* LegalIsAccepted holds for every set of expressions in alphabetical order
\* whose loops have a counter and at most one module behind them: data that
\* keeps to the expression is never stopped.
THEOREM LegalDataPasses ==
  ASSUME \A e \in Expressions : Ascending(e) /\ Counted(e),
         \A e \in Expressions : HasLoop(e) => Len(e.mods) <= e.close + 1
  PROVE  Spec => []LegalIsAccepted
<1>1. Init => PolicyInv /\ ClearInv /\ LegalInv
  <2> SUFFICES ASSUME Init PROVE ClearInv /\ LegalInv
    BY PolicyInvInitial
  <2>1. /\ STM_express \in Expressions /\ ~cleared /\ label.loop = 0 /\ Len(passed) = 0
        /\ InLabel(STM_express, label) = {}
    BY DEF Init, InLabel
  <2>2. STM_express.loop \in Nat
    BY <2>1, ExpressionFacts
  <2>3. ClearInv
    BY <2>1, <2>2 DEF ClearInv, Reached
  <2>4. ASSUME HasLoop(STM_express)
        PROVE  KeptTo(STM_express.open, STM_express.close, STM_express.loop, Width(STM_express), 0, {}, 0)
    <3> DEFINE e == STM_express
               w == Width(e)
    <3>1. e.open \in Nat /\ 1 <= e.open /\ e.close \in Nat /\ e.loop \in 1 .. 9 /\ w \in 1 .. 5
      BY <2>1, <2>4, LoopSizes
    <3> HIDE DEF w
    <3>2. \A h \in 1 .. e.loop : (h - 1) * w \in Nat
      BY <3>1
    <3>3. \A h \in 1 .. e.loop, j \in e.open .. e.close : (h - 1) * w + j # 0
      BY <3>1, <3>2
    <3> QED  BY <3>1, <3>3 DEF KeptTo, w
  <2>5. LegalInv
    BY <2>1, <2>4 DEF LegalInv
  <2> QED  BY <2>3, <2>5
<1>2. PolicyInv /\ ClearInv /\ LegalInv /\ [Next]_vars => PolicyInv' /\ ClearInv' /\ LegalInv'
  BY PolicyInvInductive, ClearInvInductive, LegalInvInductive
<1>3. PolicyInv /\ LegalInv => LegalIsAccepted
  <2> SUFFICES ASSUME PolicyInv, LegalInv, label # HighZ,
                      Len(passed) < Len(Execution(STM_express)),
                      passed = SubSeq(Execution(STM_express), 1, Len(passed))
               PROVE  Passing(STM_express, Execution(STM_express)[Len(passed) + 1], label) # {}
    BY DEF LegalIsAccepted
  <2>1. STM_express \in Expressions /\ Len(passed) \in Nat
    BY DEF PolicyInv
  <2>2. Len(Execution(STM_express)) \in Nat
    BY <2>1, ExecutionIsSeq
  <2>3. /\ HasLoop(STM_express) =>
             KeptTo(STM_express.open, STM_express.close, STM_express.loop, Width(STM_express),
                    label.loop, InLabel(STM_express, label), Len(passed))
        /\ ~HasLoop(STM_express) =>
             label.loop = 0 /\ (1 <= Len(passed) => Len(passed) \in InLabel(STM_express, label))
    BY <2>1, <2>2 DEF LegalInv
  <2> QED  BY <2>1, <2>3, NextIsAccepted
<1> QED  BY <1>1, <1>2, <1>3, PTL DEF Spec

=============================================================================
