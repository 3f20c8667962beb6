-------------------------- MODULE BranchMergeProofs --------------------------
(* What holds of BranchMerge for every set of objects and all bounds.       *)
EXTENDS BranchMerge, FiniteSetTheorems, SequenceTheorems, WellFoundedInduction, TLAPS

-----------------------------------------------------------------------------
(* What a lookup finds, frame by frame.                                     *)

Has(E, o, p, b, m) == Edge(o, [point |-> p, branch |-> b, mark |-> m]) \in E

\* What the k-th frame says of an object; frame 0 is the program around all.
Says(E, s, k, o) ==
  IF k = 0 THEN Has(E, o, 0, 0, "none")
  ELSE s[k].arm = "branch" /\ Has(E, o, s[k].point, s[k].branch, "A")
Denies(E, s, k, o) == s[k].arm = "branch" /\ Has(E, o, s[k].point, s[k].branch, "D")

\* The object is found by a lookup that looks no deeper than the k-th frame.
InHeld(E, s, k, o) ==
  \E i \in 0..k : Says(E, s, i, o) /\ \A j \in (i + 1)..k : ~Denies(E, s, j, o)

\* It is in the variable after the b-th branch of the k-th frame.
InAfter(E, s, k, b, o) ==
  \/ InHeld(E, s, k - 1, o) /\ ~Has(E, o, s[k].point, b, "D")
  \/ Has(E, o, s[k].point, b, "A")

-----------------------------------------------------------------------------
(* The invariant.                                                           *)

\* A frame alone: no more branches than conditions and an else.
FrameShape(f) ==
  /\ f.branch = f.branch_num_counter
  /\ f.branch + f.elems <= MaxElems + 1
  /\ ~f.over => f.branch + f.elems <= MaxElems
  /\ f.arm = "branch" => f.branch >= 1

StackShape(s, n) ==
  /\ s \in Seq(Frame) /\ Len(s) <= MaxDepth
  /\ \A i, j \in 1..Len(s) : i < j => s[i].point < s[j].point
  /\ \A k \in 1..Len(s) : FrameShape(s[k]) /\ s[k].point <= n
  /\ \A k \in 1..Len(s) : k < Len(s) => s[k].arm # "none"

Edges == [obj : Objects, tag : Tags \cup {NoTag}]

ShapeInv ==
  /\ edges \subseteq Edges /\ StackShape(stack, ifs)
  /\ ifs \in 0..MaxIfs /\ raised \in BOOLEAN /\ possible \subseteq Objects /\ plain \in BOOLEAN

\* An arm runs in the parent branch only before the if has branches, and ends it.
FramePlain(f) ==
  /\ f.branch_num_counter = 0 <=> f.else_is_deterministic
  /\ f.arm = "parent" => f.over /\ f.branch_num_counter = 0
  /\ f.over => f.rest = {}
  /\ f.over /\ f.branch_num_counter > 0 => f.hasElse

\* Every tag is that of a branch of an if under way.
TagsAreOpen(E, s) ==
  \A e \in E : e.tag # NoTag =>
    \E k \in 1..Len(s) : e.tag.point = s[k].point
                           /\ e.tag.branch \in 1..s[k].branch_num_counter

\* An object is added at one level only.
AddedOnce(E) ==
  \A d, e \in E : d.obj = e.obj /\ d.tag.mark # "D" /\ e.tag.mark # "D" =>
    d.tag.point = e.tag.point

\* What is deleted was there.
DeletedWasHeld(E, s) ==
  \A e \in E, k \in 1..Len(s) : e.tag.mark = "D" /\ e.tag.point = s[k].point =>
    InHeld(E, s, k - 1, e.obj)

\* What the history says of a frame, told from the edges.
RestIsHeld(E, s) ==
  \A k \in 1..Len(s), o \in Objects : ~s[k].over => (o \in s[k].rest <=> InHeld(E, s, k - 1, o))

Finished(f) == 1..(IF f.arm = "branch" THEN f.branch_num_counter - 1 ELSE f.branch_num_counter)

FoundAt(E, s, k, o) ==
  IF s[k].branch_num_counter = 0
  THEN s[k].over /\ s[k].arm = "none" /\ InHeld(E, s, k - 1, o)
  ELSE \E b \in Finished(s[k]) : InAfter(E, s, k, b, o)

FoundIsAfter(E, s) ==
  \A k \in 1..Len(s), o \in Objects : o \in s[k].found <=> FoundAt(E, s, k, o)

HeldIs(E, s, P) == \A o \in Objects : o \in P <=> InHeld(E, s, Len(s), o)

PlainInv ==
  /\ ~raised
  /\ \A k \in 1..Len(stack) : FramePlain(stack[k])
  /\ TagsAreOpen(edges, stack) /\ AddedOnce(edges) /\ DeletedWasHeld(edges, stack)
  /\ RestIsHeld(edges, stack) /\ FoundIsAfter(edges, stack)
  /\ InArm => HeldIs(edges, stack, possible)

MergeInv == ShapeInv /\ (plain => PlainInv)

-----------------------------------------------------------------------------
(* Induction, from the library's well-founded order of the naturals.        *)

LEMMA LeastOf ==
  ASSUME NEW T \in SUBSET Nat, T # {}
  PROVE  \E x \in T : \A y \in T : x <= y
<1> DEFINE R == OpToRel(<, Nat)
<1>1. IsWellFoundedOn(R, Nat)
  BY NatLessThanWellFounded, Zenon
<1>2. \A x, y : <<x, y>> \in R <=> x \in Nat /\ y \in Nat /\ x < y
  BY DEF OpToRel
<1> HIDE DEF R
<1>3. PICK x \in T : \A y \in T : <<y, x>> \notin R
  BY <1>1, WFMin
<1>4. \A y \in T : x <= y
  <2> TAKE y \in T
  <2>1. x \in Nat /\ y \in Nat /\ ~(y < x)
    BY <1>2, <1>3
  <2> QED  BY <2>1
<1> QED  BY <1>4

LEMMA Induction ==
  ASSUME NEW S, 0 \in S, \A n \in Nat : n \in S => n + 1 \in S
  PROVE  Nat \subseteq S
<1> SUFFICES ASSUME NEW n \in Nat, n \notin S PROVE FALSE
  OBVIOUS
<1> DEFINE T == {m \in Nat : m \notin S}
<1>1. PICK x \in T : \A y \in T : x <= y
  <2>1. T \in SUBSET Nat /\ T # {}
    OBVIOUS
  <2> HIDE DEF T
  <2> QED  BY <2>1, LeastOf
<1>2. x # 0 /\ x - 1 \in Nat
  BY <1>1
<1>3. x - 1 \in S
  BY <1>1, <1>2
<1> QED  BY <1>1, <1>2, <1>3

-----------------------------------------------------------------------------
(* The list of branches and the frames tell a lookup the same.              *)

LEMMA HeldStep ==
  ASSUME NEW E, NEW s, NEW o, NEW k \in Nat
  PROVE  /\ InHeld(E, s, 0, o) <=> Has(E, o, 0, 0, "none")
         /\ InHeld(E, s, k + 1, o) <=>
              Says(E, s, k + 1, o) \/ (InHeld(E, s, k, o) /\ ~Denies(E, s, k + 1, o))
<1>1. InHeld(E, s, 0, o) <=> Has(E, o, 0, 0, "none")
  BY DEF InHeld, Says
<1>2. ASSUME InHeld(E, s, k + 1, o)
      PROVE  Says(E, s, k + 1, o) \/ (InHeld(E, s, k, o) /\ ~Denies(E, s, k + 1, o))
  <2>1. PICK i \in 0..(k + 1) : Says(E, s, i, o) /\ \A j \in (i + 1)..(k + 1) : ~Denies(E, s, j, o)
    BY <1>2 DEF InHeld
  <2>2. CASE i = k + 1
    BY <2>1, <2>2
  <2>3. CASE i # k + 1
    <3>1. i \in 0..k /\ k + 1 \in (i + 1)..(k + 1) /\ \A j \in (i + 1)..k : j \in (i + 1)..(k + 1)
      BY <2>3
    <3> QED  BY <2>1, <3>1 DEF InHeld
  <2> QED  BY <2>2, <2>3
<1>3. ASSUME Says(E, s, k + 1, o) PROVE InHeld(E, s, k + 1, o)
  <2>1. k + 1 \in 0..(k + 1) /\ \A j \in ((k + 1) + 1)..(k + 1) : FALSE
    OBVIOUS
  <2> QED  BY <1>3, <2>1 DEF InHeld
<1>4. ASSUME InHeld(E, s, k, o), ~Denies(E, s, k + 1, o) PROVE InHeld(E, s, k + 1, o)
  <2>1. PICK i \in 0..k : Says(E, s, i, o) /\ \A j \in (i + 1)..k : ~Denies(E, s, j, o)
    BY <1>4 DEF InHeld
  <2>2. i \in 0..(k + 1) /\ \A j \in (i + 1)..(k + 1) : j \in (i + 1)..k \/ j = k + 1
    OBVIOUS
  <2> QED  BY <1>4, <2>1, <2>2 DEF InHeld
<1> QED  BY <1>1, <1>2, <1>3, <1>4

\* What a lookup with the list t finds.
SaysAt(E, t, i, o) ==
  IF i = 0 THEN Has(E, o, 0, 0, "none") ELSE Has(E, o, t[i].point, t[i].branch, "A")
DeniesAt(E, t, i, o) == Has(E, o, t[i].point, t[i].branch, "D")
InSeen(E, t, o) ==
  \E i \in 0..Len(t) : SaysAt(E, t, i, o) /\ \A j \in (i + 1)..Len(t) : ~DeniesAt(E, t, j, o)

TagOf(f) == [point |-> f.point, branch |-> f.branch]
BranchTag == [point : 1..MaxIfs, branch : 0..(MaxElems + 1)]
Pushed(t, f) == IF f.arm = "branch" THEN Append(t, TagOf(f)) ELSE t

LEMMA SeenStep ==
  ASSUME NEW E, NEW o, NEW t \in Seq(BranchTag), NEW f \in Frame, f.arm = "branch"
  PROVE  InSeen(E, Append(t, TagOf(f)), o) <=>
           \/ Has(E, o, f.point, f.branch, "A")
           \/ InSeen(E, t, o) /\ ~Has(E, o, f.point, f.branch, "D")
<1> DEFINE u == Append(t, TagOf(f))
           n == Len(t)
<1>1. /\ n \in Nat /\ Len(u) = n + 1 /\ u[n + 1] = TagOf(f)
      /\ \A i \in 1..n : u[i] = t[i]
  BY DEF TagOf, BranchTag, Frame
<1>2. /\ u[n + 1].point = f.point /\ u[n + 1].branch = f.branch
  BY <1>1 DEF TagOf
<1> HIDE DEF u, n
<1>3. /\ SaysAt(E, u, n + 1, o) <=> Has(E, o, f.point, f.branch, "A")
      /\ DeniesAt(E, u, n + 1, o) <=> Has(E, o, f.point, f.branch, "D")
      /\ \A i \in 0..n : SaysAt(E, u, i, o) <=> SaysAt(E, t, i, o)
      /\ \A i \in 1..n : DeniesAt(E, u, i, o) <=> DeniesAt(E, t, i, o)
  BY <1>1, <1>2 DEF SaysAt, DeniesAt
<1>4. ASSUME InSeen(E, u, o)
      PROVE  SaysAt(E, u, n + 1, o) \/ (InSeen(E, t, o) /\ ~DeniesAt(E, u, n + 1, o))
  <2>1. PICK i \in 0..(n + 1) : SaysAt(E, u, i, o) /\ \A j \in (i + 1)..(n + 1) : ~DeniesAt(E, u, j, o)
    BY <1>1, <1>4 DEF InSeen
  <2>2. CASE i = n + 1
    BY <2>1, <2>2
  <2>3. CASE i # n + 1
    <3>1. i \in 0..n /\ n + 1 \in (i + 1)..(n + 1) /\ \A j \in (i + 1)..n : j \in (i + 1)..(n + 1) /\ j \in 1..n
      BY <1>1, <2>3
    <3> QED  BY <1>3, <2>1, <3>1 DEF InSeen, n
  <2> QED  BY <2>2, <2>3
<1>5. ASSUME SaysAt(E, u, n + 1, o) PROVE InSeen(E, u, o)
  <2>1. n + 1 \in 0..(n + 1) /\ \A j \in ((n + 1) + 1)..(n + 1) : FALSE
    BY <1>1
  <2> QED  BY <1>1, <1>5, <2>1 DEF InSeen
<1>6. ASSUME InSeen(E, t, o), ~DeniesAt(E, u, n + 1, o) PROVE InSeen(E, u, o)
  <2>1. PICK i \in 0..n : SaysAt(E, t, i, o) /\ \A j \in (i + 1)..n : ~DeniesAt(E, t, j, o)
    BY <1>6 DEF InSeen, n
  <2>2. i \in 0..(n + 1) /\ \A j \in (i + 1)..(n + 1) : (j \in (i + 1)..n /\ j \in 1..n) \/ j = n + 1
    BY <1>1
  <2> QED  BY <1>1, <1>3, <1>6, <2>1, <2>2 DEF InSeen
<1> QED  BY <1>3, <1>4, <1>5, <1>6 DEF u

\* The list t tells of the first k frames what they are.
Follows(s, k, t) ==
  /\ t \in Seq(BranchTag)
  /\ t = <<>> <=> \A j \in 1..k : s[j].arm # "branch"
  /\ t # <<>> => \E m \in 1..k :
       /\ s[m].arm = "branch" /\ \A j \in (m + 1)..k : s[j].arm # "branch"
       /\ t[Len(t)] = TagOf(s[m])
  /\ \A E, o : InSeen(E, t, o) <=> InHeld(E, s, k, o)

LEMMA FollowsNone ==
  ASSUME NEW s
  PROVE  Follows(s, 0, <<>>)
<1>1. \A E, o : InSeen(E, <<>>, o) <=> Has(E, o, 0, 0, "none")
  BY DEF InSeen, SaysAt
<1>2. \A E, o : InHeld(E, s, 0, o) <=> Has(E, o, 0, 0, "none")
  BY HeldStep
<1> QED  BY <1>1, <1>2 DEF Follows

LEMMA FollowsStep ==
  ASSUME NEW s \in Seq(Frame), NEW k \in Nat, NEW t,
         k + 1 <= Len(s),
         Follows(s, k, t)
  PROVE  Follows(s, k + 1, Pushed(t, s[k + 1]))
<1> DEFINE f == s[k + 1]
<1>1. f \in Frame /\ t \in Seq(BranchTag)
  BY DEF Follows
<1>2. CASE f.arm = "branch"
  <2> DEFINE u == Append(t, TagOf(f))
  <2>1. Pushed(t, f) = u /\ TagOf(f) \in BranchTag
    BY <1>1, <1>2 DEF Pushed, TagOf, Frame, BranchTag
  <2>2. u \in Seq(BranchTag) /\ u # <<>> /\ u[Len(u)] = TagOf(f)
    BY <1>1, <2>1
  <2>3. \A E, o : InSeen(E, u, o) <=> InHeld(E, s, k + 1, o)
    <3> TAKE E, o
    <3>1. InSeen(E, u, o) <=>
           \/ Has(E, o, f.point, f.branch, "A")
           \/ InSeen(E, t, o) /\ ~Has(E, o, f.point, f.branch, "D")
      BY <1>1, <1>2, SeenStep
    <3>2. InHeld(E, s, k + 1, o) <=>
              Says(E, s, k + 1, o) \/ (InHeld(E, s, k, o) /\ ~Denies(E, s, k + 1, o))
      BY HeldStep
    <3>3. /\ Says(E, s, k + 1, o) <=> Has(E, o, f.point, f.branch, "A")
          /\ Denies(E, s, k + 1, o) <=> Has(E, o, f.point, f.branch, "D")
      BY <1>2 DEF Says, Denies
    <3>4. InSeen(E, t, o) <=> InHeld(E, s, k, o)
      BY DEF Follows
    <3> QED  BY <3>1, <3>2, <3>3, <3>4
  <2>4. k + 1 \in 1..(k + 1) /\ \A j \in ((k + 1) + 1)..(k + 1) : FALSE
    OBVIOUS
  <2> HIDE DEF u
  <2> QED  BY <1>2, <2>1, <2>2, <2>3, <2>4 DEF Follows
<1>3. CASE f.arm # "branch"
  <2>1. Pushed(t, f) = t
    BY <1>3 DEF Pushed
  <2>2. \A E, o : InHeld(E, s, k + 1, o) <=> InHeld(E, s, k, o)
    <3> TAKE E, o
    <3>1. ~Says(E, s, k + 1, o) /\ ~Denies(E, s, k + 1, o)
      BY <1>3 DEF Says, Denies
    <3> QED  BY <3>1, HeldStep
  <2>3. t = <<>> <=> \A j \in 1..(k + 1) : s[j].arm # "branch"
    <3>1. \A j \in 1..(k + 1) : j \in 1..k \/ j = k + 1
      OBVIOUS
    <3>2. \A j \in 1..k : j \in 1..(k + 1)
      OBVIOUS
    <3> QED  BY <1>3, <3>1, <3>2 DEF Follows
  <2>4. t # <<>> => \E m \in 1..(k + 1) :
           /\ s[m].arm = "branch" /\ \A j \in (m + 1)..(k + 1) : s[j].arm # "branch"
           /\ t[Len(t)] = TagOf(s[m])
    <3> SUFFICES ASSUME t # <<>>
                 PROVE  \E m \in 1..(k + 1) :
                          /\ s[m].arm = "branch" /\ \A j \in (m + 1)..(k + 1) : s[j].arm # "branch"
                          /\ t[Len(t)] = TagOf(s[m])
      OBVIOUS
    <3>1. PICK m \in 1..k :
           /\ s[m].arm = "branch" /\ \A j \in (m + 1)..k : s[j].arm # "branch"
           /\ t[Len(t)] = TagOf(s[m])
      BY DEF Follows
    <3>2. m \in 1..(k + 1) /\ \A j \in (m + 1)..(k + 1) : j \in (m + 1)..k \/ j = k + 1
      OBVIOUS
    <3> QED  BY <1>3, <3>1, <3>2
  <2> QED  BY <2>1, <2>2, <2>3, <2>4 DEF Follows
<1> QED  BY <1>2, <1>3

\* The recursion of Branches.
Walk(s, n, g) ==
  /\ g \in [0..n -> Seq(BranchTag)] /\ g[0] = <<>>
  /\ \A k \in 1..n : g[k] = Pushed(g[k - 1], s[k])

LEMMA PushedType ==
  ASSUME NEW t \in Seq(BranchTag), NEW f \in Frame
  PROVE  Pushed(t, f) \in Seq(BranchTag)
<1>1. TagOf(f) \in BranchTag
  BY DEF TagOf, Frame, BranchTag
<1> QED  BY <1>1 DEF Pushed

LEMMA WalkExists ==
  ASSUME NEW s \in Seq(Frame)
  PROVE  \E g : Walk(s, Len(s), g)
<1> DEFINE S == {n \in Nat : n <= Len(s) => \E g : Walk(s, n, g)}
<1>1. 0 \in S
  <2> DEFINE g == [k \in 0..0 |-> <<>>]
  <2>1. Walk(s, 0, g)
    BY DEF Walk
  <2> QED  BY <2>1
<1>2. ASSUME NEW n \in Nat, n \in S PROVE n + 1 \in S
  <2> SUFFICES ASSUME n + 1 <= Len(s) PROVE \E g : Walk(s, n + 1, g)
    BY <1>2
  <2>1. PICK h : Walk(s, n, h)
    BY <1>2
  <2> DEFINE g == [k \in 0..(n + 1) |-> IF k = n + 1 THEN Pushed(h[n], s[n + 1]) ELSE h[k]]
  <2>2. s[n + 1] \in Frame /\ n \in 0..n
    OBVIOUS
  <2>3. Pushed(h[n], s[n + 1]) \in Seq(BranchTag)
    BY <2>1, <2>2, PushedType DEF Walk
  <2>4. g \in [0..(n + 1) -> Seq(BranchTag)] /\ g[0] = <<>>
    BY <2>1, <2>3 DEF Walk
  <2>5. \A k \in 1..(n + 1) : g[k] = Pushed(g[k - 1], s[k])
    <3> TAKE k \in 1..(n + 1)
    <3>1. CASE k = n + 1
      <4>1. k - 1 = n /\ n \in 0..(n + 1) /\ n # n + 1 /\ k \in 0..(n + 1)
        BY <3>1
      <4>2. g[k - 1] = h[n]
        BY <4>1
      <4> QED  BY <3>1, <4>1, <4>2
    <3>2. CASE k # n + 1
      <4>1. k \in 1..n /\ k \in 0..(n + 1) /\ k - 1 \in 0..(n + 1) /\ k - 1 # n + 1
        BY <3>2
      <4>2. g[k] = h[k] /\ g[k - 1] = h[k - 1]
        BY <3>2, <4>1
      <4> QED  BY <2>1, <4>1, <4>2 DEF Walk
    <3> QED  BY <3>1, <3>2
  <2> HIDE DEF g
  <2>6. Walk(s, n + 1, g)
    BY <2>4, <2>5 DEF Walk
  <2> QED  BY <2>6
<1> HIDE DEF S
<1>3. Nat \subseteq S
  BY <1>1, <1>2, Induction
<1>4. Len(s) \in S
  BY <1>3
<1> QED  BY <1>4 DEF S

LEMMA WalkIsUnique ==
  ASSUME NEW s \in Seq(Frame), NEW g, NEW f,
         Walk(s, Len(s), g),
         f[0] = <<>>, \A k \in 1..Len(s) : f[k] = Pushed(f[k - 1], s[k])
  PROVE  f[Len(s)] = g[Len(s)]
<1> DEFINE S == {n \in Nat : n <= Len(s) => f[n] = g[n]}
<1>1. 0 \in S
  BY DEF Walk
<1>2. ASSUME NEW n \in Nat, n \in S PROVE n + 1 \in S
  <2> SUFFICES ASSUME n + 1 <= Len(s) PROVE f[n + 1] = g[n + 1]
    BY <1>2
  <2>1. f[n] = g[n] /\ n + 1 \in 1..Len(s) /\ (n + 1) - 1 = n
    BY <1>2
  <2>2. f[n + 1] = Pushed(f[n], s[n + 1])
    BY <2>1
  <2>3. g[n + 1] = Pushed(g[n], s[n + 1])
    BY <2>1 DEF Walk
  <2> QED  BY <2>1, <2>2, <2>3
<1> HIDE DEF S
<1>3. Nat \subseteq S
  BY <1>1, <1>2, Induction
<1>4. Len(s) \in S
  BY <1>3
<1> QED  BY <1>4 DEF S

LEMMA WalkFollows ==
  ASSUME NEW s \in Seq(Frame), NEW g, Walk(s, Len(s), g)
  PROVE  Follows(s, Len(s), g[Len(s)])
<1> DEFINE S == {n \in Nat : n <= Len(s) => Follows(s, n, g[n])}
<1>1. 0 \in S
  BY FollowsNone DEF Walk
<1>2. ASSUME NEW n \in Nat, n \in S PROVE n + 1 \in S
  <2> SUFFICES ASSUME n + 1 <= Len(s) PROVE Follows(s, n + 1, g[n + 1])
    BY <1>2
  <2>1. Follows(s, n, g[n]) /\ n + 1 \in 1..Len(s) /\ (n + 1) - 1 = n
    BY <1>2
  <2>2. g[n + 1] = Pushed(g[n], s[n + 1])
    BY <2>1 DEF Walk
  <2> QED  BY <2>1, <2>2, FollowsStep
<1> HIDE DEF S
<1>3. Nat \subseteq S
  BY <1>1, <1>2, Induction
<1>4. Len(s) \in S
  BY <1>3
<1> QED  BY <1>4 DEF S

LEMMA BranchesFollow ==
  ASSUME NEW s \in Seq(Frame)
  PROVE  Follows(s, Len(s), Branches(s))
<1> DEFINE R(f, k) == IF k = 0 THEN <<>>
                      ELSE IF s[k].arm = "branch"
                      THEN Append(f[k - 1], [point |-> s[k].point, branch |-> s[k].branch])
                      ELSE f[k - 1]
           p == CHOOSE f : f = [k \in 0..Len(s) |-> R(f, k)]
<1>1. PICK g : Walk(s, Len(s), g)
  BY WalkExists
<1>2. Branches(s) = p[Len(s)]
  BY DEF Branches
<1>3. g = [k \in 0..Len(s) |-> R(g, k)]
  <2>1. \A k \in 0..Len(s) : g[k] = R(g, k)
    <3> TAKE k \in 0..Len(s)
    <3>1. CASE k = 0
      BY <1>1, <3>1 DEF Walk
    <3>2. CASE k # 0
      <4>1. k \in 1..Len(s)
        BY <3>2
      <4>2. g[k] = Pushed(g[k - 1], s[k])
        BY <1>1, <4>1 DEF Walk
      <4> QED  BY <3>2, <4>2, Zenon DEF Pushed, TagOf
    <3> QED  BY <3>1, <3>2
  <2>2. g \in [0..Len(s) -> Seq(BranchTag)]
    BY <1>1 DEF Walk
  <2> QED  BY <2>1, <2>2
<1>4. p = [k \in 0..Len(s) |-> R(p, k)]
  BY <1>3
<1> HIDE DEF p
<1>5. Len(s) \in Nat
  OBVIOUS
<1>6. p[0] = <<>> /\ \A k \in 1..Len(s) : p[k] = Pushed(p[k - 1], s[k])
  <2>1. \A k \in 0..Len(s) : p[k] = R(p, k)
    <3> HIDE DEF R
    <3> QED  BY <1>4
  <2>2. 0 \in 0..Len(s) /\ \A k \in 1..Len(s) : k \in 0..Len(s) /\ k # 0
    BY <1>5
  <2>3. p[0] = <<>>
    BY <2>1, <2>2
  <2>4. ASSUME NEW k \in 1..Len(s) PROVE p[k] = Pushed(p[k - 1], s[k])
    <3>1. p[k] = R(p, k) /\ k # 0
      BY <2>1, <2>2
    <3> QED  BY <3>1, Zenon DEF Pushed, TagOf
  <2> QED  BY <2>3, <2>4
<1>7. p[Len(s)] = g[Len(s)]
  BY <1>1, <1>6, WalkIsUnique
<1> QED  BY <1>1, <1>2, <1>7, WalkFollows

LEMMA VisibleIsHeld ==
  ASSUME NEW E, NEW s \in Seq(Frame), Branches(s) # <<>>
  PROVE  Visible(E, Branches(s)) = {o \in Objects : InHeld(E, s, Len(s), o)}
<1> DEFINE t == Branches(s)
<1>1. Visible(E, t) = {o \in Objects : InSeen(E, t, o)}
  BY DEF Visible, InSeen, SaysAt, DeniesAt, Has, Mark, NoTag
<1>2. \A o : InSeen(E, t, o) <=> InHeld(E, s, Len(s), o)
  BY BranchesFollow DEF Follows
<1> QED  BY <1>1, <1>2

-----------------------------------------------------------------------------
(* The stack.                                                               *)

\* u is s without its last frame; with another last frame; with a frame more.
Below(s, u, n) == \A k \in 1..n : u[k] = s[k]
PoppedTo(s, u) == u \in Seq(Frame) /\ Len(u) = Len(s) - 1 /\ Below(s, u, Len(s) - 1)
Retopped(s, u, f) ==
  u \in Seq(Frame) /\ Len(u) = Len(s) /\ u[Len(s)] = f /\ Below(s, u, Len(s) - 1)
PushedTo(s, u, f) ==
  u \in Seq(Frame) /\ Len(u) = Len(s) + 1 /\ u[Len(s) + 1] = f /\ Below(s, u, Len(s))

LEMMA PopUnits ==
  ASSUME NEW s \in Seq(Frame), s # <<>>
  PROVE  PoppedTo(s, SubSeq(s, 1, Len(s) - 1))
<1>1. Len(s) \in Nat \ {0}
  BY EmptySeq
<1> DEFINE n == Len(s) - 1
<1>2. n \in Nat /\ \A k \in 1..n : s[k] \in Frame
  BY <1>1
<1>3. /\ SubSeq(s, 1, n) \in Seq(Frame) /\ Len(SubSeq(s, 1, n)) = n
      /\ \A i \in 1..n : SubSeq(s, 1, n)[i] = s[i]
  <2>1. /\ SubSeq(s, 1, n) \in Seq(Frame)
        /\ Len(SubSeq(s, 1, n)) = IF 1 <= n THEN n - 1 + 1 ELSE 0
        /\ \A i \in 1..n - 1 + 1 : SubSeq(s, 1, n)[i] = s[1 + i - 1]
    <3> HIDE DEF n
    <3> QED  BY <1>2, SubSeqProperties
  <2>2. n - 1 + 1 = n /\ \A i \in 1..n : 1 + i - 1 = i
    BY <1>2
  <2> HIDE DEF n
  <2>3. \A i \in 1..n : SubSeq(s, 1, n)[i] = s[i]
    <3> TAKE i \in 1..n
    <3>1. i \in 1..n - 1 + 1 /\ 1 + i - 1 = i
      BY <2>2
    <3> QED  BY <2>1, <3>1
  <2> QED  BY <1>2, <2>1, <2>2, <2>3
<1> QED  BY <1>3 DEF PoppedTo, Below

LEMMA RetopUnits ==
  ASSUME NEW s \in Seq(Frame), NEW f \in Frame,
         s # <<>>
  PROVE  Retopped(s, Append(SubSeq(s, 1, Len(s) - 1), f), f)
<1> DEFINE u == SubSeq(s, 1, Len(s) - 1)
<1>1. Len(s) \in Nat \ {0}
  BY EmptySeq
<1>2. u \in Seq(Frame) /\ Len(u) = Len(s) - 1 /\ \A k \in 1..Len(s) - 1 : u[k] = s[k]
  BY PopUnits DEF PoppedTo, Below
<1> HIDE DEF u
<1>3. /\ Append(u, f) \in Seq(Frame) /\ Len(Append(u, f)) = Len(s) /\ Append(u, f)[Len(s)] = f
      /\ \A k \in 1..Len(s) - 1 : Append(u, f)[k] = u[k]
  BY <1>1, <1>2
<1>4. Retopped(s, Append(u, f), f)
  BY <1>2, <1>3 DEF Retopped, Below
<1> QED  BY <1>4 DEF u

LEMMA PushUnits ==
  ASSUME NEW s \in Seq(Frame), NEW f \in Frame
  PROVE  PushedTo(s, Append(s, f), f)
BY DEF PushedTo, Below

LEMMA PopShape ==
  ASSUME NEW s, NEW u, NEW n, s # <<>>, StackShape(s, n), PoppedTo(s, u)
  PROVE  StackShape(u, n) /\ \A k \in 1..Len(u) : u[k].arm # "none"
<1>1. Len(s) \in Nat \ {0} /\ MaxDepth \in Nat
  BY EmptySeq, BranchMergeAssumption DEF StackShape
<1>2. Len(u) = Len(s) - 1 /\ \A k \in 1..Len(u) : u[k] = s[k] /\ k \in 1..Len(s) /\ k < Len(s)
  BY <1>1 DEF PoppedTo, Below
<1>3. u \in Seq(Frame) /\ Len(u) <= MaxDepth
  BY <1>1, <1>2 DEF PoppedTo, StackShape
<1>4. \A i, j \in 1..Len(u) : i < j => u[i].point < u[j].point
  BY <1>2 DEF StackShape
<1>5. \A k \in 1..Len(u) : FrameShape(u[k]) /\ u[k].point <= n
  BY <1>2 DEF StackShape
<1>6. \A k \in 1..Len(u) : u[k].arm # "none"
  BY <1>2 DEF StackShape
<1> QED  BY <1>3, <1>4, <1>5, <1>6 DEF StackShape

LEMMA RetopShape ==
  ASSUME NEW s, NEW u, NEW f, NEW n, s # <<>>, StackShape(s, n), Retopped(s, u, f),
         FrameShape(f), f.point = s[Len(s)].point
  PROVE  StackShape(u, n)
<1>1. Len(s) \in Nat \ {0} /\ MaxDepth \in Nat
  BY EmptySeq, BranchMergeAssumption DEF StackShape
<1>0. Len(u) = Len(s)
  BY DEF Retopped
<1>2. \A k \in 1..Len(u) : k \in 1..Len(s) /\ (u[k] = s[k] \/ (k = Len(s) /\ u[k] = f))
  <2> TAKE k \in 1..Len(u)
  <2>1. CASE k = Len(s)
    BY <1>0, <1>1, <2>1 DEF Retopped
  <2>2. CASE k # Len(s)
    <3>1. k \in 1..Len(s) - 1
      BY <1>0, <1>1, <2>2
    <3> QED  BY <1>0, <1>1, <3>1 DEF Retopped, Below
  <2> QED  BY <2>1, <2>2
<1>3. \A k \in 1..Len(u) : u[k].point = s[k].point /\ FrameShape(u[k])
  BY <1>0, <1>2 DEF StackShape
<1>4. \A i, j \in 1..Len(u) : i < j => u[i].point < u[j].point
  BY <1>0, <1>1, <1>2, <1>3 DEF StackShape
<1>5. \A k \in 1..Len(u) : k < Len(u) => u[k].arm # "none"
  BY <1>0, <1>1, <1>2 DEF StackShape
<1> QED  BY <1>0, <1>1, <1>2, <1>3, <1>4, <1>5 DEF StackShape, Retopped

LEMMA PushShape ==
  ASSUME NEW s, NEW u, NEW f, NEW n \in Nat, StackShape(s, n), PushedTo(s, u, f), Len(s) < MaxDepth,
         s # <<>> => s[Len(s)].arm # "none", FrameShape(f), f.point = n + 1
  PROVE  StackShape(u, n + 1)
<1>1. Len(s) \in Nat /\ MaxDepth \in Nat /\ s \in Seq(Frame)
  BY BranchMergeAssumption DEF StackShape
<1>2. Len(u) = Len(s) + 1 /\ \A k \in 1..Len(u) : (k \in 1..Len(s) /\ u[k] = s[k]) \/ (k = Len(s) + 1 /\ u[k] = f)
  BY <1>1 DEF PushedTo, Below
<1>3. \A k \in 1..Len(s) : s[k].point \in Nat /\ s[k].point <= n
  <2>1. \A k \in 1..Len(s) : s[k] \in Frame /\ s[k].point <= n
    BY <1>1 DEF StackShape
  <2>2. \A f0 \in Frame : f0.point \in Nat
    BY DEF Frame
  <2> QED  BY <2>1, <2>2
<1>4. \A i, j \in 1..Len(u) : i < j => u[i].point < u[j].point
  <2> TAKE i, j \in 1..Len(u)
  <2> SUFFICES ASSUME i < j PROVE u[i].point < u[j].point
    OBVIOUS
  <2>1. i \in 1..Len(s) /\ u[i] = s[i]
    BY <1>1, <1>2
  <2>2. CASE j \in 1..Len(s) /\ u[j] = s[j]
    BY <2>1, <2>2 DEF StackShape
  <2>3. CASE u[j] = f
    <3>1. s[i].point \in Nat /\ s[i].point <= n
      BY <1>3, <2>1
    <3> QED  BY <2>1, <2>3, <3>1
  <2> QED  BY <1>2, <2>2, <2>3
<1>5. \A k \in 1..Len(u) : FrameShape(u[k]) /\ u[k].point <= n + 1
  <2> TAKE k \in 1..Len(u)
  <2>1. CASE k \in 1..Len(s) /\ u[k] = s[k]
    <3>1. FrameShape(s[k]) /\ s[k].point \in Nat /\ s[k].point <= n
      BY <1>3, <2>1 DEF StackShape
    <3> QED  BY <2>1, <3>1
  <2>2. CASE u[k] = f
    BY <2>2
  <2> QED  BY <1>2, <2>1, <2>2
<1>6. \A k \in 1..Len(u) : k < Len(u) => u[k].arm # "none"
  <2> TAKE k \in 1..Len(u)
  <2> SUFFICES ASSUME k < Len(u) PROVE u[k].arm # "none"
    OBVIOUS
  <2>1. k \in 1..Len(s) /\ u[k] = s[k]
    BY <1>1, <1>2
  <2>2. CASE k < Len(s)
    BY <2>1, <2>2 DEF StackShape
  <2>3. CASE k = Len(s)
    <3>1. s # <<>>
      BY <1>1, <2>1, EmptySeq
    <3> QED  BY <2>1, <2>3, <3>1
  <2> QED  BY <1>1, <2>1, <2>2, <2>3
<1> QED  BY <1>1, <1>2, <1>4, <1>5, <1>6 DEF StackShape, PushedTo

-----------------------------------------------------------------------------
(* The edges and their tags.                                                *)

\* The m-th frame is that of the deepest branch; 0 if there is none.
Deepest(s, m) ==
  /\ m \in 0..Len(s)
  /\ m # 0 => s[m].arm = "branch"
  /\ \A j \in (m + 1)..Len(s) : s[j].arm # "branch"

\* What the last entry of a list of branches says of the frames.
LastIs(s, t, m) ==
  /\ Deepest(s, m) /\ t \in Seq(BranchTag)
  /\ t = <<>> <=> m = 0
  /\ m # 0 => t[Len(t)].point = s[m].point /\ t[Len(t)].branch = s[m].branch

LEMMA LastBranch ==
  ASSUME NEW s \in Seq(Frame)
  PROVE  \E m : LastIs(s, Branches(s), m)
<1> DEFINE t == Branches(s)
<1>1. Follows(s, Len(s), t) /\ Len(s) \in Nat
  BY BranchesFollow
<1> HIDE DEF t
<1>2. CASE t = <<>>
  <2>1. LastIs(s, t, 0)
    BY <1>1, <1>2 DEF LastIs, Deepest, Follows
  <2> QED  BY <2>1 DEF t
<1>3. CASE t # <<>>
  <2>1. PICK m \in 1..Len(s) :
           /\ s[m].arm = "branch" /\ \A j \in (m + 1)..Len(s) : s[j].arm # "branch"
           /\ t[Len(t)] = TagOf(s[m])
    BY <1>1, <1>3 DEF Follows
  <2>2. t[Len(t)].point = s[m].point /\ t[Len(t)].branch = s[m].branch
    BY <2>1 DEF TagOf
  <2>3. m \in 0..Len(s) /\ m # 0
    BY <1>1
  <2>4. LastIs(s, t, m)
    BY <1>1, <1>3, <2>1, <2>2, <2>3 DEF LastIs, Deepest, Follows
  <2> QED  BY <2>4 DEF t
<1> QED  BY <1>2, <1>3

\* A tag of the frame f.
FrameTag(f, m) == [point |-> f.point, branch |-> f.branch, mark |-> m]

LEMMA TagsAreTags ==
  ASSUME NEW f \in Frame, NEW m \in {"A", "D"},
         FrameShape(f), f.arm = "branch"
  PROVE  FrameTag(f, m) \in Tags
<1>1. MaxElems \in Nat /\ f.branch \in 0..(MaxElems + 1) /\ f.branch >= 1 /\ f.point \in 1..MaxIfs
  BY BranchMergeAssumption DEF Frame, FrameShape
<1>2. f.branch \in 1..(MaxElems + 1)
  BY <1>1
<1> QED  BY <1>1, <1>2 DEF FrameTag, Tags

LEMMA EdgesTo ==
  ASSUME NEW g, g \in Tags \cup {NoTag}
  PROVE  {Edge(o, g) : o \in Objects} \subseteq Edges
<1> SUFFICES ASSUME NEW o \in Objects PROVE Edge(o, g) \in Edges
  OBVIOUS
<1> HIDE DEF NoTag
<1> QED  BY DEF Edge, Edges

LEMMA ReassignedType ==
  ASSUME NEW s, NEW n, NEW E, NEW new,
         StackShape(s, n),
         E \subseteq Edges,
         new \subseteq Objects
  PROVE  Reassigned(E, Branches(s), new) \subseteq Edges
<1> DEFINE t == Branches(s)
<1>1. PICK m : LastIs(s, t, m)
  BY LastBranch DEF StackShape
<1>2. Visible(E, t) \subseteq Objects
  BY DEF Visible, Edges
<1> HIDE DEF t
<1>3. CASE t = <<>>
  <2>1. Reassigned(E, t, new) \subseteq E \cup {Edge(o, NoTag) : o \in Objects}
    BY <1>3, Zenon DEF Reassigned
  <2>2. NoTag \in Tags \cup {NoTag}
    OBVIOUS
  <2>3. {Edge(o, NoTag) : o \in Objects} \subseteq Edges
    BY <2>2, EdgesTo, Zenon
  <2> QED  BY <2>1, <2>3 DEF t
<1>4. CASE t # <<>>
  <2>1. m \in 1..Len(s) /\ s[m].arm = "branch" /\ s \in Seq(Frame)
    BY <1>1, <1>4 DEF LastIs, Deepest, StackShape
  <2>2. s[m] \in Frame /\ FrameShape(s[m])
    BY <2>1 DEF StackShape
  <2>3. FrameTag(s[m], "A") \in Tags /\ FrameTag(s[m], "D") \in Tags
    BY <2>1, <2>2, TagsAreTags
  <2>4. \A x : Mark(t[Len(t)], x) = FrameTag(s[m], x)
    BY <1>1, <2>1, <1>4 DEF LastIs, Mark, FrameTag
  <2>5. Reassigned(E, t, new) \subseteq
          E \cup {Edge(o, FrameTag(s[m], "D")) : o \in Objects} \cup {Edge(o, FrameTag(s[m], "A")) : o \in Objects}
    <3> DEFINE pre == Visible(E, t)
               added == {o \in pre : Edge(o, FrameTag(s[m], "A")) \in E}
    <3>1. Reassigned(E, t, new) =
            (E \ {Edge(o, FrameTag(s[m], "A")) : o \in added})
             \cup {Edge(o, FrameTag(s[m], "D")) : o \in pre \ added}
             \cup {Edge(o, FrameTag(s[m], "A")) : o \in new}
      BY <1>4, <2>4 DEF Reassigned
    <3>2. pre \subseteq Objects
      BY <1>2
    <3> HIDE DEF pre, added
    <3> QED  BY <3>1, <3>2
  <2>6. /\ {Edge(o, FrameTag(s[m], "D")) : o \in Objects} \subseteq Edges
        /\ {Edge(o, FrameTag(s[m], "A")) : o \in Objects} \subseteq Edges
    BY <2>3, EdgesTo, Zenon
  <2> QED  BY <2>5, <2>6 DEF t
<1> QED  BY <1>3, <1>4 DEF t

LEMMA MergedType ==
  ASSUME NEW s, NEW n, NEW E, NEW frame,
         StackShape(s, n),
         E \subseteq Edges
  PROVE  Merged(E, frame, Branches(s)) \subseteq Edges
<1> DEFINE t == Branches(s)
<1>1. PICK m : LastIs(s, t, m)
  BY LastBranch DEF StackShape
<1>2. Created(E, frame) \subseteq Objects /\ DeletedByAll(E, frame) \subseteq Objects
  BY DEF Created, DeletedByAll, Edges
<1> HIDE DEF t
<1>3. CASE t = <<>>
  <2>1. Merged(E, frame, t) \subseteq E \cup {Edge(o, NoTag) : o \in Objects}
    BY <1>2, <1>3, ZenonT(30) DEF Merged
  <2>2. NoTag \in Tags \cup {NoTag}
    OBVIOUS
  <2>3. {Edge(o, NoTag) : o \in Objects} \subseteq Edges
    BY <2>2, EdgesTo, Zenon
  <2> QED  BY <2>1, <2>3 DEF t
<1>4. CASE t # <<>>
  <2>1. m \in 1..Len(s) /\ s[m].arm = "branch" /\ s \in Seq(Frame)
    BY <1>1, <1>4 DEF LastIs, Deepest, StackShape
  <2>2. s[m] \in Frame /\ FrameShape(s[m])
    BY <2>1 DEF StackShape
  <2>3. FrameTag(s[m], "A") \in Tags /\ FrameTag(s[m], "D") \in Tags
    BY <2>1, <2>2, TagsAreTags
  <2>4. \A x : Mark(t[Len(t)], x) = FrameTag(s[m], x)
    BY <1>1, <2>1, <1>4 DEF LastIs, Mark, FrameTag
  <2>5. Merged(E, frame, t) \subseteq
          E \cup {Edge(o, FrameTag(s[m], "D")) : o \in Objects} \cup {Edge(o, FrameTag(s[m], "A")) : o \in Objects}
    <3> DEFINE flat == {e \in E : e.tag.point # frame.point}
                         \cup {Edge(o, FrameTag(s[m], "A")) : o \in Created(E, frame)}
               gone == DeletedByAll(E, frame)
               cancelled == {Edge(o, FrameTag(s[m], "A")) : o \in gone} \cap flat
    <3>1. Merged(E, frame, t) =
            (flat \ cancelled)
              \cup {Edge(o, FrameTag(s[m], "D")) : o \in {o \in gone : Edge(o, FrameTag(s[m], "A")) \notin flat}}
      BY <1>4, <2>4 DEF Merged
    <3>2. gone \subseteq Objects /\ flat \subseteq E \cup {Edge(o, FrameTag(s[m], "A")) : o \in Objects}
      BY <1>2
    <3> HIDE DEF gone, flat, cancelled
    <3> QED  BY <3>1, <3>2
  <2>6. /\ {Edge(o, FrameTag(s[m], "D")) : o \in Objects} \subseteq Edges
        /\ {Edge(o, FrameTag(s[m], "A")) : o \in Objects} \subseteq Edges
    BY <2>3, EdgesTo, Zenon
  <2> QED  BY <2>5, <2>6 DEF t
<1> QED  BY <1>3, <1>4 DEF t

-----------------------------------------------------------------------------
(* How an action changes the frame on top.                                  *)

LEMMA TopFacts ==
  ASSUME ShapeInv, stack # <<>>
  PROVE  /\ Len(stack) \in Nat \ {0} /\ stack \in Seq(Frame)
         /\ Top \in Frame /\ FrameShape(Top) /\ Top.point <= ifs
BY EmptySeq DEF ShapeInv, StackShape, Top

LEMMA RetopTop ==
  ASSUME NEW f \in Frame,
         ShapeInv, stack # <<>>,
         FrameShape(f), f.point = Top.point,
         stack' = Append(Outer, f)
  PROVE  Retopped(stack, stack', f) /\ StackShape(stack', ifs)
<1>1. Retopped(stack, stack', f)
  BY TopFacts, RetopUnits DEF Outer
<1> QED  BY <1>1, RetopShape DEF ShapeInv, Top

\* The arm is run in the parent branch; as a branch; the if has no arm.
InParentNow(f, t) ==
  /\ f.arm = "parent" /\ f.over /\ f.rest = {}
  /\ f.branch_num_counter = t.branch_num_counter
  /\ f.else_is_deterministic = t.else_is_deterministic

AsBranchNow(f, t) ==
  /\ f.arm = "branch" /\ f.branch_num_counter = t.branch_num_counter + 1
  /\ ~f.else_is_deterministic

PassedNow(f, t) ==
  /\ f.arm = "none" /\ f.over = t.over /\ f.rest = t.rest
  /\ f.branch_num_counter = t.branch_num_counter
  /\ f.else_is_deterministic = t.else_is_deterministic

TopBecomes(f) ==
  /\ f \in Frame /\ Retopped(stack, stack', f) /\ StackShape(stack', ifs)
  /\ f.point = Top.point /\ f.hasElse = Top.hasElse

LEMMA NextElemTop ==
  ASSUME ShapeInv, NextElem
  PROVE  \E f : /\ TopBecomes(f) /\ f.found = Top.found
                /\ \/ InParentNow(f, Top) /\ plain' = (plain /\ Top.else_is_deterministic)
                   \/ AsBranchNow(f, Top) /\ ~f.over /\ f.rest = Top.rest /\ plain' = plain
                   \/ PassedNow(f, Top) /\ plain' = plain
<1>1. stack # <<>> /\ Top \in Frame /\ FrameShape(Top) /\ ~Top.over /\ Top.elems > 0 /\ Top.arm = "none"
  BY TopFacts DEF NextElem
<1>2. MaxElems \in Nat
  BY BranchMergeAssumption
<1> DEFINE g == [Top EXCEPT !.elems = @ - 1]
<1>3. /\ g \in Frame /\ g.elems = Top.elems - 1 /\ g.point = Top.point /\ g.hasElse = Top.hasElse
      /\ g.found = Top.found /\ g.rest = Top.rest /\ g.over = Top.over /\ g.arm = Top.arm
      /\ g.branch = Top.branch /\ g.branch_num_counter = Top.branch_num_counter
      /\ g.else_is_deterministic = Top.else_is_deterministic
  BY <1>1, <1>2 DEF Frame
<1>4. \/ RunInParent(g) /\ plain' = (plain /\ Top.else_is_deterministic)
      \/ RunAsBranch([g EXCEPT !.else_is_deterministic = FALSE]) /\ plain' = plain
      \/ stack' = Append(Outer, g) /\ plain' = plain
  BY DEF NextElem
<1> HIDE DEF g
<1>5. CASE RunInParent(g) /\ plain' = (plain /\ Top.else_is_deterministic)
  <2> DEFINE f == [g EXCEPT !.arm = "parent", !.over = TRUE, !.rest = {}]
  <2>1. f \in Frame /\ FrameShape(f) /\ f.point = Top.point /\ f.hasElse = Top.hasElse /\ f.found = Top.found
    <3>1. /\ f \in Frame /\ f.elems = g.elems /\ f.branch = g.branch /\ f.arm = "parent" /\ f.over
          /\ f.branch_num_counter = g.branch_num_counter
          /\ f.point = g.point /\ f.hasElse = g.hasElse /\ f.found = g.found
      BY <1>3 DEF Frame
    <3> HIDE DEF f
    <3> QED  BY <1>1, <1>2, <1>3, <3>1 DEF Frame, FrameShape
  <2>2. InParentNow(f, Top)
    BY <1>3 DEF InParentNow, Frame
  <2>3. stack' = Append(Outer, f)
    BY <1>5 DEF RunInParent
  <2> HIDE DEF f
  <2>4. TopBecomes(f)
    BY <1>1, <2>1, <2>3, RetopTop DEF TopBecomes
  <2> QED  BY <1>5, <2>1, <2>2, <2>4
<1>6. CASE RunAsBranch([g EXCEPT !.else_is_deterministic = FALSE]) /\ plain' = plain
  <2> DEFINE h == [g EXCEPT !.else_is_deterministic = FALSE]
             f == [h EXCEPT !.arm = "branch", !.branch = @ + 1, !.branch_num_counter = @ + 1]
  <2>1. /\ h \in Frame /\ h.elems = Top.elems - 1 /\ h.point = Top.point /\ h.hasElse = Top.hasElse
        /\ h.found = Top.found /\ h.rest = Top.rest /\ h.over = Top.over
        /\ h.branch = Top.branch /\ h.branch_num_counter = Top.branch_num_counter
        /\ ~h.else_is_deterministic
    BY <1>3 DEF Frame
  <2>2. stack' = Append(Outer, f)
    BY <1>6 DEF RunAsBranch
  <2> HIDE DEF h
  <2>0. Top.branch + 1 \in 0..(MaxElems + 1) /\ Top.branch_num_counter + 1 \in 0..(MaxElems + 1)
    BY <1>1, <1>2 DEF Frame, FrameShape
  <2>3. /\ f \in Frame /\ f.point = Top.point /\ f.hasElse = Top.hasElse /\ f.found = Top.found
        /\ f.branch = Top.branch + 1 /\ f.branch_num_counter = Top.branch_num_counter + 1
        /\ f.elems = Top.elems - 1 /\ f.over = Top.over /\ f.rest = Top.rest /\ f.arm = "branch"
        /\ ~f.else_is_deterministic
    BY <2>0, <2>1 DEF Frame
  <2> HIDE DEF f
  <2>4. FrameShape(f)
    BY <1>1, <1>2, <2>3 DEF FrameShape, Frame
  <2>5. AsBranchNow(f, Top)
    BY <2>3 DEF AsBranchNow
  <2>6. TopBecomes(f)
    BY <1>1, <2>2, <2>3, <2>4, RetopTop DEF TopBecomes
  <2> QED  BY <1>1, <1>6, <2>3, <2>5, <2>6
<1>7. CASE stack' = Append(Outer, g) /\ plain' = plain
  <2>1. FrameShape(g)
    BY <1>1, <1>2, <1>3 DEF Frame, FrameShape
  <2>2. TopBecomes(g)
    BY <1>1, <1>3, <1>7, <2>1, RetopTop DEF TopBecomes
  <2>3. PassedNow(g, Top)
    BY <1>1, <1>3 DEF PassedNow
  <2> QED  BY <1>3, <1>7, <2>2, <2>3
<1> QED  BY <1>4, <1>5, <1>6, <1>7

LEMMA ElseTop ==
  ASSUME ShapeInv, Else
  PROVE  \E f : /\ TopBecomes(f) /\ f.found = Top.found
                /\ \/ InParentNow(f, Top) /\ Top.else_is_deterministic
                   \/ AsBranchNow(f, Top) /\ f.over /\ f.rest = {}
<1>1. /\ stack # <<>> /\ Top \in Frame /\ FrameShape(Top) /\ ~Top.over /\ Top.elems = 0
      /\ Top.arm = "none"
  BY TopFacts DEF Else
<1>2. MaxElems \in Nat
  BY BranchMergeAssumption
<1>3. \/ Top.else_is_deterministic /\ RunInParent(Top)
      \/ ~Top.else_is_deterministic /\ RunAsBranch([Top EXCEPT !.over = TRUE, !.rest = {}])
  BY DEF Else
<1>4. CASE Top.else_is_deterministic /\ RunInParent(Top)
  <2> DEFINE f == [Top EXCEPT !.arm = "parent", !.over = TRUE, !.rest = {}]
  <2>1. f \in Frame /\ FrameShape(f) /\ f.point = Top.point /\ f.hasElse = Top.hasElse /\ f.found = Top.found
    BY <1>1, <1>2 DEF Frame, FrameShape
  <2>2. InParentNow(f, Top)
    BY <1>1 DEF InParentNow, Frame
  <2>3. stack' = Append(Outer, f)
    BY <1>4 DEF RunInParent
  <2> HIDE DEF f
  <2>4. TopBecomes(f)
    BY <1>1, <2>1, <2>3, RetopTop DEF TopBecomes
  <2> QED  BY <1>4, <2>1, <2>2, <2>4
<1>5. CASE ~Top.else_is_deterministic /\ RunAsBranch([Top EXCEPT !.over = TRUE, !.rest = {}])
  <2> DEFINE h == [Top EXCEPT !.over = TRUE, !.rest = {}]
             f == [h EXCEPT !.arm = "branch", !.branch = @ + 1, !.branch_num_counter = @ + 1]
  <2>1. /\ h \in Frame /\ h.elems = 0 /\ h.point = Top.point /\ h.hasElse = Top.hasElse
        /\ h.found = Top.found /\ h.rest = {} /\ h.over
        /\ h.branch = Top.branch /\ h.branch_num_counter = Top.branch_num_counter
        /\ ~h.else_is_deterministic
    BY <1>1, <1>5 DEF Frame
  <2>2. stack' = Append(Outer, f)
    BY <1>5 DEF RunAsBranch
  <2> HIDE DEF h
  <2>0. Top.branch + 1 \in 0..(MaxElems + 1) /\ Top.branch_num_counter + 1 \in 0..(MaxElems + 1)
    BY <1>1, <1>2 DEF Frame, FrameShape
  <2>3. /\ f \in Frame /\ f.point = Top.point /\ f.hasElse = Top.hasElse /\ f.found = Top.found
        /\ f.branch = Top.branch + 1 /\ f.branch_num_counter = Top.branch_num_counter + 1
        /\ f.elems = 0 /\ f.over /\ f.rest = {} /\ f.arm = "branch"
        /\ ~f.else_is_deterministic
    BY <2>0, <2>1 DEF Frame
  <2> HIDE DEF f
  <2>4. FrameShape(f)
    BY <1>1, <1>2, <2>3 DEF FrameShape, Frame
  <2>5. AsBranchNow(f, Top)
    BY <2>3 DEF AsBranchNow
  <2>6. TopBecomes(f)
    BY <1>1, <2>2, <2>3, <2>4, RetopTop DEF TopBecomes
  <2> QED  BY <2>3, <2>5, <2>6
<1> QED  BY <1>3, <1>4, <1>5

LEMMA EndArmTop ==
  ASSUME ShapeInv, EndArm
  PROVE  \E f : /\ TopBecomes(f) /\ PassedNow(f, Top) /\ f.found = Top.found \cup possible
<1>1. stack # <<>> /\ Top \in Frame /\ FrameShape(Top) /\ possible \subseteq Objects
  BY TopFacts DEF EndArm, ShapeInv
<1> DEFINE f == [Top EXCEPT !.arm = "none", !.found = @ \cup possible]
<1>2. /\ f \in Frame /\ FrameShape(f) /\ f.point = Top.point /\ f.hasElse = Top.hasElse
      /\ f.found = Top.found \cup possible
  BY <1>1 DEF Frame, FrameShape
<1>3. PassedNow(f, Top)
  BY <1>1 DEF PassedNow, Frame
<1>4. stack' = Append(Outer, f)
  BY DEF EndArm
<1> HIDE DEF f
<1>5. TopBecomes(f)
  BY <1>1, <1>2, <1>4, RetopTop DEF TopBecomes
<1> QED  BY <1>2, <1>3, <1>5

\* A frame is pushed for a new if.
NewFrame(f) ==
  /\ f \in Frame /\ FrameShape(f) /\ f.point = ifs + 1 /\ f.branch_num_counter = 0
  /\ f.else_is_deterministic /\ f.arm = "none" /\ ~f.over /\ f.rest = possible /\ f.found = {}

LEMMA BeginIfTop ==
  ASSUME ShapeInv, BeginIf
  PROVE  \E f : NewFrame(f) /\ PushedTo(stack, stack', f) /\ StackShape(stack', ifs')
<1>1. /\ MaxElems \in Nat /\ MaxIfs \in Nat /\ ifs \in 0..MaxIfs /\ ifs < MaxIfs /\ possible \subseteq Objects
      /\ ifs' = ifs + 1 /\ stack \in Seq(Frame)
  BY BranchMergeAssumption DEF BeginIf, ShapeInv, StackShape
<1>2. PICK elems \in 1..MaxElems, else \in BOOLEAN :
       stack' = Append(stack,
         [point |-> ifs + 1, elems |-> elems, hasElse |-> else,
          branch_num_counter |-> 0, else_is_deterministic |-> TRUE,
          arm |-> "none", branch |-> 0, over |-> FALSE,
          rest |-> possible, found |-> {}])
  BY DEF BeginIf
<1> DEFINE f == [point |-> ifs + 1, elems |-> elems, hasElse |-> else,
          branch_num_counter |-> 0, else_is_deterministic |-> TRUE,
          arm |-> "none", branch |-> 0, over |-> FALSE,
          rest |-> possible, found |-> {}]
<1>3. f \in Frame
  BY <1>1 DEF Frame
<1>4. FrameShape(f)
  BY <1>1 DEF FrameShape
<1>5. NewFrame(f)
  BY <1>3, <1>4 DEF NewFrame
<1>6. stack' = Append(stack, f)
  BY <1>2
<1> HIDE DEF f
<1>7. PushedTo(stack, stack', f)
  BY <1>1, <1>3, <1>6, PushUnits
<1>8. Len(stack) < MaxDepth /\ (stack # <<>> => stack[Len(stack)].arm # "none") /\ StackShape(stack, ifs)
  BY DEF BeginIf, InArm, Top, ShapeInv
<1>9. StackShape(stack', ifs + 1)
  BY <1>1, <1>4, <1>5, <1>7, <1>8, PushShape DEF NewFrame
<1> QED  BY <1>1, <1>5, <1>7, <1>9

LEMMA EndIfTop ==
  ASSUME ShapeInv, EndIf
  PROVE  /\ PoppedTo(stack, stack') /\ StackShape(stack', ifs)
         /\ \A k \in 1..Len(stack') : stack'[k].arm # "none"
<1>1. stack # <<>> /\ stack' = Outer /\ stack \in Seq(Frame) /\ StackShape(stack, ifs)
  BY DEF EndIf, AtMerge, ShapeInv, StackShape
<1>2. PoppedTo(stack, stack')
  BY <1>1, PopUnits DEF Outer
<1> QED  BY <1>1, <1>2, PopShape

-----------------------------------------------------------------------------
(* The types.                                                               *)

LEMMA ShapeIsTyped ==
  ASSUME ShapeInv
  PROVE  MergeTypeOK
<1>1. stack \in Seq(Frame) /\ DOMAIN stack = 1..Len(stack)
  BY DEF ShapeInv, StackShape
<1> QED  BY <1>1 DEF ShapeInv, StackShape, MergeTypeOK, Edges

LEMMA ShapeInit == Init => ShapeInv
<1> SUFFICES ASSUME Init PROVE ShapeInv
  OBVIOUS
<1>1. PICK new \in Rights : edges = {Edge(o, NoTag) : o \in new} /\ possible = new
  BY DEF Init
<1>2. new \subseteq Objects
  BY DEF Rights
<1>3. NoTag \in Tags \cup {NoTag}
  OBVIOUS
<1>4. {Edge(o, NoTag) : o \in Objects} \subseteq Edges
  BY <1>3, EdgesTo, Zenon
<1>5. edges \subseteq Edges
  BY <1>1, <1>2, <1>4
<1>6. stack = <<>> /\ ifs = 0 /\ raised = FALSE /\ plain = TRUE /\ MaxDepth \in Nat /\ MaxIfs \in Nat
  BY BranchMergeAssumption DEF Init
<1>7. StackShape(<<>>, 0)
  BY <1>6, EmptySeq DEF StackShape
<1>8. StackShape(stack, ifs)
  BY <1>6, <1>7
<1>9. ifs \in 0..MaxIfs /\ raised \in BOOLEAN /\ possible \subseteq Objects /\ plain \in BOOLEAN
  <2>1. raised \in BOOLEAN /\ plain \in BOOLEAN
    BY <1>6, Zenon
  <2>2. ifs \in 0..MaxIfs
    BY <1>6
  <2> QED  BY <1>1, <1>2, <2>1, <2>2
<1> QED  BY <1>5, <1>8, <1>9 DEF ShapeInv

LEMMA ShapeStep == ShapeInv /\ [Next]_mergeVars => ShapeInv'
<1> SUFFICES ASSUME ShapeInv, [Next]_mergeVars PROVE ShapeInv'
  OBVIOUS
<1>0. /\ edges \subseteq Edges /\ StackShape(stack, ifs) /\ ifs \in 0..MaxIfs /\ raised \in BOOLEAN
      /\ possible \subseteq Objects /\ plain \in BOOLEAN /\ MaxIfs \in Nat
  BY BranchMergeAssumption DEF ShapeInv
<1>1. CASE Assign
  <2>1. PICK new \in Rights :
       /\ edges' = Reassigned(edges, Branches(stack), new)
       /\ possible' = new
       /\ plain' = (plain /\ NewHere(edges, Branches(stack), new))
    BY <1>1 DEF Assign
  <2>2. new \subseteq Objects /\ stack' = stack /\ ifs' = ifs /\ raised' = raised
    BY <1>1 DEF Rights, Assign
  <2>3. edges' \subseteq Edges
    BY <1>0, <2>1, <2>2, ReassignedType
  <2> QED  BY <1>0, <2>1, <2>2, <2>3 DEF ShapeInv
<1>2. CASE BeginIf
  <2>1. StackShape(stack', ifs')
    BY <1>2, BeginIfTop
  <2> QED  BY <1>0, <1>2, <2>1 DEF ShapeInv, BeginIf
<1>3. CASE NextElem
  <2>1. StackShape(stack', ifs)
    BY <1>3, NextElemTop DEF TopBecomes
  <2>2. Top.rest \subseteq Objects
    BY <1>3, TopFacts DEF NextElem, Frame
  <2>3. /\ possible' = Top.rest /\ edges' = edges /\ ifs' = ifs /\ raised' = raised
    BY <1>3 DEF NextElem
  <2>4. plain' \in BOOLEAN
    BY <1>0, <1>3, NextElemTop
  <2> QED  BY <1>0, <2>1, <2>2, <2>3, <2>4 DEF ShapeInv
<1>4. CASE Else
  <2>1. StackShape(stack', ifs)
    BY <1>4, ElseTop DEF TopBecomes
  <2>2. Top.rest \subseteq Objects
    BY <1>4, TopFacts DEF Else, Frame
  <2> QED  BY <1>0, <1>4, <2>1, <2>2 DEF ShapeInv, Else
<1>5. CASE EndArm
  <2>1. StackShape(stack', ifs)
    BY <1>5, EndArmTop DEF TopBecomes
  <2>2. Top.rest \subseteq Objects
    BY <1>5, TopFacts DEF EndArm, Frame
  <2> QED  BY <1>0, <1>5, <2>1, <2>2 DEF ShapeInv, EndArm
<1>6. CASE EndIf
  <2>1. StackShape(stack', ifs) /\ stack' = Outer
    BY <1>6, EndIfTop DEF EndIf
  <2>2. edges' \subseteq Edges
    BY <1>0, <1>6, <2>1, MergedType DEF EndIf
  <2>3. Top.rest \subseteq Objects /\ Top.found \subseteq Objects
    BY <1>6, TopFacts DEF EndIf, AtMerge, Frame
  <2> QED  BY <1>0, <1>6, <2>1, <2>2, <2>3 DEF ShapeInv, EndIf
<1>7. CASE MergeRaises
  BY <1>0, <1>7 DEF ShapeInv, MergeRaises
<1>8. CASE UNCHANGED mergeVars
  BY <1>0, <1>8 DEF ShapeInv, mergeVars
<1> QED  BY <1>1, <1>2, <1>3, <1>4, <1>5, <1>6, <1>7, <1>8 DEF Next

\* Every edge is untagged or tagged with a branch of some if, the calls under
\* way are nested no deeper than MaxDepth, and an if within another has the
\* greater number (MergeTypeOK), for any objects and bounds.
THEOREM MergeTypes == Spec => []MergeTypeOK
<1>1. Init => ShapeInv
  BY ShapeInit
<1>2. ShapeInv /\ [Next]_mergeVars => ShapeInv'
  BY ShapeStep
<1>3. ShapeInv => MergeTypeOK
  BY ShapeIsTyped
<1> QED  BY <1>1, <1>2, <1>3, PTL DEF Spec

-----------------------------------------------------------------------------
(* The invariants of the edges, told of their tags.                         *)

OpenAt(E, s) ==
  \A o, p, b, m : Has(E, o, p, b, m) =>
    /\ o \in Objects
    /\ \/ p = 0 /\ b = 0 /\ m = "none"
       \/ m \in {"A", "D"} /\ \E k \in 1..Len(s) :
            p = s[k].point /\ b \in 1..s[k].branch_num_counter
OnceAt(E) ==
  \A o, p, b, m, q, c, n : Has(E, o, p, b, m) /\ Has(E, o, q, c, n) /\ m # "D" /\ n # "D" => p = q
HeldAt(E, s) ==
  \A o, b : \A k \in 1..Len(s) : Has(E, o, s[k].point, b, "D") => InHeld(E, s, k - 1, o)
Levels(E, s) == OpenAt(E, s) /\ OnceAt(E) /\ HeldAt(E, s)

Typed(o, p, b, m) ==
  /\ o \in Objects
  /\ \/ p = 0 /\ b = 0 /\ m = "none"
     \/ p \in 1..MaxIfs /\ b \in 1..(MaxElems + 1) /\ m \in {"A", "D"}

LEMMA EdgeTyped ==
  ASSUME NEW o, NEW p, NEW b, NEW m, Edge(o, [point |-> p, branch |-> b, mark |-> m]) \in Edges
  PROVE  Typed(o, p, b, m)
<1> DEFINE g == [point |-> p, branch |-> b, mark |-> m]
<1>1. o \in Objects /\ (g \in Tags \/ g = NoTag)
  BY DEF Edges, Edge
<1>2. g.point = p /\ g.branch = b /\ g.mark = m
  OBVIOUS
<1> HIDE DEF g
<1>3. CASE g \in Tags
  BY <1>1, <1>2, <1>3 DEF Tags, Typed
<1>4. CASE g = NoTag
  BY <1>1, <1>2, <1>4 DEF NoTag, Typed
<1> QED  BY <1>1, <1>3, <1>4

LEMMA HasTyped ==
  ASSUME NEW E, E \subseteq Edges
  PROVE  \A o, p, b, m : Has(E, o, p, b, m) => Typed(o, p, b, m)
BY EdgeTyped DEF Has

LEMMA EdgeUnits ==
  ASSUME NEW E, NEW e \in E,
         E \subseteq Edges
  PROVE  /\ Has(E, e.obj, e.tag.point, e.tag.branch, e.tag.mark)
         /\ e.tag = NoTag <=> e.tag.mark = "none"
<1>1. e \in Edges
  OBVIOUS
<1>2. e = [obj |-> e.obj, tag |-> e.tag]
  BY <1>1 DEF Edges
<1>3. e.tag = [point |-> e.tag.point, branch |-> e.tag.branch, mark |-> e.tag.mark]
  <2>1. e.tag \in Tags \/ e.tag = NoTag
    BY <1>1 DEF Edges
  <2>2. CASE e.tag \in Tags
    BY <2>2 DEF Tags
  <2>3. CASE e.tag = NoTag
    BY <2>3 DEF NoTag
  <2> QED  BY <2>1, <2>2, <2>3
<1>4. Has(E, e.obj, e.tag.point, e.tag.branch, e.tag.mark)
  BY <1>2, <1>3 DEF Has, Edge
<1>5. e.tag = NoTag <=> e.tag.mark = "none"
  <2>1. e.tag \in Tags \/ e.tag = NoTag
    BY <1>1 DEF Edges
  <2>2. CASE e.tag \in Tags
    <3>1. e.tag.mark \in {"A", "D"}
      BY <2>2 DEF Tags
    <3> QED  BY <3>1 DEF NoTag
  <2>3. CASE e.tag = NoTag
    BY <2>3 DEF NoTag
  <2> QED  BY <2>1, <2>2, <2>3
<1> QED  BY <1>4, <1>5

LEMMA HasUnits ==
  ASSUME NEW E, NEW o, NEW p, NEW b, NEW m, Has(E, o, p, b, m)
  PROVE  \E e \in E : e.obj = o /\ e.tag.point = p /\ e.tag.branch = b /\ e.tag.mark = m
<1> DEFINE e == Edge(o, [point |-> p, branch |-> b, mark |-> m])
<1>1. e \in E
  BY DEF Has
<1>2. e.obj = o /\ e.tag.point = p /\ e.tag.branch = b /\ e.tag.mark = m
  BY DEF Edge
<1> QED  BY <1>1, <1>2

LEMMA ToLevels ==
  ASSUME NEW E, NEW s,
         E \subseteq Edges,
         TagsAreOpen(E, s), AddedOnce(E), DeletedWasHeld(E, s)
  PROVE  Levels(E, s)
<1>1. OpenAt(E, s)
  <2> SUFFICES ASSUME NEW o, NEW p, NEW b, NEW m, Has(E, o, p, b, m)
               PROVE  /\ o \in Objects
                      /\ \/ p = 0 /\ b = 0 /\ m = "none"
                         \/ m \in {"A", "D"} /\ \E k \in 1..Len(s) :
                              p = s[k].point /\ b \in 1..s[k].branch_num_counter
    BY DEF OpenAt
  <2>1. Typed(o, p, b, m)
    BY HasTyped
  <2>2. PICK e \in E : e.obj = o /\ e.tag.point = p /\ e.tag.branch = b /\ e.tag.mark = m
    BY HasUnits
  <2>3. e.tag # NoTag \/ m = "none"
    BY <2>2, EdgeUnits
  <2>4. CASE e.tag # NoTag
    <3>1. m # "none"
      BY <2>2, <2>4, EdgeUnits
    <3>2. \E k \in 1..Len(s) : p = s[k].point /\ b \in 1..s[k].branch_num_counter
      BY <2>2, <2>4 DEF TagsAreOpen
    <3> QED  BY <2>1, <3>1, <3>2 DEF Typed
  <2>5. CASE m = "none"
    BY <2>1, <2>5 DEF Typed
  <2> QED  BY <2>3, <2>4, <2>5
<1>2. OnceAt(E)
  <2> SUFFICES ASSUME NEW o, NEW p, NEW b, NEW m, NEW q, NEW c, NEW n,
                      Has(E, o, p, b, m), Has(E, o, q, c, n), m # "D", n # "D"
               PROVE  p = q
    BY DEF OnceAt
  <2>1. PICK d \in E : d.obj = o /\ d.tag.point = p /\ d.tag.branch = b /\ d.tag.mark = m
    BY HasUnits
  <2>2. PICK e \in E : e.obj = o /\ e.tag.point = q /\ e.tag.branch = c /\ e.tag.mark = n
    BY HasUnits
  <2> QED  BY <2>1, <2>2 DEF AddedOnce
<1>3. HeldAt(E, s)
  <2> SUFFICES ASSUME NEW o, NEW b, NEW k \in 1..Len(s), Has(E, o, s[k].point, b, "D")
               PROVE  InHeld(E, s, k - 1, o)
    BY DEF HeldAt
  <2>1. PICK e \in E : e.obj = o /\ e.tag.point = s[k].point /\ e.tag.mark = "D"
    BY HasUnits
  <2> QED  BY <2>1 DEF DeletedWasHeld
<1> QED  BY <1>1, <1>2, <1>3 DEF Levels

LEMMA FromLevels ==
  ASSUME NEW E, NEW s,
         E \subseteq Edges,
         Levels(E, s)
  PROVE  TagsAreOpen(E, s) /\ AddedOnce(E) /\ DeletedWasHeld(E, s)
<1>1. TagsAreOpen(E, s)
  <2> SUFFICES ASSUME NEW e \in E, e.tag # NoTag
               PROVE  \E k \in 1..Len(s) : e.tag.point = s[k].point
                           /\ e.tag.branch \in 1..s[k].branch_num_counter
    BY DEF TagsAreOpen
  <2>1. Has(E, e.obj, e.tag.point, e.tag.branch, e.tag.mark) /\ e.tag.mark # "none"
    BY EdgeUnits
  <2> QED  BY <2>1 DEF Levels, OpenAt
<1>2. AddedOnce(E)
  <2> SUFFICES ASSUME NEW d \in E, NEW e \in E, d.obj = e.obj, d.tag.mark # "D", e.tag.mark # "D"
               PROVE  d.tag.point = e.tag.point
    BY DEF AddedOnce
  <2>1. Has(E, d.obj, d.tag.point, d.tag.branch, d.tag.mark)
    BY EdgeUnits
  <2>2. Has(E, d.obj, e.tag.point, e.tag.branch, e.tag.mark)
    BY EdgeUnits
  <2> QED  BY <2>1, <2>2 DEF Levels, OnceAt
<1>3. DeletedWasHeld(E, s)
  <2> SUFFICES ASSUME NEW e \in E, NEW k \in 1..Len(s), e.tag.mark = "D", e.tag.point = s[k].point
               PROVE  InHeld(E, s, k - 1, e.obj)
    BY DEF DeletedWasHeld
  <2>1. Has(E, e.obj, s[k].point, e.tag.branch, "D")
    BY EdgeUnits
  <2> QED  BY <2>1 DEF Levels, HeldAt
<1> QED  BY <1>1, <1>2, <1>3

-----------------------------------------------------------------------------
(* Lookups that agree.                                                      *)

LEMMA HeldSame ==
  ASSUME NEW E, NEW R, NEW s, NEW u, NEW k \in Nat, NEW o,
         \A i \in 0..k : Says(E, s, i, o) <=> Says(R, u, i, o),
         \A i \in 1..k : Denies(E, s, i, o) <=> Denies(R, u, i, o)
  PROVE  InHeld(E, s, k, o) <=> InHeld(R, u, k, o)
<1>1. \A i \in 0..k : \A j \in (i + 1)..k : j \in 1..k
  OBVIOUS
<1> QED  BY <1>1 DEF InHeld

\* A lookup looks at the frames it comes by and no other.
LEMMA HeldBelow ==
  ASSUME NEW E, NEW s, NEW u, NEW n \in Nat, NEW k \in 0..n, NEW o,
         Below(s, u, n)
  PROVE  InHeld(E, s, k, o) <=> InHeld(E, u, k, o)
<1>1. k \in Nat /\ \A i \in 1..k : u[i] = s[i]
  BY DEF Below
<1>2. \A i \in 0..k : i # 0 => i \in 1..k
  OBVIOUS
<1>3. \A i \in 0..k : Says(E, s, i, o) <=> Says(E, u, i, o)
  BY <1>1, <1>2 DEF Says
<1>4. \A i \in 1..k : Denies(E, s, i, o) <=> Denies(E, u, i, o)
  BY <1>1 DEF Denies
<1> QED  BY <1>1, <1>3, <1>4, HeldSame

\* Frames that run no branch say nothing.
LEMMA HeldFlat ==
  ASSUME NEW E, NEW s, NEW o, NEW k \in Nat, NEW n \in Nat, k <= n,
         \A j \in (k + 1)..n : s[j].arm # "branch"
  PROVE  InHeld(E, s, n, o) <=> InHeld(E, s, k, o)
<1>1. \A j \in (k + 1)..n : ~Says(E, s, j, o) /\ ~Denies(E, s, j, o)
  <2> TAKE j \in (k + 1)..n
  <2>1. j # 0
    OBVIOUS
  <2> QED  BY <2>1 DEF Says, Denies
<1>2. ASSUME InHeld(E, s, n, o) PROVE InHeld(E, s, k, o)
  <2>1. PICK i \in 0..n : Says(E, s, i, o) /\ \A j \in (i + 1)..n : ~Denies(E, s, j, o)
    BY <1>2 DEF InHeld
  <2>2. i \in 0..k /\ \A j \in (i + 1)..k : j \in (i + 1)..n
    BY <1>1, <2>1
  <2> QED  BY <2>1, <2>2 DEF InHeld
<1>3. ASSUME InHeld(E, s, k, o) PROVE InHeld(E, s, n, o)
  <2>1. PICK i \in 0..k : Says(E, s, i, o) /\ \A j \in (i + 1)..k : ~Denies(E, s, j, o)
    BY <1>3 DEF InHeld
  <2>2. i \in 0..n /\ \A j \in (i + 1)..n : j \in (i + 1)..k \/ j \in (k + 1)..n
    OBVIOUS
  <2> QED  BY <1>1, <2>1, <2>2 DEF InHeld
<1> QED  BY <1>2, <1>3

\* What is found has an edge that adds it, below the frame.
LEMMA HeldHasEdge ==
  ASSUME NEW E, NEW s, NEW k \in Nat, NEW o, InHeld(E, s, k, o)
  PROVE  \/ Has(E, o, 0, 0, "none")
         \/ \E i \in 1..k : Has(E, o, s[i].point, s[i].branch, "A")
<1>1. PICK i \in 0..k : Says(E, s, i, o)
  BY DEF InHeld
<1>2. i = 0 \/ (i # 0 /\ i \in 1..k)
  OBVIOUS
<1> QED  BY <1>1, <1>2 DEF Says

\* A lookup at a frame that runs a branch.
LEMMA HeldAtBranch ==
  ASSUME NEW E, NEW s, NEW o, NEW k \in Nat \ {0}, s[k].arm = "branch"
  PROVE  InHeld(E, s, k, o) <=>
           \/ Has(E, o, s[k].point, s[k].branch, "A")
           \/ InHeld(E, s, k - 1, o) /\ ~Has(E, o, s[k].point, s[k].branch, "D")
<1>1. k - 1 \in Nat /\ (k - 1) + 1 = k
  OBVIOUS
<1>2. InHeld(E, s, (k - 1) + 1, o) <=>
              Says(E, s, (k - 1) + 1, o) \/ (InHeld(E, s, k - 1, o) /\ ~Denies(E, s, (k - 1) + 1, o))
  BY <1>1, HeldStep
<1> QED  BY <1>1, <1>2 DEF Says, Denies

LEMMA HeldAtRoot ==
  ASSUME NEW E, NEW s, NEW o
  PROVE  InHeld(E, s, 0, o) <=> Has(E, o, 0, 0, "none")
BY HeldStep

-----------------------------------------------------------------------------
(* What the history says of the frames below a changed one.                 *)

\* The edges agree about the frames below the m-th, and about its branches but
\* the running one.
AgreeBelow(E, R, s, m) ==
  /\ m # 0 => \A o : Has(E, o, 0, 0, "none") <=> Has(R, o, 0, 0, "none")
  /\ \A k \in 1..m, mk \in {"A", "D"} : \A o, b : k < m \/ b # s[m].branch =>
       (Has(E, o, s[k].point, b, mk) <=> Has(R, o, s[k].point, b, mk))

LEMMA HeldAgrees ==
  ASSUME NEW E, NEW R, NEW s, NEW u, NEW m \in Nat, NEW k \in Nat, NEW o,
         AgreeBelow(E, R, s, m), Below(s, u, m),
         k < m
  PROVE  InHeld(E, s, k, o) <=> InHeld(R, u, k, o)
<1>1. \A i \in 1..k : i \in 1..m /\ i < m /\ u[i] = s[i]
  BY DEF Below
<1>2. \A i \in 0..k : i = 0 \/ i \in 1..k
  OBVIOUS
<1>3. \A i \in 0..k : Says(E, s, i, o) <=> Says(R, u, i, o)
  BY <1>1, <1>2 DEF Says, AgreeBelow
<1>4. \A i \in 1..k : Denies(E, s, i, o) <=> Denies(R, u, i, o)
  BY <1>1 DEF Denies, AgreeBelow
<1> QED  BY <1>3, <1>4, HeldSame

LEMMA HistoryKept ==
  ASSUME NEW E, NEW R, NEW s \in Seq(Frame), NEW u \in Seq(Frame), NEW m \in Nat,
         m <= Len(u), Len(u) <= Len(s), Below(s, u, Len(u)), AgreeBelow(E, R, s, m),
         m # 0 => s[m].arm = "branch" /\ FrameShape(s[m]),
         \A k \in (m + 1)..Len(u) : s[k].arm = "parent" /\ FramePlain(s[k]),
         RestIsHeld(E, s), FoundIsAfter(E, s)
  PROVE  RestIsHeld(R, u) /\ FoundIsAfter(R, u)
<1>1. \A k \in 1..Len(u) : k \in 1..Len(s) /\ u[k] = s[k]
  BY DEF Below
<1>2. \A k \in 1..m : \A o : InHeld(E, s, k - 1, o) <=> InHeld(R, u, k - 1, o)
  <2> TAKE k \in 1..m
  <2>1. k - 1 \in Nat /\ k - 1 < m /\ Below(s, u, m)
    BY <1>1 DEF Below
  <2> QED  BY <2>1, HeldAgrees
<1>3. ASSUME NEW k \in 1..Len(u), k > m PROVE u[k].over /\ u[k].branch_num_counter = 0 /\ u[k].arm = "parent"
  <2>1. k \in (m + 1)..Len(u)
    BY <1>3
  <2> QED  BY <1>1, <2>1 DEF FramePlain
<1>4. RestIsHeld(R, u)
  <2> SUFFICES ASSUME NEW k \in 1..Len(u), NEW o \in Objects, ~u[k].over
               PROVE  o \in u[k].rest <=> InHeld(R, u, k - 1, o)
    BY DEF RestIsHeld
  <2>1. k \in 1..m
    BY <1>3
  <2> QED  BY <1>1, <1>2, <2>1 DEF RestIsHeld
<1>5. FoundIsAfter(R, u)
  <2> SUFFICES ASSUME NEW k \in 1..Len(u), NEW o \in Objects
               PROVE  o \in u[k].found <=> FoundAt(R, u, k, o)
    BY DEF FoundIsAfter
  <2>1. o \in s[k].found <=> FoundAt(E, s, k, o)
    BY <1>1 DEF FoundIsAfter
  <2>2. FoundAt(E, s, k, o) <=> FoundAt(R, u, k, o)
    <3>1. CASE k > m
      BY <1>1, <1>3, <3>1 DEF FoundAt
    <3>2. CASE ~(k > m)
      <4>1. k \in 1..m
        BY <3>2
      <4>2. ASSUME NEW b \in Finished(s[k]) PROVE InAfter(E, s, k, b, o) <=> InAfter(R, u, k, b, o)
        <5>1. k < m \/ b # s[m].branch
          <6> SUFFICES ASSUME k = m PROVE b # s[m].branch
            BY <4>1
          <6>1. s[m].arm = "branch" /\ s[m].branch = s[m].branch_num_counter /\ s[m] \in Frame
            BY <4>1 DEF FrameShape
          <6>2. b \in 1..(s[m].branch_num_counter - 1) /\ s[m].branch_num_counter \in Int
            BY <4>2, <6>1 DEF Finished, Frame
          <6> QED  BY <6>1, <6>2
        <5>2. \A mk \in {"A", "D"} : Has(E, o, s[k].point, b, mk) <=> Has(R, o, u[k].point, b, mk)
          BY <1>1, <4>1, <5>1 DEF AgreeBelow
        <5> QED  BY <1>2, <4>1, <5>2 DEF InAfter
      <4> QED  BY <1>1, <1>2, <4>1, <4>2 DEF FoundAt
    <3> QED  BY <3>1, <3>2
  <2> QED  BY <1>1, <2>1, <2>2
<1> QED  BY <1>4, <1>5

-----------------------------------------------------------------------------
(* What an assignment does to the edges.                                    *)

LEMMA EdgeEqual ==
  ASSUME NEW o, NEW p, NEW b, NEW m, NEW x, NEW q, NEW c, NEW n
  PROVE  Edge(o, [point |-> p, branch |-> b, mark |-> m]) = Edge(x, [point |-> q, branch |-> c, mark |-> n])
           <=> o = x /\ p = q /\ b = c /\ m = n
<1> DEFINE d == Edge(o, [point |-> p, branch |-> b, mark |-> m])
           e == Edge(x, [point |-> q, branch |-> c, mark |-> n])
<1>1. /\ d.obj = o /\ d.tag.point = p /\ d.tag.branch = b /\ d.tag.mark = m
      /\ e.obj = x /\ e.tag.point = q /\ e.tag.branch = c /\ e.tag.mark = n
  BY DEF Edge
<1>2. d = e => o = x /\ p = q /\ b = c /\ m = n
  <2> HIDE DEF d, e
  <2> QED  BY <1>1
<1> QED  BY <1>2

\* An edge; those of the objects of S with one tag; those outside an if.
At(o, p, b, m) == Edge(o, [point |-> p, branch |-> b, mark |-> m])
AllAt(S, p, b, m) == {Edge(o, [point |-> p, branch |-> b, mark |-> m]) : o \in S}
Outside(E, p) == {e \in E : e.tag.point # p}

LEMMA AmongEdges ==
  ASSUME NEW S, NEW o, NEW p, NEW b, NEW m, NEW q, NEW c, NEW n
  PROVE  At(o, p, b, m) \in AllAt(S, q, c, n) <=> o \in S /\ p = q /\ b = c /\ m = n
<1> USE DEF At, AllAt
<1>1. ASSUME Edge(o, [point |-> p, branch |-> b, mark |-> m])
             \in {Edge(x, [point |-> q, branch |-> c, mark |-> n]) : x \in S}
      PROVE  o \in S /\ p = q /\ b = c /\ m = n
  <2>1. PICK x \in S : Edge(o, [point |-> p, branch |-> b, mark |-> m])
                         = Edge(x, [point |-> q, branch |-> c, mark |-> n])
    BY <1>1, Zenon
  <2> QED  BY <2>1, EdgeEqual
<1> QED  BY <1>1

\* In the branch b of the if p.
AssignedIn(E, R, p, b, pre, new) ==
  \A o, q, c, m : Has(R, o, q, c, m) <=>
    IF q = p /\ c = b /\ m = "A" THEN o \in new \/ (Has(E, o, p, b, "A") /\ o \notin pre)
    ELSE IF q = p /\ c = b /\ m = "D" THEN Has(E, o, p, b, "D") \/ (o \in pre /\ ~Has(E, o, p, b, "A"))
    ELSE Has(E, o, q, c, m)

LEMMA ReassignedInBranch ==
  ASSUME NEW E, NEW t, NEW new,
         t # <<>>
  PROVE  AssignedIn(E, Reassigned(E, t, new), t[Len(t)].point, t[Len(t)].branch, Visible(E, t), new)
<1> DEFINE p == t[Len(t)].point
           b == t[Len(t)].branch
           pre == Visible(E, t)
           added == {o \in pre : Has(E, o, p, b, "A")}
           R == Reassigned(E, t, new)
<1>1. R = (E \ AllAt(added, p, b, "A"))
             \cup AllAt(pre \ added, p, b, "D")
             \cup AllAt(new, p, b, "A")
  BY DEF Reassigned, Mark, Has, AllAt
<1>2. SUFFICES ASSUME NEW o, NEW q, NEW c, NEW m
               PROVE  Has(R, o, q, c, m) <=>
                        IF q = p /\ c = b /\ m = "A" THEN o \in new \/ (Has(E, o, p, b, "A") /\ o \notin pre)
                        ELSE IF q = p /\ c = b /\ m = "D" THEN Has(E, o, p, b, "D") \/ (o \in pre /\ ~Has(E, o, p, b, "A"))
                        ELSE Has(E, o, q, c, m)
  BY DEF AssignedIn
<1> DEFINE e == At(o, q, c, m)
<1>3. e \in AllAt(added, p, b, "A") <=> o \in added /\ q = p /\ c = b /\ m = "A"
  BY AmongEdges
<1>4. e \in AllAt(pre \ added, p, b, "D") <=> o \in pre \ added /\ q = p /\ c = b /\ m = "D"
  BY AmongEdges
<1>5. e \in AllAt(new, p, b, "A") <=> o \in new /\ q = p /\ c = b /\ m = "A"
  BY AmongEdges
<1>6. Has(R, o, q, c, m) <=>
        \/ Has(E, o, q, c, m) /\ ~(o \in added /\ q = p /\ c = b /\ m = "A")
        \/ o \in pre \ added /\ q = p /\ c = b /\ m = "D"
        \/ o \in new /\ q = p /\ c = b /\ m = "A"
  <2>1. Has(R, o, q, c, m) <=> e \in R
    BY DEF Has, At
  <2>2. Has(E, o, q, c, m) <=> e \in E
    BY DEF Has, At
  <2> HIDE DEF e, R, added, pre, p, b
  <2> QED  BY <1>1, <1>3, <1>4, <1>5, <2>1, <2>2
<1>7. o \in added <=> o \in pre /\ Has(E, o, p, b, "A")
  OBVIOUS
<1> HIDE DEF added, pre, p, b, R
<1>8. CASE q = p /\ c = b /\ m = "A"
  BY <1>6, <1>7, <1>8
<1>9. CASE q = p /\ c = b /\ m = "D"
  BY <1>6, <1>7, <1>9
<1>10. CASE ~(q = p /\ c = b /\ (m = "A" \/ m = "D"))
  BY <1>6, <1>7, <1>10
<1> QED  BY <1>8, <1>9, <1>10

\* Outside every branch.
LEMMA ReassignedAtRoot ==
  ASSUME NEW E, NEW new,
         E \subseteq Edges
  PROVE  \A o, q, c, m : Has(Reassigned(E, <<>>, new), o, q, c, m)
                           <=> o \in new /\ q = 0 /\ c = 0 /\ m = "none"
<1> TAKE o, q, c, m
<1> DEFINE e == At(o, q, c, m)
<1>1. Reassigned(E, <<>>, new) = AllAt(new, 0, 0, "none")
  <2>1. Visible(E, <<>>) = {x.obj : x \in E}
    BY DEF Visible
  <2> QED  BY <2>1 DEF Reassigned, AllAt, NoTag
<1>2. e \in AllAt(new, 0, 0, "none") <=> o \in new /\ q = 0 /\ c = 0 /\ m = "none"
  BY AmongEdges
<1> QED  BY <1>1, <1>2 DEF Has, At

-----------------------------------------------------------------------------
(* What a merge does to them.                                               *)

LEMMA CreatedUnits ==
  ASSUME NEW E, NEW f
  PROVE  \A o : o \in Created(E, f) <=> \E e \in E : e.obj = o /\ e.tag.point = f.point /\ e.tag.mark = "A"
BY Zenon DEF Created

LEMMA CreatedHas ==
  ASSUME NEW E, NEW f,
         E \subseteq Edges
  PROVE  \A o : o \in Created(E, f) <=> \E b : Has(E, o, f.point, b, "A")
<1> TAKE o
<1>1. ASSUME o \in Created(E, f) PROVE \E b : Has(E, o, f.point, b, "A")
  <2>1. PICK e \in E : e.obj = o /\ e.tag.point = f.point /\ e.tag.mark = "A"
    BY <1>1, CreatedUnits
  <2>2. Has(E, o, f.point, e.tag.branch, "A")
    BY <2>1, EdgeUnits
  <2> QED  BY <2>2
<1>2. ASSUME NEW b, Has(E, o, f.point, b, "A") PROVE o \in Created(E, f)
  <2>1. \E e \in E : e.obj = o /\ e.tag.point = f.point /\ e.tag.mark = "A"
    BY <1>2, HasUnits
  <2> QED  BY <2>1, CreatedUnits
<1> QED  BY <1>1, <1>2

LEMMA DeletedHas ==
  ASSUME NEW E, NEW f, NEW o
  PROVE  o \in DeletedByAll(E, f) <=>
           /\ o \in Objects /\ NumOfBranches(f) > 0
           /\ \A b \in 1..NumOfBranches(f) : Has(E, o, f.point, b, "D")
BY DEF DeletedByAll, Has

\* Into the branch b of the if p, from the if q, whose branches created C and
\* all deleted G.
MergedIn(E, M, p, b, q, C, G) ==
  \A o, r, c, m : Has(M, o, r, c, m) <=>
    IF r = p /\ c = b /\ m = "A" THEN (Has(E, o, p, b, "A") \/ o \in C) /\ o \notin G
    ELSE IF r = p /\ c = b /\ m = "D"
    THEN Has(E, o, p, b, "D") \/ (o \in G /\ ~Has(E, o, p, b, "A") /\ o \notin C)
    ELSE Has(E, o, r, c, m) /\ r # q

LEMMA OutsideHas ==
  ASSUME NEW E, NEW o, NEW r, NEW c, NEW m, NEW q
  PROVE  At(o, r, c, m) \in Outside(E, q) <=> Has(E, o, r, c, m) /\ r # q
<1> DEFINE e == Edge(o, [point |-> r, branch |-> c, mark |-> m])
<1>1. e.tag.point = r
  BY DEF Edge
<1> HIDE DEF e
<1>2. e \in Outside(E, q) <=> e \in E /\ r # q
  BY <1>1 DEF Outside
<1> QED  BY <1>2 DEF Has, At, e

LEMMA MergedInBranch ==
  ASSUME NEW E, NEW f, NEW t, t # <<>>, t[Len(t)].point # f.point
  PROVE  MergedIn(E, Merged(E, f, t), t[Len(t)].point, t[Len(t)].branch, f.point,
                  Created(E, f), DeletedByAll(E, f))
<1> DEFINE p == t[Len(t)].point
           b == t[Len(t)].branch
           C == Created(E, f)
           G == DeletedByAll(E, f)
           outside == Outside(E, f.point)
           flat == outside \cup AllAt(C, p, b, "A")
           late == {o \in G : At(o, p, b, "A") \notin flat}
           M == Merged(E, f, t)
<1>1. M = (flat \ (AllAt(G, p, b, "A") \cap flat)) \cup AllAt(late, p, b, "D")
  BY DEF Merged, Mark, At, AllAt, Outside
<1>2. SUFFICES ASSUME NEW o, NEW r, NEW c, NEW m
               PROVE  Has(M, o, r, c, m) <=>
                        IF r = p /\ c = b /\ m = "A" THEN (Has(E, o, p, b, "A") \/ o \in C) /\ o \notin G
                        ELSE IF r = p /\ c = b /\ m = "D"
                        THEN Has(E, o, p, b, "D") \/ (o \in G /\ ~Has(E, o, p, b, "A") /\ o \notin C)
                        ELSE Has(E, o, r, c, m) /\ r # f.point
  BY DEF MergedIn
<1> DEFINE e == At(o, r, c, m)
<1>3. e \in outside <=> Has(E, o, r, c, m) /\ r # f.point
  BY OutsideHas
<1>4. e \in AllAt(C, p, b, "A") <=> o \in C /\ r = p /\ c = b /\ m = "A"
  BY AmongEdges
<1>5. e \in AllAt(G, p, b, "A") <=> o \in G /\ r = p /\ c = b /\ m = "A"
  BY AmongEdges
<1>6. e \in AllAt(late, p, b, "D") <=> o \in late /\ r = p /\ c = b /\ m = "D"
  BY AmongEdges
<1>7. o \in late <=> o \in G /\ ~Has(E, o, p, b, "A") /\ o \notin C
  <2>1. At(o, p, b, "A") \in outside <=> Has(E, o, p, b, "A") /\ p # f.point
    BY OutsideHas
  <2>2. At(o, p, b, "A") \in AllAt(C, p, b, "A") <=> o \in C
    BY AmongEdges
  <2>3. p # f.point
    OBVIOUS
  <2>4. At(o, p, b, "A") \in flat <=> Has(E, o, p, b, "A") \/ o \in C
    <3> HIDE DEF outside, p, b, C
    <3> QED  BY <2>1, <2>2, <2>3
  <2> HIDE DEF flat, G, C, p, b
  <2> QED  BY <2>4
<1>8. Has(M, o, r, c, m) <=> e \in M
  BY DEF Has, At
<1>9. p # f.point
  OBVIOUS
<1> HIDE DEF e, M, late, outside, p, b, C, G
<1>10. Has(M, o, r, c, m) <=>
         \/ /\ (Has(E, o, r, c, m) /\ r # f.point) \/ (o \in C /\ r = p /\ c = b /\ m = "A")
            /\ ~(o \in G /\ r = p /\ c = b /\ m = "A")
         \/ o \in late /\ r = p /\ c = b /\ m = "D"
  BY <1>1, <1>3, <1>4, <1>5, <1>6, <1>8
<1> HIDE DEF flat
<1>11. CASE r = p /\ c = b /\ m = "A"
  BY <1>9, <1>10, <1>11
<1>12. CASE r = p /\ c = b /\ m = "D"
  BY <1>7, <1>9, <1>10, <1>12
<1>13. CASE ~(r = p /\ c = b /\ (m = "A" \/ m = "D"))
  BY <1>10, <1>13
<1> QED  BY <1>11, <1>12, <1>13

LEMMA MergedAtRoot ==
  ASSUME NEW E, NEW f
  PROVE  \A o, r, c, m : Has(Merged(E, f, <<>>), o, r, c, m) <=>
           /\ (Has(E, o, r, c, m) /\ r # f.point) \/ (o \in Created(E, f) /\ r = 0 /\ c = 0 /\ m = "none")
           /\ ~(o \in DeletedByAll(E, f) /\ r = 0 /\ c = 0 /\ m = "none")
<1> DEFINE C == Created(E, f)
           G == DeletedByAll(E, f)
           outside == Outside(E, f.point)
           flat == outside \cup AllAt(C, 0, 0, "none")
           M == Merged(E, f, <<>>)
<1>1. M = flat \ (AllAt(G, 0, 0, "none") \cap flat)
  BY DEF Merged, AllAt, Outside, NoTag
<1> TAKE o, r, c, m
<1> DEFINE e == At(o, r, c, m)
<1>3. e \in outside <=> Has(E, o, r, c, m) /\ r # f.point
  BY OutsideHas
<1>4. e \in AllAt(C, 0, 0, "none") <=> o \in C /\ r = 0 /\ c = 0 /\ m = "none"
  BY AmongEdges
<1>5. e \in AllAt(G, 0, 0, "none") <=> o \in G /\ r = 0 /\ c = 0 /\ m = "none"
  BY AmongEdges
<1>8. Has(M, o, r, c, m) <=> e \in M
  BY DEF Has, At
<1> HIDE DEF e, M, outside, C, G
<1>10. Has(M, o, r, c, m) <=>
           /\ (Has(E, o, r, c, m) /\ r # f.point) \/ (o \in C /\ r = 0 /\ c = 0 /\ m = "none")
           /\ ~(o \in G /\ r = 0 /\ c = 0 /\ m = "none")
  BY <1>1, <1>3, <1>4, <1>5, <1>8
<1> QED  BY <1>10 DEF M, C, G

-----------------------------------------------------------------------------
(* Assignments and merges keep the levels.                                  *)

LEMMA PointsDiffer ==
  ASSUME NEW s, NEW n, StackShape(s, n)
  PROVE  /\ \A i, j \in 1..Len(s) : s[i].point = s[j].point => i = j
         /\ \A i \in 1..Len(s) : s[i].point # 0
<1>1. \A i \in 1..Len(s) : s[i].point \in Int /\ s[i].point >= 1
  <2>1. \A i \in 1..Len(s) : s[i] \in Frame
    BY DEF StackShape
  <2>2. \A f \in Frame : f.point \in Int /\ f.point >= 1
    BY DEF Frame
  <2> QED  BY <2>1, <2>2
<1>2. \A i, j \in 1..Len(s) : i < j => s[i].point < s[j].point
  BY DEF StackShape
<1> QED  BY <1>1, <1>2

\* A branch that adds an object is the only one that does, below its if.
LEMMA AddedIsNotHeld ==
  ASSUME NEW E, NEW s, NEW n, NEW m \in 1..Len(s), NEW b, NEW o,
         StackShape(s, n), OnceAt(E),
         Has(E, o, s[m].point, b, "A")
  PROVE  ~InHeld(E, s, m - 1, o)
<1> SUFFICES ASSUME InHeld(E, s, m - 1, o) PROVE FALSE
  OBVIOUS
<1>1. m - 1 \in Nat /\ Len(s) \in Nat
  BY DEF StackShape
<1>2. \/ Has(E, o, 0, 0, "none")
      \/ \E i \in 1..(m - 1) : Has(E, o, s[i].point, s[i].branch, "A")
  BY <1>1, HeldHasEdge
<1>3. CASE Has(E, o, 0, 0, "none")
  <2>1. s[m].point = 0
    BY <1>3 DEF OnceAt
  <2> QED  BY <2>1, PointsDiffer
<1>4. ASSUME NEW i \in 1..(m - 1), Has(E, o, s[i].point, s[i].branch, "A") PROVE FALSE
  <2>1. s[i].point = s[m].point
    BY <1>4 DEF OnceAt
  <2>2. i \in 1..Len(s) /\ i # m
    BY <1>1
  <2> QED  BY <2>1, <2>2, PointsDiffer
<1> QED  BY <1>2, <1>3, <1>4

\* Frames above the m-th have no branches yet.
FlatAbove(s, m) == \A k \in (m + 1)..Len(s) : s[k].branch_num_counter = 0

LEMMA NoTagsAbove ==
  ASSUME NEW E, NEW s, NEW n, NEW k \in 1..Len(s), NEW o, NEW b, NEW mk,
         StackShape(s, n), OpenAt(E, s),
         Has(E, o, s[k].point, b, mk)
  PROVE  b \in 1..s[k].branch_num_counter /\ mk \in {"A", "D"}
<1>1. s[k].point # 0
  BY PointsDiffer
<1>2. PICK j \in 1..Len(s) : s[k].point = s[j].point /\ b \in 1..s[j].branch_num_counter
  BY <1>1 DEF OpenAt
<1>3. mk \in {"A", "D"}
  BY <1>1 DEF OpenAt
<1>4. j = k
  BY <1>2, PointsDiffer
<1> QED  BY <1>2, <1>3, <1>4

\* What the assignment finds; what it assigns is not added elsewhere; what it
\* leaves behind.
PreIs(E, s, pre) == \A o : o \in pre <=> o \in Objects /\ InHeld(E, s, Len(s), o)
OnlyAt(E, new, p) == \A o \in new : \A q, c, mk : Has(E, o, q, c, mk) => mk = "A" /\ q = p
Leaves(E, R, s, m, new) ==
  /\ Levels(R, s) /\ AgreeBelow(E, R, s, m)
  /\ \A o : InHeld(R, s, Len(s), o) <=> o \in new

LEMMA AssignLevels ==
  ASSUME NEW E, NEW R, NEW s, NEW n, NEW m, NEW new, NEW pre,
         StackShape(s, n), Levels(E, s),
         Deepest(s, m), m # 0, FlatAbove(s, m),
         new \subseteq Objects,
         PreIs(E, s, pre), OnlyAt(E, new, s[m].point),
         AssignedIn(E, R, s[m].point, s[m].branch, pre, new)
  PROVE  Leaves(E, R, s, m, new)
<1>a. /\ \A o : o \in pre <=> o \in Objects /\ InHeld(E, s, Len(s), o)
      /\ \A o \in new : \A q, c, mk : Has(E, o, q, c, mk) => mk = "A" /\ q = s[m].point
  BY DEF PreIs, OnlyAt
<1> USE <1>a
<1> DEFINE p == s[m].point
           b == s[m].branch
<1>0. /\ m \in 1..Len(s) /\ s[m].arm = "branch" /\ Len(s) \in Nat /\ m \in Nat \ {0} /\ m - 1 \in Nat
      /\ m <= Len(s) /\ m - 1 < m /\ FrameShape(s[m]) /\ s[m] \in Frame
  BY DEF Deepest, StackShape
<1>1. b \in 1..s[m].branch_num_counter
  BY <1>0 DEF FrameShape, Frame
<1>2. \A k \in 1..Len(s) : s[k].point = p => k = m
  BY <1>0, PointsDiffer
<1>3. p # 0 /\ \A k \in 1..Len(s) : s[k].point # 0
  BY <1>0, PointsDiffer
<1> HIDE DEF p, b
<1>4. \A o, q, c, mk : Has(R, o, q, c, mk) <=>
        IF q = p /\ c = b /\ mk = "A" THEN o \in new \/ (Has(E, o, p, b, "A") /\ o \notin pre)
        ELSE IF q = p /\ c = b /\ mk = "D" THEN Has(E, o, p, b, "D") \/ (o \in pre /\ ~Has(E, o, p, b, "A"))
        ELSE Has(E, o, q, c, mk)
  BY DEF AssignedIn, p, b
<1>5. AgreeBelow(E, R, s, m)
  <2>1. \A o : Has(E, o, 0, 0, "none") <=> Has(R, o, 0, 0, "none")
    BY <1>3, <1>4
  <2>2. ASSUME NEW k \in 1..m, NEW mk \in {"A", "D"}, NEW o, NEW c, k < m \/ c # s[m].branch
        PROVE  Has(E, o, s[k].point, c, mk) <=> Has(R, o, s[k].point, c, mk)
    <3>1. k \in 1..Len(s)
      BY <1>0
    <3>2. ~(s[k].point = p /\ c = b)
      BY <1>0, <1>2, <2>2, <3>1 DEF b
    <3> QED  BY <1>4, <3>2
  <2> QED  BY <2>1, <2>2 DEF AgreeBelow
<1>6. \A k \in 1..m : \A o : InHeld(E, s, k - 1, o) <=> InHeld(R, s, k - 1, o)
  <2> TAKE k \in 1..m
  <2>1. k - 1 \in Nat /\ k - 1 < m /\ Below(s, s, m)
    BY <1>0 DEF Below
  <2> QED  BY <1>0, <1>5, <2>1, HeldAgrees
<1>7. \A o : InHeld(E, s, m, o) <=> Has(E, o, p, b, "A") \/ (InHeld(E, s, m - 1, o) /\ ~Has(E, o, p, b, "D"))
  BY <1>0, HeldAtBranch DEF p, b
<1>8. \A o : InHeld(R, s, m, o) <=> Has(R, o, p, b, "A") \/ (InHeld(R, s, m - 1, o) /\ ~Has(R, o, p, b, "D"))
  BY <1>0, HeldAtBranch DEF p, b
<1>9. \A o : Has(E, o, p, b, "A") => ~InHeld(E, s, m - 1, o)
  BY <1>0, AddedIsNotHeld DEF Levels, p
<1>10. \A X, o : InHeld(X, s, Len(s), o) <=> InHeld(X, s, m, o)
  BY <1>0, HeldFlat DEF Deepest
<1>11. \A o, q, c, mk : Has(E, o, q, c, mk) => o \in Objects
  BY DEF Levels, OpenAt
<1>12. \A o : InHeld(E, s, m, o) => o \in Objects
  <2> TAKE o
  <2> SUFFICES ASSUME InHeld(E, s, m, o) PROVE o \in Objects
    OBVIOUS
  <2>1. \/ Has(E, o, 0, 0, "none")
        \/ \E i \in 1..m : Has(E, o, s[i].point, s[i].branch, "A")
    BY <1>0, HeldHasEdge
  <2> QED  BY <1>11, <2>1
<1>13. \A o : o \in pre <=> InHeld(E, s, m, o)
  BY <1>10, <1>12
<1>14. \A o : InHeld(R, s, Len(s), o) <=> o \in new
  <2> TAKE o
  <2>1. Has(R, o, p, b, "A") <=> o \in new
    BY <1>4, <1>7, <1>13
  <2>2. Has(R, o, p, b, "D") <=> Has(E, o, p, b, "D") \/ (o \in pre /\ ~Has(E, o, p, b, "A"))
    BY <1>4
  <2>3. InHeld(E, s, m - 1, o) <=> InHeld(R, s, m - 1, o)
    BY <1>0, <1>6
  <2> QED  BY <1>7, <1>8, <1>9, <1>10, <1>13, <2>1, <2>2, <2>3
<1>15. OpenAt(R, s)
  <2> SUFFICES ASSUME NEW o, NEW q, NEW c, NEW mk, Has(R, o, q, c, mk)
               PROVE  /\ o \in Objects
                      /\ \/ q = 0 /\ c = 0 /\ mk = "none"
                         \/ mk \in {"A", "D"} /\ \E k \in 1..Len(s) :
                              q = s[k].point /\ c \in 1..s[k].branch_num_counter
    BY DEF OpenAt
  <2>1. CASE q = p /\ c = b /\ mk \in {"A", "D"}
    <3>1. o \in Objects
      BY <1>4, <1>11, <2>1
    <3> QED  BY <1>0, <1>1, <2>1, <3>1 DEF p
  <2>2. CASE ~(q = p /\ c = b /\ mk \in {"A", "D"})
    <3>1. Has(E, o, q, c, mk)
      BY <1>4, <2>2
    <3> QED  BY <3>1 DEF Levels, OpenAt
  <2> QED  BY <2>1, <2>2
<1>16. OnceAt(R)
  <2>1. ASSUME NEW o, NEW q, NEW c, NEW mk, Has(R, o, q, c, mk), mk # "D"
        PROVE  (o \in new /\ q = p) \/ Has(E, o, q, c, mk)
    BY <1>4, <2>1
  <2>2. \A o \in new : \A q, c, mk : Has(E, o, q, c, mk) => q = p
    BY DEF p
  <2> SUFFICES ASSUME NEW o, NEW q, NEW c, NEW mk, NEW q2, NEW c2, NEW mk2,
                      Has(R, o, q, c, mk), Has(R, o, q2, c2, mk2), mk # "D", mk2 # "D"
               PROVE  q = q2
    BY DEF OnceAt
  <2>3. (o \in new /\ q = p) \/ Has(E, o, q, c, mk)
    BY <2>1
  <2>4. (o \in new /\ q2 = p) \/ Has(E, o, q2, c2, mk2)
    BY <2>1
  <2> QED  BY <2>2, <2>3, <2>4 DEF Levels, OnceAt
<1>17. HeldAt(R, s)
  <2> SUFFICES ASSUME NEW o, NEW c, NEW k \in 1..Len(s), Has(R, o, s[k].point, c, "D")
               PROVE  InHeld(R, s, k - 1, o)
    BY DEF HeldAt
  <2>1. CASE s[k].point = p /\ c = b
    <3>1. k = m /\ m \in 1..m
      BY <1>0, <1>2, <2>1
    <3>2. InHeld(E, s, m - 1, o)
      <4>1. Has(E, o, p, b, "D") \/ (o \in pre /\ ~Has(E, o, p, b, "A"))
        BY <1>4, <2>1
      <4>2. Has(E, o, p, b, "D") => InHeld(E, s, m - 1, o)
        BY <1>0 DEF Levels, HeldAt, p
      <4> QED  BY <1>7, <1>13, <4>1, <4>2
    <3> QED  BY <1>6, <3>1, <3>2
  <2>2. CASE ~(s[k].point = p /\ c = b)
    <3>1. Has(E, o, s[k].point, c, "D")
      BY <1>4, <2>2
    <3>2. InHeld(E, s, k - 1, o)
      BY <3>1 DEF Levels, HeldAt
    <3>3. k \in 1..m
      <4>1. c \in 1..s[k].branch_num_counter
        BY <3>1, NoTagsAbove DEF Levels
      <4>2. s[k].branch_num_counter # 0
        BY <4>1
      <4>3. k \notin (m + 1)..Len(s)
        BY <4>2 DEF FlatAbove
      <4> QED  BY <1>0, <4>3
    <3> QED  BY <1>6, <3>2, <3>3
  <2> QED  BY <2>1, <2>2
<1> QED  BY <1>5, <1>14, <1>15, <1>16, <1>17 DEF Levels, Leaves

LEMMA AssignRootLevels ==
  ASSUME NEW E, NEW R, NEW s, NEW n, NEW new,
         StackShape(s, n), Deepest(s, 0),
         new \subseteq Objects,
         \A o, q, c, mk : Has(R, o, q, c, mk) <=> o \in new /\ q = 0 /\ c = 0 /\ mk = "none"
  PROVE  Leaves(E, R, s, 0, new)
<1>1. OpenAt(R, s) /\ OnceAt(R) /\ HeldAt(R, s)
  BY DEF OpenAt, OnceAt, HeldAt
<1>2. AgreeBelow(E, R, s, 0)
  BY DEF AgreeBelow
<1>3. ASSUME NEW o PROVE InHeld(R, s, Len(s), o) <=> o \in new
  <2>1. InHeld(R, s, Len(s), o) <=> InHeld(R, s, 0, o)
    <3>1. Len(s) \in Nat /\ 0 \in Nat /\ 0 <= Len(s) /\ \A j \in (0 + 1)..Len(s) : s[j].arm # "branch"
      BY DEF Deepest, StackShape
    <3> QED  BY <3>1, HeldFlat
  <2> QED  BY <2>1, HeldAtRoot
<1> QED  BY <1>1, <1>2, <1>3 DEF Levels, Leaves

\* What the merge of the if q works on.
MergeSets(E, s, q, C, G) ==
  /\ \A o : o \in C <=> \E b : Has(E, o, q, b, "A")
  /\ \A o \in G : o \in Objects /\ \E b : Has(E, o, q, b, "D")

\* What a merge leaves behind.
LeavesMerged(E, M, s, u, m, C, G) ==
  /\ Levels(M, u) /\ AgreeBelow(E, M, s, m)
  /\ \A o : InHeld(M, u, Len(u), o) <=> (InHeld(E, s, Len(s) - 1, o) /\ o \notin G) \/ o \in C

LEMMA MergeSetsHeld ==
  ASSUME NEW E, NEW s, NEW n, NEW C, NEW G,
         StackShape(s, n), s # <<>>, Levels(E, s),
         MergeSets(E, s, s[Len(s)].point, C, G)
  PROVE  /\ \A o \in G : InHeld(E, s, Len(s) - 1, o)
         /\ \A o \in C : ~InHeld(E, s, Len(s) - 1, o) /\ o \in Objects
<1>1. Len(s) \in 1..Len(s)
  BY EmptySeq DEF StackShape
<1>2. \A o \in G : InHeld(E, s, Len(s) - 1, o)
  BY <1>1 DEF MergeSets, Levels, HeldAt
<1>3. \A o \in C : ~InHeld(E, s, Len(s) - 1, o)
  BY <1>1, AddedIsNotHeld DEF MergeSets, Levels
<1>4. \A o \in C : o \in Objects
  BY DEF MergeSets, Levels, OpenAt
<1> QED  BY <1>2, <1>3, <1>4

LEMMA MergeLevels ==
  ASSUME NEW E, NEW M, NEW s, NEW u, NEW n, NEW m, NEW C, NEW G,
         StackShape(s, n), s # <<>>, PoppedTo(s, u), Levels(E, s),
         Deepest(u, m), m # 0, FlatAbove(u, m),
         MergeSets(E, s, s[Len(s)].point, C, G),
         MergedIn(E, M, u[m].point, u[m].branch, s[Len(s)].point, C, G)
  PROVE  LeavesMerged(E, M, s, u, m, C, G)
<1> DEFINE p == u[m].point
           b == u[m].branch
           q == s[Len(s)].point
           H(o) == InHeld(E, s, Len(s) - 1, o)
<1>0. /\ Len(s) \in Nat \ {0} /\ Len(u) = Len(s) - 1 /\ Len(u) \in Nat
      /\ m \in Nat \ {0} /\ m - 1 \in Nat /\ m <= Len(u) /\ m \in 1..Len(u) /\ m \in 1..Len(s)
      /\ Len(s) \in 1..Len(s) /\ m # Len(s)
  BY EmptySeq DEF StackShape, PoppedTo, Deepest
<1>1. \A k \in 1..Len(u) : u[k] = s[k] /\ k \in 1..Len(s) /\ k # Len(s)
  BY <1>0 DEF PoppedTo, Below
<1>2. StackShape(u, n)
  BY PopShape
<1>3. /\ s[m].arm = "branch" /\ u[m].arm = "branch" /\ FrameShape(u[m]) /\ u[m] \in Frame
      /\ p = s[m].point /\ b = s[m].branch
  BY <1>0, <1>1, <1>2 DEF Deepest, StackShape
<1>4. b \in 1..u[m].branch_num_counter
  BY <1>3 DEF FrameShape, Frame
<1>5. p # q /\ p # 0 /\ q # 0 /\ \A k \in 1..Len(u) : s[k].point # 0 /\ s[k].point # q /\ (s[k].point = p => k = m)
  <2>1. /\ \A i, j \in 1..Len(s) : s[i].point = s[j].point => i = j
        /\ \A i \in 1..Len(s) : s[i].point # 0
    BY PointsDiffer
  <2>2. p = s[m].point /\ q = s[Len(s)].point
    BY <1>3
  <2> HIDE DEF p, b, q
  <2>3. p # q /\ p # 0 /\ q # 0
    BY <1>0, <2>1, <2>2
  <2>4. ASSUME NEW k \in 1..Len(u)
        PROVE  s[k].point # 0 /\ s[k].point # q /\ (s[k].point = p => k = m)
    BY <1>0, <1>1, <2>1, <2>2
  <2> QED  BY <2>3, <2>4
<1> HIDE DEF p, b, q
<1>6. \A o, r, c, mk : Has(M, o, r, c, mk) <=>
        IF r = p /\ c = b /\ mk = "A" THEN (Has(E, o, p, b, "A") \/ o \in C) /\ o \notin G
        ELSE IF r = p /\ c = b /\ mk = "D"
        THEN Has(E, o, p, b, "D") \/ (o \in G /\ ~Has(E, o, p, b, "A") /\ o \notin C)
        ELSE Has(E, o, r, c, mk) /\ r # q
  BY DEF MergedIn, p, b, q
<1>7. AgreeBelow(E, M, s, m)
  <2>1. \A o : Has(E, o, 0, 0, "none") <=> Has(M, o, 0, 0, "none")
    BY <1>5, <1>6
  <2>2. ASSUME NEW k \in 1..m, NEW mk \in {"A", "D"}, NEW o, NEW c, k < m \/ c # s[m].branch
        PROVE  Has(E, o, s[k].point, c, mk) <=> Has(M, o, s[k].point, c, mk)
    <3>1. k \in 1..Len(u)
      BY <1>0
    <3>2. ~(s[k].point = p /\ c = b) /\ s[k].point # q
      BY <1>0, <1>3, <1>5, <2>2, <3>1
    <3> QED  BY <1>6, <3>2
  <2> QED  BY <2>1, <2>2 DEF AgreeBelow
<1>8. \A k \in 1..m : \A o : InHeld(E, s, k - 1, o) <=> InHeld(M, u, k - 1, o)
  <2> TAKE k \in 1..m
  <2>1. k - 1 \in Nat /\ k - 1 < m /\ Below(s, u, m)
    BY <1>0, <1>1 DEF Below
  <2> QED  BY <1>0, <1>7, <2>1, HeldAgrees
<1>9. \A o : InHeld(E, s, m, o) <=> Has(E, o, p, b, "A") \/ (InHeld(E, s, m - 1, o) /\ ~Has(E, o, p, b, "D"))
  BY <1>0, <1>3, HeldAtBranch
<1>10. \A o : InHeld(M, u, m, o) <=> Has(M, o, p, b, "A") \/ (InHeld(M, u, m - 1, o) /\ ~Has(M, o, p, b, "D"))
  BY <1>0, <1>3, HeldAtBranch DEF p, b
<1>11. \A o : Has(E, o, p, b, "A") => ~InHeld(E, s, m - 1, o)
  BY <1>0, <1>3, AddedIsNotHeld DEF Levels
<1>12. \A o : H(o) <=> InHeld(E, s, m, o)
  <2>1. \A j \in (m + 1)..(Len(s) - 1) : s[j].arm # "branch"
    <3> TAKE j \in (m + 1)..(Len(s) - 1)
    <3>1. j \in (m + 1)..Len(u) /\ j \in 1..Len(u)
      BY <1>0
    <3>2. u[j].arm # "branch"
      BY <3>1 DEF Deepest
    <3> QED  BY <1>1, <3>1, <3>2
  <2>2. Len(s) - 1 \in Nat /\ m <= Len(s) - 1
    BY <1>0
  <2> QED  BY <1>0, <2>1, <2>2, HeldFlat
<1>13. \A o : InHeld(M, u, Len(u), o) <=> InHeld(M, u, m, o)
  BY <1>0, HeldFlat DEF Deepest
<1>14. (\A o \in G : H(o)) /\ \A o \in C : ~H(o) /\ o \in Objects
  BY MergeSetsHeld
<1> HIDE DEF H
<1>15. \A o : InHeld(M, u, Len(u), o) <=> (H(o) /\ o \notin G) \/ o \in C
  <2> TAKE o
  <2>1. Has(M, o, p, b, "A") <=> (Has(E, o, p, b, "A") \/ o \in C) /\ o \notin G
    BY <1>6
  <2>2. Has(M, o, p, b, "D") <=> Has(E, o, p, b, "D") \/ (o \in G /\ ~Has(E, o, p, b, "A") /\ o \notin C)
    BY <1>6
  <2>3. InHeld(E, s, m - 1, o) <=> InHeld(M, u, m - 1, o)
    BY <1>0, <1>8
  <2> QED  BY <1>9, <1>10, <1>11, <1>12, <1>13, <1>14, <2>1, <2>2, <2>3
<1>16. OpenAt(M, u)
  <2> SUFFICES ASSUME NEW o, NEW r, NEW c, NEW mk, Has(M, o, r, c, mk)
               PROVE  /\ o \in Objects
                      /\ \/ r = 0 /\ c = 0 /\ mk = "none"
                         \/ mk \in {"A", "D"} /\ \E k \in 1..Len(u) :
                              r = u[k].point /\ c \in 1..u[k].branch_num_counter
    BY DEF OpenAt
  <2>1. CASE r = p /\ c = b /\ mk \in {"A", "D"}
    <3>1. o \in C \/ o \in G \/ Has(E, o, p, b, mk)
      BY <1>6, <2>1
    <3>2. o \in Objects
      BY <1>14, <3>1 DEF MergeSets, Levels, OpenAt
    <3> QED  BY <1>0, <1>4, <2>1, <3>2 DEF p
  <2>2. CASE ~(r = p /\ c = b /\ mk \in {"A", "D"})
    <3>1. Has(E, o, r, c, mk) /\ r # q
      BY <1>6, <2>2
    <3>2. o \in Objects
      BY <3>1 DEF Levels, OpenAt
    <3>3. CASE r = 0 /\ c = 0 /\ mk = "none"
      BY <3>2, <3>3
    <3>4. CASE ~(r = 0 /\ c = 0 /\ mk = "none")
      <4>1. PICK k \in 1..Len(s) : r = s[k].point /\ c \in 1..s[k].branch_num_counter
        BY <3>1, <3>4 DEF Levels, OpenAt
      <4>2. mk \in {"A", "D"}
        BY <3>1, <3>4 DEF Levels, OpenAt
      <4>3. k # Len(s)
        BY <3>1, <4>1 DEF q
      <4>4. k \in 1..Len(u)
        BY <1>0, <4>3
      <4> QED  BY <1>1, <3>2, <4>1, <4>2, <4>4
    <3> QED  BY <3>3, <3>4
  <2> QED  BY <2>1, <2>2
<1>17. OnceAt(M)
  <2>1. ASSUME NEW o, NEW r, NEW c, NEW mk, Has(M, o, r, c, mk), mk # "D"
        PROVE  (o \in C /\ r = p) \/ (Has(E, o, r, c, mk) /\ r # q)
    BY <1>5, <1>6, <2>1
  <2>2. ASSUME NEW o \in C, NEW r, NEW c, NEW mk, Has(E, o, r, c, mk), mk # "D"
        PROVE  r = q
    <3>1. PICK c2 : Has(E, o, q, c2, "A")
      BY DEF MergeSets, q
    <3> QED  BY <2>2, <3>1 DEF Levels, OnceAt
  <2> SUFFICES ASSUME NEW o, NEW r, NEW c, NEW mk, NEW r2, NEW c2, NEW mk2,
                      Has(M, o, r, c, mk), Has(M, o, r2, c2, mk2), mk # "D", mk2 # "D"
               PROVE  r = r2
    BY DEF OnceAt
  <2>3. (o \in C /\ r = p) \/ (Has(E, o, r, c, mk) /\ r # q)
    BY <2>1
  <2>4. (o \in C /\ r2 = p) \/ (Has(E, o, r2, c2, mk2) /\ r2 # q)
    BY <2>1
  <2> QED  BY <2>2, <2>3, <2>4 DEF Levels, OnceAt
<1>18. HeldAt(M, u)
  <2> SUFFICES ASSUME NEW o, NEW c, NEW k \in 1..Len(u), Has(M, o, u[k].point, c, "D")
               PROVE  InHeld(M, u, k - 1, o)
    BY DEF HeldAt
  <2>0. u[k].point = s[k].point /\ k \in 1..Len(s)
    BY <1>1
  <2>1. CASE s[k].point = p /\ c = b
    <3>1. k = m /\ m \in 1..m
      BY <1>0, <1>5, <2>1
    <3>2. InHeld(E, s, m - 1, o)
      <4>1. Has(E, o, p, b, "D") \/ (o \in G /\ ~Has(E, o, p, b, "A"))
        BY <1>6, <2>0, <2>1
      <4>2. Has(E, o, p, b, "D") => InHeld(E, s, m - 1, o)
        BY <1>0, <1>3 DEF Levels, HeldAt
      <4> QED  BY <1>9, <1>12, <1>14, <4>1, <4>2
    <3> QED  BY <1>8, <3>1, <3>2
  <2>2. CASE ~(s[k].point = p /\ c = b)
    <3>1. Has(E, o, s[k].point, c, "D")
      BY <1>6, <2>0, <2>2
    <3>2. InHeld(E, s, k - 1, o)
      BY <2>0, <3>1 DEF Levels, HeldAt
    <3>3. k \in 1..m
      <4>1. c \in 1..s[k].branch_num_counter
        BY <2>0, <3>1, NoTagsAbove DEF Levels
      <4>2. u[k].branch_num_counter # 0
        BY <1>1, <4>1
      <4>3. k \notin (m + 1)..Len(u)
        BY <4>2 DEF FlatAbove
      <4> QED  BY <1>0, <4>3
    <3> QED  BY <1>8, <3>2, <3>3
  <2> QED  BY <2>1, <2>2
<1> QED  BY <1>7, <1>15, <1>16, <1>17, <1>18 DEF Levels, H, LeavesMerged

LEMMA MergeRootLevels ==
  ASSUME NEW E, NEW M, NEW s, NEW u, NEW n, NEW C, NEW G,
         StackShape(s, n), s # <<>>, PoppedTo(s, u), Levels(E, s),
         Deepest(u, 0), FlatAbove(u, 0),
         MergeSets(E, s, s[Len(s)].point, C, G),
         \A o, r, c, mk : Has(M, o, r, c, mk) <=>
           /\ (Has(E, o, r, c, mk) /\ r # s[Len(s)].point) \/ (o \in C /\ r = 0 /\ c = 0 /\ mk = "none")
           /\ ~(o \in G /\ r = 0 /\ c = 0 /\ mk = "none")
  PROVE  LeavesMerged(E, M, s, u, 0, C, G)
<1> DEFINE H(o) == InHeld(E, s, Len(s) - 1, o)
<1>0. Len(s) \in Nat \ {0} /\ Len(u) = Len(s) - 1 /\ Len(u) \in Nat /\ Len(s) \in 1..Len(s)
  BY EmptySeq DEF StackShape, PoppedTo
<1>1. \A k \in 1..Len(u) : u[k] = s[k] /\ k \in 1..Len(s)
  BY <1>0 DEF PoppedTo, Below
<1>2. (\A o \in G : H(o)) /\ \A o \in C : ~H(o) /\ o \in Objects
  BY MergeSetsHeld
<1>3. \A o : H(o) <=> Has(E, o, 0, 0, "none")
  <2> TAKE o
  <2>1. /\ Len(s) - 1 \in Nat /\ 0 \in Nat /\ 0 <= Len(s) - 1
        /\ \A j \in (0 + 1)..(Len(s) - 1) : s[j].arm # "branch"
    BY <1>0, <1>1 DEF Deepest
  <2>2. InHeld(E, s, Len(s) - 1, o) <=> InHeld(E, s, 0, o)
    BY <2>1, HeldFlat
  <2> QED  BY <2>2, HeldAtRoot
<1>4. \A o : InHeld(M, u, Len(u), o) <=> Has(M, o, 0, 0, "none")
  <2> TAKE o
  <2>1. Len(u) \in Nat /\ 0 \in Nat /\ 0 <= Len(u) /\ \A j \in (0 + 1)..Len(u) : u[j].arm # "branch"
    BY <1>0 DEF Deepest
  <2>2. InHeld(M, u, Len(u), o) <=> InHeld(M, u, 0, o)
    BY <2>1, HeldFlat
  <2> QED  BY <2>2, HeldAtRoot
<1>5. s[Len(s)].point # 0
  BY <1>0, PointsDiffer
<1> HIDE DEF H
<1>6. \A o : InHeld(M, u, Len(u), o) <=> (H(o) /\ o \notin G) \/ o \in C
  BY <1>2, <1>3, <1>4, <1>5
<1>7. ASSUME NEW o, NEW r, NEW c, NEW mk, Has(M, o, r, c, mk)
      PROVE  o \in Objects /\ r = 0 /\ c = 0 /\ mk = "none"
  <2>1. CASE o \in C /\ r = 0 /\ c = 0 /\ mk = "none"
    BY <1>2, <2>1
  <2>2. CASE Has(E, o, r, c, mk) /\ r # s[Len(s)].point
    <3>1. o \in Objects
      BY <2>2 DEF Levels, OpenAt
    <3>2. ASSUME NEW k \in 1..Len(s), r = s[k].point PROVE FALSE
      <4>1. c \in 1..s[k].branch_num_counter
        BY <2>2, <3>2, NoTagsAbove DEF Levels
      <4>2. k \in 1..Len(u)
        BY <1>0, <2>2, <3>2
      <4>3. u[k].branch_num_counter = 0
        <5>1. k \in (0 + 1)..Len(u)
          BY <4>2
        <5> QED  BY <5>1 DEF FlatAbove
      <4> QED  BY <1>1, <4>1, <4>2, <4>3
    <3> QED  BY <2>2, <3>1, <3>2 DEF Levels, OpenAt
  <2> QED  BY <1>7, <2>1, <2>2
<1>8. OpenAt(M, u)
  BY <1>7 DEF OpenAt
<1>9. OnceAt(M)
  BY <1>7 DEF OnceAt
<1>10. HeldAt(M, u)
  BY <1>7 DEF HeldAt
<1>11. AgreeBelow(E, M, s, 0)
  BY DEF AgreeBelow
<1> QED  BY <1>6, <1>8, <1>9, <1>10, <1>11 DEF Levels, H, LeavesMerged

-----------------------------------------------------------------------------
(* The invariant, action by action.                                         *)

LevelsPlain(E, s) ==
  /\ \A k \in 1..Len(s) : FramePlain(s[k])
  /\ Levels(E, s) /\ RestIsHeld(E, s) /\ FoundIsAfter(E, s)

LEMMA ToPlain ==
  ASSUME ShapeInv, PlainInv
  PROVE  LevelsPlain(edges, stack)
<1>1. Levels(edges, stack)
  BY ToLevels DEF ShapeInv, PlainInv
<1> QED  BY <1>1 DEF PlainInv, LevelsPlain

LEMMA FromPlain ==
  ASSUME ShapeInv', ~raised', LevelsPlain(edges', stack'), InArm' => HeldIs(edges', stack', possible')
  PROVE  PlainInv'
<1>1. edges' \subseteq Edges
  BY DEF ShapeInv
<1>2. TagsAreOpen(edges', stack') /\ AddedOnce(edges') /\ DeletedWasHeld(edges', stack')
  BY <1>1, FromLevels DEF LevelsPlain
<1> QED  BY <1>2 DEF PlainInv, LevelsPlain

\* Above the deepest branch every arm runs in its parent.
LEMMA ParentsAbove ==
  ASSUME NEW s \in Seq(Frame), NEW m,
         \A k \in 1..Len(s) : FramePlain(s[k]) /\ s[k].arm # "none",
         Deepest(s, m)
  PROVE  FlatAbove(s, m) /\ \A k \in (m + 1)..Len(s) : s[k].arm = "parent"
<1>1. ASSUME NEW k \in (m + 1)..Len(s) PROVE s[k].arm = "parent" /\ s[k].branch_num_counter = 0
  <2>1. k \in 1..Len(s) /\ s[k].arm # "branch"
    BY DEF Deepest
  <2>2. s[k] \in Frame
    BY <2>1
  <2>3. s[k].arm \in {"none", "parent", "branch"}
    BY <2>2 DEF Frame
  <2> QED  BY <2>1, <2>3 DEF FramePlain
<1> QED  BY <1>1 DEF FlatAbove

LEMMA PlainInit ==
  ASSUME Init
  PROVE  PlainInv
<1>1. PICK new \in Rights : edges = {Edge(o, NoTag) : o \in new} /\ possible = new
  BY DEF Init
<1>2. stack = <<>> /\ ~raised /\ Len(stack) = 0 /\ 1..Len(stack) = {}
  BY EmptySeq DEF Init
<1>3. \A e \in edges : e.tag = NoTag
  BY <1>1 DEF Edge
<1>4. TagsAreOpen(edges, stack) /\ AddedOnce(edges) /\ DeletedWasHeld(edges, stack)
  BY <1>2, <1>3 DEF TagsAreOpen, AddedOnce, DeletedWasHeld
<1>5. RestIsHeld(edges, stack) /\ FoundIsAfter(edges, stack)
  BY <1>2 DEF RestIsHeld, FoundIsAfter
<1>6. HeldIs(edges, stack, possible)
  <2> SUFFICES ASSUME NEW o \in Objects PROVE o \in possible <=> InHeld(edges, stack, 0, o)
    BY <1>2 DEF HeldIs
  <2>1. edges = AllAt(new, 0, 0, "none")
    BY <1>1 DEF AllAt, NoTag
  <2>2. Has(edges, o, 0, 0, "none") <=> o \in new
    BY <2>1, AmongEdges DEF Has, At
  <2> QED  BY <1>1, <2>2, HeldAtRoot
<1> QED  BY <1>2, <1>4, <1>5, <1>6 DEF PlainInv

LEMMA AssignPlain ==
  ASSUME ShapeInv, ShapeInv', PlainInv, Assign, plain'
  PROVE  PlainInv'
<1> DEFINE t == Branches(stack)
<1>1. PICK new \in Rights :
       /\ edges' = Reassigned(edges, t, new)
       /\ possible' = new
       /\ plain' = (plain /\ NewHere(edges, t, new))
  BY DEF Assign
<1>2. /\ new \subseteq Objects /\ stack' = stack /\ raised' = raised /\ ~raised
      /\ stack \in Seq(Frame) /\ StackShape(stack, ifs) /\ edges \subseteq Edges
  BY DEF Rights, Assign, PlainInv, ShapeInv, StackShape
<1>3. NewHere(edges, t, new)
  BY <1>1
<1>4. \A k \in 1..Len(stack) : FramePlain(stack[k]) /\ stack[k].arm # "none"
  <2> TAKE k \in 1..Len(stack)
  <2>1. stack # <<>> /\ Len(stack) \in Nat
    BY <1>2, EmptySeq
  <2>2. CASE k < Len(stack)
    BY <1>2, <2>2 DEF PlainInv, StackShape
  <2>3. CASE k = Len(stack)
    BY <2>1, <2>3 DEF PlainInv, Assign, InArm, Top
  <2> QED  BY <2>1, <2>2, <2>3
<1>5. LevelsPlain(edges, stack)
  BY ToPlain
<1>6. PICK m : LastIs(stack, t, m)
  BY <1>2, LastBranch
<1>7. FlatAbove(stack, m) /\ \A k \in (m + 1)..Len(stack) : stack[k].arm = "parent" /\ FramePlain(stack[k])
  <2>1. FlatAbove(stack, m) /\ \A k \in (m + 1)..Len(stack) : stack[k].arm = "parent"
    BY <1>2, <1>4, <1>6, ParentsAbove DEF LastIs
  <2>2. \A k \in (m + 1)..Len(stack) : k \in 1..Len(stack)
    BY <1>6 DEF LastIs, Deepest
  <2> QED  BY <1>4, <2>1, <2>2
<1>8. Leaves(edges, edges', stack, m, new)
  <2>1. CASE m = 0
    <3>1. t = <<>>
      BY <1>6, <2>1 DEF LastIs
    <3>2. \A o, q, c, mk : Has(edges', o, q, c, mk) <=> o \in new /\ q = 0 /\ c = 0 /\ mk = "none"
      BY <1>1, <1>2, <3>1, ReassignedAtRoot
    <3>3. Deepest(stack, 0)
      BY <1>6, <2>1 DEF LastIs
    <3>4. Leaves(edges, edges', stack, 0, new)
      BY <1>2, <3>2, <3>3, AssignRootLevels
    <3> QED  BY <2>1, <3>4
  <2>2. CASE m # 0
    <3>1. /\ t # <<>> /\ Deepest(stack, m)
          /\ t[Len(t)].point = stack[m].point /\ t[Len(t)].branch = stack[m].branch
      BY <1>6, <2>2 DEF LastIs
    <3> DEFINE pre == Visible(edges, t)
    <3>2. PreIs(edges, stack, pre)
      BY <1>2, <3>1, VisibleIsHeld DEF PreIs
    <3>3. AssignedIn(edges, edges', stack[m].point, stack[m].branch, pre, new)
      BY <1>1, <3>1, ReassignedInBranch
    <3>4. OnlyAt(edges, new, stack[m].point)
      <4> SUFFICES ASSUME NEW o \in new, NEW q, NEW c, NEW mk, Has(edges, o, q, c, mk)
                   PROVE  mk = "A" /\ q = stack[m].point
        BY DEF OnlyAt
      <4>1. PICK e \in edges : e.obj = o /\ e.tag.point = q /\ e.tag.branch = c /\ e.tag.mark = mk
        BY HasUnits
      <4> QED  BY <1>3, <3>1, <4>1 DEF NewHere
    <3> HIDE DEF pre, t
    <3>5. Levels(edges, stack) /\ FlatAbove(stack, m) /\ Deepest(stack, m)
      BY <1>5, <1>7, <3>1 DEF LevelsPlain
    <3> QED  BY <1>2, <2>2, <3>2, <3>3, <3>4, <3>5, AssignLevels
  <2> QED  BY <2>1, <2>2
<1>9. RestIsHeld(edges', stack) /\ FoundIsAfter(edges', stack)
  <2>1. /\ m \in Nat /\ m <= Len(stack) /\ Len(stack) <= Len(stack) /\ Below(stack, stack, Len(stack))
        /\ m # 0 => stack[m].arm = "branch" /\ FrameShape(stack[m])
    BY <1>2, <1>6 DEF LastIs, Deepest, Below, StackShape
  <2> HIDE DEF t
  <2> QED  BY <1>2, <1>5, <1>7, <1>8, <2>1, HistoryKept DEF LevelsPlain, Leaves
<1>10. LevelsPlain(edges', stack')
  BY <1>2, <1>4, <1>8, <1>9 DEF LevelsPlain, Leaves
<1>11. HeldIs(edges', stack', possible')
  BY <1>1, <1>2, <1>8 DEF HeldIs, Leaves
<1>12. ~raised'
  BY <1>2
<1> QED  BY <1>10, <1>11, <1>12, FromPlain

LEMMA BeginIfPlain ==
  ASSUME ShapeInv, ShapeInv', PlainInv, BeginIf
  PROVE  PlainInv'
<1>1. PICK f : NewFrame(f) /\ PushedTo(stack, stack', f)
  BY BeginIfTop
<1> DEFINE s == stack
           u == stack'
           E == edges
<1>2. /\ edges' = edges /\ raised' = raised /\ ~raised /\ InArm
      /\ s \in Seq(Frame) /\ Len(s) \in Nat /\ LevelsPlain(E, s)
  BY ToPlain DEF BeginIf, PlainInv, ShapeInv, StackShape
<1>3. /\ Len(u) = Len(s) + 1 /\ u[Len(s) + 1] = f /\ Below(s, u, Len(s))
      /\ \A k \in 1..Len(s) : u[k] = s[k] /\ k \in 1..Len(u)
      /\ \A k \in 1..Len(u) : k \in 1..Len(s) \/ k = Len(s) + 1
  BY <1>1, <1>2 DEF PushedTo, Below
<1>4. \A k \in 0..Len(s) : \A o : InHeld(E, s, k, o) <=> InHeld(E, u, k, o)
  BY <1>2, <1>3, HeldBelow
<1> HIDE DEF s, u, E
<1>5. \A o \in Objects : o \in possible <=> InHeld(E, s, Len(s), o)
  BY <1>2 DEF PlainInv, HeldIs, E, s
<1>6. OpenAt(E, u)
  <2> SUFFICES ASSUME NEW o, NEW p, NEW b, NEW mk, Has(E, o, p, b, mk)
               PROVE  /\ o \in Objects
                      /\ \/ p = 0 /\ b = 0 /\ mk = "none"
                         \/ mk \in {"A", "D"} /\ \E k \in 1..Len(u) :
                              p = u[k].point /\ b \in 1..u[k].branch_num_counter
    BY DEF OpenAt
  <2>1. /\ o \in Objects
        /\ \/ p = 0 /\ b = 0 /\ mk = "none"
           \/ mk \in {"A", "D"} /\ \E k \in 1..Len(s) :
                              p = s[k].point /\ b \in 1..s[k].branch_num_counter
    BY <1>2 DEF LevelsPlain, Levels, OpenAt
  <2> QED  BY <1>3, <2>1
<1>7. HeldAt(E, u)
  <2> SUFFICES ASSUME NEW o, NEW b, NEW k \in 1..Len(u), Has(E, o, u[k].point, b, "D")
               PROVE  InHeld(E, u, k - 1, o)
    BY DEF HeldAt
  <2>1. CASE k \in 1..Len(s)
    <3>1. InHeld(E, s, k - 1, o)
      BY <1>2, <1>3, <2>1 DEF LevelsPlain, Levels, HeldAt
    <3>2. k - 1 \in 0..Len(s)
      BY <1>2, <2>1
    <3> QED  BY <1>4, <3>1, <3>2
  <2>2. CASE k = Len(s) + 1
    <3>1. StackShape(u, ifs')
      BY DEF ShapeInv, u
    <3>2. OpenAt(E, u) /\ b \in 1..u[k].branch_num_counter
      BY <1>6, <3>1, NoTagsAbove
    <3> QED  BY <1>1, <1>3, <2>2, <3>2 DEF NewFrame
  <2> QED  BY <1>3, <2>1, <2>2
<1>8. RestIsHeld(E, u)
  <2> SUFFICES ASSUME NEW k \in 1..Len(u), NEW o \in Objects, ~u[k].over
               PROVE  o \in u[k].rest <=> InHeld(E, u, k - 1, o)
    BY DEF RestIsHeld
  <2>1. k - 1 \in 0..Len(s)
    BY <1>2, <1>3
  <2>2. CASE k \in 1..Len(s)
    BY <1>2, <1>3, <1>4, <2>1, <2>2 DEF LevelsPlain, RestIsHeld
  <2>3. CASE k = Len(s) + 1
    <3>1. k - 1 = Len(s) /\ u[k].rest = possible
      BY <1>1, <1>2, <1>3, <2>3 DEF NewFrame
    <3> QED  BY <1>4, <1>5, <2>1, <3>1
  <2> QED  BY <1>3, <2>2, <2>3
<1>9. FoundIsAfter(E, u)
  <2> SUFFICES ASSUME NEW k \in 1..Len(u), NEW o \in Objects
               PROVE  o \in u[k].found <=> FoundAt(E, u, k, o)
    BY DEF FoundIsAfter
  <2>1. k - 1 \in 0..Len(s)
    BY <1>2, <1>3
  <2>2. CASE k \in 1..Len(s)
    <3>1. o \in s[k].found <=> FoundAt(E, s, k, o)
      BY <1>2, <2>2 DEF LevelsPlain, FoundIsAfter
    <3>2. \A b : InAfter(E, s, k, b, o) <=> InAfter(E, u, k, b, o)
      BY <1>3, <1>4, <2>1, <2>2 DEF InAfter
    <3> QED  BY <1>3, <1>4, <2>1, <2>2, <3>1, <3>2 DEF FoundAt
  <2>3. CASE k = Len(s) + 1
    BY <1>1, <1>3, <2>3 DEF FoundAt, NewFrame
  <2> QED  BY <1>3, <2>2, <2>3
<1>10. \A k \in 1..Len(u) : FramePlain(u[k])
  <2> TAKE k \in 1..Len(u)
  <2>1. CASE k \in 1..Len(s)
    BY <1>2, <1>3, <2>1 DEF LevelsPlain
  <2>2. CASE k = Len(s) + 1
    BY <1>1, <1>3, <2>2 DEF FramePlain, NewFrame
  <2> QED  BY <1>3, <2>1, <2>2
<1>11. LevelsPlain(edges', stack')
  BY <1>2, <1>6, <1>7, <1>8, <1>9, <1>10 DEF LevelsPlain, Levels, E, u
<1>12. ~InArm'
  <2>1. u # <<>> /\ u[Len(u)].arm = "none"
    BY <1>1, <1>2, <1>3, EmptySeq DEF NewFrame
  <2> QED  BY <2>1 DEF InArm, Top, u
<1>13. ~raised'
  BY <1>2
<1> QED  BY <1>11, <1>12, <1>13, FromPlain

\* What is found in the branches a frame has run, be the frame changed to f.
FoundNow(E, s, k, f, o) ==
  IF f.branch_num_counter = 0 THEN f.over /\ f.arm = "none" /\ InHeld(E, s, k - 1, o)
  ELSE \E b \in Finished(f) : InAfter(E, s, k, b, o)
RestNow(E, s, k, f) == ~f.over => \A o \in Objects : o \in f.rest <=> InHeld(E, s, k - 1, o)

LEMMA RetopKeeps ==
  ASSUME NEW E, NEW s, NEW u, NEW f, NEW n,
         StackShape(s, n), StackShape(u, n), s # <<>>, Retopped(s, u, f), LevelsPlain(E, s),
         f.point = s[Len(s)].point,
         f.branch_num_counter \in Nat /\ f.branch_num_counter >= s[Len(s)].branch_num_counter,
         FramePlain(f), RestNow(E, s, Len(s), f),
         \A o \in Objects : o \in f.found <=> FoundNow(E, s, Len(s), f, o)
  PROVE  /\ LevelsPlain(E, u)
         /\ \A k \in 1..Len(s) : \A o : InHeld(E, s, k - 1, o) <=> InHeld(E, u, k - 1, o)
<1>0. Len(s) \in Nat \ {0} /\ Len(u) = Len(s) /\ u[Len(s)] = f /\ Below(s, u, Len(s) - 1)
  BY EmptySeq DEF StackShape, Retopped
<1>1. \A k \in 1..Len(s) : k = Len(s) \/ (k \in 1..Len(s) - 1 /\ u[k] = s[k])
  BY <1>0 DEF Below
<1>2. ASSUME NEW k \in 1..Len(s), NEW o
      PROVE  InHeld(E, s, k - 1, o) <=> InHeld(E, u, k - 1, o)
  <2>1. Len(s) - 1 \in Nat /\ k - 1 \in 0..Len(s) - 1
    BY <1>0
  <2> QED  BY <1>0, <2>1, HeldBelow
<1>3. \A k \in 1..Len(s) : u[k].point = s[k].point
  BY <1>0, <1>1
<1>4. OpenAt(E, u)
  <2> SUFFICES ASSUME NEW o, NEW p, NEW b, NEW mk, Has(E, o, p, b, mk)
               PROVE  /\ o \in Objects
                      /\ \/ p = 0 /\ b = 0 /\ mk = "none"
                         \/ mk \in {"A", "D"} /\ \E k \in 1..Len(u) :
                              p = u[k].point /\ b \in 1..u[k].branch_num_counter
    BY DEF OpenAt
  <2>1. /\ o \in Objects
        /\ \/ p = 0 /\ b = 0 /\ mk = "none"
           \/ mk \in {"A", "D"} /\ \E k \in 1..Len(s) :
                              p = s[k].point /\ b \in 1..s[k].branch_num_counter
    BY DEF LevelsPlain, Levels, OpenAt
  <2>2. ASSUME NEW k \in 1..Len(s), b \in 1..s[k].branch_num_counter PROVE b \in 1..u[k].branch_num_counter
    <3>1. CASE k = Len(s)
      <4>1. s[k] \in Frame
        BY DEF StackShape
      <4>2. s[k].branch_num_counter \in Int
        BY <4>1 DEF Frame
      <4> QED  BY <1>0, <2>2, <3>1, <4>2
    <3>2. CASE k # Len(s)
      BY <1>1, <2>2, <3>2
    <3> QED  BY <3>1, <3>2
  <2> QED  BY <1>0, <1>3, <2>1, <2>2
<1>5. HeldAt(E, u)
  <2> SUFFICES ASSUME NEW o, NEW b, NEW k \in 1..Len(u), Has(E, o, u[k].point, b, "D")
               PROVE  InHeld(E, u, k - 1, o)
    BY DEF HeldAt
  <2>1. InHeld(E, s, k - 1, o)
    BY <1>0, <1>3 DEF LevelsPlain, Levels, HeldAt
  <2> QED  BY <1>0, <1>2, <2>1
<1>6. RestIsHeld(E, u)
  <2> SUFFICES ASSUME NEW k \in 1..Len(u), NEW o \in Objects, ~u[k].over
               PROVE  o \in u[k].rest <=> InHeld(E, u, k - 1, o)
    BY DEF RestIsHeld
  <2>1. o \in u[k].rest <=> InHeld(E, s, k - 1, o)
    <3>1. CASE k = Len(s)
      BY <1>0, <3>1 DEF RestNow
    <3>2. CASE k # Len(s)
      <4>1. u[k] = s[k] /\ k \in 1..Len(s)
        BY <1>0, <1>1, <3>2
      <4> QED  BY <4>1 DEF LevelsPlain, RestIsHeld
    <3> QED  BY <3>1, <3>2
  <2> QED  BY <1>0, <1>2, <2>1
<1>7. FoundIsAfter(E, u)
  <2> SUFFICES ASSUME NEW k \in 1..Len(u), NEW o \in Objects
               PROVE  o \in u[k].found <=> FoundAt(E, u, k, o)
    BY DEF FoundIsAfter
  <2>0. k \in 1..Len(s)
    BY <1>0
  <2>1. InHeld(E, s, k - 1, o) <=> InHeld(E, u, k - 1, o)
    BY <1>2, <2>0
  <2>2. \A b : InAfter(E, s, k, b, o) <=> InAfter(E, u, k, b, o)
    BY <1>3, <2>0, <2>1 DEF InAfter
  <2>3. CASE k = Len(s)
    <3>1. o \in f.found <=> FoundNow(E, s, k, f, o)
      BY <2>3
    <3>2. FoundNow(E, s, k, f, o) <=> FoundAt(E, u, k, o)
      BY <1>0, <2>1, <2>2, <2>3 DEF FoundNow, FoundAt
    <3> QED  BY <1>0, <2>3, <3>1, <3>2
  <2>4. CASE k # Len(s)
    <3>1. u[k] = s[k]
      BY <1>1, <2>0, <2>4
    <3>2. o \in s[k].found <=> FoundAt(E, s, k, o)
      BY <2>0 DEF LevelsPlain, FoundIsAfter
    <3>3. FoundAt(E, s, k, o) <=> FoundAt(E, u, k, o)
      BY <2>1, <2>2, <3>1 DEF FoundAt
    <3> QED  BY <3>1, <3>2, <3>3
  <2> QED  BY <2>3, <2>4
<1>8. \A k \in 1..Len(u) : FramePlain(u[k])
  BY <1>0, <1>1 DEF LevelsPlain
<1>9. OnceAt(E)
  BY DEF LevelsPlain, Levels
<1> QED  BY <1>2, <1>4, <1>5, <1>6, <1>7, <1>8, <1>9 DEF LevelsPlain, Levels

\* The top of the stack.
LEMMA TopPlain ==
  ASSUME ShapeInv, PlainInv, stack # <<>>
  PROVE  /\ Len(stack) \in 1..Len(stack) /\ Top = stack[Len(stack)] /\ Top \in Frame
         /\ FrameShape(Top) /\ FramePlain(Top) /\ LevelsPlain(edges, stack)
         /\ RestNow(edges, stack, Len(stack), Top)
         /\ \A o \in Objects : o \in Top.found <=> FoundNow(edges, stack, Len(stack), Top, o)
<1>1. Len(stack) \in 1..Len(stack) /\ Top = stack[Len(stack)] /\ Top \in Frame /\ FrameShape(Top)
  BY TopFacts DEF Top
<1>2. LevelsPlain(edges, stack)
  BY ToPlain
<1>3. FramePlain(Top)
  BY <1>1, <1>2 DEF LevelsPlain
<1>4. RestNow(edges, stack, Len(stack), Top)
  BY <1>1, <1>2 DEF RestNow, LevelsPlain, RestIsHeld
<1>5. \A o \in Objects : o \in Top.found <=> FoundNow(edges, stack, Len(stack), Top, o)
  BY <1>1, <1>2 DEF FoundNow, LevelsPlain, FoundIsAfter, FoundAt
<1> QED  BY <1>1, <1>2, <1>3, <1>4, <1>5

\* The frame f takes the place of Top, and what is possible is what was left.
TopPlainly(f) ==
  /\ TopBecomes(f) /\ FramePlain(f)
  /\ f.branch_num_counter >= Top.branch_num_counter
  /\ RestNow(edges, stack, Len(stack), f)
  /\ \A o \in Objects : o \in f.found <=> FoundNow(edges, stack, Len(stack), f, o)
  \* The arm, if one begins, begins with what was left.
  /\ f.arm # "none" =>
       /\ \A o \in Objects : o \in possible' <=> InHeld(edges, stack, Len(stack) - 1, o)
       /\ f.arm = "branch" => f.branch > Top.branch_num_counter

LEMMA RetopPlain ==
  ASSUME NEW f, ShapeInv, ShapeInv', PlainInv, stack # <<>>, TopPlainly(f),
         edges' = edges, raised' = raised
  PROVE  PlainInv'
<1> DEFINE s == stack
           u == stack'
           E == edges
           N == Len(stack)
<1>0. /\ StackShape(s, ifs) /\ StackShape(u, ifs) /\ Retopped(s, u, f) /\ f \in Frame
      /\ LevelsPlain(E, s) /\ f.point = s[N].point /\ FramePlain(f) /\ RestNow(E, s, N, f)
      /\ Top = s[N] /\ N \in 1..N /\ Top \in Frame
  BY TopPlain DEF ShapeInv, TopPlainly, TopBecomes
<1>1. /\ f.branch_num_counter \in Nat /\ f.branch_num_counter >= s[N].branch_num_counter
  BY <1>0 DEF TopPlainly, Frame
<1>2. \A o \in Objects : o \in f.found <=> FoundNow(E, s, N, f, o)
  BY DEF TopPlainly
<1>3. /\ LevelsPlain(E, u)
      /\ \A k \in 1..N : \A o : InHeld(E, s, k - 1, o) <=> InHeld(E, u, k - 1, o)
  BY <1>0, <1>1, <1>2, RetopKeeps
<1>4. N \in Nat \ {0} /\ Len(u) = N /\ u[N] = f
  BY <1>0, EmptySeq DEF Retopped, StackShape
<1>5. ASSUME InArm' PROVE HeldIs(E, u, possible')
  <2>1. f.arm # "none"
    <3>1. u # <<>>
      BY <1>0, <1>4, EmptySeq DEF StackShape
    <3> QED  BY <1>4, <1>5, <3>1 DEF InArm, Top
  <2> SUFFICES ASSUME NEW o \in Objects PROVE o \in possible' <=> InHeld(E, u, N, o)
    BY <1>4 DEF HeldIs
  <2>2. o \in possible' <=> InHeld(E, u, N - 1, o)
    BY <1>0, <1>3, <2>1 DEF TopPlainly
  <2>3. CASE f.arm = "branch"
    <3>1. InHeld(E, u, N, o) <=>
           \/ Has(E, o, u[N].point, u[N].branch, "A")
           \/ InHeld(E, u, N - 1, o) /\ ~Has(E, o, u[N].point, u[N].branch, "D")
      BY <1>4, <2>3, HeldAtBranch
    <3>2. ASSUME NEW mk, Has(E, o, u[N].point, u[N].branch, mk) PROVE FALSE
      <4>1. Has(E, o, s[N].point, f.branch, mk) /\ OpenAt(E, s)
        BY <1>0, <1>4, <3>2 DEF LevelsPlain, Levels
      <4>2. f.branch \in 1..s[N].branch_num_counter
        BY <1>0, <4>1, NoTagsAbove
      <4>3. f.branch > s[N].branch_num_counter
        BY <1>0, <2>3 DEF TopPlainly
      <4> QED  BY <1>0, <4>2, <4>3 DEF Frame
    <3> QED  BY <2>2, <3>1, <3>2
  <2>4. CASE f.arm # "branch"
    <3>1. N - 1 \in Nat /\ N \in Nat /\ N - 1 <= N /\ \A j \in ((N - 1) + 1)..N : u[j].arm # "branch"
      BY <1>4, <2>4
    <3> QED  BY <2>2, <3>1, HeldFlat
  <2> QED  BY <2>3, <2>4
<1>6. LevelsPlain(edges', stack') /\ ~raised'
  BY <1>3 DEF PlainInv
<1> QED  BY <1>5, <1>6, FromPlain

LEMMA NextElemPlain ==
  ASSUME ShapeInv, ShapeInv', PlainInv, NextElem, plain'
  PROVE  PlainInv'
<1>0. /\ stack # <<>> /\ Top.arm = "none" /\ ~Top.over /\ edges' = edges /\ raised' = raised
      /\ possible' = Top.rest
  BY DEF NextElem
<1>1. PICK f : /\ TopBecomes(f) /\ f.found = Top.found
               /\ \/ InParentNow(f, Top) /\ plain' = (plain /\ Top.else_is_deterministic)
                  \/ AsBranchNow(f, Top) /\ ~f.over /\ f.rest = Top.rest /\ plain' = plain
                  \/ PassedNow(f, Top) /\ plain' = plain
  BY NextElemTop
<1>2. /\ Top \in Frame /\ FrameShape(Top) /\ FramePlain(Top) /\ RestNow(edges, stack, Len(stack), Top)
      /\ \A o \in Objects : o \in Top.found <=> FoundNow(edges, stack, Len(stack), Top, o)
  BY <1>0, TopPlain
<1>3. f \in Frame /\ FrameShape(f)
  <2>1. Len(stack) \in 1..Len(stack)
    BY <1>0, TopPlain
  <2> QED  BY <1>1, <2>1 DEF TopBecomes, Retopped, StackShape
<1>4. /\ f.branch_num_counter \in Nat /\ Top.branch_num_counter \in Nat
      /\ f.branch = f.branch_num_counter
  BY <1>2, <1>3 DEF Frame, FrameShape
<1>5. \A o \in Objects : o \in possible' <=> InHeld(edges, stack, Len(stack) - 1, o)
  BY <1>0, <1>2 DEF RestNow
<1>6. TopPlainly(f)
  <2>1. CASE InParentNow(f, Top) /\ plain' = (plain /\ Top.else_is_deterministic)
    <3>1. Top.else_is_deterministic
      BY <2>1
    <3>2. Top.branch_num_counter = 0 /\ f.branch_num_counter = 0 /\ f.else_is_deterministic
      BY <1>2, <2>1, <3>1 DEF FramePlain, InParentNow
    <3>3. FramePlain(f)
      BY <2>1, <3>2 DEF FramePlain, InParentNow
    <3>4. \A o \in Objects : o \in f.found <=> FoundNow(edges, stack, Len(stack), f, o)
      BY <1>0, <1>1, <1>2, <2>1, <3>2 DEF FoundNow, InParentNow
    <3>5. RestNow(edges, stack, Len(stack), f)
      BY <2>1 DEF RestNow, InParentNow
    <3> QED  BY <1>1, <1>5, <2>1, <3>2, <3>3, <3>4, <3>5 DEF TopPlainly, InParentNow
  <2>2. CASE AsBranchNow(f, Top) /\ ~f.over /\ f.rest = Top.rest
    <3>1. f.branch_num_counter = Top.branch_num_counter + 1 /\ f.arm = "branch" /\ ~f.else_is_deterministic
      BY <2>2 DEF AsBranchNow
    <3>2. FramePlain(f)
      BY <1>4, <2>2, <3>1 DEF FramePlain
    <3>3. Finished(f) = Finished(Top) /\ f.branch_num_counter # 0
      BY <1>0, <1>4, <3>1 DEF Finished
    <3>4. \A o \in Objects : o \in f.found <=> FoundNow(edges, stack, Len(stack), f, o)
      <4> TAKE o \in Objects
      <4>1. o \in f.found <=> FoundNow(edges, stack, Len(stack), Top, o)
        BY <1>1, <1>2
      <4>2. CASE Top.branch_num_counter = 0
        <5>1. Finished(Top) = {}
          BY <1>0, <4>2 DEF Finished
        <5> QED  BY <1>0, <3>3, <4>1, <4>2, <5>1 DEF FoundNow
      <4>3. CASE Top.branch_num_counter # 0
        BY <3>3, <4>1, <4>3 DEF FoundNow
      <4> QED  BY <4>2, <4>3
    <3>5. RestNow(edges, stack, Len(stack), f)
      BY <1>0, <1>2, <2>2 DEF RestNow
    <3>6. f.branch_num_counter >= Top.branch_num_counter /\ f.branch > Top.branch_num_counter
      BY <1>4, <3>1
    <3> QED  BY <1>1, <1>5, <3>2, <3>4, <3>5, <3>6 DEF TopPlainly
  <2>3. CASE PassedNow(f, Top)
    <3>1. FramePlain(f)
      BY <1>1, <1>2, <2>3 DEF FramePlain, PassedNow, TopBecomes
    <3>2. Finished(f) = Finished(Top)
      BY <1>0, <2>3 DEF Finished, PassedNow
    <3>3. \A o \in Objects : o \in f.found <=> FoundNow(edges, stack, Len(stack), f, o)
      BY <1>0, <1>1, <1>2, <2>3, <3>2 DEF FoundNow, PassedNow
    <3>4. RestNow(edges, stack, Len(stack), f)
      BY <1>2, <2>3 DEF RestNow, PassedNow
    <3>5. f.branch_num_counter >= Top.branch_num_counter /\ f.arm = "none"
      BY <1>4, <2>3 DEF PassedNow
    <3> QED  BY <1>1, <3>1, <3>3, <3>4, <3>5 DEF TopPlainly
  <2> QED  BY <1>1, <2>1, <2>2, <2>3
<1> QED  BY <1>0, <1>6, RetopPlain

LEMMA ElsePlain ==
  ASSUME ShapeInv, ShapeInv', PlainInv, Else
  PROVE  PlainInv'
<1>0. /\ stack # <<>> /\ Top.arm = "none" /\ ~Top.over /\ Top.hasElse /\ edges' = edges /\ raised' = raised
      /\ possible' = Top.rest
  BY DEF Else
<1>1. PICK f : /\ TopBecomes(f) /\ f.found = Top.found
               /\ \/ InParentNow(f, Top) /\ Top.else_is_deterministic
                  \/ AsBranchNow(f, Top) /\ f.over /\ f.rest = {}
  BY ElseTop
<1>2. /\ Top \in Frame /\ FrameShape(Top) /\ FramePlain(Top) /\ RestNow(edges, stack, Len(stack), Top)
      /\ \A o \in Objects : o \in Top.found <=> FoundNow(edges, stack, Len(stack), Top, o)
  BY <1>0, TopPlain
<1>3. f \in Frame /\ FrameShape(f)
  <2>1. Len(stack) \in 1..Len(stack)
    BY <1>0, TopPlain
  <2> QED  BY <1>1, <2>1 DEF TopBecomes, Retopped, StackShape
<1>4. /\ f.branch_num_counter \in Nat /\ Top.branch_num_counter \in Nat
      /\ f.branch = f.branch_num_counter /\ f.hasElse
  BY <1>0, <1>1, <1>2, <1>3 DEF Frame, FrameShape, TopBecomes
<1>5. \A o \in Objects : o \in possible' <=> InHeld(edges, stack, Len(stack) - 1, o)
  BY <1>0, <1>2 DEF RestNow
<1>6. TopPlainly(f)
  <2>1. CASE InParentNow(f, Top) /\ Top.else_is_deterministic
    <3>2. Top.branch_num_counter = 0 /\ f.branch_num_counter = 0 /\ f.else_is_deterministic
      BY <1>2, <2>1 DEF FramePlain, InParentNow
    <3>3. FramePlain(f)
      BY <2>1, <3>2 DEF FramePlain, InParentNow
    <3>4. \A o \in Objects : o \in f.found <=> FoundNow(edges, stack, Len(stack), f, o)
      BY <1>0, <1>1, <1>2, <2>1, <3>2 DEF FoundNow, InParentNow
    <3>5. RestNow(edges, stack, Len(stack), f)
      BY <2>1 DEF RestNow, InParentNow
    <3> QED  BY <1>1, <1>5, <2>1, <3>2, <3>3, <3>4, <3>5 DEF TopPlainly, InParentNow
  <2>2. CASE AsBranchNow(f, Top) /\ f.over /\ f.rest = {}
    <3>1. f.branch_num_counter = Top.branch_num_counter + 1 /\ f.arm = "branch" /\ ~f.else_is_deterministic
      BY <2>2 DEF AsBranchNow
    <3>2. FramePlain(f)
      BY <1>4, <2>2, <3>1 DEF FramePlain
    <3>3. Finished(f) = Finished(Top) /\ f.branch_num_counter # 0
      BY <1>0, <1>4, <3>1 DEF Finished
    <3>4. \A o \in Objects : o \in f.found <=> FoundNow(edges, stack, Len(stack), f, o)
      <4> TAKE o \in Objects
      <4>1. o \in f.found <=> FoundNow(edges, stack, Len(stack), Top, o)
        BY <1>1, <1>2
      <4>2. CASE Top.branch_num_counter = 0
        <5>1. Finished(Top) = {}
          BY <1>0, <4>2 DEF Finished
        <5> QED  BY <1>0, <3>3, <4>1, <4>2, <5>1 DEF FoundNow
      <4>3. CASE Top.branch_num_counter # 0
        BY <3>3, <4>1, <4>3 DEF FoundNow
      <4> QED  BY <4>2, <4>3
    <3>5. RestNow(edges, stack, Len(stack), f)
      BY <2>2 DEF RestNow
    <3>6. f.branch_num_counter >= Top.branch_num_counter /\ f.branch > Top.branch_num_counter
      BY <1>4, <3>1
    <3> QED  BY <1>1, <1>5, <3>2, <3>4, <3>5, <3>6 DEF TopPlainly
  <2> QED  BY <1>1, <2>1, <2>2
<1> QED  BY <1>0, <1>6, RetopPlain

LEMMA EndArmPlain ==
  ASSUME ShapeInv, ShapeInv', PlainInv, EndArm
  PROVE  PlainInv'
<1>0. stack # <<>> /\ Top.arm # "none" /\ edges' = edges /\ raised' = raised /\ InArm
  BY DEF EndArm, InArm
<1>1. PICK f : TopBecomes(f) /\ PassedNow(f, Top) /\ f.found = Top.found \cup possible
  BY EndArmTop
<1>2. /\ Top \in Frame /\ FrameShape(Top) /\ FramePlain(Top) /\ RestNow(edges, stack, Len(stack), Top)
      /\ \A o \in Objects : o \in Top.found <=> FoundNow(edges, stack, Len(stack), Top, o)
      /\ Top = stack[Len(stack)] /\ Len(stack) \in 1..Len(stack)
  BY <1>0, TopPlain
<1>3. /\ f.arm = "none" /\ f.over = Top.over /\ f.rest = Top.rest /\ f.hasElse = Top.hasElse
      /\ f.branch_num_counter = Top.branch_num_counter
      /\ f.else_is_deterministic = Top.else_is_deterministic /\ Top.branch_num_counter \in Nat
      /\ Top.branch = Top.branch_num_counter
  BY <1>1, <1>2 DEF PassedNow, TopBecomes, Frame, FrameShape
<1>4. FramePlain(f)
  BY <1>2, <1>3 DEF FramePlain
<1>5. RestNow(edges, stack, Len(stack), f)
  BY <1>2, <1>3 DEF RestNow
<1>6. ASSUME NEW o \in Objects PROVE o \in f.found <=> FoundNow(edges, stack, Len(stack), f, o)
  <2> DEFINE N == Len(stack)
  <2>1. o \in f.found <=> FoundNow(edges, stack, N, Top, o) \/ InHeld(edges, stack, N, o)
    BY <1>0, <1>1, <1>2 DEF PlainInv, HeldIs
  <2>2. CASE Top.arm = "branch"
    <3>1. N \in Nat \ {0} /\ stack[N].arm = "branch"
      BY <1>2, <2>2
    <3>2. InHeld(edges, stack, N, o) <=> InAfter(edges, stack, N, Top.branch_num_counter, o)
      BY <1>2, <1>3, <3>1, HeldAtBranch DEF InAfter
    <3>3. Top.branch_num_counter >= 1
      BY <1>2, <1>3, <2>2 DEF FrameShape
    <3>4. \A b : b \in Finished(f) <=> b \in Finished(Top) \/ b = Top.branch_num_counter
      BY <1>3, <2>2, <3>3 DEF Finished
    <3> QED  BY <1>3, <2>1, <3>2, <3>3, <3>4 DEF FoundNow
  <2>3. CASE Top.arm = "parent"
    <3>1. Top.over /\ Top.branch_num_counter = 0
      BY <1>2, <2>3 DEF FramePlain
    <3>2. N - 1 \in Nat /\ N \in Nat /\ N - 1 <= N /\ \A j \in ((N - 1) + 1)..N : stack[j].arm # "branch"
      BY <1>2, <2>3
    <3>3. InHeld(edges, stack, N, o) <=> InHeld(edges, stack, N - 1, o)
      BY <3>2, HeldFlat
    <3> QED  BY <1>3, <2>1, <2>3, <3>1, <3>3 DEF FoundNow
  <2>4. Top.arm \in {"branch", "parent"}
    BY <1>0, <1>2 DEF Frame
  <2> QED  BY <2>2, <2>3, <2>4
<1>7. TopPlainly(f)
  BY <1>1, <1>3, <1>4, <1>5, <1>6 DEF TopPlainly
<1> QED  BY <1>0, <1>7, RetopPlain

\* What a merge works on, and what an if leaves behind as a whole.
LEMMA SetsOfMerge ==
  ASSUME ShapeInv, PlainInv, AtMerge
  PROVE  /\ MergeSets(edges, stack, Top.point, Created(edges, Top), DeletedByAll(edges, Top))
         /\ \A o \in Objects : o \in Top.found \cup Top.rest <=>
              \/ InHeld(edges, stack, Len(stack) - 1, o) /\ o \notin DeletedByAll(edges, Top)
              \/ o \in Created(edges, Top)
<1> DEFINE C == Created(edges, Top)
           G == DeletedByAll(edges, Top)
           N == Len(stack)
           n == NumOfBranches(Top)
           b0 == Top.branch_num_counter
           H(o) == InHeld(edges, stack, N - 1, o)
           p == Top.point
<1>0. stack # <<>> /\ Top.arm = "none" /\ (Top.over \/ ~Top.hasElse)
  BY DEF AtMerge
<1>1. /\ Top \in Frame /\ FrameShape(Top) /\ FramePlain(Top) /\ RestNow(edges, stack, N, Top)
      /\ \A o \in Objects : o \in Top.found <=> FoundNow(edges, stack, N, Top, o)
      /\ Top = stack[N] /\ N \in 1..N /\ LevelsPlain(edges, stack)
  BY <1>0, TopPlain
<1>2. \A o : o \in C <=> \E b : Has(edges, o, p, b, "A")
  BY CreatedHas DEF ShapeInv
<1>3. \A o : o \in G <=> o \in Objects /\ n > 0 /\ \A b \in 1..n : Has(edges, o, p, b, "D")
  BY DeletedHas
<1>4. b0 \in Nat /\ n = IF Top.hasElse THEN b0 ELSE b0 + 1
  BY <1>1 DEF Frame, NumOfBranches
<1>5. \A o, b, mk : Has(edges, o, p, b, mk) => b \in 1..b0
  <2> TAKE o, b, mk
  <2> SUFFICES ASSUME Has(edges, o, p, b, mk) PROVE b \in 1..b0
    OBVIOUS
  <2>1. StackShape(stack, ifs) /\ OpenAt(edges, stack) /\ Has(edges, o, stack[N].point, b, mk)
    BY <1>1 DEF ShapeInv, LevelsPlain, Levels
  <2>2. b \in 1..stack[N].branch_num_counter
    BY <1>1, <2>1, NoTagsAbove
  <2> QED  BY <1>1, <2>2
<1>6. Finished(Top) = 1..b0
  BY <1>0 DEF Finished
<1>7. /\ (Top.over /\ b0 > 0 => Top.hasElse) /\ (Top.over => Top.rest = {})
  BY <1>1 DEF FramePlain
<1>8. \A o \in Objects : ~Top.over => (o \in Top.rest <=> H(o))
  BY <1>1 DEF RestNow
<1>9. \A o \in Objects : o \in Top.found <=>
        IF b0 = 0 THEN Top.over /\ H(o)
        ELSE \E b \in 1..b0 : (H(o) /\ ~Has(edges, o, p, b, "D")) \/ Has(edges, o, p, b, "A")
  BY <1>0, <1>1, <1>6 DEF FoundNow, InAfter
<1> HIDE DEF C, G, N, n, b0, H, p
<1>10. MergeSets(edges, stack, p, C, G)
  <2>1. ASSUME NEW o \in G PROVE o \in Objects /\ \E b : Has(edges, o, p, b, "D")
    <3>1. 1 \in 1..n /\ o \in Objects
      BY <1>3, <1>4
    <3> QED  BY <1>3, <3>1
  <2> QED  BY <1>2, <2>1 DEF MergeSets
<1>11. ASSUME NEW o \in Objects
       PROVE  o \in Top.found \cup Top.rest <=> (H(o) /\ o \notin G) \/ o \in C
  <2>1. CASE b0 = 0
    <3>1. o \notin C
      BY <1>2, <1>5, <2>1
    <3>2. o \notin G
      <4>1. n > 0 => 1 \in 1..n
        BY <1>4
      <4> QED  BY <1>3, <1>5, <2>1, <4>1
    <3>3. o \in Top.found <=> Top.over /\ H(o)
      BY <1>9, <2>1
    <3> QED  BY <1>7, <1>8, <3>1, <3>2, <3>3
  <2>2. CASE b0 # 0
    <3>1. o \in Top.found <=> \E b \in 1..b0 : (H(o) /\ ~Has(edges, o, p, b, "D")) \/ Has(edges, o, p, b, "A")
      BY <1>9, <2>2
    <3>2. o \in C <=> \E b \in 1..b0 : Has(edges, o, p, b, "A")
      BY <1>2, <1>5
    <3>3. CASE Top.over
      <4>1. n = b0 /\ n > 0 /\ Top.rest = {}
        BY <1>4, <1>7, <2>2, <3>3
      <4>2. o \in G <=> \A b \in 1..b0 : Has(edges, o, p, b, "D")
        BY <1>3, <4>1
      <4>3. 1 \in 1..b0
        BY <1>4, <4>1
      <4> QED  BY <3>1, <3>2, <4>1, <4>2, <4>3
    <3>4. CASE ~Top.over
      <4>1. n = b0 + 1 /\ b0 + 1 \in 1..n /\ b0 + 1 \notin 1..b0
        BY <1>0, <1>4, <3>4
      <4>2. o \notin G
        BY <1>3, <1>5, <4>1
      <4> QED  BY <1>8, <3>1, <3>2, <3>4, <4>2
    <3> QED  BY <3>3, <3>4
  <2> QED  BY <2>1, <2>2
<1> QED  BY <1>10, <1>11 DEF C, G, N, H, p

LEMMA EndIfPlain ==
  ASSUME ShapeInv, ShapeInv', PlainInv, EndIf
  PROVE  PlainInv'
<1> DEFINE s == stack
           u == stack'
           E == edges
           M == edges'
           t == Branches(Outer)
           C == Created(edges, Top)
           G == DeletedByAll(edges, Top)
<1>0. /\ stack # <<>> /\ AtMerge /\ u = Outer /\ M = Merged(E, Top, t) /\ raised' = raised /\ ~raised
      /\ possible' = Top.found \cup Top.rest
  BY DEF EndIf, AtMerge, PlainInv
<1>1. /\ LevelsPlain(E, s) /\ Top = s[Len(s)] /\ StackShape(s, ifs) /\ E \subseteq Edges
  BY <1>0, TopPlain DEF ShapeInv
<1>2. PoppedTo(s, u) /\ StackShape(u, ifs) /\ \A k \in 1..Len(u) : u[k].arm # "none"
  BY EndIfTop
<1>3. /\ Len(s) \in Nat \ {0} /\ Len(u) = Len(s) - 1 /\ u \in Seq(Frame) /\ s \in Seq(Frame)
      /\ Below(s, u, Len(u))
  BY <1>0, <1>1, <1>2, EmptySeq DEF PoppedTo, StackShape
<1>4. \A k \in 1..Len(u) : k \in 1..Len(s) /\ u[k] = s[k] /\ k # Len(s)
  BY <1>3 DEF Below
<1>5. \A k \in 1..Len(u) : FramePlain(u[k]) /\ u[k].arm # "none"
  BY <1>1, <1>2, <1>4 DEF LevelsPlain
<1>6. PICK m : LastIs(u, t, m)
  BY <1>0, <1>3, LastBranch
<1>7. FlatAbove(u, m) /\ \A k \in (m + 1)..Len(u) : u[k].arm = "parent"
  BY <1>3, <1>5, <1>6, ParentsAbove DEF LastIs
<1>8. /\ MergeSets(E, s, s[Len(s)].point, C, G)
      /\ \A o \in Objects : o \in possible' <=> (InHeld(E, s, Len(s) - 1, o) /\ o \notin G) \/ o \in C
  BY <1>0, <1>1, SetsOfMerge
<1>9. LeavesMerged(E, M, s, u, m, C, G)
  <2>1. CASE m = 0
    <3>1. t = <<>> /\ Deepest(u, 0) /\ FlatAbove(u, 0)
      BY <1>6, <1>7, <2>1 DEF LastIs
    <3>2. \A o, r, c, mk : Has(M, o, r, c, mk) <=>
           /\ (Has(E, o, r, c, mk) /\ r # s[Len(s)].point) \/ (o \in C /\ r = 0 /\ c = 0 /\ mk = "none")
           /\ ~(o \in G /\ r = 0 /\ c = 0 /\ mk = "none")
      BY <1>0, <1>1, <3>1, MergedAtRoot
    <3>3. Levels(E, s)
      BY <1>1 DEF LevelsPlain
    <3> HIDE DEF s, u, E, M, t, C, G
    <3>4. stack = s
      BY DEF s
    <3> QED  BY <1>0, <1>1, <1>2, <1>8, <2>1, <3>1, <3>2, <3>3, <3>4, MergeRootLevels
  <2>2. CASE m # 0
    <3>1. /\ t # <<>> /\ Deepest(u, m) /\ m \in 1..Len(u)
          /\ t[Len(t)].point = u[m].point /\ t[Len(t)].branch = u[m].branch
      BY <1>3, <1>6, <2>2 DEF LastIs, Deepest
    <3>2. u[m].point # Top.point
      <4>1. m \in 1..Len(s) /\ m # Len(s) /\ u[m] = s[m]
        <5> HIDE DEF s, u
        <5> QED  BY <1>4, <3>1, Zenon
      <4>2. Len(s) \in 1..Len(s)
        <5> HIDE DEF s, u
        <5> QED  BY <1>3
      <4> QED  BY <1>1, <4>1, <4>2, PointsDiffer
    <3>3. MergedIn(E, M, u[m].point, u[m].branch, s[Len(s)].point, C, G)
      BY <1>0, <1>1, <3>1, <3>2, MergedInBranch
    <3>4. Levels(E, s)
      BY <1>1 DEF LevelsPlain
    <3> HIDE DEF s, u, E, M, t, C, G
    <3>5. stack = s
      BY DEF s
    <3> QED  BY <1>0, <1>1, <1>2, <1>7, <1>8, <2>2, <3>1, <3>3, <3>4, <3>5, MergeLevels
  <2> QED  BY <2>1, <2>2
<1>10. RestIsHeld(M, u) /\ FoundIsAfter(M, u)
  <2>1. m \in Nat /\ m <= Len(u) /\ Len(u) <= Len(s)
    BY <1>3, <1>6 DEF LastIs, Deepest
  <2>2. m # 0 => s[m].arm = "branch" /\ FrameShape(s[m])
    <3> SUFFICES ASSUME m # 0 PROVE s[m].arm = "branch" /\ FrameShape(s[m])
      OBVIOUS
    <3>1. m \in 1..Len(u) /\ u[m].arm = "branch"
      BY <1>3, <1>6, <2>1 DEF LastIs, Deepest
    <3> QED  BY <1>1, <1>4, <3>1 DEF StackShape
  <2>3. \A k \in (m + 1)..Len(u) : s[k].arm = "parent" /\ FramePlain(s[k])
    <3> TAKE k \in (m + 1)..Len(u)
    <3>1. k \in 1..Len(u)
      BY <1>3, <2>1
    <3> QED  BY <1>4, <1>5, <1>7, <3>1
  <2>4. AgreeBelow(E, M, s, m) /\ RestIsHeld(E, s) /\ FoundIsAfter(E, s)
    BY <1>1, <1>9 DEF LeavesMerged, LevelsPlain
  <2> HIDE DEF s, u, E, M, t, C, G
  <2> QED  BY <1>3, <2>1, <2>2, <2>3, <2>4, HistoryKept
<1>11. LevelsPlain(edges', stack')
  BY <1>5, <1>9, <1>10 DEF LevelsPlain, LeavesMerged
<1>12. HeldIs(edges', stack', possible')
  BY <1>8, <1>9 DEF HeldIs, LeavesMerged
<1>13. ~raised'
  BY <1>0
<1> QED  BY <1>11, <1>12, <1>13, FromPlain

\* A deletion of an if under way has something to cancel below the if.
LEMMA DeletedHasEdge ==
  ASSUME NEW k \in 1..Len(stack), NEW o, NEW b, ShapeInv, PlainInv,
         Has(edges, o, stack[k].point, b, "D")
  PROVE  \E d \in edges : d.obj = o /\ d.tag.mark # "D" /\ d.tag.point < stack[k].point
<1>1. LevelsPlain(edges, stack) /\ StackShape(stack, ifs) /\ Len(stack) \in Nat
  BY ToPlain DEF ShapeInv, StackShape
<1>2. InHeld(edges, stack, k - 1, o)
  BY <1>1 DEF LevelsPlain, Levels, HeldAt
<1>3. k - 1 \in Nat /\ \A i \in 1..(k - 1) : i \in 1..Len(stack) /\ i < k
  BY <1>1
<1>4. \/ Has(edges, o, 0, 0, "none")
      \/ \E i \in 1..(k - 1) : Has(edges, o, stack[i].point, stack[i].branch, "A")
  BY <1>2, <1>3, HeldHasEdge
<1>5. CASE Has(edges, o, 0, 0, "none")
  <2>1. \E d \in edges : d.obj = o /\ d.tag.point = 0 /\ d.tag.branch = 0 /\ d.tag.mark = "none"
    BY <1>5, HasUnits
  <2>2. 0 < stack[k].point
    <3>1. stack[k] \in Frame
      BY <1>1 DEF StackShape
    <3> QED  BY <3>1 DEF Frame
  <2> QED  BY <2>1, <2>2
<1>6. ASSUME NEW i \in 1..(k - 1), Has(edges, o, stack[i].point, stack[i].branch, "A")
      PROVE  \E d \in edges : d.obj = o /\ d.tag.mark # "D" /\ d.tag.point < stack[k].point
  <2>1. \E d \in edges : /\ d.obj = o /\ d.tag.point = stack[i].point
                         /\ d.tag.branch = stack[i].branch /\ d.tag.mark = "A"
    BY <1>6, HasUnits
  <2>2. stack[i].point < stack[k].point
    BY <1>1, <1>3 DEF StackShape
  <2> QED  BY <2>1, <2>2
<1> QED  BY <1>4, <1>5, <1>6

LEMMA NeverMissing ==
  ASSUME ShapeInv, PlainInv, AtMerge
  PROVE  ~Missing(edges, Top)
<1> SUFFICES ASSUME Missing(edges, Top) PROVE FALSE
  OBVIOUS
<1>1. PICK o \in DeletedByAll(edges, Top) : \A e \in edges : e.obj = o => e.tag.point = Top.point
  BY DEF Missing
<1>2. Len(stack) \in 1..Len(stack) /\ Top = stack[Len(stack)] /\ Top \in Frame
  BY TopPlain DEF AtMerge
<1>3. MergeSets(edges, stack, Top.point, Created(edges, Top), DeletedByAll(edges, Top))
  BY SetsOfMerge
<1>4. PICK b : Has(edges, o, stack[Len(stack)].point, b, "D")
  BY <1>2, <1>3 DEF MergeSets
<1>5. PICK d \in edges : d.obj = o /\ d.tag.point < stack[Len(stack)].point
  BY <1>2, <1>4, DeletedHasEdge
<1>6. d.tag.point = Top.point
  BY <1>1, <1>5
<1> QED  BY <1>2, <1>5, <1>6 DEF Frame

LEMMA MergeInit == Init => MergeInv
BY ShapeInit, PlainInit DEF MergeInv

LEMMA MergeStep == MergeInv /\ [Next]_mergeVars => MergeInv'
<1> SUFFICES ASSUME MergeInv, [Next]_mergeVars PROVE MergeInv'
  OBVIOUS
<1>1. ShapeInv /\ ShapeInv'
  BY ShapeStep DEF MergeInv
<1> SUFFICES ASSUME plain' PROVE PlainInv'
  BY <1>1 DEF MergeInv
<1>2. plain
  <2>1. CASE NextElem
    BY <1>1, <2>1, NextElemTop
  <2>2. CASE Assign
    BY <2>2 DEF Assign
  <2>3. CASE ~NextElem /\ ~Assign
    BY <2>3 DEF Next, BeginIf, Else, EndArm, EndIf, MergeRaises, mergeVars
  <2> QED  BY <2>1, <2>2, <2>3
<1>3. PlainInv
  BY <1>2 DEF MergeInv
<1>4. CASE Assign
  BY <1>1, <1>3, <1>4, AssignPlain
<1>5. CASE BeginIf
  BY <1>1, <1>3, <1>5, BeginIfPlain
<1>6. CASE NextElem
  BY <1>1, <1>3, <1>6, NextElemPlain
<1>7. CASE Else
  BY <1>1, <1>3, <1>7, ElsePlain
<1>8. CASE EndArm
  BY <1>1, <1>3, <1>8, EndArmPlain
<1>9. CASE EndIf
  BY <1>1, <1>3, <1>9, EndIfPlain
<1>10. CASE MergeRaises
  BY <1>1, <1>3, <1>10, NeverMissing DEF MergeRaises
<1>11. CASE UNCHANGED mergeVars
  <2>1. /\ edges' = edges /\ stack' = stack /\ raised' = raised /\ possible' = possible
    BY <1>11 DEF mergeVars
  <2>2. LevelsPlain(edges', stack') /\ ~raised'
    BY <1>1, <1>3, <2>1, ToPlain DEF PlainInv
  <2>3. InArm' => HeldIs(edges', stack', possible')
    BY <1>3, <2>1 DEF PlainInv, InArm, Top
  <2> QED  BY <1>1, <2>2, <2>3, FromPlain
<1> QED  BY <1>4, <1>5, <1>6, <1>7, <1>8, <1>9, <1>10, <1>11 DEF Next

\* The edges of a variable, the tags of its open ifs and the objects the arms
\* on the way may have left in it tell the same story, from any first value on.
THEOREM MergeInvariant == Spec => []MergeInv
BY MergeInit, MergeStep, PTL DEF Spec

\* A lookup finds exactly the objects that the arms on the way there may have
\* left in the variable (LookupIsExact), however deep the ifs are nested and
\* however many conditions and objects there are, in programs without the two
\* cases in which the code is known to lose objects.
THEOREM LookupsAreExact == Spec => []LookupIsExact
<1>1. MergeInv => LookupIsExact
  <2> SUFFICES ASSUME MergeInv, plain, InArm PROVE Visible(edges, Branches(stack)) = possible
    BY DEF LookupIsExact
  <2>1. /\ ShapeInv /\ PlainInv /\ LevelsPlain(edges, stack) /\ stack \in Seq(Frame)
        /\ StackShape(stack, ifs) /\ possible \subseteq Objects /\ edges \subseteq Edges
    BY ToPlain DEF MergeInv, ShapeInv, StackShape
  <2>2. \A o \in Objects : o \in possible <=> InHeld(edges, stack, Len(stack), o)
    BY <2>1 DEF PlainInv, HeldIs
  <2>3. CASE Branches(stack) # <<>>
    <3>1. Visible(edges, Branches(stack)) = {o \in Objects : InHeld(edges, stack, Len(stack), o)}
      BY <2>1, <2>3, VisibleIsHeld
    <3> QED  BY <2>1, <2>2, <3>1
  <2>4. CASE Branches(stack) = <<>>
    <3>1. PICK m : LastIs(stack, Branches(stack), m)
      BY <2>1, LastBranch
    <3>2. Deepest(stack, 0)
      BY <2>4, <3>1 DEF LastIs
    <3>3. \A k \in 1..Len(stack) : FramePlain(stack[k]) /\ stack[k].arm # "none"
      <4> TAKE k \in 1..Len(stack)
      <4>1. stack # <<>> /\ Len(stack) \in Nat
        BY <2>1, EmptySeq
      <4>2. CASE k < Len(stack)
        BY <2>1, <4>2 DEF LevelsPlain, StackShape
      <4>3. CASE k = Len(stack)
        BY <2>1, <4>1, <4>3 DEF LevelsPlain, InArm, Top
      <4> QED  BY <4>1, <4>2, <4>3
    <3>4. FlatAbove(stack, 0)
      BY <2>1, <3>2, <3>3, ParentsAbove
    <3>5. \A o : InHeld(edges, stack, Len(stack), o) <=> Has(edges, o, 0, 0, "none")
      <4> TAKE o
      <4>1. /\ Len(stack) \in Nat /\ 0 \in Nat /\ 0 <= Len(stack)
            /\ \A j \in (0 + 1)..Len(stack) : stack[j].arm # "branch"
        BY <2>1, <3>2 DEF Deepest
      <4> QED  BY <4>1, HeldFlat, HeldAtRoot
    <3>6. \A o, p, b, mk : Has(edges, o, p, b, mk) => o \in Objects /\ p = 0 /\ b = 0 /\ mk = "none"
      <4> TAKE o, p, b, mk
      <4> SUFFICES ASSUME Has(edges, o, p, b, mk) PROVE o \in Objects /\ p = 0 /\ b = 0 /\ mk = "none"
        OBVIOUS
      <4>1. OpenAt(edges, stack)
        BY <2>1 DEF LevelsPlain, Levels
      <4>2. ASSUME NEW k \in 1..Len(stack), b \in 1..stack[k].branch_num_counter PROVE FALSE
        <5>1. k \in (0 + 1)..Len(stack)
          OBVIOUS
        <5>2. stack[k].branch_num_counter = 0
          BY <3>4, <5>1 DEF FlatAbove
        <5> QED  BY <4>2, <5>2
      <4> QED  BY <4>1, <4>2 DEF OpenAt
    <3>7. Visible(edges, <<>>) = {e.obj : e \in edges}
      BY DEF Visible
    <3>8. \A o : o \in {e.obj : e \in edges} <=> Has(edges, o, 0, 0, "none")
      <4> TAKE o
      <4>1. ASSUME NEW e \in edges, o = e.obj PROVE Has(edges, o, 0, 0, "none")
        <5>1. Has(edges, o, e.tag.point, e.tag.branch, e.tag.mark)
          BY <2>1, <4>1, EdgeUnits
        <5>2. e.tag.point = 0 /\ e.tag.branch = 0 /\ e.tag.mark = "none"
          BY <3>6, <5>1
        <5> QED  BY <5>1, <5>2
      <4>2. ASSUME Has(edges, o, 0, 0, "none") PROVE \E e \in edges : e.obj = o
        BY <4>2, HasUnits
      <4> QED  BY <4>1, <4>2
    <3> QED  BY <2>1, <2>2, <2>4, <3>5, <3>6, <3>7, <3>8
  <2> QED  BY <2>3, <2>4
<1> QED  BY <1>1, MergeInvariant, PTL

\* A deletion cancels an edge of a branch around, or one without a tag, and
\* merge never looks for an object without an edge (DeletionsCancel).
THEOREM DeletionsAlwaysCancel == Spec => []DeletionsCancel
<1>1. MergeInv => DeletionsCancel
  <2> SUFFICES ASSUME MergeInv, plain
               PROVE  ~raised /\ \A e \in edges : e.tag.mark = "D" =>
                        \E d \in edges : d.obj = e.obj /\ d.tag.mark # "D" /\ d.tag.point < e.tag.point
    BY DEF DeletionsCancel
  <2>1. ShapeInv /\ PlainInv /\ edges \subseteq Edges
    BY DEF MergeInv, ShapeInv
  <2>2. ASSUME NEW e \in edges, e.tag.mark = "D"
        PROVE  \E d \in edges : d.obj = e.obj /\ d.tag.mark # "D" /\ d.tag.point < e.tag.point
    <3>1. Has(edges, e.obj, e.tag.point, e.tag.branch, "D") /\ e.tag # NoTag
      BY <2>1, <2>2, EdgeUnits
    <3>2. PICK k \in 1..Len(stack) : e.tag.point = stack[k].point
      BY <2>1, <3>1 DEF PlainInv, TagsAreOpen
    <3> QED  BY <2>1, <3>1, <3>2, DeletedHasEdge
  <2> QED  BY <2>1, <2>2 DEF PlainInv
<1> QED  BY <1>1, MergeInvariant, PTL

-----------------------------------------------------------------------------
(* The verdict on a condition.                                              *)

\* The objects and the literals an operand has are finite sets of known kinds.
LEMMA FewAreFinite ==
    /\ \A S \in Few(Object) : IsFiniteSet(S) /\ S \subseteq Object
    /\ \A S \in Few(Literal) : IsFiniteSet(S) /\ S \subseteq Literal
<1>1. IsFiniteSet(Object)
  <2>1. Object = (((((((((((({"undefined"} \cup {"null"}) \cup {"false"}) \cup {"true"}) \cup {"NaN"})
          \cup {"0"}) \cup {"1"}) \cup {"1.0000001"}) \cup {"''"}) \cup {"'1'"}) \cup {"'1.0'"})
          \cup {"object"}) \cup {"function"}) \cup {"wildcard"}
    BY DEF Object
  <2> QED
    BY <2>1, FS_Singleton, FS_Union
<1>2. IsFiniteSet(Literal)
  <2>1. Literal = (({"0"} \cup {"''"}) \cup {"1"}) \cup {"wildcard"}
    BY DEF Literal
  <2> QED
    BY <2>1, FS_Singleton, FS_Union
<1> QED
  BY <1>1, <1>2, FS_Subset DEF Few

\* The pairs of values of a comparison are finitely many.
LEMMA PairsAreFinite ==
    ASSUME NEW c \in Comparison
    PROVE  IsFiniteSet(Pairs(c))
<1>1. IsFiniteSet(c.left) /\ IsFiniteSet(c.right)
  BY FewAreFinite DEF Comparison
<1>2. IsFiniteSet(ToValues(c.left)) /\ IsFiniteSet(ToValues(c.right))
  <2>1. ASSUME NEW S, IsFiniteSet(S) PROVE IsFiniteSet(ToValues(S))
    <3> DEFINE f == [o \in S |-> ToValue(o)]
    <3>1. f \in Surjection(S, ToValues(S))
      BY DEF Surjection, ToValues
    <3> QED
      BY <2>1, <3>1, FS_Surjection
  <2> QED
    BY <1>1, <2>1
<1> QED
  BY <1>2, FS_Product DEF Pairs

\* A comparison that is no guess: as many tenths as ten times its true pairs.
LEMMA ComparisonCount ==
    ASSUME NEW c \in Comparison, Deterministic(c)
    PROVE  LET T == {p \in Pairs(c) : Agree(c.op, p[1], p[2])}
           IN  /\ TotalNum(c) \in Nat \ {0} /\ Cardinality(T) \in Nat
               /\ TrueNum(c) = 10 * Cardinality(T)
               /\ Cardinality(T) <= TotalNum(c)
               /\ Cardinality(T) = TotalNum(c) => T = Pairs(c)
               /\ Cardinality(T) = 0 => T = {}
               /\ Pairs(c) # {}
<1> DEFINE T == {p \in Pairs(c) : Agree(c.op, p[1], p[2])}
<1>1. c.op # "truth"
  BY DEF Comparison, Equality, Relational
<1>2. IsFiniteSet(Pairs(c)) /\ Cardinality(Pairs(c)) = TotalNum(c)
  BY <1>1, PairsAreFinite DEF TotalNum
<1>3. /\ IsFiniteSet(T) /\ Cardinality(T) <= TotalNum(c)
      /\ Cardinality(T) = TotalNum(c) => T = Pairs(c)
  <2>1. T \in SUBSET Pairs(c)
    OBVIOUS
  <2> HIDE DEF T
  <2> QED
    BY <1>2, <2>1, FS_Subset
<1>4. Cardinality(T) \in Nat /\ (Cardinality(T) = 0 => T = {}) /\ TotalNum(c) \in Nat \ {0}
  BY <1>2, <1>3, FS_CardinalityType, FS_EmptySet DEF Deterministic
<1>5. {p \in Pairs(c) : Guess(c.op, p[1], p[2])} = {}
  BY <1>1 DEF Deterministic
<1>6. TrueNum(c) = 10 * Cardinality(T)
  <2> HIDE DEF T
  <2>1. TrueNum(c) = 5 * Cardinality({p \in Pairs(c) : Guess(c.op, p[1], p[2])}) + 10 * Cardinality(T)
    BY <1>1 DEF TrueNum, T
  <2>2. Cardinality({p \in Pairs(c) : Guess(c.op, p[1], p[2])}) = 0
    BY <1>5, FS_EmptySet
  <2> QED
    BY <1>4, <2>1, <2>2
<1>7. Pairs(c) # {}
  BY <1>2, <1>4, FS_EmptySet
<1> QED
  BY <1>3, <1>4, <1>6, <1>7

\* What must hold for run_if_elem to be sure of a condition or to pass over it.
LEMMA VerdictFacts ==
    ASSUME NEW c
    PROVE  /\ Verdict(c) = "sure" => Deterministic(c) /\ TrueNum(c) = 10 * TotalNum(c)
           /\ Verdict(c) = "passed" => /\ Deterministic(c) /\ TrueNum(c) # 10 * TotalNum(c)
                                       /\ ~(0 < TrueNum(c) /\ TrueNum(c) < 10 * TotalNum(c))
BY DEF Verdict

\* == of two objects that are known, where texts do not mislead.
LEMMA LooseByText ==
    ASSUME NEW v \in Object \ {"wildcard"}, NEW w \in Object \ {"wildcard"},
           (v # "undefined") = (w # "undefined"),
           ~(v = "NaN" /\ w = "NaN"),
           ~(v # w /\ ReadAlike(v, w) # SameNumber(v, w)),
           ~((v \in Compound) # (w \in Compound) /\ {v, w} \cap (Nullish \cup {"NaN"}) = {})
    PROVE  Loose(v, w) = {ToValue(v) = ToValue(w)}
<1>1. CASE v = w
  <2>1. v = "undefined" \/ v = "null" => {v, w} \subseteq Nullish
    BY <1>1 DEF Nullish
  <2> QED
    BY <1>1, <2>1 DEF Loose, Nullish
<1>2. CASE v # w /\ (v \in Nullish \/ w \in Nullish)
  <2>1. ~({v, w} \subseteq Nullish)
    BY <1>2 DEF Nullish
  <2>2. ToValue(v) # ToValue(w)
    BY <1>2 DEF ToValue, Nullish
  <2> QED
    BY <1>2, <2>1, <2>2 DEF Loose
<1>3. CASE v # w /\ v \notin Nullish /\ w \notin Nullish /\ (v = "NaN" \/ w = "NaN")
  <2>1. ToValue(v) # ToValue(w)
    BY <1>3 DEF ToValue
  <2> QED
    BY <1>3, <2>1 DEF Loose
<1>4. CASE v # w /\ v \notin Nullish /\ w \notin Nullish /\ v # "NaN" /\ w # "NaN"
  <2>1. (v \in Compound) = (w \in Compound)
    BY <1>4 DEF Nullish
  <2>2. Loose(v, w) = {SameNumber(v, w)}
    BY <1>4, <2>1 DEF Loose
  <2>3. ReadAlike(v, w) = (ToValue(v) = ToValue(w))
    BY <1>4 DEF ReadAlike
  <2>4. ReadAlike(v, w) = SameNumber(v, w)
    BY <1>4
  <2> QED
    BY <2>2, <2>3, <2>4
<1> QED
  BY <1>1, <1>2, <1>3, <1>4

\* A comparison of two objects that is neither a guess nor misjudged: the texts
\* give the answer of the program, and nothing in it is unknown.
LEMMA TextsDecide ==
    ASSUME NEW op \in Equality \cup Relational, NEW v \in Object, NEW w \in Object,
           ~Guess(op, ToValue(v), ToValue(w)), ~Misjudged(op, v, w)
    PROVE  /\ Concrete(v) = {v} /\ Concrete(w) = {w}
           /\ Answers(op, v, w) = {Agree(op, ToValue(v), ToValue(w))}
<1>1. v # "wildcard" /\ w # "wildcard"
  BY DEF Guess, ToValue
<1>2. Concrete(v) = {v} /\ Concrete(w) = {w}
  BY <1>1 DEF Concrete
<1>3. (ToValue(v) # "undefined") = (v # "undefined") /\ (ToValue(w) # "undefined") = (w # "undefined")
  BY DEF ToValue
<1>4. CASE op \in Relational
  <2>1. v = "undefined" /\ w = "undefined"
    BY <1>3, <1>4 DEF Guess
  <2>2. op \notin {"<=", ">="}
    BY <2>1 DEF Misjudged
  <2>3. op \notin {"===", "!==", "==", "!="}
    BY <1>4 DEF Relational
  <2>4. Agree(op, ToValue(v), ToValue(w)) = FALSE
    BY <2>2, <2>3 DEF Agree
  <2>5. Answers(op, v, w) = {FALSE}
    BY <1>4, <2>1, <2>3 DEF Answers
  <2> QED
    BY <1>2, <2>4, <2>5
<1>5. CASE op \in {"===", "!=="}
  <2>1. (ToValue(v) = ToValue(w)) = (v = w)
    BY <1>5 DEF Misjudged, ReadAlike
  <2>2. ~(v = w /\ v = "NaN")
    BY <1>5 DEF Misjudged, Equality
  <2>3. CASE op = "==="
    <3>1. Answers(op, v, w) = {v = w /\ v # "NaN"}
      BY <2>3 DEF Answers, Relational
    <3>2. Agree(op, ToValue(v), ToValue(w)) = (ToValue(v) = ToValue(w))
      BY <2>3 DEF Agree
    <3> QED
      BY <1>2, <2>1, <2>2, <3>1, <3>2
  <2>4. CASE op = "!=="
    <3>1. Answers(op, v, w) = {~(v = w /\ v # "NaN")}
      BY <2>4 DEF Answers, Relational
    <3>2. Agree(op, ToValue(v), ToValue(w)) = (ToValue(v) # ToValue(w))
      BY <2>4 DEF Agree
    <3> QED
      BY <1>2, <2>1, <2>2, <3>1, <3>2
  <2> QED
    BY <1>5, <2>3, <2>4
<1>6. CASE op \in {"==", "!="}
  <2>1. (v # "undefined") = (w # "undefined")
    BY <1>3, <1>6 DEF Guess, Equality
  <2>2. /\ ~(v = "NaN" /\ w = "NaN")
        /\ ~(v # w /\ ReadAlike(v, w) # SameNumber(v, w))
        /\ ~((v \in Compound) # (w \in Compound) /\ {v, w} \cap (Nullish \cup {"NaN"}) = {})
    BY <1>6 DEF Misjudged, Equality
  <2>3. Loose(v, w) = {ToValue(v) = ToValue(w)}
    BY <1>1, <2>1, <2>2, LooseByText
  <2>4. CASE op = "=="
    <3>1. Answers(op, v, w) = Loose(v, w)
      BY <2>4 DEF Answers, Relational
    <3>2. Agree(op, ToValue(v), ToValue(w)) = (ToValue(v) = ToValue(w))
      BY <2>4 DEF Agree
    <3> QED
      BY <1>2, <2>3, <3>1, <3>2
  <2>5. CASE op = "!="
    <3>1. Answers(op, v, w) = {~z : z \in Loose(v, w)}
      BY <2>5 DEF Answers, Relational
    <3>2. Agree(op, ToValue(v), ToValue(w)) = (ToValue(v) # ToValue(w))
      BY <2>5 DEF Agree
    <3>3. \A z : {~y : y \in {z}} = {~z}
      OBVIOUS
    <3> QED
      BY <1>2, <2>3, <3>1, <3>2, <3>3
  <2> QED
    BY <1>6, <2>4, <2>5
<1> QED
  BY <1>4, <1>5, <1>6 DEF Equality

\* The verdict on every comparison agrees with what the program may do, unless
\* the texts mislead.
LEMMA ComparisonsAreRight ==
    ASSUME NEW c \in Comparison, ~Miscounted(c)
    PROVE  VerdictIsRight(c)
<1> DEFINE T == {p \in Pairs(c) : Agree(c.op, p[1], p[2])}
<1>1. /\ c.op # "truth" /\ c.op \in Equality \cup Relational
      /\ c.left \subseteq Object /\ c.right \subseteq Object
  BY FewAreFinite DEF Comparison, Equality, Relational
<1>2. Outcomes(c) = UNION {Answers(c.op, v, w) : v \in Possible(c.left), w \in Possible(c.right)}
  BY <1>1 DEF Outcomes
<1>3. ASSUME Deterministic(c), NEW v \in c.left, NEW w \in c.right
      PROVE  /\ <<ToValue(v), ToValue(w)>> \in Pairs(c)
             /\ Concrete(v) = {v} /\ Concrete(w) = {w}
             /\ Answers(c.op, v, w) = {(<<ToValue(v), ToValue(w)>> \in T)}
  <2>1. <<ToValue(v), ToValue(w)>> \in Pairs(c)
    BY DEF Pairs, ToValues
  <2>2. ~Guess(c.op, ToValue(v), ToValue(w))
    BY <1>1, <1>3, <2>1 DEF Deterministic
  <2>3. ~Misjudged(c.op, v, w)
    BY <1>1 DEF Miscounted
  <2>4. <<ToValue(v), ToValue(w)>> \in T <=> Agree(c.op, ToValue(v), ToValue(w))
    BY <2>1
  <2>5. /\ Concrete(v) = {v} /\ Concrete(w) = {w}
        /\ Answers(c.op, v, w) = {Agree(c.op, ToValue(v), ToValue(w))}
    BY <1>1, <2>2, <2>3, TextsDecide
  <2>6. Agree(c.op, ToValue(v), ToValue(w)) \in BOOLEAN
    BY DEF Agree
  <2> HIDE DEF T
  <2> QED
    BY <2>1, <2>4, <2>5, <2>6
<1> HIDE DEF T
<1>4. ASSUME Deterministic(c)
      PROVE  /\ \A z \in Outcomes(c) : \E v \in c.left, w \in c.right : z \in Answers(c.op, v, w)
             /\ \A v \in c.left, w \in c.right : Answers(c.op, v, w) \subseteq Outcomes(c)
             /\ Pairs(c) # {} => c.left # {} /\ c.right # {}
  <2>1. Pairs(c) # {} => c.left # {} /\ c.right # {}
    BY DEF Pairs, ToValues
  <2>2. CASE c.left = {} \/ c.right = {}
    <3>1. Possible(c.left) = {} \/ Possible(c.right) = {}
      BY <2>2 DEF Possible
    <3>2. Outcomes(c) = {}
      BY <1>2, <3>1
    <3> QED
      BY <2>1, <2>2, <3>2
  <2>3. CASE c.left # {} /\ c.right # {}
    <3>1. \A v \in c.left : Concrete(v) = {v}
      BY <1>3, <1>4, <2>3
    <3>2. \A w \in c.right : Concrete(w) = {w}
      BY <1>3, <1>4, <2>3
    <3>3. Possible(c.left) = c.left /\ Possible(c.right) = c.right
      BY <3>1, <3>2 DEF Possible
    <3> QED
      BY <1>2, <2>1, <3>3
  <2> QED
    BY <2>2, <2>3
<1>5. Verdict(c) = "sure" => Outcomes(c) = {TRUE}
  <2> SUFFICES ASSUME Verdict(c) = "sure" PROVE Outcomes(c) = {TRUE}
    OBVIOUS
  <2>1. Deterministic(c) /\ T = Pairs(c) /\ Pairs(c) # {}
    <3>1. Deterministic(c) /\ TrueNum(c) = 10 * TotalNum(c)
      BY VerdictFacts
    <3>2. /\ TotalNum(c) \in Nat \ {0} /\ Cardinality(T) \in Nat
          /\ TrueNum(c) = 10 * Cardinality(T)
          /\ Cardinality(T) = TotalNum(c) => T = Pairs(c)
          /\ Pairs(c) # {}
      BY <3>1, ComparisonCount DEF T
    <3> QED
      BY <3>1, <3>2
  <2>2. ASSUME NEW v \in c.left, NEW w \in c.right PROVE Answers(c.op, v, w) = {TRUE}
    <3>1. /\ <<ToValue(v), ToValue(w)>> \in Pairs(c)
          /\ Answers(c.op, v, w) = {(<<ToValue(v), ToValue(w)>> \in T)}
      BY <1>3, <2>1
    <3>2. (<<ToValue(v), ToValue(w)>> \in T) = TRUE
      BY <2>1, <3>1
    <3> QED
      BY <3>1, <3>2
  <2>3. \A z \in Outcomes(c) : z = TRUE
    BY <1>4, <2>1, <2>2
  <2>4. TRUE \in Outcomes(c)
    <3>1. PICK v \in c.left, w \in c.right : TRUE
      BY <1>4, <2>1
    <3> QED
      BY <1>4, <2>1, <2>2, <3>1
  <2> QED
    BY <2>3, <2>4
<1>6. Verdict(c) = "passed" => Outcomes(c) \subseteq {FALSE}
  <2> SUFFICES ASSUME Verdict(c) = "passed" PROVE Outcomes(c) \subseteq {FALSE}
    OBVIOUS
  <2>1. Deterministic(c) /\ T = {}
    <3>1. /\ Deterministic(c) /\ TrueNum(c) # 10 * TotalNum(c)
          /\ ~(0 < TrueNum(c) /\ TrueNum(c) < 10 * TotalNum(c))
      BY VerdictFacts
    <3>2. /\ TotalNum(c) \in Nat \ {0} /\ Cardinality(T) \in Nat
          /\ TrueNum(c) = 10 * Cardinality(T) /\ Cardinality(T) <= TotalNum(c)
          /\ Cardinality(T) = 0 => T = {}
      BY <3>1, ComparisonCount DEF T
    <3> QED
      BY <3>1, <3>2
  <2>2. ASSUME NEW v \in c.left, NEW w \in c.right PROVE Answers(c.op, v, w) = {FALSE}
    <3>1. Answers(c.op, v, w) = {(<<ToValue(v), ToValue(w)>> \in T)}
      BY <1>3, <2>1
    <3>2. (<<ToValue(v), ToValue(w)>> \in T) = FALSE
      BY <2>1
    <3> QED
      BY <3>1, <3>2
  <2> QED
    BY <1>4, <2>1, <2>2
<1> QED
  BY <1>5, <1>6 DEF VerdictIsRight

\* No literal but 0 counts for nothing.
LEMMA OnlyZero ==
    ASSUME NEW values, values \subseteq {"0"}
    PROVE  LiteralNum(values) = 0
<1>1. /\ values \cap {"wildcard"} = {}
      /\ values \ {"wildcard", "0"} = {} /\ values \ {"''", "0"} = {}
  OBVIOUS
<1> DEFINE A == Cardinality(values \cap {"wildcard"})
           B == Cardinality(values \ {"wildcard", "0"})
           C == Cardinality(values \ {"''", "0"})
<1>2. A = 0 /\ B = 0 /\ C = 0
  BY <1>1, FS_EmptySet
<1>3. LiteralNum(values) = 5 * A + 10 * B + 10 * C
  BY DEF LiteralNum
<1> HIDE DEF A, B, C
<1> QED
  BY <1>2, <1>3

\* undefined, null and false make up no more than three tenths.
LEMMA AtMostThree ==
    ASSUME NEW objs
    PROVE  /\ Cardinality(objs \cap Tenths) \in 0..3
           /\ Cardinality(objs \cap Tenths) = 0 => objs \cap Tenths = {}
<1>1. IsFiniteSet({"undefined"}) /\ Cardinality({"undefined"}) = 1
  BY FS_Singleton
<1>2. IsFiniteSet({"undefined", "null"}) /\ Cardinality({"undefined", "null"}) = 2
  <2>1. {"undefined", "null"} = {"undefined"} \cup {"null"} /\ "null" \notin {"undefined"}
    OBVIOUS
  <2> QED
    BY <1>1, <2>1, FS_AddElement
<1>3. IsFiniteSet(Tenths) /\ Cardinality(Tenths) = 3
  <2>1. Tenths = {"undefined", "null"} \cup {"false"} /\ "false" \notin {"undefined", "null"}
    BY DEF Tenths
  <2> QED
    BY <1>2, <2>1, FS_AddElement
<1>4. objs \cap Tenths \in SUBSET Tenths
  OBVIOUS
<1>5. IsFiniteSet(objs \cap Tenths) /\ Cardinality(objs \cap Tenths) <= 3
  BY <1>3, <1>4, FS_Subset
<1> QED
  BY <1>5, FS_CardinalityType, FS_EmptySet

\* So does the verdict on the truth of objects, unless there are literals but 0,
\* NaN, or undefined beside objects that are all true: three tenths are too few
\* to make up for an object that is false.
LEMMA TruthsAreRight ==
    ASSUME NEW c \in Truth, ~Miscounted(c)
    PROVE  VerdictIsRight(c)
<1> DEFINE objs == c.objs
           D == c.objs \ {"undefined"}
           W == c.objs \cap Whole
           d == Cardinality(D)
           n == Cardinality(c.values)
           k == Cardinality(W)
           tenths == Cardinality(c.objs \cap Tenths)
<1>1. /\ c.op = "truth" /\ c.values \subseteq {"0", "wildcard"} /\ "NaN" \notin c.objs
      /\ ~("undefined" \in c.objs /\ D \subseteq Truthy)
  <2>1. c.op = "truth"
    BY DEF Truth
  <2> QED
    BY <2>1 DEF Miscounted
<1>2. /\ IsFiniteSet(c.objs) /\ c.objs \subseteq Object
      /\ IsFiniteSet(c.values)
  BY FewAreFinite DEF Truth
<1> SUFFICES ASSUME Deterministic(c) PROVE VerdictIsRight(c)
  BY VerdictFacts DEF VerdictIsRight
<1>3. c.objs \cap Unknown = {} /\ c.values \subseteq {"0"} /\ TotalNum(c) # 0
  BY <1>1 DEF Deterministic
\* W: the objects counted as true.
<1>4. W \subseteq D /\ W \subseteq Truthy
  BY <1>1, <1>2, <1>3 DEF Whole, Tenths, Unknown, Object, Truthy
<1>5. d \in Nat /\ n \in Nat /\ k \in Nat /\ k <= d /\ (k = d => W = D)
      /\ (n = 0 => c.values = {}) /\ (k = 0 => W = {}) /\ (d = 0 => D = {})
  <2>1. D \in SUBSET c.objs /\ W \in SUBSET D
    BY <1>4
  <2> HIDE DEF D, W
  <2>2. IsFiniteSet(D) /\ IsFiniteSet(W) /\ k <= d /\ (k = d => W = D)
    BY <1>2, <2>1, FS_Subset
  <2> QED
    BY <1>2, <2>2, FS_CardinalityType, FS_EmptySet
<1>6. tenths \in 0..3 /\ (tenths = 0 => c.objs \cap Tenths = {})
  BY AtMostThree
<1>7. TotalNum(c) = d + n
  BY <1>1 DEF TotalNum
<1>8. TrueNum(c) = tenths + 10 * k
  <2>1. Cardinality(c.objs \cap Unknown) = 0
    BY <1>3, FS_EmptySet
  <2>2. LiteralNum(c.values) = 0
    BY <1>3, OnlyZero
  <2>3. TrueNum(c) = ObjectNum(c.objs) + LiteralNum(c.values)
    BY <1>1 DEF TrueNum
  <2>4. ObjectNum(c.objs) = tenths + 5 * Cardinality(c.objs \cap Unknown) + 10 * k
    BY DEF ObjectNum
  <2> HIDE DEF tenths, k
  <2> QED
    BY <1>5, <1>6, <2>1, <2>2, <2>3, <2>4
<1>9. Outcomes(c) = {(x \in Truthy) : x \in Possible(c.objs \cup c.values)}
  BY <1>1 DEF Outcomes
<1>10. Possible(c.objs \cup c.values) = c.objs \cup c.values
  <2>1. \A o \in c.objs \cup c.values : Concrete(o) = {o}
    BY <1>3 DEF Concrete, Unknown
  <2> QED
    BY <2>1 DEF Possible
<1>11. ASSUME Verdict(c) = "sure" PROVE Outcomes(c) = {TRUE}
  <2>1. tenths = 0 /\ k = d /\ n = 0
    <3>1. tenths + 10 * k = 10 * (d + n)
      BY <1>7, <1>8, <1>11, VerdictFacts
    <3>2. d \in Nat /\ n \in Nat /\ k \in Nat /\ k <= d /\ tenths \in 0..3
      BY <1>5, <1>6
    <3> HIDE DEF tenths, k, d, n
    <3> QED
      BY <3>1, <3>2
  <2>2. D = W /\ c.values = {} /\ "undefined" \notin c.objs /\ D # {}
    <3>1. d # 0
      <4> HIDE DEF d, n
      <4> QED
        BY <1>3, <1>7, <2>1
    <3>2. D # {}
      BY <3>1, FS_EmptySet
    <3>3. "undefined" \notin c.objs
      BY <1>6, <2>1 DEF Tenths
    <3> QED
      BY <1>5, <2>1, <3>2, <3>3
  <2>3. c.objs \cup c.values = D /\ D \subseteq Truthy
    BY <1>4, <2>2
  <2> HIDE DEF D
  <2>4. \A x \in c.objs \cup c.values : (x \in Truthy) = TRUE
    BY <2>3
  <2> QED
    BY <1>9, <1>10, <2>2, <2>3, <2>4
<1>12. ASSUME Verdict(c) = "passed" PROVE Outcomes(c) \subseteq {FALSE}
  <2>1. /\ tenths + 10 * k # 10 * (d + n)
        /\ ~(0 < tenths + 10 * k /\ tenths + 10 * k < 10 * (d + n))
    BY <1>7, <1>8, <1>12, VerdictFacts
  <2>2. CASE tenths = 0 /\ k = 0
    <3>1. c.objs \cap Tenths = {} /\ W = {}
      BY <1>5, <1>6, <2>2
    <3>2. \A x \in c.objs : x \notin Truthy
      BY <1>2, <1>3, <3>1 DEF Whole, Tenths, Unknown, Object, Truthy
    <3>3. \A x \in c.values : x \notin Truthy
      BY <1>3 DEF Truthy
    <3>4. \A x \in c.objs \cup c.values : (x \in Truthy) = FALSE
      BY <3>2, <3>3
    <3> QED
      BY <1>9, <1>10, <3>4
  <2>3. CASE tenths # 0 \/ k # 0
    <3>1. k = d /\ tenths # 0
      <4> HIDE DEF tenths, k, d, n
      <4> QED
        BY <1>5, <1>6, <2>1, <2>3
    <3>2. D = W
      BY <1>5, <3>1
    <3>3. "undefined" \in c.objs
      <4>1. c.objs \cap Tenths # {}
        BY <3>1, FS_EmptySet
      <4>2. D \cap Tenths = {}
        BY <3>2 DEF Whole
      <4> QED
        BY <4>1, <4>2
    <3>4. FALSE
      BY <1>1, <1>4, <3>2, <3>3
    <3> QED
      BY <3>4
  <2> QED
    BY <2>2, <2>3
<1> QED
  BY <1>11, <1>12 DEF VerdictIsRight

\* check_condition and run_if_elem are sure only of what is so: apart from the
\* conditions that are miscounted, no arm is passed over that some run takes,
\* and none is run as if sure that some run does not take, whichever of the
\* kinds of objects and literals the operands may be (VerdictsAreRight).
THEOREM VerdictsAreSound == Spec => []VerdictsAreRight
<1>1. VerdictsAreRight
  BY ComparisonsAreRight, TruthsAreRight DEF VerdictsAreRight, Condition
<1> QED  BY <1>1, PTL
=============================================================================
