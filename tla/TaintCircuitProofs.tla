------------------------- MODULE TaintCircuitProofs -------------------------
(***************************************************************************)
(* Proofs about TaintCircuit, for every width and every set of wires.  In  *)
(* the lemmas a and b are the operands, x and y what they are in the twin, *)
(* at and bt their taints, s, u and st the same of a select.               *)
(***************************************************************************)
EXTENDS TaintCircuit, FiniteSetTheorems, WellFoundedInduction, TLAPS

\* The twin differs only where there is taint.
Covers(t, v, w) == Xor(v, w) \subseteq t

LEMMA XorMember ==
    ASSUME NEW v, NEW w, NEW i
    PROVE  i \in Xor(v, w) <=> (i \in v) # (i \in w)
BY DEF Xor

LEMMA CoversMember ==
    ASSUME NEW t, NEW v, NEW w
    PROVE  Covers(t, v, w) <=> \A i : (i \in v) # (i \in w) => i \in t
BY DEF Covers, Xor

\* Every variant of a value lies between its least and its greatest.
LEMMA Between ==
    ASSUME NEW a, NEW x, NEW at, Covers(at, a, x)
    PROVE  /\ Least(a, at) \subseteq a /\ a \subseteq Most(a, at)
           /\ Least(a, at) \subseteq x /\ x \subseteq Most(a, at)
           /\ \A i : i \notin at => /\ (i \in a) = (i \in x)
                                    /\ (i \in Least(a, at)) = (i \in a)
                                    /\ (i \in Most(a, at)) = (i \in a)
BY DEF Covers, Xor, Least, Most

LEMMA AndSound ==
    ASSUME NEW a, NEW x, NEW at, Covers(at, a, x), NEW b, NEW y, NEW bt, Covers(bt, b, y)
    PROVE  Covers(cellift_and(a, b, at, bt), a \cap b, x \cap y)
BY DEF Covers, Xor, cellift_and

LEMMA OrSound ==
    ASSUME NEW a \in Vec, NEW x \in Vec, NEW at, Covers(at, a, x),
           NEW b \in Vec, NEW y \in Vec, NEW bt, Covers(bt, b, y)
    PROVE  Covers(cellift_or(a, b, at, bt), a \cup b, x \cup y)
BY DEF Covers, Xor, cellift_or, Inv, Vec

LEMMA XorSound ==
    ASSUME NEW a, NEW x, NEW at, Covers(at, a, x), NEW b, NEW y, NEW bt, Covers(bt, b, y)
    PROVE  Covers(cellift_xor(at, bt), Xor(a, b), Xor(x, y))
BY DEF Covers, Xor, cellift_xor

LEMMA NotSound ==
    ASSUME NEW a, NEW x, NEW at, Covers(at, a, x)
    PROVE  Covers(cellift_not(at), Inv(a), Inv(x))
BY DEF Covers, Xor, cellift_not, Inv

LEMMA MuxSound ==
    ASSUME NEW a \in Vec, NEW x \in Vec, NEW at, Covers(at, a, x),
           NEW b \in Vec, NEW y \in Vec, NEW bt, Covers(bt, b, y),
           NEW s \in SUBSET {0}, NEW u \in SUBSET {0}, NEW st, Covers(st, s, u)
    PROVE  Covers(cellift_mux(a, b, s, at, bt, st),
                  IF s = {} THEN a ELSE b, IF u = {} THEN x ELSE y)
<1>1. CASE st = {}
  <2>1. s = u
    BY <1>1 DEF Covers, Xor
  <2> QED
    BY <1>1, <2>1 DEF Covers, Xor, cellift_mux, Rep, Vec
<1>2. CASE st # {}
  BY <1>2 DEF Covers, Xor, cellift_mux, Rep, Vec
<1> QED
  BY <1>1, <1>2

\* The carry grows with the operands.
LEMMA CarryMonotone ==
    ASSUME NEW a, NEW b, NEW x, NEW y, a \subseteq x, b \subseteq y
    PROVE  Carry(a, b) \subseteq Carry(x, y)
BY DEF Carry

LEMMA AddSound ==
    ASSUME NEW a, NEW x, NEW at, Covers(at, a, x), NEW b, NEW y, NEW bt, Covers(bt, b, y)
    PROVE  Covers(cellift_add(a, b, at, bt), Add(a, b), Add(x, y))
<1> DEFINE low  == Carry(Least(a, at), Least(b, bt))
           high == Carry(Most(a, at), Most(b, bt))
<1>1. /\ low \subseteq Carry(a, b) /\ low \subseteq Carry(x, y)
      /\ Carry(a, b) \subseteq high /\ Carry(x, y) \subseteq high
  BY Between, CarryMonotone
<1>2. SUFFICES ASSUME NEW i, (i \in Add(a, b)) # (i \in Add(x, y)), i \notin at, i \notin bt
               PROVE  i \in Xor(Add(Least(a, at), Least(b, bt)), Add(Most(a, at), Most(b, bt)))
  BY CoversMember DEF cellift_add
<1>3. /\ (i \in a) = (i \in x) /\ (i \in b) = (i \in y)
      /\ (i \in Least(a, at)) = (i \in a) /\ (i \in Most(a, at)) = (i \in a)
      /\ (i \in Least(b, bt)) = (i \in b) /\ (i \in Most(b, bt)) = (i \in b)
  BY <1>2, Between
<1>4. \A v, w : i \in Add(v, w) <=> ((i \in v) # (i \in w)) # (i \in Carry(v, w))
  BY XorMember DEF Add
<1>5. (i \in Carry(a, b)) # (i \in Carry(x, y))
  BY <1>2, <1>3, <1>4
<1>6. i \notin low /\ i \in high
  BY <1>1, <1>5
<1> QED
  BY <1>3, <1>4, <1>6, XorMember

LEMMA NegSound ==
    ASSUME NEW a, NEW x, NEW at, Covers(at, a, x)
    PROVE  Covers(cellift_neg(a, at), Neg(a), Neg(x))
<1> DEFINE low  == Borrow({}, Least(a, at))
           high == Borrow({}, Most(a, at))
<1>1. \A v, w : v \subseteq w => Borrow({}, v) \subseteq Borrow({}, w)
  BY DEF Borrow
<1>2. /\ low \subseteq Borrow({}, a) /\ low \subseteq Borrow({}, x)
      /\ Borrow({}, a) \subseteq high /\ Borrow({}, x) \subseteq high
  BY <1>1, Between
<1>3. SUFFICES ASSUME NEW i, (i \in Neg(a)) # (i \in Neg(x)), i \notin at
               PROVE  i \in Xor(Neg(Least(a, at)), Neg(Most(a, at)))
  BY CoversMember DEF cellift_neg
<1>4. /\ (i \in a) = (i \in x)
      /\ (i \in Least(a, at)) = (i \in a) /\ (i \in Most(a, at)) = (i \in a)
  BY <1>3, Between
<1>5. \A v : i \in Neg(v) <=> (i \in v) # (i \in Borrow({}, v))
  BY XorMember DEF Neg, Sub
<1>6. i \notin low /\ i \in high
  BY <1>2, <1>3, <1>4, <1>5
<1> QED
  BY <1>4, <1>5, <1>6, XorMember

LEMMA EqSound ==
    ASSUME NEW a, NEW x, NEW at, Covers(at, a, x), NEW b, NEW y, NEW bt, Covers(bt, b, y)
    PROVE  /\ Covers(cellift_eq_ne(a, b, at, bt), Bit(a = b), Bit(x = y))
           /\ Covers(cellift_eq_ne(a, b, at, bt), Bit(a # b), Bit(x # y))
<1>1. SUFFICES ASSUME (a = b) # (x = y)
               PROVE  at \cup bt # {} /\ a \ (at \cup bt) = b \ (at \cup bt)
  BY DEF Covers, Xor, Bit, cellift_eq_ne
<1>2. /\ a \ (at \cup bt) = x \ (at \cup bt)
      /\ b \ (at \cup bt) = y \ (at \cup bt)
  BY DEF Covers, Xor
<1>3. CASE a = b
  <2>1. x # y
    BY <1>1, <1>3
  <2>2. PICK i : (i \in x) # (i \in y)
    BY <2>1
  <2>3. i \in at \cup bt
    BY <1>3, <2>2, CoversMember
  <2> QED
    BY <1>3, <2>3
<1>4. CASE a # b
  <2>1. x = y
    BY <1>1, <1>4
  <2>2. PICK i : (i \in a) # (i \in b)
    BY <1>4
  <2>3. i \in at \cup bt
    BY <2>1, <2>2, CoversMember
  <2> QED
    BY <1>2, <2>1, <2>3
<1> QED
  BY <1>3, <1>4

\* A comparison grows with its left operand and falls with its right one.
LEMMA GreaterMonotone ==
    ASSUME NEW a, NEW b, NEW x, NEW y, a \subseteq x, y \subseteq b, Greater(a, b)
    PROVE  Greater(x, y)
BY DEF Greater

Enclosed(v, low, high) == low \subseteq v /\ v \subseteq high

LEMMA GreaterEnclosed ==
    ASSUME NEW a, NEW alow, NEW ahigh, Enclosed(a, alow, ahigh),
           NEW b, NEW blow, NEW bhigh, Enclosed(b, blow, bhigh)
    PROVE  /\ Greater(alow, bhigh) => Greater(a, b)
           /\ Greater(a, b) => Greater(ahigh, blow)
BY GreaterMonotone DEF Enclosed

\* What a comparison looks at: a signed operand with its sign bit flipped.
Ordered(v, signed) == IF signed THEN Flip(v) ELSE v

LEMMA ExtremesEnclose ==
    ASSUME NEW a \in Vec, NEW x \in Vec, NEW at \in Vec, Covers(at, a, x), NEW signed \in BOOLEAN
    PROVE  LET low  == Ordered(Min(a, at, signed), signed)
               high == Ordered(Max(a, at, signed), signed)
           IN  Enclosed(Ordered(a, signed), low, high) /\ Enclosed(Ordered(x, signed), low, high)
<1>1. /\ Least(a, at) \subseteq a /\ a \subseteq Most(a, at)
      /\ Least(a, at) \subseteq x /\ x \subseteq Most(a, at)
  BY Between
<1>2. CASE signed
  <2>1. \A v, i : i \in Flip(v) <=> (i \in v) # (i = Msb)
    BY DEF Flip, Xor
  <2>2. \A i : /\ i \in Min(a, at, signed) <=>
                     IF i = Msb THEN i \in Most(a, at) ELSE i \in Least(a, at)
               /\ i \in Max(a, at, signed) <=>
                     IF i = Msb THEN i \in Least(a, at) ELSE i \in Most(a, at)
    BY <1>2 DEF Min, Max
  <2>3. \A i : /\ i \in Flip(Min(a, at, signed)) => i \in Flip(a) /\ i \in Flip(x)
               /\ i \in Flip(a) \/ i \in Flip(x) => i \in Flip(Max(a, at, signed))
    BY <1>1, <2>1, <2>2
  <2> QED
    BY <1>2, <2>3 DEF Enclosed, Ordered
<1>3. CASE ~signed
  BY <1>1, <1>3 DEF Enclosed, Ordered, Min, Max
<1> QED
  BY <1>2, <1>3

\* What both runs compare lies between the two comparisons of extremes.
LEMMA GtBetween ==
    ASSUME NEW a \in Vec, NEW x \in Vec, NEW at \in Vec, Covers(at, a, x),
           NEW b \in Vec, NEW y \in Vec, NEW bt \in Vec, Covers(bt, b, y),
           NEW signed \in BOOLEAN
    PROVE  /\ Gt(Min(a, at, signed), Max(b, bt, signed), signed) =>
                 Gt(a, b, signed) /\ Gt(x, y, signed)
           /\ Gt(a, b, signed) \/ Gt(x, y, signed) =>
                 Gt(Max(a, at, signed), Min(b, bt, signed), signed)
<1>1. \A v, w : Gt(v, w, signed) <=> Greater(Ordered(v, signed), Ordered(w, signed))
  BY DEF Gt, Ordered
<1>2. /\ Enclosed(Ordered(a, signed), Ordered(Min(a, at, signed), signed), Ordered(Max(a, at, signed), signed))
      /\ Enclosed(Ordered(x, signed), Ordered(Min(a, at, signed), signed), Ordered(Max(a, at, signed), signed))
  BY ExtremesEnclose
<1>3. /\ Enclosed(Ordered(b, signed), Ordered(Min(b, bt, signed), signed), Ordered(Max(b, bt, signed), signed))
      /\ Enclosed(Ordered(y, signed), Ordered(Min(b, bt, signed), signed), Ordered(Max(b, bt, signed), signed))
  BY ExtremesEnclose
<1> QED
  BY <1>1, <1>2, <1>3, GreaterEnclosed

LEMMA CompareSound ==
    ASSUME NEW a \in Vec, NEW x \in Vec, NEW at \in Vec, Covers(at, a, x),
           NEW b \in Vec, NEW y \in Vec, NEW bt \in Vec, Covers(bt, b, y),
           NEW signed \in BOOLEAN
    PROVE  /\ Covers(cellift_gt(a, b, at, bt, signed),
                     Bit(Gt(a, b, signed)), Bit(Gt(x, y, signed)))
           /\ Covers(cellift_lt(a, b, at, bt, signed),
                     Bit(Gt(b, a, signed)), Bit(Gt(y, x, signed)))
           /\ Covers(cellift_ge(a, b, at, bt, signed),
                     Bit(Ge(a, b, signed)), Bit(Ge(x, y, signed)))
           /\ Covers(cellift_le(a, b, at, bt, signed),
                     Bit(Ge(b, a, signed)), Bit(Ge(y, x, signed)))
<1>1. /\ Gt(Min(a, at, signed), Max(b, bt, signed), signed) =>
            Gt(a, b, signed) /\ Gt(x, y, signed)
      /\ Gt(a, b, signed) \/ Gt(x, y, signed) =>
            Gt(Max(a, at, signed), Min(b, bt, signed), signed)
  BY GtBetween
<1>2. /\ Gt(Min(b, bt, signed), Max(a, at, signed), signed) =>
            Gt(b, a, signed) /\ Gt(y, x, signed)
      /\ Gt(b, a, signed) \/ Gt(y, x, signed) =>
            Gt(Max(b, bt, signed), Min(a, at, signed), signed)
  BY GtBetween
<1>3. \A p, q \in BOOLEAN : Xor(Bit(p), Bit(q)) = Bit(p # q)
  BY DEF Xor, Bit
<1>4. \A v, w : Gt(v, w, signed) \in BOOLEAN
  BY DEF Gt, Greater
<1>5. \A p, q \in BOOLEAN : (p => q) => Bit(p) \subseteq Bit(q)
  BY DEF Bit
<1>6. Covers(cellift_gt(a, b, at, bt, signed), Bit(Gt(a, b, signed)), Bit(Gt(x, y, signed)))
  BY <1>1, <1>3, <1>4, <1>5, ZenonT(40) DEF Covers, cellift_gt
<1>7. Covers(cellift_lt(a, b, at, bt, signed), Bit(Gt(b, a, signed)), Bit(Gt(y, x, signed)))
  BY <1>2, <1>3, <1>4, <1>5, ZenonT(40) DEF Covers, cellift_lt
<1>8. Covers(cellift_ge(a, b, at, bt, signed), Bit(Ge(a, b, signed)), Bit(Ge(x, y, signed)))
  BY <1>2, <1>3, <1>4, <1>5 DEF Covers, cellift_ge, Ge
<1>9. Covers(cellift_le(a, b, at, bt, signed), Bit(Ge(b, a, signed)), Bit(Ge(y, x, signed)))
  BY <1>1, <1>3, <1>4, <1>5 DEF Covers, cellift_le, Ge
<1> QED
  BY <1>6, <1>7, <1>8, <1>9

LEMMA LogicSound ==
    ASSUME NEW a \in Vec, NEW x \in Vec, NEW at \in Vec, Covers(at, a, x),
           NEW b \in Vec, NEW y \in Vec, NEW bt \in Vec, Covers(bt, b, y)
    PROVE  /\ Covers(cellift_logic_and(a, b, at, bt), Bit(a # {} /\ b # {}), Bit(x # {} /\ y # {}))
           /\ Covers(cellift_logic_or(a, b, at, bt), Bit(a # {} \/ b # {}), Bit(x # {} \/ y # {}))
<1>1. /\ Least(a, at) \subseteq a /\ a \subseteq Most(a, at)
      /\ Least(a, at) \subseteq x /\ x \subseteq Most(a, at)
      /\ Least(b, bt) \subseteq b /\ b \subseteq Most(b, bt)
      /\ Least(b, bt) \subseteq y /\ y \subseteq Most(b, bt)
  BY Between
<1>2. \A v, w : v \subseteq w /\ v # {} => w # {}
  OBVIOUS
<1>3. /\ Least(a, at) # {} => a # {} /\ x # {}
      /\ a # {} \/ x # {} => Most(a, at) # {}
      /\ Least(b, bt) # {} => b # {} /\ y # {}
      /\ b # {} \/ y # {} => Most(b, bt) # {}
  BY <1>1, <1>2
<1> QED
  BY <1>3 DEF Covers, Xor, Bit, cellift_logic_and, cellift_logic_or

LEMMA ReduceSound ==
    ASSUME NEW a \in Vec, NEW x \in Vec, NEW at \in Vec, Covers(at, a, x)
    PROVE  /\ Covers(cellift_logic_not(a, at), Bit(a = {}), Bit(x = {}))
           /\ Covers(cellift_logic_not(a, at), Bit(a # {}), Bit(x # {}))
           /\ Covers(cellift_reduce_and(a, at), Bit(a = Bits), Bit(x = Bits))
           /\ Covers(cellift_reduce_xor(at), Bit(Cardinality(a) % 2 = 1), Bit(Cardinality(x) % 2 = 1))
<1>1. at = {} => a = x
  BY DEF Covers, Xor
<1>2. /\ Least(a, at) \subseteq a /\ a \subseteq Most(a, at)
      /\ Least(a, at) \subseteq x /\ x \subseteq Most(a, at)
  BY Between
<1>3. a = {} \/ x = {} => Least(a, at) = {}
  BY <1>2
<1>4. a = Bits \/ x = Bits => Most(a, at) = Bits
  BY <1>2 DEF Vec, Most
<1> QED
  BY <1>1, <1>3, <1>4 DEF Covers, Xor, Bit, cellift_logic_not, cellift_reduce_and, cellift_reduce_xor

\* A shift by an untainted amount moves the taint along with the bits.
LEMMA ShiftSound ==
    ASSUME NEW a \in Vec, NEW x \in Vec, NEW at \in Vec, Covers(at, a, x),
           NEW b \in Vec, NEW y \in Vec, NEW bt \in Vec, Covers(bt, b, y),
           NEW signed \in BOOLEAN
    PROVE  /\ Covers(cellift_shl_sshl_imprecise(b, at, bt),
                     Shift(a, 0 - Num(b)), Shift(x, 0 - Num(y)))
           /\ Covers(cellift_shr_sshr_imprecise(b, at, bt, FALSE),
                     Shift(a, Num(b)), Shift(x, Num(y)))
           /\ Covers(cellift_shr_sshr_imprecise(b, at, bt, signed),
                     Sshr(a, Num(b), signed), Sshr(x, Num(y), signed))
           /\ Covers(cellift_shiftx_imprecise(b, at, bt, signed),
                     Shift(a, Offset(b, signed)), Shift(x, Offset(y, signed)))
<1>1. \A v, n : Shift(v, n) \subseteq Bits /\ Sshr(v, n, signed) \subseteq Bits
  BY DEF Shift, Sshr
<1>2. \A n : /\ Xor(Shift(a, n), Shift(x, n)) \subseteq Shift(at, n)
             /\ Xor(Sshr(a, n, signed), Sshr(x, n, signed)) \subseteq Sshr(at, n, signed)
             /\ Shift(at, n) \subseteq Sshr(at, n, FALSE)
  BY DEF Shift, Sshr, Covers, Xor
<1>3. CASE bt = {}
  <2>1. b = y
    BY <1>3 DEF Covers, Xor
  <2> QED
    BY <1>2, <1>3, <2>1 DEF Covers, cellift_shl_sshl_imprecise, cellift_shr_sshr_imprecise,
                            cellift_shiftx_imprecise
<1>4. CASE bt # {}
  <2>1. Rep(bt # {}) = Bits
    BY <1>4 DEF Rep
  <2> QED
    BY <1>1, <2>1 DEF Covers, Xor, cellift_shl_sshl_imprecise, cellift_shr_sshr_imprecise,
                      cellift_shiftx_imprecise
<1> QED
  BY <1>3, <1>4

\* A tainted select selects among words whose taints, and differences from a,
\* are all taken in.
LEMMA PmuxSmallSound ==
    ASSUME NEW a \in Vec, NEW x \in Vec, NEW at \in Vec, Covers(at, a, x),
           NEW b \in [Bits -> Vec], NEW y \in [Bits -> Vec], NEW bt \in [Bits -> Vec],
           \A i \in Bits : Covers(bt[i], b[i], y[i]),
           NEW s \in Vec, NEW u \in Vec, NEW st \in Vec, Covers(st, s, u),
           OneHot(s), OneHot(u)
    PROVE  Covers(cellift_pmux_small_cells(a, b, s, at, bt, st), Pmux(a, b, s), Pmux(x, y, u))
<1> DEFINE T == cellift_pmux_small_cells(a, b, s, at, bt, st)
<1>1. s \ st = u \ st
  BY DEF Covers, Xor
<1>2. ASSUME NEW k, k \in s PROVE Pmux(a, b, s) = b[k]
  BY <1>2 DEF Pmux, OneHot
<1>3. ASSUME NEW k, k \in u PROVE Pmux(x, y, u) = y[k]
  BY <1>3 DEF Pmux, OneHot
<1>4. /\ PmuxFlow(s, at, bt, st) \subseteq T
      /\ s \ st = {} /\ st # {} => \A k \in s \cup st : Xor(a, b[k]) \subseteq T
  <2>1. CASE Width = 1
    <3>1. Bits = {0}
      BY <2>1 DEF Bits
    <3>2. T = cellift_mux(a, b[0], s, at, bt[0], st)
      BY <2>1 DEF cellift_pmux_small_cells
    <3>3. PmuxFlow(s, at, bt, st) \subseteq T
      BY <3>1, <3>2 DEF cellift_mux, PmuxFlow, Rep, Vec
    <3>4. ASSUME s \ st = {}, st # {} PROVE \A k \in s \cup st : Xor(a, b[k]) \subseteq T
      BY <3>1, <3>2, <3>4 DEF cellift_mux, Rep, Vec, Xor
    <3> QED
      BY <3>3, <3>4
  <2>2. CASE Width # 1
    <3>1. PmuxFlow(s, at, bt, st) \subseteq T /\ PmuxDiffers(a, b, s, st) \subseteq T
      BY <2>2 DEF cellift_pmux_small_cells
    <3>2. ASSUME s \ st = {}, st # {}, NEW k \in s \cup st PROVE Xor(a, b[k]) \subseteq T
      <4>1. Xor(a, b[k]) \subseteq Bits
        BY DEF Xor, Vec
      <4>2. Xor(a, b[k]) \subseteq PmuxDiffers(a, b, s, st)
        BY <3>2, <4>1 DEF PmuxDiffers
      <4> QED
        BY <3>1, <4>2
    <3> QED
      BY <3>1, <3>2
  <2> QED
    BY <2>1, <2>2
<1>5. CASE s \ st # {}
  <2>1. PICK k : k \in s \ st
    BY <1>5
  <2>2. k \in u /\ k \in Bits
    BY <1>1, <2>1 DEF Vec
  <2>3. Xor(Pmux(a, b, s), Pmux(x, y, u)) \subseteq bt[k]
    BY <1>2, <1>3, <2>1, <2>2 DEF Covers
  <2>4. bt[k] \subseteq PmuxFlow(s, at, bt, st)
    BY <2>1 DEF PmuxFlow
  <2> QED
    BY <1>4, <2>3, <2>4 DEF Covers
<1>6. CASE s \ st = {} /\ st = {}
  <2>1. s = {} /\ u = {}
    BY <1>1, <1>6
  <2>2. Pmux(a, b, s) = a /\ Pmux(x, y, u) = x
    BY <2>1 DEF Pmux
  <2>3. at \subseteq PmuxFlow(s, at, bt, st)
    BY <2>1 DEF PmuxFlow, Rep, Vec
  <2> QED
    BY <1>4, <2>2, <2>3 DEF Covers
<1>7. CASE s \ st = {} /\ st # {}
  <2>1. at \subseteq T /\ \A k \in s \cup st : bt[k] \subseteq T /\ Xor(a, b[k]) \subseteq T
    <3>1. at \subseteq PmuxFlow(s, at, bt, st)
      BY <1>7 DEF PmuxFlow, Rep, Vec
    <3>2. \A k \in s \cup st : bt[k] \subseteq PmuxFlow(s, at, bt, st)
      BY DEF PmuxFlow
    <3> QED
      BY <1>4, <1>7, <3>1, <3>2
  <2>2. Xor(a, Pmux(a, b, s)) \subseteq T
    <3>1. CASE s = {}
      BY <3>1 DEF Pmux, Xor
    <3>2. CASE s # {}
      BY <1>2, <2>1, <3>2
    <3> QED
      BY <3>1, <3>2
  <2>3. Xor(a, Pmux(x, y, u)) \subseteq T
    <3>1. CASE u = {}
      BY <2>1, <3>1 DEF Pmux, Covers
    <3>2. CASE u # {}
      <4>1. PICK k : k \in u
        BY <3>2
      <4>2. k \in s \cup st /\ k \in Bits
        BY <1>1, <1>7, <4>1 DEF Vec
      <4>3. /\ Xor(a, b[k]) \subseteq T
            /\ Xor(b[k], y[k]) \subseteq T
        BY <2>1, <4>2 DEF Covers
      <4>4. Xor(a, y[k]) \subseteq T
        BY <4>3 DEF Xor
      <4> QED
        BY <1>3, <4>1, <4>4
    <3> QED
      BY <3>1, <3>2
  <2> QED
    BY <2>2, <2>3 DEF Covers, Xor
<1> QED
  BY <1>5, <1>6, <1>7

\* A flip-flop in a use its taint logic is fit for.
LEMMA FlopSound ==
    ASSUME NEW f, NEW r, NEW d \in Vec, NEW dd \in Vec, NEW dt \in Vec, Covers(dt, d, dd),
           NEW q \in Vec, NEW qq \in Vec, NEW qt \in Vec, Covers(qt, q, qq),
           NEW e \in SUBSET {0}, NEW ee \in SUBSET {0}, NEW et \in SUBSET {0}, Covers(et, e, ee),
           Handled(f, r, e, et),
           f \in OneBitFlops => d \subseteq {0} /\ dd \subseteq {0} /\ q \subseteq {0} /\ qq \subseteq {0}
    PROVE  Covers(FlopTaint(f, r, d, q, e, dt, qt, et),
                  FlopOut(f, r, d, q, e), FlopOut(f, r, dd, qq, ee))
<1> DEFINE T == FlopTaint(f, r, d, q, e, dt, qt, et)
           O == FlopOut(f, r, d, q, e)
           P == FlopOut(f, r, dd, qq, ee)
<1>1. et = {} => e = ee
  BY DEF Covers, Xor
<1>2. Cleared(f, r) <=> Active(f, r)
  BY DEF Handled, Cleared, Active
<1>3. CASE f \in Latches
  <2>1. e = ee
    BY <1>1, <1>3 DEF Handled, Latches, WithEnable, EnableTracked
  <2>2. ~Active(f, r) /\ f \in WithEnable
    BY <1>3 DEF Active, Latches, WithReset, AsyncReset, WithEnable
  <2> QED
    BY <1>3, <2>1, <2>2 DEF FlopTaint, cellift_dlatch, FlopOut, Covers
<1>4. CASE f \notin Latches /\ f \notin WithEnable
  <2>1. f \notin EnableFirst
    BY <1>4 DEF WithEnable
  <2> QED
    BY <1>2, <1>4, <2>1 DEF FlopTaint, cellift_sdff, FlopOut, Covers, Xor
<1>5. CASE f \in WithEnable \ Latches /\ Active(f, r)
  <2>1. f \in EnableFirst => e # {} /\ ee # {}
    BY <1>1, <1>5 DEF Handled
  <2>2. O = r.value /\ P = r.value
    BY <1>5, <2>1 DEF FlopOut
  <2> QED
    BY <2>2 DEF Covers, Xor
<1>6. CASE f \in WithEnable \ Latches /\ ~Active(f, r)
  <2>1. O = (IF e = {} THEN q ELSE d) /\ P = (IF ee = {} THEN qq ELSE dd)
    BY <1>6 DEF FlopOut
  <2>2. /\ dt \cap Rep(e # {}) \subseteq T /\ qt \cap Rep(e = {}) \subseteq T
        /\ (Xor(d, q) \cup dt \cup qt) \cap EnableReach(f, et) \subseteq T
    BY <1>2, <1>6 DEF FlopTaint, cellift_sdff, cellift_dffe
  <2>3. e # {} => dt \subseteq T
    BY <2>2 DEF Rep, Vec
  <2>4. e = {} => qt \subseteq T
    BY <2>2 DEF Rep, Vec
  <2>5. CASE et = {}
    BY <1>1, <2>1, <2>3, <2>4, <2>5 DEF Covers
  <2>6. CASE et # {}
    <3>1. f \in EnableTracked /\ f \in OneBitFlops
      BY <1>6, <2>6 DEF Handled, EnableTracked, OneBitFlops
    <3>2. EnableReach(f, et) = {0}
      BY <2>6, <3>1 DEF EnableReach, EnableTracked
    <3>3. d \subseteq {0} /\ dd \subseteq {0} /\ q \subseteq {0} /\ qq \subseteq {0}
      BY <3>1
    <3>4. (Xor(d, q) \cup dt \cup qt) \cap {0} \subseteq T
      BY <2>2, <3>2
    <3>5. Xor(O, P) \subseteq {0} /\ Xor(O, P) \subseteq Xor(d, q) \cup dt \cup qt
      BY <2>1, <3>3 DEF Covers, Xor
    <3> QED
      BY <3>4, <3>5 DEF Covers
  <2> QED
    BY <2>5, <2>6
<1> QED
  BY <1>3, <1>4, <1>5, <1>6

LEMMA OutType ==
    ASSUME NEW c \in Stateless, NEW a \in Vec, NEW b \in Vec, NEW s \in SUBSET {0},
           NEW signed \in BOOLEAN
    PROVE  /\ Out(c, a, b, s, signed) \in Vec
           /\ c \in OneBit => Out(c, a, b, s, signed) \in SUBSET {0}
<1>1. 0 \in Bits
  BY WidthAssumption DEF Bits
<1>2. \A p : Bit(p) \in SUBSET {0} /\ Bit(p) \in Vec
  BY <1>1 DEF Bit, Vec
<1>3. CASE c \in OneBit
  BY <1>2, <1>3 DEF Out, OneBit
<1>4. CASE c \notin OneBit
  <2>1. \A v, n : /\ Shift(v, n) \in Vec /\ Sshr(v, n, signed) \in Vec
                  /\ Carry(v, n) \in Vec /\ Borrow(v, n) \in Vec
                  /\ Mul(v, n) \in Vec /\ Inv(v) \in Vec
    BY DEF Shift, Sshr, Carry, Borrow, Mul, Inv, Vec
  <2>2. \A v, w \in Vec : v \cap w \in Vec /\ v \cup w \in Vec /\ Xor(v, w) \in Vec /\ {} \in Vec
    BY DEF Vec, Xor
  <2>3. \A v, w \in Vec : Add(v, w) \in Vec /\ Sub(v, w) \in Vec /\ Neg(v) \in Vec
    BY <2>1, <2>2 DEF Add, Sub, Neg
  <2> QED
    BY <1>4, <2>1, <2>2, <2>3 DEF Out, Stateless
<1> QED
  BY <1>3, <1>4

\* One OR reduction of all taints: without any, both runs compute the same.
LEMMA ConjunctiveSound ==
    ASSUME NEW c \in Stateless,
           NEW a \in Vec, NEW x \in Vec, NEW at \in Vec, Covers(at, a, x),
           NEW b \in Vec, NEW y \in Vec, NEW bt \in Vec, Covers(bt, b, y),
           NEW s \in SUBSET {0}, NEW u \in SUBSET {0}, NEW st \in SUBSET {0}, Covers(st, s, u),
           NEW signed \in BOOLEAN
    PROVE  LET v == Out(c, a, b, s, signed)
               w == Out(c, x, y, u, signed)
           IN  /\ c \in OneInput => Covers(conjunctive_one_input(at), v, w)
               /\ c # "$mux" => Covers(conjunctive_two_inputs(at, bt), v, w)
               /\ Covers(conjunctive_three_inputs(at, bt, st), v, w)
<1>1. Out(c, a, b, s, signed) \in Vec /\ Out(c, x, y, u, signed) \in Vec
  BY OutType
<1>2. \A p : p => Covers(Rep(p), Out(c, a, b, s, signed), Out(c, x, y, u, signed))
  BY <1>1 DEF Covers, Rep, Xor, Vec
<1>3. /\ at = {} => a = x
      /\ bt = {} => b = y
      /\ st = {} => s = u
  BY DEF Covers, Xor
<1>4. \A t, v : Covers(t, v, v)
  BY DEF Covers, Xor
<1>5. c \in OneInput /\ at = {} => Out(c, a, b, s, signed) = Out(c, x, y, u, signed)
  BY <1>3 DEF OneInput, Out
<1>6. c # "$mux" /\ at \cup bt = {} => Out(c, a, b, s, signed) = Out(c, x, y, u, signed)
  BY <1>3 DEF Stateless, OneBit, Out
<1>7. at \cup bt \cup st = {} => Out(c, a, b, s, signed) = Out(c, x, y, u, signed)
  BY <1>3
<1> QED
  BY <1>2, <1>4, <1>5, <1>6, <1>7 DEF conjunctive_one_input, conjunctive_two_inputs,
                                      conjunctive_three_inputs

-----------------------------------------------------------------------------
(* Induction over the positions of a vector, stated of the set of numbers that
   have the property, and the numbers that vectors stand for. *)
\* A set of numbers has a least one.
LEMMA LeastOf ==
    ASSUME NEW T \in SUBSET Nat, T # {}
    PROVE  \E x \in T : \A y \in T : x <= y
<1> DEFINE R == OpToRel(<, Nat)
<1>1. IsWellFoundedOn(R, Nat)
  BY NatLessThanWellFounded, Zenon
<1>2. \A x, y : <<x, y>> \in R <=> x \in Nat /\ y \in Nat /\ x < y
  BY DEF OpToRel
<1> HIDE DEF R
<1>3. PICK x \in T : \A y \in T : <<y, x>> \notin R
  BY <1>1, WFMin
<1>4. \A y \in T : x <= y
  <2> TAKE y \in T
  <2>1. x \in Nat /\ y \in Nat /\ ~(y < x)
    BY <1>2, <1>3
  <2> QED  BY <2>1
<1> QED  BY <1>4

\* A set that has 0, and with a number the next, has all numbers.
LEMMA Induction ==
    ASSUME NEW S, 0 \in S, \A n \in Nat : n \in S => n + 1 \in S
    PROVE  Nat \subseteq S
<1> SUFFICES ASSUME NEW n \in Nat, n \notin S PROVE FALSE
  OBVIOUS
<1> DEFINE T == {m \in Nat : m \notin S}
<1>1. PICK x \in T : \A y \in T : x <= y
  <2>1. T \in SUBSET Nat /\ T # {}
    OBVIOUS
  <2> HIDE DEF T
  <2> QED  BY <2>1, LeastOf
<1>2. x # 0 /\ x - 1 \in Nat
  BY <1>1
<1>3. x - 1 \in S
  BY <1>1, <1>2
<1> QED  BY <1>1, <1>2, <1>3

\* The recursion of Num: g[i] is the number of the i highest bits.
One(b, i) == IF Width - i \in b THEN 1 ELSE 0
Counts(b, g, n) ==
    g \in [0 .. n -> Nat] /\ g[0] = 0 /\ \A i \in 1 .. n : g[i] = 2 * g[i - 1] + One(b, i)

\* There is such a function: the one that Num chooses.
LEMMA CountsExist ==
    ASSUME NEW b, NEW n \in Nat
    PROVE  \E g : Counts(b, g, n)
<1> DEFINE S == {m \in Nat : \E g : Counts(b, g, m)}
<1>1. 0 \in S
  <2>1. Counts(b, [i \in 0 .. 0 |-> 0], 0)
    BY DEF Counts
  <2> QED
    BY <2>1
<1>2. ASSUME NEW m \in Nat, m \in S PROVE m + 1 \in S
  <2>1. PICK h : Counts(b, h, m)
    BY <1>2
  <2> DEFINE x == 2 * h[m] + One(b, m + 1)
             g == [i \in 0 .. (m + 1) |-> IF i = m + 1 THEN x ELSE h[i]]
  <2>2. h \in [0 .. m -> Nat] /\ h[0] = 0 /\ h[m] \in Nat
    BY <2>1 DEF Counts
  <2>3. x \in Nat
    BY <2>2 DEF One
  <2>4. \A i \in 1 .. m : h[i] = 2 * h[i - 1] + One(b, i)
    BY <2>1 DEF Counts
  <2> HIDE DEF x
  <2>5. g \in [0 .. (m + 1) -> Nat] /\ g[0] = 0
    BY <2>2, <2>3
  <2>6. ASSUME NEW i \in 1 .. (m + 1) PROVE g[i] = 2 * g[i - 1] + One(b, i)
    <3>1. CASE i = m + 1
      BY <2>2, <3>1 DEF x
    <3>2. CASE i # m + 1
      BY <2>2, <2>4, <3>2
    <3> QED
      BY <3>1, <3>2
  <2> HIDE DEF g
  <2>7. Counts(b, g, m + 1)
    BY <2>5, <2>6 DEF Counts
  <2> QED
    BY <2>7
<1> HIDE DEF S
<1>3. n \in S
  BY <1>1, <1>2, Induction
<1> QED
  BY <1>3 DEF S

LEMMA NumCounts ==
    ASSUME NEW b
    PROVE  \E g : Counts(b, g, Width) /\ Num(b) = g[Width]
<1> DEFINE f == CHOOSE f : f = [i \in 0 .. Width |->
                    IF i = 0 THEN 0 ELSE 2 * f[i - 1] + (IF Width - i \in b THEN 1 ELSE 0)]
<1>1. Width \in Nat
  BY WidthAssumption
<1>2. PICK g : Counts(b, g, Width)
  BY <1>1, CountsExist
<1>3. Num(b) = f[Width]
  BY DEF Num
<1>4. g = [i \in 0 .. Width |->
              IF i = 0 THEN 0 ELSE 2 * g[i - 1] + (IF Width - i \in b THEN 1 ELSE 0)]
  BY <1>2 DEF Counts, One
<1>5. f = [i \in 0 .. Width |->
              IF i = 0 THEN 0 ELSE 2 * f[i - 1] + (IF Width - i \in b THEN 1 ELSE 0)]
  BY <1>4
<1> HIDE DEF f
<1>6. f[0] = 0 /\ \A i \in 1 .. Width : f[i] = 2 * f[i - 1] + One(b, i)
  <2>1. \A i \in 0 .. Width :
          f[i] = IF i = 0 THEN 0 ELSE 2 * f[i - 1] + (IF Width - i \in b THEN 1 ELSE 0)
    BY <1>5, Zenon
  <2>2. 0 \in 0 .. Width /\ \A i \in 1 .. Width : i \in 0 .. Width /\ i # 0
    BY <1>1
  <2> QED
    BY <2>1, <2>2, Zenon DEF One
<1>7. f[Width] = g[Width]
  <2> DEFINE S == {i \in Nat : i <= Width => f[i] = g[i]}
  <2>1. 0 \in S
    BY <1>2, <1>6 DEF Counts
  <2>2. ASSUME NEW i \in Nat, i \in S PROVE i + 1 \in S
    <3> SUFFICES ASSUME i + 1 <= Width PROVE f[i + 1] = g[i + 1]
      OBVIOUS
    <3>1. i + 1 \in 1 .. Width /\ (i + 1) - 1 = i /\ f[i] = g[i]
      BY <1>1, <2>2
    <3> QED
      BY <1>2, <1>6, <3>1 DEF Counts
  <2> HIDE DEF S
  <2>3. Width \in S
    BY <1>1, <2>1, <2>2, Induction
  <2> QED
    BY <2>3 DEF S
<1> QED
  BY <1>2, <1>3, <1>7

\* The numbers of vectors without a common bit add up to that of their union.
LEMMA NumSum ==
    ASSUME NEW x, NEW y, x \cap y = {}
    PROVE  Num(x) \in Nat /\ Num(y) \in Nat /\ Num(x \cup y) = Num(x) + Num(y)
<1>1. PICK f : Counts(x, f, Width) /\ Num(x) = f[Width]
  BY NumCounts
<1>2. PICK g : Counts(y, g, Width) /\ Num(y) = g[Width]
  BY NumCounts
<1>3. PICK h : Counts(x \cup y, h, Width) /\ Num(x \cup y) = h[Width]
  BY NumCounts
<1>4. Width \in Nat
  BY WidthAssumption
<1>5. \A i : One(x \cup y, i) = One(x, i) + One(y, i)
  BY DEF One
<1> DEFINE S == {i \in Nat : i <= Width => h[i] = f[i] + g[i]}
<1>6. 0 \in S
  BY <1>1, <1>2, <1>3 DEF Counts
<1>7. ASSUME NEW i \in Nat, i \in S PROVE i + 1 \in S
  <2> SUFFICES ASSUME i + 1 <= Width PROVE h[i + 1] = f[i + 1] + g[i + 1]
    OBVIOUS
  <2>1. i + 1 \in 1 .. Width /\ i \in 0 .. Width /\ (i + 1) - 1 = i /\ h[i] = f[i] + g[i]
    BY <1>4, <1>7
  <2>2. f[i] \in Nat /\ g[i] \in Nat
    BY <1>1, <1>2, <2>1 DEF Counts
  <2>3. /\ f[i + 1] = 2 * f[i] + One(x, i + 1)
        /\ g[i + 1] = 2 * g[i] + One(y, i + 1)
        /\ h[i + 1] = 2 * h[i] + One(x \cup y, i + 1)
    BY <1>1, <1>2, <1>3, <2>1 DEF Counts
  <2>4. /\ One(x, i + 1) \in Nat /\ One(y, i + 1) \in Nat
        /\ One(x \cup y, i + 1) = One(x, i + 1) + One(y, i + 1)
    BY <1>5 DEF One
  <2>5. \A m, n, p, q, r \in Nat :
          m = n + p => 2 * m + (q + r) = (2 * n + q) + (2 * p + r)
    OBVIOUS
  <2>6. h[i] \in Nat
    BY <2>1, <2>2
  <2> QED
    BY <2>1, <2>2, <2>3, <2>4, <2>5, <2>6
<1> HIDE DEF S
<1>8. Width \in S
  BY <1>4, <1>6, <1>7, Induction
<1>9. f[Width] \in Nat /\ g[Width] \in Nat
  BY <1>1, <1>2, <1>4 DEF Counts
<1> QED
  BY <1>1, <1>2, <1>3, <1>4, <1>8, <1>9 DEF S

\* A variant of an amount is the amount of its untainted bits and what some of
\* the tainted ones add, which is at most what all of them add.
LEMMA NumVariant ==
    ASSUME NEW b, NEW y, NEW bt, Covers(bt, b, y)
    PROVE  LET n == Num(Least(b, bt))
               k == Num(y \cap bt)
           IN  /\ n \in Nat /\ k \in Nat /\ Num(y) = n + k
               /\ Reaches(bt, k) /\ k <= Num(bt) /\ Num(bt) \in Nat
<1>1. y = Least(b, bt) \cup (y \cap bt) /\ Least(b, bt) \cap (y \cap bt) = {}
  BY DEF Covers, Xor, Least
<1>2. bt = (y \cap bt) \cup (bt \ y) /\ (y \cap bt) \cap (bt \ y) = {}
  OBVIOUS
<1>3. /\ Num(Least(b, bt)) \in Nat /\ Num(y \cap bt) \in Nat
      /\ Num(y) = Num(Least(b, bt)) + Num(y \cap bt)
  BY <1>1, NumSum
<1>4. Num(bt \ y) \in Nat /\ Num(bt) = Num(y \cap bt) + Num(bt \ y)
  BY <1>2, NumSum
<1>5. Reaches(bt, Num(y \cap bt))
  BY DEF Reaches
<1> QED
  BY <1>3, <1>4, <1>5

-----------------------------------------------------------------------------
(* The precise shifts. *)
LEMMA NumNat ==
    ASSUME NEW b
    PROVE  Num(b) \in Nat
<1>1. b \cap {} = {}
  OBVIOUS
<1> QED
  BY <1>1, NumSum

LEMMA OffsetInt ==
    ASSUME NEW b, NEW signed
    PROVE  Offset(b, signed) \in Int
BY NumNat DEF Offset

LEMMA BitRange ==
    ASSUME NEW i
    PROVE  /\ Width \in Nat /\ Msb \in Int /\ Msb = Width - 1
           /\ i \in Bits <=> i \in Int /\ 0 <= i /\ i <= Msb
BY WidthAssumption DEF Bits, Msb

LEMMA BitOfVec ==
    ASSUME NEW v \in Vec, NEW i \in v
    PROVE  i \in Bits
BY DEF Vec

\* Where the logic sees no taint, every shift by a variant of the amount moves
\* the same bit there as the shift by the untainted part does.
LEMMA ShlStays ==
    ASSUME NEW a \in Vec, NEW x \in Vec, NEW at \in Vec, Covers(at, a, x),
           NEW b \in Vec, NEW y \in Vec, NEW bt \in Vec, Covers(bt, b, y),
           NEW i \in Bits, i \notin cellift_shl_sshl_precise(a, b, at, bt)
    PROVE  i \in Shift(x, 0 - Num(y)) <=> i \in Shift(a, 0 - Num(Least(b, bt)))
<1> DEFINE n == Num(Least(b, bt))
           m == Num(y \cap bt)
           N == Num(bt)
           ia == Shift(a, 0 - n)
           it == Shift(at, 0 - n)
<1>0. i \in Int /\ 0 <= i /\ i <= Msb /\ Msb \in Int /\ Msb = Width - 1 /\ Width \in Nat
  BY BitRange
<1>1. /\ n \in Nat /\ m \in Nat /\ Num(y) = n + m
      /\ Reaches(bt, m) /\ m <= N /\ N \in Nat
  BY NumVariant
<1>2. /\ i \notin it
      /\ \A k \in 1 .. i : Reaches(bt, k) => (i \in ia) = (i - k \in ia) /\ i - k \notin it
      /\ N > i => i \notin ia
  BY DEF cellift_shl_sshl_precise
<1>3. \A j : (j \in x) # (j \in a) => j \in at
  BY CoversMember
<1> HIDE DEF n, m, N
<1>4. /\ \A j \in Bits : /\ j \in ia <=> j + (0 - n) \in a
                         /\ j \in it <=> j + (0 - n) \in at
      /\ i \in Shift(x, 0 - Num(y)) <=> i + (0 - (n + m)) \in x
  BY <1>1 DEF Shift
<1> HIDE DEF ia, it
<1>5. CASE m = 0
  BY <1>1, <1>2, <1>3, <1>4, <1>5 DEF n, ia
<1>6. CASE m \in 1 .. i
  <2>1. i - m \in Bits /\ (i - m) + (0 - n) = i + (0 - (n + m))
    <3>1. i \in Int /\ m \in Int /\ n \in Int /\ 0 <= i - m /\ i - m <= i
      BY <1>0, <1>1, <1>6
    <3>2. i - m \in Int /\ i - m <= Msb
      BY <1>0, <3>1
    <3> QED
      BY <3>1, <3>2, BitRange
  <2>2. (i \in ia) = (i - m \in ia) /\ i - m \notin it
    BY <1>1, <1>2, <1>6
  <2> QED
    BY <1>3, <1>4, <2>1, <2>2 DEF n, ia
<1>7. CASE m > i
  <2>1. i + (0 - (n + m)) \notin x
    <3>1. i + (0 - (n + m)) < 0
      BY <1>0, <1>1, <1>7
    <3> QED
      BY <3>1, BitOfVec, BitRange
  <2>2. i \notin ia
    BY <1>0, <1>1, <1>2, <1>7
  <2> QED
    BY <1>4, <2>1, <2>2 DEF n, ia
<1> QED
  BY <1>0, <1>1, <1>5, <1>6, <1>7

LEMMA ShrStays ==
    ASSUME NEW a \in Vec, NEW x \in Vec, NEW at \in Vec, Covers(at, a, x),
           NEW b \in Vec, NEW y \in Vec, NEW bt \in Vec, Covers(bt, b, y),
           NEW i \in Bits, i \notin cellift_shr(a, b, at, bt)
    PROVE  i \in Shift(x, Num(y)) <=> i \in Shift(a, Num(Least(b, bt)))
<1> DEFINE n == Num(Least(b, bt))
           m == Num(y \cap bt)
           N == Num(bt)
           ia == Shift(a, n)
           it == Shift(at, n)
<1>0. i \in Int /\ 0 <= i /\ i <= Msb /\ Msb \in Int /\ Msb = Width - 1 /\ Width \in Nat
  BY BitRange
<1>1. /\ n \in Nat /\ m \in Nat /\ Num(y) = n + m
      /\ Reaches(bt, m) /\ m <= N /\ N \in Nat
  BY NumVariant
<1>2. /\ i \notin it
      /\ \A k \in 1 .. (Msb - i) : Reaches(bt, k) => (i \in ia) = (i + k \in ia) /\ i + k \notin it
      /\ N >= Width - i => i \notin ia
  BY DEF cellift_shr
<1>3. \A j : (j \in x) # (j \in a) => j \in at
  BY CoversMember
<1> HIDE DEF n, m, N
<1>4. /\ \A j \in Bits : /\ j \in ia <=> j + n \in a
                         /\ j \in it <=> j + n \in at
      /\ i \in Shift(x, Num(y)) <=> i + (n + m) \in x
  BY <1>1 DEF Shift
<1> HIDE DEF ia, it
<1>5. CASE m = 0
  BY <1>1, <1>2, <1>3, <1>4, <1>5 DEF n, ia
<1>6. CASE m \in 1 .. (Msb - i)
  <2>1. i + m \in Bits /\ (i + m) + n = i + (n + m)
    <3>1. i \in Int /\ m \in Int /\ n \in Int /\ 0 <= i + m /\ i + m <= Msb
      BY <1>0, <1>1, <1>6
    <3> QED
      BY <3>1, BitRange
  <2>2. (i \in ia) = (i + m \in ia) /\ i + m \notin it
    BY <1>1, <1>2, <1>6
  <2> QED
    BY <1>3, <1>4, <2>1, <2>2 DEF n, ia
<1>7. CASE m > Msb - i
  <2>1. i + (n + m) \notin x
    <3>1. i + (n + m) > Msb
      BY <1>0, <1>1, <1>7
    <3> QED
      BY <3>1, BitOfVec, BitRange
  <2>2. i \notin ia
    BY <1>0, <1>1, <1>2, <1>7
  <2> QED
    BY <1>4, <2>1, <2>2 DEF n, ia
<1> QED
  BY <1>0, <1>1, <1>5, <1>6, <1>7

\* What b may stand for.
Offsets(b, bt, signed) == {Offset(Least(b, bt) \cup y, signed) : y \in SUBSET bt}

LEMMA OffsetOfVariant ==
    ASSUME NEW b, NEW y, NEW bt, Covers(bt, b, y), NEW signed
    PROVE  Offset(y, signed) \in Offsets(b, bt, signed)
<1>1. y = Least(b, bt) \cup (y \cap bt)
  BY DEF Covers, Xor, Least
<1>2. y \cap bt \in SUBSET bt
  OBVIOUS
<1> QED
  BY <1>1, <1>2, Zenon DEF Offsets

LEMMA ShiftxStays ==
    ASSUME NEW a \in Vec, NEW x \in Vec, NEW at \in Vec, Covers(at, a, x),
           NEW b \in Vec, NEW y \in Vec, NEW bt \in Vec, Covers(bt, b, y),
           NEW signed, NEW i \in Bits,
           i \notin cellift_shift_shiftx_precise(a, b, at, bt, signed)
    PROVE  i \in Shift(x, Offset(y, signed)) <=> i \in Shift(a, Offset(b, signed))
<1> DEFINE O == Offsets(b, bt, signed)
           n == Offset(b, signed)
           m == Offset(y, signed)
           from == {h \in Bits : h - i \in O}
<1>1. n \in O /\ m \in O /\ n \in Int /\ m \in Int
  <2>1. Covers(bt, b, b)
    BY DEF Covers, Xor
  <2> QED
    BY <2>1, OffsetOfVariant, OffsetInt
<1>2. /\ from \cap at = {}
      /\ \A h, l \in from : (h \in a) = (l \in a)
      /\ from \cap Most(a, at) # {} => \A k \in O : i + k \in Bits
  BY DEF cellift_shift_shiftx_precise, Offsets
<1>3. \A j : (j \in x) # (j \in a) => j \in at
  BY CoversMember
<1>0. i \in Int
  BY BitRange
<1> HIDE DEF O, n, m
<1>9. (i + n) - i = n /\ (i + m) - i = m
  BY <1>0, <1>1
<1>4. /\ i \in Shift(x, m) <=> i + m \in x
      /\ i \in Shift(a, n) <=> i + n \in a
      /\ i + n \in Bits => i + n \in from
      /\ i + m \in Bits => i + m \in from
      /\ i + n \in a => i + n \in Bits
      /\ i + m \in x => i + m \in Bits
      /\ \A h \in from : h \in a => h \in Most(a, at)
  BY <1>1, <1>9, BitOfVec DEF Shift, Most
<1> HIDE DEF from
<1>5. i + n \in Bits /\ i + m \in Bits => (i + m \in x <=> i + n \in a)
  BY <1>2, <1>3, <1>4
<1>6. i + n \in a => i + m \in Bits
  BY <1>1, <1>2, <1>4
<1>7. i + m \in x => i + n \in Bits
  BY <1>1, <1>2, <1>3, <1>4
<1> QED
  BY <1>4, <1>5, <1>6, <1>7 DEF n, m

LEMMA PreciseShiftSound ==
    ASSUME NEW a \in Vec, NEW x \in Vec, NEW at \in Vec, Covers(at, a, x),
           NEW b \in Vec, NEW y \in Vec, NEW bt \in Vec, Covers(bt, b, y), NEW signed
    PROVE  /\ Covers(cellift_shl_sshl_precise(a, b, at, bt),
                     Shift(a, 0 - Num(b)), Shift(x, 0 - Num(y)))
           /\ Covers(cellift_shr(a, b, at, bt), Shift(a, Num(b)), Shift(x, Num(y)))
           /\ Covers(cellift_shift_shiftx_precise(a, b, at, bt, signed),
                     Shift(a, Offset(b, signed)), Shift(x, Offset(y, signed)))
<1>1. Covers(at, a, a) /\ Covers(bt, b, b)
  BY DEF Covers, Xor
<1>2. \A v, n : Shift(v, n) \subseteq Bits
  BY DEF Shift
<1>3. Covers(cellift_shl_sshl_precise(a, b, at, bt), Shift(a, 0 - Num(b)), Shift(x, 0 - Num(y)))
  BY <1>1, <1>2, ShlStays, CoversMember
<1>4. Covers(cellift_shr(a, b, at, bt), Shift(a, Num(b)), Shift(x, Num(y)))
  BY <1>1, <1>2, ShrStays, CoversMember
<1>5. Covers(cellift_shift_shiftx_precise(a, b, at, bt, signed),
             Shift(a, Offset(b, signed)), Shift(x, Offset(y, signed)))
  BY <1>1, <1>2, ShiftxStays, CoversMember
<1> QED
  BY <1>3, <1>4, <1>5

-----------------------------------------------------------------------------
(* The RTLIFT adder computes the taint of the CellIFT one. *)
\* The carry into any position, the one past the end included.
CarryInto(a, b, i) ==
    \E j \in Bits : /\ j < i
                    /\ j \in a \cap b
                    /\ \A k \in Bits : j < k /\ k < i => k \in a \cup b

LEMMA CarryStep ==
    ASSUME NEW a \in Vec, NEW b \in Vec
    PROVE  /\ ~CarryInto(a, b, 0)
           /\ \A i \in Bits : CarryInto(a, b, i + 1) <=>
                                 \/ i \in a /\ i \in b
                                 \/ (i \in a \/ i \in b) /\ CarryInto(a, b, i)
<1>0. Bits \subseteq Nat
  BY WidthAssumption DEF Bits
<1>1. ~CarryInto(a, b, 0)
  BY <1>0 DEF CarryInto
<1>2. ASSUME NEW i \in Bits, CarryInto(a, b, i + 1)
      PROVE  (i \in a /\ i \in b) \/ ((i \in a \/ i \in b) /\ CarryInto(a, b, i))
  <2>1. PICK j \in Bits : /\ j < i + 1 /\ j \in a \cap b
                          /\ \A k \in Bits : j < k /\ k < i + 1 => k \in a \cup b
    BY <1>2 DEF CarryInto
  <2>2. CASE j = i
    BY <2>1, <2>2
  <2>3. CASE j # i
    <3>1. j < i
      BY <1>0, <2>1, <2>3
    <3>2. i \in a \cup b
      BY <1>0, <2>1, <3>1
    <3>3. \A k \in Bits : j < k /\ k < i => k \in a \cup b
      BY <1>0, <2>1
    <3> QED
      BY <2>1, <3>1, <3>2, <3>3 DEF CarryInto
  <2> QED
    BY <2>2, <2>3
<1>3. ASSUME NEW i \in Bits, i \in a, i \in b
      PROVE  CarryInto(a, b, i + 1)
  <2>1. i < i + 1 /\ \A k \in Bits : ~(i < k /\ k < i + 1)
    BY <1>0
  <2> QED
    BY <1>3, <2>1 DEF CarryInto
<1>4. ASSUME NEW i \in Bits, i \in a \/ i \in b, CarryInto(a, b, i)
      PROVE  CarryInto(a, b, i + 1)
  <2>1. PICK j \in Bits : /\ j < i /\ j \in a \cap b
                          /\ \A k \in Bits : j < k /\ k < i => k \in a \cup b
    BY <1>4 DEF CarryInto
  <2>2. j < i + 1 /\ \A k \in Bits : k < i + 1 => k < i \/ k = i
    BY <1>0, <2>1
  <2>3. \A k \in Bits : j < k /\ k < i + 1 => k \in a \cup b
    BY <1>4, <2>1, <2>2
  <2> QED
    BY <2>1, <2>2, <2>3 DEF CarryInto
<1> QED
  BY <1>1, <1>2, <1>3, <1>4

LEMMA CarryIntoBits ==
    ASSUME NEW a, NEW b, NEW i \in Bits
    PROVE  i \in Carry(a, b) <=> CarryInto(a, b, i)
BY DEF Carry, CarryInto

LEMMA CarryIntoMonotone ==
    ASSUME NEW a, NEW b, NEW x, NEW y, a \subseteq x, b \subseteq y, NEW i, CarryInto(a, b, i)
    PROVE  CarryInto(x, y, i)
BY DEF CarryInto

\* The two adders are one: on the chain of full adders the carry that is
\* tainted is the carry on which the sums of the extremes differ, so that the
\* option -rtlift changes the circuit and never a taint (add.cc).
THEOREM RtliftIsCellift ==
    ASSUME NEW a \in Vec, NEW at \in Vec, NEW b \in Vec, NEW bt \in Vec
    PROVE  rtlift_add(a, b, at, bt) = cellift_add(a, b, at, bt)
<1> DEFINE la == Least(a, at)   ma == Most(a, at)
           lb == Least(b, bt)   mb == Most(b, bt)
           mid(i) == CarryInto(a, b, i)
           low(i) == CarryInto(la, lb, i)
           high(i) == CarryInto(ma, mb, i)
           step(f, i) ==
             IF i = 0 THEN [val |-> FALSE, taint |-> FALSE]
             ELSE LET p == (i - 1) \in a      pt == (i - 1) \in at
                      q == (i - 1) \in b      qt == (i - 1) \in bt
                      c == f[i - 1].val   ct == f[i - 1].taint
                  IN  [val   |-> (p /\ q) \/ ((p # q) /\ c),
                       taint |-> \/ pt /\ (qt \/ ct \/ q # c)
                                 \/ qt /\ (ct \/ p # c)
                                 \/ ct /\ p # q]
           g == [i \in 0 .. Width |-> [val |-> mid(i), taint |-> high(i) /\ ~low(i)]]
           f == CHOOSE h : h = [i \in 0 .. Width |-> step(h, i)]
<1>1. la \in Vec /\ lb \in Vec /\ ma \in Vec /\ mb \in Vec
  BY DEF Least, Most, Vec
<1>2. \A i : (low(i) => mid(i)) /\ (mid(i) => high(i))
  <2>1. la \subseteq a /\ lb \subseteq b /\ a \subseteq ma /\ b \subseteq mb
    BY DEF Least, Most
  <2> QED
    BY <2>1, CarryIntoMonotone
<1>3. \A i : mid(i) \in BOOLEAN /\ low(i) \in BOOLEAN /\ high(i) \in BOOLEAN
  BY DEF CarryInto
<1>4. ~mid(0) /\ ~low(0) /\ ~high(0)
  BY <1>1, CarryStep
<1>5. ASSUME NEW i \in Bits
      PROVE  LET p == i \in a   pt == i \in at
                 q == i \in b   qt == i \in bt
                 ct == high(i) /\ ~low(i)
             IN  /\ mid(i + 1) <=> (p /\ q) \/ ((p # q) /\ mid(i))
                 /\ high(i + 1) /\ ~low(i + 1) <=> \/ pt /\ (qt \/ ct \/ q # mid(i))
                                                   \/ qt /\ (ct \/ p # mid(i))
                                                   \/ ct /\ p # q
  <2>1. /\ mid(i + 1) <=> (i \in a /\ i \in b) \/ ((i \in a \/ i \in b) /\ mid(i))
        /\ low(i + 1) <=> (i \in la /\ i \in lb) \/ ((i \in la \/ i \in lb) /\ low(i))
        /\ high(i + 1) <=> (i \in ma /\ i \in mb) \/ ((i \in ma \/ i \in mb) /\ high(i))
    BY <1>1, CarryStep
  <2>2. /\ i \in la <=> i \in a /\ i \notin at
        /\ i \in ma <=> i \in a \/ i \in at
        /\ i \in lb <=> i \in b /\ i \notin bt
        /\ i \in mb <=> i \in b \/ i \in bt
    BY DEF Least, Most
  <2> HIDE DEF mid, low, high, la, ma, lb, mb
  <2>3. /\ (i \in a) \in BOOLEAN /\ (i \in at) \in BOOLEAN
        /\ (i \in b) \in BOOLEAN /\ (i \in bt) \in BOOLEAN
    OBVIOUS
  <2> QED
    BY <1>2, <1>3, <2>1, <2>2
<1> HIDE DEF mid, low, high
<1>6. g = [i \in 0 .. Width |-> step(g, i)]
  <2>1. ASSUME NEW i \in 0 .. Width PROVE g[i] = step(g, i)
    <3>1. CASE i = 0
      <4>1. g[0] = [val |-> mid(0), taint |-> high(0) /\ ~low(0)]
        BY <3>1
      <4>2. mid(0) = FALSE /\ (high(0) /\ ~low(0)) = FALSE
        BY <1>3, <1>4
      <4> HIDE DEF g
      <4> QED
        BY <3>1, <4>1, <4>2
    <3>2. CASE i # 0
      <4>1. i - 1 \in Bits /\ i - 1 \in 0 .. Width /\ (i - 1) + 1 = i
        BY <3>2, WidthAssumption DEF Bits
      <4>2. g[i - 1] = [val |-> mid(i - 1), taint |-> high(i - 1) /\ ~low(i - 1)]
        BY <4>1
      <4>3. g[i - 1].val = mid(i - 1) /\ g[i - 1].taint = (high(i - 1) /\ ~low(i - 1))
        BY <4>2
      <4>4. g[i] = [val |-> mid(i), taint |-> high(i) /\ ~low(i)]
        OBVIOUS
      <4> HIDE DEF g
      <4> QED
        BY <1>3, <1>5, <3>2, <4>1, <4>3, <4>4
    <3> QED
      BY <3>1, <3>2
  <2> HIDE DEF step
  <2> QED
    BY <2>1
<1>7. f = [i \in 0 .. Width |-> step(f, i)]
  <2> HIDE DEF step, g
  <2> QED
    BY <1>6
<1>8. rtlift_add(a, b, at, bt) = {i \in Bits : i \in at \cup bt \/ f[i].taint}
  BY DEF rtlift_add
<1> HIDE DEF f, step
<1>9. \A i \in 0 .. Width : f[i] = step(f, i) /\ g[i] = step(g, i)
  BY <1>6, <1>7, Zenon
<1>10. \A i \in Bits : f[i] = g[i]
  <2> HIDE DEF g
  <2> DEFINE S == {i \in Nat : i <= Width => f[i] = g[i]}
  <2>1. 0 \in S
    <3>1. f[0] = step(f, 0) /\ g[0] = step(g, 0)
      BY <1>9, WidthAssumption
    <3> QED
      BY <3>1 DEF step
  <2>2. ASSUME NEW i \in Nat, i \in S PROVE i + 1 \in S
    <3> SUFFICES ASSUME i + 1 <= Width PROVE f[i + 1] = g[i + 1]
      OBVIOUS
    <3>1. i + 1 \in 0 .. Width /\ i + 1 # 0 /\ (i + 1) - 1 = i /\ f[i] = g[i]
      BY <2>2, WidthAssumption
    <3>2. f[i + 1] = step(f, i + 1) /\ g[i + 1] = step(g, i + 1)
      BY <1>9, <3>1, Zenon
    <3>3. step(f, i + 1) = step(g, i + 1)
      BY <3>1 DEF step
    <3> QED
      BY <3>2, <3>3
  <2> HIDE DEF S
  <2>3. Nat \subseteq S
    BY <2>1, <2>2, Induction
  <2>4. \A i \in Bits : i \in Nat /\ i <= Width
    BY WidthAssumption DEF Bits
  <2> QED
    BY <2>3, <2>4 DEF S
<1>11. ASSUME NEW i \in Bits PROVE f[i].taint <=> high(i) /\ ~low(i)
  <2>1. i \in 0 .. Width
    BY WidthAssumption DEF Bits
  <2>2. g[i] = [val |-> mid(i), taint |-> high(i) /\ ~low(i)]
    BY <2>1
  <2> HIDE DEF g
  <2>3. f[i] = [val |-> mid(i), taint |-> high(i) /\ ~low(i)]
    BY <1>10, <2>2
  <2>4. f[i].taint = (high(i) /\ ~low(i))
    BY <2>3
  <2> QED
    BY <2>4
<1>12. \A i \in Bits : (i \in Carry(la, lb) <=> low(i)) /\ (i \in Carry(ma, mb) <=> high(i))
  BY CarryIntoBits DEF low, high
<1>13. ASSUME NEW i \in Bits, i \notin at, i \notin bt
       PROVE  i \in Xor(Add(la, lb), Add(ma, mb)) <=> high(i) /\ ~low(i)
  <2>1. (i \in la <=> i \in ma) /\ (i \in lb <=> i \in mb)
    BY <1>13 DEF Least, Most
  <2> HIDE DEF la, ma, lb, mb
  <2> QED
    BY <1>2, <1>12, <2>1 DEF Xor, Add
<1>14. Xor(Add(la, lb), Add(ma, mb)) \subseteq Bits
  <2>1. \A v, w \in Vec : Xor(v, w) \in Vec /\ Carry(v, w) \in Vec
    BY DEF Xor, Carry, Vec
  <2> QED
    BY <1>1, <2>1 DEF Add, Vec
<1>15. at \subseteq Bits /\ bt \subseteq Bits
  BY DEF Vec
<1> HIDE DEF la, ma, lb, mb
<1> QED
  BY <1>8, <1>11, <1>13, <1>14, <1>15 DEF cellift_add, la, ma, lb, mb

-----------------------------------------------------------------------------
\* The logics whose soundness is proved here, whatever the width: the others
\* are not sound, or are not those of a stateless cell.
Proved == {"conjunctive_one_input", "conjunctive_two_inputs", "conjunctive_three_inputs",
           "cellift_and", "cellift_or", "cellift_xor", "cellift_not", "cellift_mux",
           "cellift_add", "rtlift_add", "cellift_neg", "cellift_eq_ne", "cellift_ge", "cellift_gt",
           "cellift_le", "cellift_lt", "cellift_logic_not", "cellift_logic_and",
           "cellift_logic_or", "cellift_reduce_and", "cellift_reduce_xor",
           "cellift_shl_sshl_imprecise", "cellift_shr_sshr_imprecise",
           "cellift_shiftx_imprecise", "cellift_shl_sshl_precise", "cellift_shr",
           "cellift_shift_shiftx_precise", "cellift_pmux_small_cells"}

LEMMA LogicOfCell ==
    ASSUME NEW c \in Stateless, Logic(c) \in Proved
    PROVE  \/ c \in OneInput /\ Logic(c) = "conjunctive_one_input"
           \/ c # "$mux" /\ Logic(c) = "conjunctive_two_inputs"
           \/ Logic(c) = "conjunctive_three_inputs"
           \/ Logic(c) = CellLogic(c) /\ CellLogic(c) \in Proved
BY DEF Logic, OneInput, ThreeInputs

LEMMA StatelessSound ==
    ASSUME NEW c \in Stateless, Logic(c) \in Proved,
           NEW a \in Vec, NEW x \in Vec, NEW at \in Vec, Covers(at, a, x),
           NEW b \in Vec, NEW y \in Vec, NEW bt \in Vec, Covers(bt, b, y),
           NEW s \in SUBSET {0}, NEW u \in SUBSET {0}, NEW st \in SUBSET {0}, Covers(st, s, u),
           NEW signed \in BOOLEAN, signed => c \in Signable
    PROVE  Covers(TaintBy(Logic(c), a, b, s, at, bt, st, signed),
                  Out(c, a, b, s, signed), Out(c, x, y, u, signed))
<1> DEFINE Sound(l) == Covers(TaintBy(l, a, b, s, at, bt, st, signed),
                              Out(c, a, b, s, signed), Out(c, x, y, u, signed))
<1>1. /\ c \in OneInput => Sound("conjunctive_one_input")
      /\ c # "$mux" => Sound("conjunctive_two_inputs")
      /\ Sound("conjunctive_three_inputs")
  BY ConjunctiveSound DEF TaintBy
<1>2. SUFFICES ASSUME CellLogic(c) \in Proved PROVE Sound(CellLogic(c))
  BY <1>1, LogicOfCell
<1> HIDE DEF Sound
<1>3. CASE c = "$and"
  <2>1. CellLogic(c) = "cellift_and"
    BY <1>2, <1>3 DEF CellLogic, Proved
  <2>2. Sound("cellift_and")
    BY <1>3, AndSound DEF Sound, Out, TaintBy
  <2> QED
    BY <2>1, <2>2
<1>4. CASE c = "$or"
  <2>1. CellLogic(c) = "cellift_or"
    BY <1>2, <1>4 DEF CellLogic, Proved
  <2>2. Sound("cellift_or")
    BY <1>4, OrSound DEF Sound, Out, TaintBy
  <2> QED
    BY <2>1, <2>2
<1>5. CASE c = "$xor"
  <2>1. CellLogic(c) = "cellift_xor"
    BY <1>2, <1>5 DEF CellLogic, Proved
  <2>2. Sound("cellift_xor")
    BY <1>5, XorSound DEF Sound, Out, TaintBy
  <2> QED
    BY <2>1, <2>2
<1>6. CASE c = "$not"
  <2>1. CellLogic(c) = "cellift_not"
    BY <1>2, <1>6 DEF CellLogic, Proved
  <2>2. Sound("cellift_not")
    BY <1>6, NotSound DEF Sound, Out, TaintBy
  <2> QED
    BY <2>1, <2>2
<1>7. CASE c = "$mux"
  <2>1. CellLogic(c) = "cellift_mux"
    BY <1>2, <1>7 DEF CellLogic, Proved
  <2>2. Sound("cellift_mux")
    BY <1>7, MuxSound DEF Sound, Out, TaintBy
  <2> QED
    BY <2>1, <2>2
<1>8. CASE c = "$add"
  <2>1. CellLogic(c) \in {"cellift_add", "rtlift_add"}
    BY <1>2, <1>8 DEF CellLogic, Proved
  <2>2. Sound("cellift_add")
    BY <1>8, AddSound DEF Sound, Out, TaintBy
  <2>3. Sound("rtlift_add")
    BY <1>8, AddSound, RtliftIsCellift DEF Sound, Out, TaintBy
  <2> QED
    BY <2>1, <2>2, <2>3
<1>9. CASE c = "$neg"
  <2>1. CellLogic(c) = "cellift_neg"
    BY <1>2, <1>9 DEF CellLogic, Proved
  <2>2. Sound("cellift_neg")
    BY <1>9, NegSound DEF Sound, Out, TaintBy
  <2> QED
    BY <2>1, <2>2
<1>10. CASE c = "$eq"
  <2>1. CellLogic(c) = "cellift_eq_ne"
    BY <1>2, <1>10 DEF CellLogic, Proved
  <2>2. Sound("cellift_eq_ne")
    BY <1>10, EqSound DEF Sound, Out, TaintBy
  <2> QED
    BY <2>1, <2>2
<1>11. CASE c = "$ne"
  <2>1. CellLogic(c) = "cellift_eq_ne"
    BY <1>2, <1>11 DEF CellLogic, Proved
  <2>2. Sound("cellift_eq_ne")
    BY <1>11, EqSound DEF Sound, Out, TaintBy
  <2> QED
    BY <2>1, <2>2
<1>12. CASE c = "$ge"
  <2>1. CellLogic(c) = "cellift_ge"
    BY <1>2, <1>12 DEF CellLogic, Proved
  <2>2. Sound("cellift_ge")
    BY <1>12, CompareSound DEF Sound, Out, TaintBy
  <2> QED
    BY <2>1, <2>2
<1>13. CASE c = "$gt"
  <2>1. CellLogic(c) = "cellift_gt"
    BY <1>2, <1>13 DEF CellLogic, Proved
  <2>2. Sound("cellift_gt")
    BY <1>13, CompareSound DEF Sound, Out, TaintBy
  <2> QED
    BY <2>1, <2>2
<1>14. CASE c = "$le"
  <2>1. CellLogic(c) = "cellift_le"
    BY <1>2, <1>14 DEF CellLogic, Proved
  <2>2. Sound("cellift_le")
    BY <1>14, CompareSound DEF Sound, Out, TaintBy
  <2> QED
    BY <2>1, <2>2
<1>15. CASE c = "$lt"
  <2>1. CellLogic(c) = "cellift_lt"
    BY <1>2, <1>15 DEF CellLogic, Proved
  <2>2. Sound("cellift_lt")
    BY <1>15, CompareSound DEF Sound, Out, TaintBy
  <2> QED
    BY <2>1, <2>2
<1>16. CASE c = "$logic_not"
  <2>1. CellLogic(c) = "cellift_logic_not"
    BY <1>2, <1>16 DEF CellLogic, Proved
  <2>2. Sound("cellift_logic_not")
    BY <1>16, ReduceSound DEF Sound, Out, TaintBy
  <2> QED
    BY <2>1, <2>2
<1>17. CASE c = "$logic_and"
  <2>1. CellLogic(c) = "cellift_logic_and"
    BY <1>2, <1>17 DEF CellLogic, Proved
  <2>2. Sound("cellift_logic_and")
    BY <1>17, LogicSound DEF Sound, Out, TaintBy
  <2> QED
    BY <2>1, <2>2
<1>18. CASE c = "$logic_or"
  <2>1. CellLogic(c) = "cellift_logic_or"
    BY <1>2, <1>18 DEF CellLogic, Proved
  <2>2. Sound("cellift_logic_or")
    BY <1>18, LogicSound DEF Sound, Out, TaintBy
  <2> QED
    BY <2>1, <2>2
<1>19. CASE c = "$reduce_or"
  <2>1. CellLogic(c) = "cellift_logic_not"
    BY <1>2, <1>19 DEF CellLogic, Proved
  <2>2. Sound("cellift_logic_not")
    BY <1>19, ReduceSound DEF Sound, Out, TaintBy
  <2> QED
    BY <2>1, <2>2
<1>20. CASE c = "$reduce_and"
  <2>1. CellLogic(c) = "cellift_reduce_and"
    BY <1>2, <1>20 DEF CellLogic, Proved
  <2>2. Sound("cellift_reduce_and")
    BY <1>20, ReduceSound DEF Sound, Out, TaintBy
  <2> QED
    BY <2>1, <2>2
<1>21. CASE c = "$reduce_xor"
  <2>1. CellLogic(c) = "cellift_reduce_xor"
    BY <1>2, <1>21 DEF CellLogic, Proved
  <2>2. Sound("cellift_reduce_xor")
    BY <1>21, ReduceSound DEF Sound, Out, TaintBy
  <2> QED
    BY <2>1, <2>2
<1>22. CASE c = "$shl"
  <2>1. CellLogic(c) \in {"cellift_shl_sshl_imprecise", "cellift_shl_sshl_precise"}
    BY <1>2, <1>22 DEF CellLogic, Proved
  <2>2. Sound("cellift_shl_sshl_imprecise")
    BY <1>22, ShiftSound DEF Sound, Out, TaintBy
  <2>3. Sound("cellift_shl_sshl_precise")
    BY <1>22, PreciseShiftSound DEF Sound, Out, TaintBy
  <2> QED
    BY <2>1, <2>2, <2>3
<1>23. CASE c = "$shr"
  <2>1. CellLogic(c) \in {"cellift_shr_sshr_imprecise", "cellift_shr"}
    BY <1>2, <1>23 DEF CellLogic, Proved
  <2>2. Sound("cellift_shr_sshr_imprecise")
    BY <1>23, ShiftSound DEF Sound, Out, TaintBy, Signable
  <2>3. Sound("cellift_shr")
    BY <1>23, PreciseShiftSound DEF Sound, Out, TaintBy
  <2> QED
    BY <2>1, <2>2, <2>3
<1>24. CASE c = "$sshr"
  <2>1. CellLogic(c) = "cellift_shr_sshr_imprecise"
    BY <1>2, <1>24 DEF CellLogic, Proved
  <2>2. Sound("cellift_shr_sshr_imprecise")
    BY <1>24, ShiftSound DEF Sound, Out, TaintBy
  <2> QED
    BY <2>1, <2>2
<1>25. CASE c = "$shiftx"
  <2>1. CellLogic(c) \in {"cellift_shiftx_imprecise", "cellift_shift_shiftx_precise"}
    BY <1>2, <1>25 DEF CellLogic, Proved
  <2>2. Sound("cellift_shiftx_imprecise")
    BY <1>25, ShiftSound DEF Sound, Out, TaintBy
  <2>3. Sound("cellift_shift_shiftx_precise")
    BY <1>25, PreciseShiftSound DEF Sound, Out, TaintBy
  <2> QED
    BY <2>1, <2>2, <2>3
<1>26. CASE c = "$shift"
  <2>1. CellLogic(c) \in {"cellift_shift_shiftx_precise"}
    BY <1>2, <1>26 DEF CellLogic, Proved
  <2>2. Sound("cellift_shift_shiftx_precise")
    BY <1>26, PreciseShiftSound DEF Sound, Out, TaintBy
  <2> QED
    BY <2>1, <2>2
<1>27. CASE c \in {"$mul", "$sub"}
  BY <1>2, <1>27 DEF CellLogic, Proved
<1> QED
  BY <1>3, <1>4, <1>5, <1>6, <1>7, <1>8, <1>9, <1>10, <1>11, <1>12, <1>13, <1>14,
     <1>15, <1>16, <1>17, <1>18, <1>19, <1>20, <1>21, <1>22, <1>23, <1>24, <1>25, <1>26,
     <1>27 DEF Stateless, OneBit

-----------------------------------------------------------------------------
LEMMA TaintByType ==
    ASSUME NEW l, NEW a \in Vec, NEW b \in Vec, NEW s \in SUBSET {0},
           NEW at \in Vec, NEW bt \in Vec, NEW st \in SUBSET {0}, NEW signed \in BOOLEAN
    PROVE  TaintBy(l, a, b, s, at, bt, st, signed) \in Vec
<1>1. \A p : Rep(p) \in Vec /\ Bit(p) \in Vec
  BY WidthAssumption DEF Rep, Bit, Bits, Vec
<1>2. \A v, n : /\ Shift(v, n) \in Vec /\ Sshr(v, n, signed) \in Vec
                /\ Carry(v, n) \in Vec /\ Borrow(v, n) \in Vec /\ Inv(v) \in Vec
  BY DEF Shift, Sshr, Carry, Borrow, Inv, Vec
<1>3. \A v, w \in Vec : v \cap w \in Vec /\ v \cup w \in Vec /\ Xor(v, w) \in Vec /\ {} \in Vec
  BY DEF Vec, Xor
<1>4. \A v, w \in Vec : Add(v, w) \in Vec /\ Sub(v, w) \in Vec /\ Neg(v) \in Vec
  BY <1>2, <1>3 DEF Add, Sub, Neg
<1>5. Least(a, at) \in Vec /\ Most(a, at) \in Vec /\ Least(b, bt) \in Vec /\ Most(b, bt) \in Vec
  BY DEF Least, Most, Vec
<1>6. /\ cellift_shl_sshl_precise(a, b, at, bt) \in Vec
      /\ cellift_shr(a, b, at, bt) \in Vec
      /\ cellift_sshr(a, b, at, bt, signed) \in Vec
      /\ cellift_shift_shiftx_precise(a, b, at, bt, signed) \in Vec
      /\ rtlift_add(a, b, at, bt) \in Vec
  BY DEF Vec, cellift_shl_sshl_precise, cellift_shr, cellift_sshr, cellift_shift_shiftx_precise,
         rtlift_add
<1>7. /\ conjunctive_one_input(at) \in Vec /\ conjunctive_two_inputs(at, bt) \in Vec
      /\ conjunctive_three_inputs(at, bt, st) \in Vec
      /\ cellift_shl_sshl_imprecise(b, at, bt) \in Vec
      /\ cellift_shr_sshr_imprecise(b, at, bt, signed) \in Vec
      /\ cellift_shiftx_imprecise(b, at, bt, signed) \in Vec
      /\ cellift_shift_imprecise(b, at, signed) \in Vec
  BY <1>1, <1>2, <1>3 DEF conjunctive_one_input, conjunctive_two_inputs, conjunctive_three_inputs,
         cellift_shl_sshl_imprecise, cellift_shr_sshr_imprecise, cellift_shiftx_imprecise,
         cellift_shift_imprecise
<1>8. /\ cellift_and(a, b, at, bt) \in Vec /\ cellift_or(a, b, at, bt) \in Vec
      /\ cellift_xor(at, bt) \in Vec /\ cellift_not(at) \in Vec
      /\ cellift_mux(a, b, s, at, bt, st) \in Vec
  BY DEF Vec, cellift_and, cellift_or, cellift_xor, cellift_not, cellift_mux, Xor
<1>9. /\ cellift_add(a, b, at, bt) \in Vec /\ cellift_sub(a, b, at, bt) \in Vec
      /\ cellift_neg(a, at) \in Vec /\ cellift_mul \in Vec
  BY <1>3, <1>4, <1>5 DEF cellift_add, cellift_sub, cellift_neg, cellift_mul
<1>10. /\ cellift_eq_ne(a, b, at, bt) \in Vec
       /\ cellift_ge(a, b, at, bt, signed) \in Vec /\ cellift_gt(a, b, at, bt, signed) \in Vec
       /\ cellift_le(a, b, at, bt, signed) \in Vec /\ cellift_lt(a, b, at, bt, signed) \in Vec
       /\ cellift_logic_not(a, at) \in Vec /\ cellift_logic_and(a, b, at, bt) \in Vec
       /\ cellift_logic_or(a, b, at, bt) \in Vec
       /\ cellift_reduce_and(a, at) \in Vec /\ cellift_reduce_xor(at) \in Vec
  BY <1>1 DEF cellift_eq_ne, cellift_ge, cellift_gt, cellift_le, cellift_lt, cellift_logic_not,
              cellift_logic_and, cellift_logic_or, cellift_reduce_and, cellift_reduce_xor
<1> QED
  BY <1>6, <1>7, <1>8, <1>9, <1>10 DEF TaintBy

\* A wire gets a content that has its width.
LEMMA SetType ==
    ASSUME TaintTypeOK, NEW y \in Wires, NEW v \in Word(y), NEW u \in Word(y), NEW t \in Word(y),
           Set(y, v, u, t)
    PROVE  TaintTypeOK'
<1>1. Word(y) \subseteq Vec
  BY WidthAssumption DEF Word, Positions, Vec, Bits
<1> QED
  BY <1>1 DEF TaintTypeOK, Set

LEMMA SetCovers ==
    ASSUME TaintTypeOK, DifferencesAreTainted, NEW y \in Wires, NEW v, NEW u, NEW t,
           Set(y, v, u, t), Covers(t, v, u)
    PROVE  DifferencesAreTainted'
BY DEF TaintTypeOK, DifferencesAreTainted, Set, Covers

LEMMA WireFacts ==
    ASSUME TaintTypeOK, NEW w \in Wires
    PROVE  /\ val[w] \in Vec /\ alt[w] \in Vec /\ taint[w] \in Vec
           /\ val[w] \in Word(w) /\ alt[w] \in Word(w) /\ taint[w] \in Word(w)
           /\ Low(val[w]) \in SUBSET {0} /\ Low(alt[w]) \in SUBSET {0}
           /\ Low(taint[w]) \in SUBSET {0}
           /\ DifferencesAreTainted => /\ Covers(taint[w], val[w], alt[w])
                                       /\ Covers(Low(taint[w]), Low(val[w]), Low(alt[w]))
<1>1. Low(val[w]) \in SUBSET {0} /\ Low(alt[w]) \in SUBSET {0} /\ Low(taint[w]) \in SUBSET {0}
  BY DEF Low
<1>2. /\ val[w] \in Word(w) /\ alt[w] \in Word(w) /\ taint[w] \in Word(w)
      /\ val[w] \in Vec /\ alt[w] \in Vec /\ taint[w] \in Vec
  BY DEF TaintTypeOK
<1>3. DifferencesAreTainted => /\ Covers(taint[w], val[w], alt[w])
                               /\ Covers(Low(taint[w]), Low(val[w]), Low(alt[w]))
  BY DEF DifferencesAreTainted, Covers, Low, Xor
<1> QED
  BY <1>1, <1>2, <1>3

\* What the steps of the six actions give a wire, and that it has its width.
LEMMA EvaluateStep ==
    ASSUME TaintTypeOK, NEW c \in Stateless, NEW y \in Wires, Evaluate(c, y)
    PROVE  /\ TaintTypeOK'
           /\ DifferencesAreTainted /\ Logics \subseteq Proved => DifferencesAreTainted'
<1>1. PICK a \in Data, b \in Data, s \in Selects(c), signed \in BOOLEAN :
         /\ signed => c \in Signable
         /\ Set(y, Out(c, val[a], val[b], Low(val[s]), signed),
                   Out(c, alt[a], alt[b], Low(alt[s]), signed),
                   Positions(y) \cap
                       TaintBy(Logic(c), val[a], val[b], Low(val[s]),
                               taint[a], taint[b], Low(taint[s]), signed))
  BY DEF Evaluate
<1> DEFINE v == Out(c, val[a], val[b], Low(val[s]), signed)
           u == Out(c, alt[a], alt[b], Low(alt[s]), signed)
           t == TaintBy(Logic(c), val[a], val[b], Low(val[s]),
                        taint[a], taint[b], Low(taint[s]), signed)
<1>2. a \in Wires /\ b \in Wires /\ s \in Wires
  BY DEF Wires, Selects
<1>3. /\ v \in Vec /\ (c \in OneBit => v \in SUBSET {0})
      /\ u \in Vec /\ (c \in OneBit => u \in SUBSET {0})
  BY <1>2, WireFacts, OutType
<1>4. v \in Word(y) /\ u \in Word(y)
  BY <1>3 DEF Evaluate, Word, Positions, Wires, Vec
<1>5. Set(y, v, u, Positions(y) \cap t)
  BY <1>1
<1> HIDE DEF v, u, t
<1>6. TaintTypeOK'
  BY <1>4, <1>5, SetType DEF Word
<1>7. ASSUME DifferencesAreTainted, Logics \subseteq Proved PROVE DifferencesAreTainted'
  <2>1. Logic(c) \in Proved
    BY <1>7 DEF Evaluate
  <2>2. Covers(t, v, u)
    BY <1>1, <1>2, <1>7, <2>1, WireFacts, StatelessSound DEF v, u, t
  <2>3. Covers(Positions(y) \cap t, v, u)
    BY <1>4, <2>2 DEF Covers, Xor, Word
  <2> QED
    BY <1>5, <1>7, <2>3, SetCovers
<1> QED
  BY <1>6, <1>7

LEMMA PmuxStep ==
    ASSUME TaintTypeOK, NEW y \in Data, EvaluatePmux(y)
    PROVE  /\ TaintTypeOK'
           /\ DifferencesAreTainted /\ Logics \subseteq Proved => DifferencesAreTainted'
<1> DEFINE words(m, b) == [i \in Bits |-> m[b[i]]]
<1>1. PICK a \in Data, s \in Data, b \in [Bits -> Data] :
         /\ OneHot(val[s]) /\ OneHot(alt[s])
         /\ Set(y, Pmux(val[a], words(val, b), val[s]), Pmux(alt[a], words(alt, b), alt[s]),
                   PmuxTaint(val[a], words(val, b), val[s], taint[a], words(taint, b), taint[s]))
  BY DEF EvaluatePmux
<1>2. /\ a \in Wires /\ s \in Wires /\ \A i \in Bits : b[i] \in Wires
      /\ y \in Wires /\ Word(y) = Vec
  BY DEF Wires, Word, Positions, Vec
<1>3. /\ words(val, b) \in [Bits -> Vec] /\ words(alt, b) \in [Bits -> Vec]
      /\ words(taint, b) \in [Bits -> Vec]
  BY <1>2, WireFacts
<1>4. /\ val[a] \in Vec /\ alt[a] \in Vec /\ taint[a] \in Vec
      /\ val[s] \in Vec /\ alt[s] \in Vec /\ taint[s] \in Vec
  BY <1>2, WireFacts
<1>5. ASSUME NEW v \in Vec, NEW w \in [Bits -> Vec], NEW z \in Vec
      PROVE  Pmux(v, w, z) \in Vec
  BY DEF Pmux, Vec
<1>6. ASSUME NEW v \in Vec, NEW w \in [Bits -> Vec], NEW z \in Vec,
             NEW vt \in Vec, NEW wt \in [Bits -> Vec], NEW zt \in Vec
      PROVE  PmuxTaint(v, w, z, vt, wt, zt) \in Vec
  <2>1. PmuxFlow(z, vt, wt, zt) \in Vec
    BY DEF PmuxFlow, Vec
  <2>2. cellift_pmux_large_cells(w, z, vt, wt, zt) \in Vec
    BY <2>1 DEF cellift_pmux_large_cells, Xor, Vec
  <2>3. cellift_pmux_small_cells(v, w, z, vt, wt, zt) \in Vec
    <3>1. CASE Width = 1
      <4>1. w[0] \in Vec /\ wt[0] \in Vec
        BY <3>1 DEF Bits
      <4> QED
        BY <3>1, <4>1 DEF cellift_pmux_small_cells, cellift_mux, Xor, Vec
    <3>2. CASE Width # 1
      <4>1. PmuxDiffers(v, w, z, zt) \in Vec
        BY DEF PmuxDiffers, Vec
      <4>2. PmuxPairs(w, z, zt) \in Vec
        <5>1. ASSUME NEW i \in z \cup zt, NEW k \in z \cup zt PROVE Xor(w[i], w[k]) \in Vec
          BY DEF Xor, Vec
        <5> QED
          BY <5>1 DEF PmuxPairs, Vec
      <4> QED
        BY <2>1, <3>2, <4>1, <4>2 DEF cellift_pmux_small_cells, Vec
    <3> QED
      BY <3>1, <3>2
  <2>4. \A p, q, r : conjunctive_three_inputs(p, q, r) \in Vec
    BY DEF conjunctive_three_inputs, Rep, Vec
  <2> QED
    BY <2>2, <2>3, <2>4 DEF PmuxTaint
<1> DEFINE v == Pmux(val[a], words(val, b), val[s])
           u == Pmux(alt[a], words(alt, b), alt[s])
           t == PmuxTaint(val[a], words(val, b), val[s], taint[a], words(taint, b), taint[s])
<1>7. v \in Vec /\ u \in Vec /\ t \in Vec
  BY <1>3, <1>4, <1>5, <1>6
<1>8. Set(y, v, u, t)
  BY <1>1
<1>9. TaintTypeOK'
  BY <1>2, <1>7, <1>8, SetType
<1>10. ASSUME DifferencesAreTainted, Logics \subseteq Proved PROVE DifferencesAreTainted'
  <2>1. \/ Logic("$pmux") = "conjunctive_three_inputs"
        \/ Logic("$pmux") = "cellift_pmux_small_cells"
    BY <1>10 DEF EvaluatePmux, Logic, CellLogic, OneInput, ThreeInputs, Proved
  <2>2. /\ Covers(taint[a], val[a], alt[a]) /\ Covers(taint[s], val[s], alt[s])
        /\ \A i \in Bits : Covers(words(taint, b)[i], words(val, b)[i], words(alt, b)[i])
    BY <1>2, <1>10, WireFacts
  <2>3. CASE Logic("$pmux") = "cellift_pmux_small_cells"
    <3>1. t = cellift_pmux_small_cells(val[a], words(val, b), val[s],
                                       taint[a], words(taint, b), taint[s])
      BY <2>3 DEF PmuxTaint
    <3> DEFINE w == words(val, b)   ww == words(alt, b)   wt == words(taint, b)
    <3>2. /\ w \in [Bits -> Vec] /\ ww \in [Bits -> Vec] /\ wt \in [Bits -> Vec]
          /\ \A i \in Bits : Covers(wt[i], w[i], ww[i])
      BY <1>3, <2>2
    <3>3. OneHot(val[s]) /\ OneHot(alt[s])
      BY <1>1
    <3>4. Covers(t, v, u)
      <4> HIDE DEF w, ww, wt
      <4>1. Covers(cellift_pmux_small_cells(val[a], w, val[s], taint[a], wt, taint[s]),
                   Pmux(val[a], w, val[s]), Pmux(alt[a], ww, alt[s]))
        BY <1>4, <2>2, <3>2, <3>3, PmuxSmallSound
      <4> QED
        BY <3>1, <4>1 DEF w, ww, wt
    <3> QED
      BY <1>2, <1>8, <1>10, <3>4, SetCovers
  <2>4. CASE Logic("$pmux") = "conjunctive_three_inputs"
    <3>1. t = conjunctive_three_inputs(taint[a], UNION {words(taint, b)[i] : i \in Bits}, taint[s])
      BY <2>4 DEF PmuxTaint
    <3>2. CASE t = Bits
      BY <1>2, <1>7, <1>8, <1>10, <3>2, SetCovers DEF Covers, Xor, Vec
    <3>3. CASE t # Bits
      <4>1. taint[a] = {} /\ taint[s] = {} /\ \A i \in Bits : words(taint, b)[i] = {}
        BY <3>1, <3>3 DEF conjunctive_three_inputs, Rep
      <4>2. \A p, q : Covers({}, p, q) => p = q
        BY DEF Covers, Xor
      <4>3. val[a] = alt[a] /\ val[s] = alt[s] /\ \A i \in Bits : val[b[i]] = alt[b[i]]
        BY <2>2, <4>1, <4>2
      <4>4. v = u
        BY <4>3
      <4> QED
        BY <1>2, <1>8, <1>10, <4>4, SetCovers DEF Covers, Xor
    <3> QED
      BY <3>2, <3>3
  <2> QED
    BY <2>1, <2>3, <2>4
<1> QED
  BY <1>9, <1>10

LEMMA ClockStep ==
    ASSUME TaintTypeOK, NEW f \in Flops, NEW q \in Wires, Clock(f, q)
    PROVE  /\ TaintTypeOK'
           /\ DifferencesAreTainted /\ ~AllUses => DifferencesAreTainted'
<1> DEFINE data(m, d) == IF q \in Control THEN Low(m[d]) ELSE m[d]
<1>1. PICK d \in Wires, e \in Enables(f), r \in Resets(f, q) :
         /\ d \in Control => q \in Control
         /\ AllUses \/ Handled(f, r, Low(val[e]), Low(taint[e]))
         /\ Set(q, FlopOut(f, r, data(val, d), val[q], Low(val[e])),
                   FlopOut(f, r, data(alt, d), alt[q], Low(alt[e])),
                   FlopTaint(f, r, data(val, d), val[q], Low(val[e]),
                             data(taint, d), taint[q], Low(taint[e])))
  BY DEF Clock
<1>2. e \in Wires /\ r.value \in Word(q)
  BY DEF Enables, Wires, Resets
<1>3. /\ q \in Control => Word(q) = SUBSET {0}
      /\ q \notin Control => Word(q) = Vec
      /\ Word(q) \subseteq Vec
  BY WiresAssumption, WidthAssumption DEF Wires, Word, Positions, Vec, Bits
<1>4. data(val, d) \in Word(q) /\ data(alt, d) \in Word(q) /\ data(taint, d) \in Word(q)
  BY <1>3, WireFacts
<1>5. val[q] \in Word(q) /\ alt[q] \in Word(q) /\ taint[q] \in Word(q)
  BY WireFacts
<1> DEFINE v == FlopOut(f, r, data(val, d), val[q], Low(val[e]))
           u == FlopOut(f, r, data(alt, d), alt[q], Low(alt[e]))
           t == FlopTaint(f, r, data(val, d), val[q], Low(val[e]),
                          data(taint, d), taint[q], Low(taint[e]))
<1>6. v \in Word(q) /\ u \in Word(q)
  BY <1>2, <1>4, <1>5 DEF FlopOut
<1>7. t \in Word(q)
  BY <1>4, <1>5 DEF FlopTaint, cellift_dlatch, cellift_sdff, cellift_dffe, Word, Xor
<1>8. Set(q, v, u, t)
  BY <1>1
<1> HIDE DEF data, v, u, t
<1>9. TaintTypeOK'
  BY <1>6, <1>7, <1>8, SetType
<1>10. ASSUME DifferencesAreTainted, ~AllUses PROVE DifferencesAreTainted'
  <2>1. Handled(f, r, Low(val[e]), Low(taint[e]))
    BY <1>1, <1>10
  <2>2. /\ Covers(data(taint, d), data(val, d), data(alt, d))
        /\ Covers(taint[q], val[q], alt[q])
        /\ Covers(Low(taint[e]), Low(val[e]), Low(alt[e]))
    BY <1>2, <1>10, WireFacts DEF data
  <2>3. f \in OneBitFlops => /\ data(val, d) \subseteq {0} /\ data(alt, d) \subseteq {0}
                             /\ val[q] \subseteq {0} /\ alt[q] \subseteq {0}
    BY <1>3, <1>4, <1>5 DEF Clock
  <2>4. /\ data(val, d) \in Vec /\ data(alt, d) \in Vec /\ data(taint, d) \in Vec
        /\ val[q] \in Vec /\ alt[q] \in Vec /\ taint[q] \in Vec
    BY <1>3, <1>4, <1>5
  <2>5. Low(val[e]) \in SUBSET {0} /\ Low(alt[e]) \in SUBSET {0} /\ Low(taint[e]) \in SUBSET {0}
    BY DEF Low
  <2>6. Covers(t, v, u)
    BY <2>1, <2>2, <2>3, <2>4, <2>5, FlopSound DEF t, v, u
  <2> QED
    BY <1>8, <1>10, <2>6, SetCovers
<1> QED
  BY <1>9, <1>10

LEMMA InputStep ==
    ASSUME TaintTypeOK, NEW y \in Wires,
           \/ Drive(y)
           \/ \E f \in Flops : ResetNow(f, y)
           \/ y \in Data /\ LoadNow(y)
    PROVE  /\ TaintTypeOK'
           /\ DifferencesAreTainted /\ ~AllUses => DifferencesAreTainted'
<1>1. PICK v \in Word(y), u \in Word(y), t \in Word(y) :
         /\ Set(y, v, u, t)
         /\ DifferencesAreTainted /\ ~AllUses => Covers(t, v, u)
  <2>1. CASE Drive(y)
    BY <2>1 DEF Drive, Covers
  <2>2. ASSUME NEW f \in Flops, ResetNow(f, y)
        PROVE  \E v \in Word(y), t \in Word(y) : Set(y, v, v, t)
    <3>1. {} \in Word(y) /\ taint[y] \in Word(y)
      BY WireFacts DEF Word
    <3> QED
      BY <2>2, <3>1 DEF ResetNow
  <2>3. \A t, v : Covers(t, v, v)
    BY DEF Covers, Xor
  <2>4. CASE y \in Data /\ LoadNow(y)
    <3>1. PICK ad \in Data : /\ AllUses \/ taint[ad] = {}
                             /\ Set(y, val[ad], alt[ad], val[ad])
      BY <2>4 DEF LoadNow
    <3>2. /\ ad \in Wires /\ Word(y) = Word(ad)
          /\ val[ad] \in Word(ad) /\ alt[ad] \in Word(ad)
      BY <2>4, WireFacts DEF Wires, Word, Positions
    <3>3. DifferencesAreTainted /\ ~AllUses => Covers(val[ad], val[ad], alt[ad])
      BY <3>1, <3>2 DEF DifferencesAreTainted, Covers, Xor
    <3> QED
      BY <3>1, <3>2, <3>3
  <2> QED
    BY <2>1, <2>2, <2>3, <2>4
<1> QED
  BY <1>1, SetType, SetCovers

-----------------------------------------------------------------------------
\* The invariant is inductive: no strengthening is needed, for what a step
\* writes depends on the wires it reads and on nothing older.
LEMMA TaintStep ==
    ASSUME TaintTypeOK, Next
    PROVE  /\ TaintTypeOK'
           /\ DifferencesAreTainted /\ Logics \subseteq Proved /\ ~AllUses => DifferencesAreTainted'
<1>1. CASE \E y \in Wires : Drive(y)
  BY <1>1, InputStep
<1>2. CASE \E c \in Stateless, y \in Wires : Evaluate(c, y)
  BY <1>2, EvaluateStep
<1>3. CASE \E y \in Data : EvaluatePmux(y)
  BY <1>3, PmuxStep
<1>4. CASE \E f \in Flops, q \in Wires : Clock(f, q)
  BY <1>4, ClockStep
<1>5. CASE \E f \in Flops, q \in Wires : ResetNow(f, q)
  BY <1>5, InputStep
<1>6. CASE \E q \in Data : LoadNow(q)
  BY <1>6, InputStep DEF Wires
<1> QED
  BY <1>1, <1>2, <1>3, <1>4, <1>5, <1>6 DEF Next

LEMMA TaintInit ==
    ASSUME Init
    PROVE  TaintTypeOK /\ DifferencesAreTainted
<1>1. \A w \in Wires : {} \in Word(w) /\ {} \in Vec /\ Xor({}, {}) = {}
  BY DEF Word, Vec, Xor
<1> QED
  BY <1>1 DEF Init, TaintTypeOK, DifferencesAreTainted

LEMMA TaintStutter ==
    ASSUME UNCHANGED vars
    PROVE  /\ TaintTypeOK => TaintTypeOK'
           /\ DifferencesAreTainted => DifferencesAreTainted'
BY DEF vars, TaintTypeOK, DifferencesAreTainted

\* Values and taints keep the width of their wire, whatever cells there are
\* and with every logic, the unsound ones included.
THEOREM TaintTypeCorrect == Spec => []TaintTypeOK
<1>1. Init => TaintTypeOK
  BY TaintInit
<1>2. TaintTypeOK /\ [Next]_vars => TaintTypeOK'
  BY TaintStep, TaintStutter
<1> QED
  BY <1>1, <1>2, PTL DEF Spec

\* Soundness of the tracking: in a circuit of cells with proved logics, and
\* of flip-flops in the uses their logic handles, every difference between
\* the two runs is tainted, for every width and any number of wires.
THEOREM TrackingIsSound ==
    ASSUME Logics \subseteq Proved, ~AllUses
    PROVE  Spec => []DifferencesAreTainted
<1> DEFINE Inv1 == TaintTypeOK /\ DifferencesAreTainted
<1>1. Init => Inv1
  BY TaintInit
<1>2. Inv1 /\ [Next]_vars => Inv1'
  BY TaintStep, TaintStutter
<1>3. Inv1 => DifferencesAreTainted
  OBVIOUS
<1> QED
  BY <1>1, <1>2, <1>3, PTL DEF Spec

-----------------------------------------------------------------------------
(* No bit is tainted in vain: for every bit that an exact logic taints there
   are variants of the operands for which the cell computes different bits. *)

\* The value itself and its extremes are variants; so is a variant with one
\* tainted bit flipped.
LEMMA VariantsOf ==
    ASSUME NEW a \in Vec, NEW at \in Vec
    PROVE  /\ a \in Variants(a, at)
           /\ Least(a, at) \in Variants(a, at) /\ Most(a, at) \in Variants(a, at)
           /\ \A signed : /\ Min(a, at, signed) \in Variants(a, at)
                          /\ Max(a, at, signed) \in Variants(a, at)
BY DEF Variants, Vec, Xor, Least, Most, Min, Max

LEMMA FlipVariant ==
    ASSUME NEW a \in Vec, NEW at \in Vec, NEW v \in Variants(a, at), NEW i \in at
    PROVE  Xor(v, {i}) \in Variants(a, at) /\ \A j : j \in Xor(v, {i}) <=> (j \in v) # (j = i)
BY DEF Variants, Vec, Xor

\* Two choices of variants on which the cell computes different bits.
Differ(c, va, vb, vs, signed, i) ==
    \E x, xx \in va, y, yy \in vb, u, uu \in vs :
        i \in Xor(Out(c, x, y, u, signed), Out(c, xx, yy, uu, signed))

LEMMA DifferBy ==
    ASSUME NEW c, NEW va, NEW vb, NEW vs, NEW signed, NEW i,
           NEW x \in va, NEW xx \in va, NEW y \in vb, NEW yy \in vb, NEW u \in vs, NEW uu \in vs,
           i \in Xor(Out(c, x, y, u, signed), Out(c, xx, yy, uu, signed))
    PROVE  Differ(c, va, vb, vs, signed, i)
BY Zenon DEF Differ

LEMMA TwoVariants ==
    ASSUME NEW c, NEW a, NEW b, NEW s, NEW at, NEW bt, NEW st, NEW signed, NEW i \in Bits,
           Differ(c, Variants(a, at), Variants(b, bt), Variants(s, st), signed, i)
    PROVE  i \in Influence(c, a, b, s, at, bt, st, signed)
<1>1. PICK x, xx \in Variants(a, at), y, yy \in Variants(b, bt), u, uu \in Variants(s, st) :
          i \in Xor(Out(c, x, y, u, signed), Out(c, xx, yy, uu, signed))
  BY DEF Differ
<1> DEFINE O == Out(c, a, b, s, signed)
           P == Out(c, x, y, u, signed)
           Q == Out(c, xx, yy, uu, signed)
<1> HIDE DEF O, P, Q
<1>2. i \in Xor(O, P) \/ i \in Xor(O, Q)
  BY <1>1 DEF Xor, P, Q
<1> QED
  BY <1>1, <1>2 DEF Influence, O, P, Q

LEMMA XorExact ==
    ASSUME NEW a \in Vec, NEW at \in Vec, NEW b \in Vec, NEW bt \in Vec, NEW i \in Bits,
           i \in cellift_xor(at, bt)
    PROVE  \E x, xx \in Variants(a, at), y, yy \in Variants(b, bt) : i \in Xor(Xor(x, y), Xor(xx, yy))
<1>1. /\ a \in Variants(a, at) /\ Least(a, at) \in Variants(a, at) /\ Most(a, at) \in Variants(a, at)
      /\ b \in Variants(b, bt) /\ Least(b, bt) \in Variants(b, bt) /\ Most(b, bt) \in Variants(b, bt)
  BY VariantsOf
<1>2. CASE i \in at
  <2>1. i \in Xor(Xor(Least(a, at), b), Xor(Most(a, at), b))
    BY <1>2 DEF Xor, Least, Most
  <2> QED
    BY <1>1, <2>1, Zenon
<1>3. CASE i \in bt
  <2>1. i \in Xor(Xor(a, Least(b, bt)), Xor(a, Most(b, bt)))
    BY <1>3 DEF Xor, Least, Most
  <2> QED
    BY <1>1, <2>1, Zenon
<1> QED
  BY <1>2, <1>3 DEF cellift_xor

LEMMA NotExact ==
    ASSUME NEW a \in Vec, NEW at \in Vec, NEW i \in Bits, i \in cellift_not(at)
    PROVE  \E x, xx \in Variants(a, at) : i \in Xor(Inv(x), Inv(xx))
<1>1. Least(a, at) \in Variants(a, at) /\ Most(a, at) \in Variants(a, at)
  BY VariantsOf
<1>2. i \in Xor(Inv(Least(a, at)), Inv(Most(a, at)))
  BY DEF cellift_not, Xor, Inv, Least, Most
<1> QED
  BY <1>1, <1>2, Zenon

\* What a $mux passes on.
Selected(u, x, y) == IF u = {} THEN x ELSE y

LEMMA MuxExact ==
    ASSUME NEW a \in Vec, NEW at \in Vec, NEW b \in Vec, NEW bt \in Vec,
           NEW s \in SUBSET {0}, NEW st \in SUBSET {0}, NEW i \in Bits,
           i \in cellift_mux(a, b, s, at, bt, st)
    PROVE  \E x, xx \in Variants(a, at), y, yy \in Variants(b, bt), u, uu \in Variants(s, st) :
              i \in Xor(Selected(u, x, y), Selected(uu, xx, yy))
<1> DEFINE la == Least(a, at)   ma == Most(a, at)
           lb == Least(b, bt)   mb == Most(b, bt)
<1>1. /\ a \in Variants(a, at) /\ la \in Variants(a, at) /\ ma \in Variants(a, at)
      /\ b \in Variants(b, bt) /\ lb \in Variants(b, bt) /\ mb \in Variants(b, bt)
  BY VariantsOf
<1>2. /\ i \in la <=> i \in a /\ i \notin at
      /\ i \in ma <=> i \in a \/ i \in at
      /\ i \in lb <=> i \in b /\ i \notin bt
      /\ i \in mb <=> i \in b \/ i \in bt
  BY DEF Least, Most
<1>3. 0 \in Bits
  BY WidthAssumption DEF Bits
<1>4. /\ s = {} \/ st # {} => {} \in Variants(s, st)
      /\ s # {} \/ st # {} => {0} \in Variants(s, st)
  BY <1>3 DEF Variants, Vec, Xor
<1>5. \/ i \in at /\ (s = {} \/ st # {})
      \/ i \in bt /\ (s # {} \/ st # {})
      \/ (i \in a) # (i \in b) /\ st # {}
  BY DEF cellift_mux, Rep, Xor
<1> HIDE DEF la, ma, lb, mb
<1>6. \A x, y : Selected({}, x, y) = x /\ Selected({0}, x, y) = y
  BY DEF Selected
<1>7. CASE i \in at /\ (s = {} \/ st # {})
  <2>1. {} \in Variants(s, st) /\ i \in Xor(Selected({}, la, b), Selected({}, ma, b))
    BY <1>2, <1>4, <1>6, <1>7, XorMember
  <2> QED
    BY <1>1, <2>1, Zenon
<1>8. CASE i \in bt /\ (s # {} \/ st # {})
  <2>1. {0} \in Variants(s, st) /\ i \in Xor(Selected({0}, a, lb), Selected({0}, a, mb))
    BY <1>2, <1>4, <1>6, <1>8, XorMember
  <2> QED
    BY <1>1, <2>1, Zenon
<1>9. CASE (i \in a) # (i \in b) /\ st # {}
  <2>1. /\ {} \in Variants(s, st) /\ {0} \in Variants(s, st)
        /\ i \in Xor(Selected({}, a, b), Selected({0}, a, b))
    BY <1>4, <1>6, <1>9, XorMember
  <2> QED
    BY <1>1, <2>1, Zenon
<1> QED
  BY <1>5, <1>7, <1>8, <1>9

\* A carry, or a borrow, depends on the bits below it only.
LEMMA CarryIsLocal ==
    ASSUME NEW a, NEW b, NEW x, NEW y, NEW i \in Bits,
           \A j \in Bits : j < i => (j \in a <=> j \in x) /\ (j \in b <=> j \in y)
    PROVE  /\ i \in Carry(a, b) <=> i \in Carry(x, y)
           /\ i \in Borrow(a, b) <=> i \in Borrow(x, y)
BY DEF Carry, Borrow

LEMMA AddExact ==
    ASSUME NEW a \in Vec, NEW at \in Vec, NEW b \in Vec, NEW bt \in Vec, NEW i \in Bits,
           i \in cellift_add(a, b, at, bt)
    PROVE  \E x, xx \in Variants(a, at), y, yy \in Variants(b, bt) :
              i \in Xor(Add(x, y), Add(xx, yy))
<1> DEFINE la == Least(a, at)   ma == Most(a, at)
           lb == Least(b, bt)   mb == Most(b, bt)
<1>1. /\ a \in Variants(a, at) /\ la \in Variants(a, at) /\ ma \in Variants(a, at)
      /\ b \in Variants(b, bt) /\ lb \in Variants(b, bt) /\ mb \in Variants(b, bt)
  BY VariantsOf
<1>2. \A v, w : i \in Add(v, w) <=> ((i \in v) # (i \in w)) # (i \in Carry(v, w))
  BY DEF Add, Xor
<1>3. Bits \subseteq Int
  BY DEF Bits
<1>4. CASE i \in at
  <2>1. Xor(a, {i}) \in Variants(a, at) /\ \A j : j \in Xor(a, {i}) <=> (j \in a) # (j = i)
    BY <1>1, <1>4, FlipVariant
  <2>2. i \in Carry(a, b) <=> i \in Carry(Xor(a, {i}), b)
    <3>1. \A j \in Bits : j < i => j # i
      BY <1>3
    <3>2. \A j \in Bits : j < i => (j \in a <=> j \in Xor(a, {i})) /\ (j \in b <=> j \in b)
      BY <2>1, <3>1
    <3> QED
      BY <3>2, CarryIsLocal
  <2>3. i \in Xor(Add(a, b), Add(Xor(a, {i}), b))
    BY <1>2, <2>1, <2>2, XorMember
  <2> QED
    BY <1>1, <2>1, <2>3, Zenon
<1>5. CASE i \in bt
  <2>1. Xor(b, {i}) \in Variants(b, bt) /\ \A j : j \in Xor(b, {i}) <=> (j \in b) # (j = i)
    BY <1>1, <1>5, FlipVariant
  <2>2. i \in Carry(a, b) <=> i \in Carry(a, Xor(b, {i}))
    <3>1. \A j \in Bits : j < i => j # i
      BY <1>3
    <3>2. \A j \in Bits : j < i => (j \in a <=> j \in a) /\ (j \in b <=> j \in Xor(b, {i}))
      BY <2>1, <3>1
    <3> QED
      BY <3>2, CarryIsLocal
  <2>3. i \in Xor(Add(a, b), Add(a, Xor(b, {i})))
    BY <1>2, <2>1, <2>2, XorMember
  <2> QED
    BY <1>1, <2>1, <2>3, Zenon
<1>6. CASE i \notin at /\ i \notin bt
  <2>1. i \in Xor(Add(la, lb), Add(ma, mb))
    BY <1>6 DEF cellift_add
  <2> HIDE DEF la, lb, ma, mb
  <2> QED
    BY <1>1, <2>1, Zenon
<1> QED
  BY <1>4, <1>5, <1>6

LEMMA NegExact ==
    ASSUME NEW a \in Vec, NEW at \in Vec, NEW i \in Bits, i \in cellift_neg(a, at)
    PROVE  \E x, xx \in Variants(a, at) : i \in Xor(Neg(x), Neg(xx))
<1>1. a \in Variants(a, at) /\ Least(a, at) \in Variants(a, at) /\ Most(a, at) \in Variants(a, at)
  BY VariantsOf
<1>2. \A v : i \in Neg(v) <=> (i \in v) # (i \in Borrow({}, v))
  BY DEF Neg, Sub, Xor
<1>3. Bits \subseteq Int
  BY DEF Bits
<1>4. CASE i \in at
  <2>1. Xor(a, {i}) \in Variants(a, at) /\ \A j : j \in Xor(a, {i}) <=> (j \in a) # (j = i)
    BY <1>1, <1>4, FlipVariant
  <2>2. i \in Borrow({}, a) <=> i \in Borrow({}, Xor(a, {i}))
    <3>1. \A j \in Bits : j < i => j # i
      BY <1>3
    <3>2. \A j \in Bits : j < i => (j \in {} <=> j \in {}) /\ (j \in a <=> j \in Xor(a, {i}))
      BY <2>1, <3>1
    <3> QED
      BY <3>2, CarryIsLocal
  <2>3. i \in Xor(Neg(a), Neg(Xor(a, {i})))
    BY <1>2, <2>1, <2>2, XorMember
  <2> QED
    BY <1>1, <2>1, <2>3, Zenon
<1>5. CASE i \notin at
  <2>1. i \in Xor(Neg(Least(a, at)), Neg(Most(a, at)))
    BY <1>5 DEF cellift_neg
  <2> QED
    BY <1>1, <2>1, Zenon
<1> QED
  BY <1>4, <1>5

LEMMA EqExact ==
    ASSUME NEW a \in Vec, NEW at \in Vec, NEW b \in Vec, NEW bt \in Vec,
           at \cup bt # {}, a \ (at \cup bt) = b \ (at \cup bt)
    PROVE  /\ \E x \in Variants(a, at), y \in Variants(b, bt) : x = y
           /\ \E x \in Variants(a, at), y \in Variants(b, bt) : x # y
<1> DEFINE z == (a \ at) \cup (b \cap (at \ bt)) \cup (a \cap at \cap bt)
<1>1. z \in Variants(a, at)
  BY DEF Variants, Vec, Xor
<1>2. z \in Variants(b, bt)
  BY DEF Variants, Vec, Xor
<1> HIDE DEF z
<1>3. CASE at # {}
  <2>1. PICK i : i \in at
    BY <1>3
  <2>2. Xor(z, {i}) \in Variants(a, at) /\ Xor(z, {i}) # z
    BY <1>1, <2>1, FlipVariant
  <2> QED
    BY <1>1, <1>2, <2>2
<1>4. CASE bt # {}
  <2>1. PICK i : i \in bt
    BY <1>4
  <2>2. Xor(z, {i}) \in Variants(b, bt) /\ Xor(z, {i}) # z
    BY <1>2, <2>1, FlipVariant
  <2> QED
    BY <1>1, <1>2, <2>2
<1> QED
  BY <1>3, <1>4

LEMMA ParityFlips ==
    ASSUME NEW a \in Vec, NEW i \in Bits
    PROVE  (Cardinality(a) % 2 = 1) # (Cardinality(Xor(a, {i})) % 2 = 1)
<1>1. IsFiniteSet(a) /\ Cardinality(a) \in Nat
  <2>1. IsFiniteSet(Bits)
    BY WidthAssumption, FS_Interval DEF Bits
  <2> QED
    BY <2>1, FS_Subset, FS_CardinalityType DEF Vec
<1>2. \A n \in Nat : (n % 2 = 1) # ((n + 1) % 2 = 1)
  OBVIOUS
<1>3. CASE i \in a
  <2>1. Xor(a, {i}) = a \ {i}
    BY <1>3 DEF Xor
  <2>2. Cardinality(a \ {i}) = Cardinality(a) - 1 /\ IsFiniteSet(a \ {i})
    BY <1>1, <1>3, FS_RemoveElement
  <2>3. Cardinality(a \ {i}) \in Nat
    BY <2>2, FS_CardinalityType
  <2>4. Cardinality(a) = Cardinality(a \ {i}) + 1
    BY <1>1, <2>2
  <2> QED
    BY <1>2, <2>1, <2>3, <2>4
<1>4. CASE i \notin a
  <2>1. Xor(a, {i}) = a \cup {i}
    BY <1>4 DEF Xor
  <2>2. Cardinality(a \cup {i}) = Cardinality(a) + 1
    BY <1>1, <1>4, FS_AddElement
  <2> QED
    BY <1>1, <1>2, <2>1, <2>2
<1> QED
  BY <1>3, <1>4

\* The amounts that a tainted amount may stand for.
LEMMA ReachedVariant ==
    ASSUME NEW b \in Vec, NEW bt \in Vec, NEW k, Reaches(bt, k)
    PROVE  /\ k \in Nat /\ Num(Least(b, bt)) \in Nat
           /\ \E y \in Variants(b, bt) : Num(y) = Num(Least(b, bt)) + k
<1>1. PICK x \in SUBSET bt : Num(x) = k
  BY DEF Reaches
<1>2. Least(b, bt) \cap x = {}
  BY DEF Least
<1>3. /\ Num(Least(b, bt)) \in Nat /\ Num(x) \in Nat
      /\ Num(Least(b, bt) \cup x) = Num(Least(b, bt)) + Num(x)
  BY <1>2, NumSum
<1>4. Least(b, bt) \cup x \in Variants(b, bt)
  BY DEF Least, Variants, Vec, Xor
<1> QED
  BY <1>1, <1>3, <1>4

\* Two variants of an operand shifted by two of the amounts.
ShiftsDiffer(va, ns, i) ==
    \E x, xx \in va, n, m \in ns : (i + n \in x) # (i + m \in xx)

LEMMA ShiftsDifferBy ==
    ASSUME NEW va, NEW ns, NEW i, NEW x \in va, NEW xx \in va, NEW n \in ns, NEW m \in ns,
           (i + n \in x) # (i + m \in xx)
    PROVE  ShiftsDiffer(va, ns, i)
BY DEF ShiftsDiffer

LEMMA ShlExact ==
    ASSUME NEW a \in Vec, NEW at \in Vec, NEW b \in Vec, NEW bt \in Vec, NEW i \in Bits,
           i \in cellift_shl_sshl_precise(a, b, at, bt)
    PROVE  ShiftsDiffer(Variants(a, at), {0 - Num(y) : y \in Variants(b, bt)}, i)
<1> DEFINE n == Num(Least(b, bt))
           N == Num(bt)
           la == Least(a, at)
           ma == Most(a, at)
           va == Variants(a, at)
           ns == {0 - Num(y) : y \in Variants(b, bt)}
           ia == Shift(a, 0 - n)
           it == Shift(at, 0 - n)
<1>0. i \in Int /\ 0 <= i /\ i <= Msb /\ Msb \in Int
  BY BitRange
<1>1. a \in va /\ la \in va /\ ma \in va
  BY VariantsOf
<1>2. n \in Nat /\ N \in Nat
  BY NumNat
<1>3. \A k : Reaches(bt, k) => k \in Nat /\ 0 - (n + k) \in ns
  BY ReachedVariant
<1>4. Reaches(bt, N)
  BY DEF Reaches
<1>5. 0 - n \in ns
  BY VariantsOf
<1>6. \A j : (j \in la <=> j \in a /\ j \notin at) /\ (j \in ma <=> j \in a \/ j \in at)
  BY DEF Least, Most
<1>7. /\ \A j \in Bits : /\ j \in ia <=> j + (0 - n) \in a
                         /\ j \in it <=> j + (0 - n) \in at
  BY DEF Shift
<1>8. \/ i \in it
      \/ \E k \in 1 .. i : Reaches(bt, k) /\ ((i \in ia) # (i - k \in ia) \/ i - k \in it)
      \/ N > i /\ (i \in ia \/ i \in it)
  BY DEF cellift_shl_sshl_precise
<1> HIDE DEF n, N, la, ma, va, ns, ia, it
<1>9. CASE i \in it
  <2>1. (i + (0 - n) \in la) # (i + (0 - n) \in ma)
    BY <1>6, <1>7, <1>9
  <2> QED
    BY <1>1, <1>5, <2>1, ShiftsDifferBy DEF va, ns
<1>10. CASE \E k \in 1 .. i : Reaches(bt, k) /\ ((i \in ia) # (i - k \in ia) \/ i - k \in it)
  <2>1. PICK k \in 1 .. i : Reaches(bt, k) /\ ((i \in ia) # (i - k \in ia) \/ i - k \in it)
    BY <1>10
  <2>2. 0 - (n + k) \in ns
    BY <1>3, <2>1
  <2>3. i - k \in Bits /\ (i - k) + (0 - n) = i + (0 - (n + k))
    <3>1. k \in Int /\ i - k \in Int /\ 0 <= i - k /\ i - k <= Msb
      BY <1>0, <2>1
    <3> QED
      BY <1>0, <1>2, <3>1, BitRange
  <2>4. CASE (i \in ia) # (i - k \in ia)
    <3>1. (i + (0 - n) \in a) # (i + (0 - (n + k)) \in a)
      BY <1>7, <2>3, <2>4
    <3> QED
      BY <1>1, <1>5, <2>2, <3>1, ShiftsDifferBy DEF va, ns
  <2>5. CASE i - k \in it
    <3>1. (i + (0 - (n + k)) \in la) # (i + (0 - (n + k)) \in ma)
      BY <1>6, <1>7, <2>3, <2>5
    <3> QED
      BY <1>1, <2>2, <3>1, ShiftsDifferBy DEF va, ns
  <2> QED
    BY <2>1, <2>4, <2>5
<1>11. CASE N > i /\ (i \in ia \/ i \in it)
  <2>1. i + (0 - n) \in ma
    BY <1>6, <1>7, <1>11
  <2>2. i + (0 - (n + N)) \notin ma
    <3>1. i + (0 - (n + N)) < 0
      BY <1>0, <1>2, <1>11
    <3>2. ma \in Vec
      BY DEF ma, Most, Vec
    <3> QED
      BY <3>1, <3>2, BitOfVec, BitRange
  <2>3. 0 - (n + N) \in ns
    BY <1>3, <1>4
  <2> QED
    BY <1>1, <1>5, <2>1, <2>2, <2>3, ShiftsDifferBy DEF va, ns
<1> QED
  BY <1>8, <1>9, <1>10, <1>11

LEMMA ShrExact ==
    ASSUME NEW a \in Vec, NEW at \in Vec, NEW b \in Vec, NEW bt \in Vec, NEW i \in Bits,
           i \in cellift_shr(a, b, at, bt)
    PROVE  ShiftsDiffer(Variants(a, at), {Num(y) : y \in Variants(b, bt)}, i)
<1> DEFINE n == Num(Least(b, bt))
           N == Num(bt)
           la == Least(a, at)
           ma == Most(a, at)
           va == Variants(a, at)
           ns == {Num(y) : y \in Variants(b, bt)}
           ia == Shift(a, n)
           it == Shift(at, n)
<1>0. i \in Int /\ 0 <= i /\ i <= Msb /\ Msb \in Int /\ Msb = Width - 1 /\ Width \in Int
  BY BitRange
<1>1. a \in va /\ la \in va /\ ma \in va
  BY VariantsOf
<1>2. n \in Nat /\ N \in Nat
  BY NumNat
<1>3. \A k : Reaches(bt, k) => k \in Nat /\ n + k \in ns
  BY ReachedVariant
<1>4. Reaches(bt, N)
  BY DEF Reaches
<1>5. n \in ns
  BY VariantsOf
<1>6. \A j : (j \in la <=> j \in a /\ j \notin at) /\ (j \in ma <=> j \in a \/ j \in at)
  BY DEF Least, Most
<1>7. /\ \A j \in Bits : /\ j \in ia <=> j + n \in a
                         /\ j \in it <=> j + n \in at
  BY DEF Shift
<1>8. \/ i \in it
      \/ \E k \in 1 .. (Msb - i) : Reaches(bt, k) /\ ((i \in ia) # (i + k \in ia) \/ i + k \in it)
      \/ N >= Width - i /\ (i \in ia \/ i \in it)
  BY DEF cellift_shr
<1> HIDE DEF n, N, la, ma, va, ns, ia, it
<1>9. CASE i \in it
  <2>1. (i + n \in la) # (i + n \in ma)
    BY <1>6, <1>7, <1>9
  <2> QED
    BY <1>1, <1>5, <2>1, ShiftsDifferBy DEF va, ns
<1>10. CASE \E k \in 1 .. (Msb - i) : Reaches(bt, k) /\ ((i \in ia) # (i + k \in ia) \/ i + k \in it)
  <2>1. PICK k \in 1 .. (Msb - i) : Reaches(bt, k) /\ ((i \in ia) # (i + k \in ia) \/ i + k \in it)
    BY <1>10
  <2>2. n + k \in ns
    BY <1>3, <2>1
  <2>3. i + k \in Bits /\ (i + k) + n = i + (n + k)
    <3>1. k \in Int /\ i + k \in Int /\ 0 <= i + k /\ i + k <= Msb
      BY <1>0, <2>1
    <3> QED
      BY <1>0, <1>2, <3>1, BitRange
  <2>4. CASE (i \in ia) # (i + k \in ia)
    <3>1. (i + n \in a) # (i + (n + k) \in a)
      BY <1>7, <2>3, <2>4
    <3> QED
      BY <1>1, <1>5, <2>2, <3>1, ShiftsDifferBy DEF va, ns
  <2>5. CASE i + k \in it
    <3>1. (i + (n + k) \in la) # (i + (n + k) \in ma)
      BY <1>6, <1>7, <2>3, <2>5
    <3> QED
      BY <1>1, <2>2, <3>1, ShiftsDifferBy DEF va, ns
  <2> QED
    BY <2>1, <2>4, <2>5
<1>11. CASE N >= Width - i /\ (i \in ia \/ i \in it)
  <2>1. i + n \in ma
    BY <1>6, <1>7, <1>11
  <2>2. i + (n + N) \notin ma
    <3>1. i + (n + N) > Msb
      BY <1>0, <1>2, <1>11
    <3>2. ma \in Vec
      BY DEF ma, Most, Vec
    <3> QED
      BY <3>1, <3>2, BitOfVec, BitRange
  <2>3. n + N \in ns
    BY <1>3, <1>4
  <2> QED
    BY <1>1, <1>5, <2>1, <2>2, <2>3, ShiftsDifferBy DEF va, ns
<1> QED
  BY <1>8, <1>9, <1>10, <1>11

LEMMA ShiftxExact ==
    ASSUME NEW a \in Vec, NEW at \in Vec, NEW b \in Vec, NEW bt \in Vec, NEW i \in Bits,
           NEW signed, i \in cellift_shift_shiftx_precise(a, b, at, bt, signed)
    PROVE  ShiftsDiffer(Variants(a, at), {Offset(y, signed) : y \in Variants(b, bt)}, i)
<1> DEFINE O == Offsets(b, bt, signed)
           la == Least(a, at)
           ma == Most(a, at)
           va == Variants(a, at)
           ns == {Offset(y, signed) : y \in Variants(b, bt)}
           from == {h \in Bits : h - i \in O}
<1>0. i \in Int /\ \A h \in Bits : h \in Int /\ i + (h - i) = h
  BY BitRange
<1>1. a \in va /\ la \in va /\ ma \in va
  BY VariantsOf
<1>2. O \subseteq ns
  <2>1. \A x \in SUBSET bt : Least(b, bt) \cup x \in Variants(b, bt)
    BY DEF Least, Variants, Vec, Xor
  <2> QED
    BY <2>1 DEF Offsets
<1>3. \A j : (j \in la <=> j \in a /\ j \notin at) /\ (j \in ma <=> j \in a \/ j \in at)
  BY DEF Least, Most
<1>4. \/ from \cap at # {}
      \/ \E h, l \in from : (h \in a) # (l \in a)
      \/ from \cap ma # {} /\ \E n \in O : i + n \notin Bits
  BY DEF cellift_shift_shiftx_precise, Offsets
<1>5. \A h \in from : h - i \in ns /\ i + (h - i) = h
  BY <1>0, <1>2
<1>6. ma \in Vec
  BY DEF Most, Vec
<1> HIDE DEF O, la, ma, va, ns, from
<1>7. CASE from \cap at # {}
  <2>1. PICK h \in from : h \in at
    BY <1>7
  <2>2. (i + (h - i) \in la) # (i + (h - i) \in ma)
    BY <1>3, <1>5, <2>1
  <2>3. h - i \in ns
    BY <1>5
  <2> QED
    BY <1>1, <2>2, <2>3, ShiftsDifferBy DEF va, ns
<1>8. CASE \E h, l \in from : (h \in a) # (l \in a)
  <2>1. PICK h, l \in from : (h \in a) # (l \in a)
    BY <1>8
  <2>2. (i + (h - i) \in a) # (i + (l - i) \in a)
    BY <1>5, <2>1
  <2>3. h - i \in ns /\ l - i \in ns
    BY <1>5
  <2> QED
    BY <1>1, <2>2, <2>3, ShiftsDifferBy DEF va, ns
<1>9. CASE from \cap ma # {} /\ \E n \in O : i + n \notin Bits
  <2>1. PICK h \in from : h \in ma
    BY <1>9
  <2>2. PICK n \in O : i + n \notin Bits
    BY <1>9
  <2>3. i + (h - i) \in ma /\ i + n \notin ma /\ h - i \in ns /\ n \in ns
    BY <1>2, <1>5, <1>6, <2>1, <2>2, BitOfVec
  <2> QED
    BY <1>1, <2>3, ShiftsDifferBy DEF va, ns
<1> QED
  BY <1>4, <1>7, <1>8, <1>9

\* Every bit that an exact logic taints can be changed by the tainted bits.
LEMMA StatelessExact ==
    ASSUME NEW c \in Stateless, CellLogic(c) \in Exact,
           NEW a \in Vec, NEW at \in Vec, NEW b \in Vec, NEW bt \in Vec,
           NEW s \in SUBSET {0}, NEW st \in SUBSET {0}, NEW signed \in BOOLEAN,
           NEW i \in Bits, i \in TaintBy(CellLogic(c), a, b, s, at, bt, st, signed)
    PROVE  i \in Influence(c, a, b, s, at, bt, st, signed)
<1> DEFINE va == Variants(a, at)
           vb == Variants(b, bt)
           vs == Variants(s, st)
           T(l) == TaintBy(l, a, b, s, at, bt, st, signed)
           D == Differ(c, va, vb, vs, signed, i)
<1> SUFFICES D
  BY TwoVariants
<1>1. /\ a \in va /\ Least(a, at) \in va /\ Most(a, at) \in va
      /\ Min(a, at, signed) \in va /\ Max(a, at, signed) \in va
      /\ b \in vb /\ Least(b, bt) \in vb /\ Most(b, bt) \in vb
      /\ Min(b, bt, signed) \in vb /\ Max(b, bt, signed) \in vb
  BY VariantsOf
<1>2. s \in vs
  <2>1. s \subseteq Bits
    BY WidthAssumption DEF Bits
  <2> QED
    BY <2>1 DEF Variants, Vec, Xor
<1>4. \A p, q \in BOOLEAN : Bit(p # q) = Xor(Bit(p), Bit(q))
  BY DEF Bit, Xor
<1>5. i \in T(CellLogic(c))
  OBVIOUS
<1> HIDE DEF va, vb, vs, T, D
<1>6. CASE c \in {"$and", "$or", "$xor", "$not"}
  <2>1. CASE c = "$and"
    <3>1. i \in cellift_and(a, b, at, bt)
      BY <1>5, <2>1 DEF CellLogic, T, TaintBy
    <3>2. \A x, y, u : Out(c, x, y, u, signed) = x \cap y
      BY <2>1 DEF Out
    <3>3. i \in Xor(Least(a, at) \cap Least(b, bt), Most(a, at) \cap Most(b, bt))
      BY <3>1 DEF cellift_and, Xor, Least, Most
    <3>4. i \in Xor(Out(c, Least(a, at), Least(b, bt), s, signed),
                    Out(c, Most(a, at), Most(b, bt), s, signed))
      BY <3>2, <3>3
    <3> QED
      BY <1>1, <1>2, <3>4, DifferBy DEF D
  <2>2. CASE c = "$or"
    <3>1. i \in cellift_or(a, b, at, bt)
      BY <1>5, <2>2 DEF CellLogic, T, TaintBy
    <3>2. \A x, y, u : Out(c, x, y, u, signed) = x \cup y
      BY <2>2 DEF Out
    <3>3. i \in Xor(Least(a, at) \cup Least(b, bt), Most(a, at) \cup Most(b, bt))
      BY <3>1 DEF cellift_or, Inv, Xor, Least, Most
    <3>4. i \in Xor(Out(c, Least(a, at), Least(b, bt), s, signed),
                    Out(c, Most(a, at), Most(b, bt), s, signed))
      BY <3>2, <3>3
    <3> QED
      BY <1>1, <1>2, <3>4, DifferBy DEF D
  <2>3. CASE c = "$xor"
    <3>1. i \in cellift_xor(at, bt)
      BY <1>5, <2>3 DEF CellLogic, T, TaintBy
    <3>2. \A x, y, u : Out(c, x, y, u, signed) = Xor(x, y)
      BY <2>3 DEF Out
    <3>3. PICK x, xx \in va, y, yy \in vb : i \in Xor(Xor(x, y), Xor(xx, yy))
      BY <3>1, XorExact DEF va, vb
    <3>4. i \in Xor(Out(c, x, y, s, signed), Out(c, xx, yy, s, signed))
      BY <3>2, <3>3
    <3> QED
      BY <1>2, <3>4, DifferBy DEF D
  <2>4. CASE c = "$not"
    <3>1. i \in cellift_not(at)
      BY <1>5, <2>4 DEF CellLogic, T, TaintBy
    <3>2. \A x, y, u : Out(c, x, y, u, signed) = Inv(x)
      BY <2>4 DEF Out
    <3>3. PICK x, xx \in va : i \in Xor(Inv(x), Inv(xx))
      BY <3>1, NotExact DEF va
    <3>4. i \in Xor(Out(c, x, b, s, signed), Out(c, xx, b, s, signed))
      BY <3>2, <3>3
    <3> QED
      BY <1>1, <1>2, <3>4, DifferBy DEF D
  <2> QED
    BY <1>6, <2>1, <2>2, <2>3, <2>4
<1>7. CASE c = "$mux"
  <2>1. i \in cellift_mux(a, b, s, at, bt, st)
    BY <1>5, <1>7 DEF CellLogic, T, TaintBy
  <2>2. \A x, y, u : Out(c, x, y, u, signed) = Selected(u, x, y)
    BY <1>7 DEF Out, Selected
  <2>3. PICK x, xx \in va, y, yy \in vb, u, uu \in vs :
           i \in Xor(Selected(u, x, y), Selected(uu, xx, yy))
    BY <2>1, MuxExact DEF va, vb, vs
  <2>4. i \in Xor(Out(c, x, y, u, signed), Out(c, xx, yy, uu, signed))
    BY <2>2, <2>3
  <2> QED
    BY <2>4, DifferBy DEF D
<1>8. CASE c \in {"$add", "$neg"}
  <2>1. CASE c = "$add"
    <3>1. i \in cellift_add(a, b, at, bt)
      BY <1>5, <2>1, RtliftIsCellift DEF CellLogic, T, TaintBy
    <3>2. \A x, y, u : Out(c, x, y, u, signed) = Add(x, y)
      BY <2>1 DEF Out
    <3>3. PICK x, xx \in va, y, yy \in vb : i \in Xor(Add(x, y), Add(xx, yy))
      BY <3>1, AddExact DEF va, vb
    <3>4. i \in Xor(Out(c, x, y, s, signed), Out(c, xx, yy, s, signed))
      BY <3>2, <3>3
    <3> QED
      BY <1>2, <3>4, DifferBy DEF D
  <2>2. CASE c = "$neg"
    <3>1. i \in cellift_neg(a, at)
      BY <1>5, <2>2 DEF CellLogic, T, TaintBy
    <3>2. \A x, y, u : Out(c, x, y, u, signed) = Neg(x)
      BY <2>2 DEF Out
    <3>3. PICK x, xx \in va : i \in Xor(Neg(x), Neg(xx))
      BY <3>1, NegExact DEF va
    <3>4. i \in Xor(Out(c, x, b, s, signed), Out(c, xx, b, s, signed))
      BY <3>2, <3>3
    <3> QED
      BY <1>1, <1>2, <3>4, DifferBy DEF D
  <2> QED
    BY <1>8, <2>1, <2>2
<1>9. CASE c \in {"$eq", "$ne"}
  <2>1. i \in cellift_eq_ne(a, b, at, bt)
    BY <1>5, <1>9 DEF CellLogic, T, TaintBy
  <2>2. i = 0 /\ at \cup bt # {} /\ a \ (at \cup bt) = b \ (at \cup bt)
    BY <2>1 DEF cellift_eq_ne, Bit
  <2>3. PICK x \in va, y \in vb : x = y
    BY <2>2, EqExact DEF va, vb
  <2>4. PICK xx \in va, yy \in vb : xx # yy
    BY <2>2, EqExact DEF va, vb
  <2>5. \/ \A v, w, u : Out(c, v, w, u, signed) = IF v = w THEN {0} ELSE {}
        \/ \A v, w, u : Out(c, v, w, u, signed) = IF v # w THEN {0} ELSE {}
    BY <1>9 DEF Out, Bit
  <2>6. i \in Xor(Out(c, x, y, s, signed), Out(c, xx, yy, s, signed))
    BY <2>2, <2>3, <2>4, <2>5, XorMember
  <2> QED
    BY <1>2, <2>6, DifferBy DEF D
<1>10. CASE c \in {"$gt", "$lt", "$ge", "$le"}
  <2> DEFINE al == Min(a, at, signed)   ah == Max(a, at, signed)
             bl == Min(b, bt, signed)   bh == Max(b, bt, signed)
  <2>1. al \in va /\ ah \in va /\ bl \in vb /\ bh \in vb
    BY <1>1
  <2> HIDE DEF al, ah, bl, bh
  <2>2. CASE c = "$gt"
    <3>1. i \in Bit(Gt(al, bh, signed) # Gt(ah, bl, signed))
      BY <1>5, <2>2 DEF CellLogic, T, TaintBy, cellift_gt, al, ah, bl, bh
    <3>2. \A x, y, u : Out(c, x, y, u, signed) = Bit(Gt(x, y, signed))
      BY <2>2 DEF Out
    <3>3. (Gt(al, bh, signed)) \in BOOLEAN /\ (Gt(ah, bl, signed)) \in BOOLEAN
      BY DEF Gt, Greater
    <3>4. i \in Xor(Bit(Gt(al, bh, signed)), Bit(Gt(ah, bl, signed)))
      BY <1>4, <3>1, <3>3
    <3>5. i \in Xor(Out(c, al, bh, s, signed), Out(c, ah, bl, s, signed))
      BY <3>2, <3>4
    <3> QED
      BY <1>2, <2>1, <3>5, DifferBy DEF D
  <2>3. CASE c = "$lt"
    <3>1. i \in Bit(Gt(bh, al, signed) # Gt(bl, ah, signed))
      BY <1>5, <2>3 DEF CellLogic, T, TaintBy, cellift_lt, al, ah, bl, bh
    <3>2. \A x, y, u : Out(c, x, y, u, signed) = Bit(Gt(y, x, signed))
      BY <2>3 DEF Out
    <3>3. (Gt(bh, al, signed)) \in BOOLEAN /\ (Gt(bl, ah, signed)) \in BOOLEAN
      BY DEF Gt, Greater
    <3>4. i \in Xor(Bit(Gt(bh, al, signed)), Bit(Gt(bl, ah, signed)))
      BY <1>4, <3>1, <3>3
    <3>5. i \in Xor(Out(c, al, bh, s, signed), Out(c, ah, bl, s, signed))
      BY <3>2, <3>4
    <3> QED
      BY <1>2, <2>1, <3>5, DifferBy DEF D
  <2>4. CASE c = "$ge"
    <3>1. i \in Bit(Ge(al, bh, signed) # Ge(ah, bl, signed))
      BY <1>5, <2>4 DEF CellLogic, T, TaintBy, cellift_ge, al, ah, bl, bh
    <3>2. \A x, y, u : Out(c, x, y, u, signed) = Bit(Ge(x, y, signed))
      BY <2>4 DEF Out
    <3>3. (Ge(al, bh, signed)) \in BOOLEAN /\ (Ge(ah, bl, signed)) \in BOOLEAN
      BY DEF Ge
    <3>4. i \in Xor(Bit(Ge(al, bh, signed)), Bit(Ge(ah, bl, signed)))
      BY <1>4, <3>1, <3>3
    <3>5. i \in Xor(Out(c, al, bh, s, signed), Out(c, ah, bl, s, signed))
      BY <3>2, <3>4
    <3> QED
      BY <1>2, <2>1, <3>5, DifferBy DEF D
  <2>5. CASE c = "$le"
    <3>1. i \in Bit(Ge(bh, al, signed) # Ge(bl, ah, signed))
      BY <1>5, <2>5 DEF CellLogic, T, TaintBy, cellift_le, al, ah, bl, bh
    <3>2. \A x, y, u : Out(c, x, y, u, signed) = Bit(Ge(y, x, signed))
      BY <2>5 DEF Out
    <3>3. (Ge(bh, al, signed)) \in BOOLEAN /\ (Ge(bl, ah, signed)) \in BOOLEAN
      BY DEF Ge
    <3>4. i \in Xor(Bit(Ge(bh, al, signed)), Bit(Ge(bl, ah, signed)))
      BY <1>4, <3>1, <3>3
    <3>5. i \in Xor(Out(c, al, bh, s, signed), Out(c, ah, bl, s, signed))
      BY <3>2, <3>4
    <3> QED
      BY <1>2, <2>1, <3>5, DifferBy DEF D
  <2> QED
    BY <1>10, <2>2, <2>3, <2>4, <2>5
<1>11. CASE c \in {"$logic_not", "$reduce_or", "$reduce_and"}
  <2>1. CASE c \in {"$logic_not", "$reduce_or"}
    <3>1. i \in cellift_logic_not(a, at)
      BY <1>5, <2>1 DEF CellLogic, T, TaintBy
    <3>2. i = 0 /\ Least(a, at) = {} /\ Most(a, at) # {}
      BY <3>1 DEF cellift_logic_not, Most, Bit
    <3>3. \/ \A x, y, u : Out(c, x, y, u, signed) = IF x = {} THEN {0} ELSE {}
          \/ \A x, y, u : Out(c, x, y, u, signed) = IF x # {} THEN {0} ELSE {}
      BY <2>1 DEF Out, Bit
    <3>4. i \in Xor(Out(c, Least(a, at), b, s, signed), Out(c, Most(a, at), b, s, signed))
      BY <3>2, <3>3, XorMember
    <3> QED
      BY <1>1, <1>2, <3>4, DifferBy DEF D
  <2>2. CASE c = "$reduce_and"
    <3>1. i \in cellift_reduce_and(a, at)
      BY <1>5, <2>2 DEF CellLogic, T, TaintBy
    <3>2. i = 0 /\ Most(a, at) = Bits /\ Least(a, at) # Bits
      BY <3>1 DEF cellift_reduce_and, Least, Vec, Bit
    <3>3. \A x, y, u : Out(c, x, y, u, signed) = IF x = Bits THEN {0} ELSE {}
      BY <2>2 DEF Out, Bit
    <3>4. i \in Xor(Out(c, Least(a, at), b, s, signed), Out(c, Most(a, at), b, s, signed))
      BY <3>2, <3>3, XorMember
    <3> QED
      BY <1>1, <1>2, <3>4, DifferBy DEF D
  <2> QED
    BY <1>11, <2>1, <2>2
<1>12. CASE c \in {"$logic_and", "$logic_or"}
  <2> DEFINE la == Least(a, at)   ma == Most(a, at)
             lb == Least(b, bt)   mb == Most(b, bt)
  <2>1. la \in va /\ ma \in va /\ lb \in vb /\ mb \in vb
    BY <1>1
  <2> HIDE DEF la, ma, lb, mb
  <2>2. CASE c = "$logic_and"
    <3>1. i \in Bit((la # {} /\ lb # {}) # (ma # {} /\ mb # {}))
      BY <1>5, <2>2 DEF CellLogic, T, TaintBy, cellift_logic_and, la, ma, lb, mb
    <3>2. \A x, y, u : Out(c, x, y, u, signed) = Bit((x # {} /\ y # {}))
      BY <2>2 DEF Out
    <3>3. ((la # {} /\ lb # {})) \in BOOLEAN /\ ((ma # {} /\ mb # {})) \in BOOLEAN
      OBVIOUS
    <3>4. i \in Xor(Bit((la # {} /\ lb # {})), Bit((ma # {} /\ mb # {})))
      BY <1>4, <3>1, <3>3
    <3>5. i \in Xor(Out(c, la, lb, s, signed), Out(c, ma, mb, s, signed))
      BY <3>2, <3>4
    <3> QED
      BY <1>2, <2>1, <3>5, DifferBy DEF D
  <2>3. CASE c = "$logic_or"
    <3>1. i \in Bit((la # {} \/ lb # {}) # (ma # {} \/ mb # {}))
      BY <1>5, <2>3 DEF CellLogic, T, TaintBy, cellift_logic_or, la, ma, lb, mb
    <3>2. \A x, y, u : Out(c, x, y, u, signed) = Bit((x # {} \/ y # {}))
      BY <2>3 DEF Out
    <3>3. ((la # {} \/ lb # {})) \in BOOLEAN /\ ((ma # {} \/ mb # {})) \in BOOLEAN
      OBVIOUS
    <3>4. i \in Xor(Bit((la # {} \/ lb # {})), Bit((ma # {} \/ mb # {})))
      BY <1>4, <3>1, <3>3
    <3>5. i \in Xor(Out(c, la, lb, s, signed), Out(c, ma, mb, s, signed))
      BY <3>2, <3>4
    <3> QED
      BY <1>2, <2>1, <3>5, DifferBy DEF D
  <2> QED
    BY <1>12, <2>2, <2>3
<1>13. CASE c = "$reduce_xor"
  <2>1. i \in cellift_reduce_xor(at)
    BY <1>5, <1>13 DEF CellLogic, T, TaintBy
  <2>2. i = 0 /\ at # {}
    BY <2>1 DEF cellift_reduce_xor, Bit
  <2>3. PICK j \in at : TRUE
    BY <2>2
  <2>4. Xor(a, {j}) \in va
    BY <1>1, <2>3, FlipVariant DEF va
  <2>5. (Cardinality(a) % 2 = 1) # (Cardinality(Xor(a, {j})) % 2 = 1)
    BY <2>3, ParityFlips DEF Vec
  <2>6. \A x, y, u : Out(c, x, y, u, signed) = IF Cardinality(x) % 2 = 1 THEN {0} ELSE {}
    BY <1>13 DEF Out, Bit
  <2>7. i \in Xor(Out(c, a, b, s, signed), Out(c, Xor(a, {j}), b, s, signed))
    BY <2>2, <2>5, <2>6, XorMember
  <2> QED
    BY <1>1, <1>2, <2>4, <2>7, DifferBy DEF D
<1>14. CASE c \in {"$shl", "$shr", "$shift", "$shiftx"}
  <2>1. \A v, n : i \in Shift(v, n) <=> i + n \in v
    BY DEF Shift
  <2>2. CASE c = "$shl"
    <3>1. CellLogic(c) = "cellift_shl_sshl_precise"
      BY <2>2 DEF CellLogic, Exact
    <3>2. i \in cellift_shl_sshl_precise(a, b, at, bt)
      BY <1>5, <3>1 DEF T, TaintBy
    <3>3. \A x, y, u : Out(c, x, y, u, signed) = Shift(x, 0 - Num(y))
      BY <2>2 DEF Out
    <3>4. PICK x, xx \in va, y, yy \in vb : (i + (0 - Num(y)) \in x) # (i + (0 - Num(yy)) \in xx)
      BY <3>2, ShlExact DEF va, vb, ShiftsDiffer
    <3>5. i \in Xor(Out(c, x, y, s, signed), Out(c, xx, yy, s, signed))
      BY <2>1, <3>3, <3>4, XorMember
    <3> QED
      BY <1>2, <3>5, DifferBy DEF D
  <2>3. CASE c = "$shr"
    <3>1. CellLogic(c) = "cellift_shr"
      BY <2>3 DEF CellLogic, Exact
    <3>2. i \in cellift_shr(a, b, at, bt)
      BY <1>5, <3>1 DEF T, TaintBy
    <3>3. \A x, y, u : Out(c, x, y, u, signed) = Shift(x, Num(y))
      BY <2>3 DEF Out
    <3>4. PICK x, xx \in va, y, yy \in vb : (i + Num(y) \in x) # (i + Num(yy) \in xx)
      BY <3>2, ShrExact DEF va, vb, ShiftsDiffer
    <3>5. i \in Xor(Out(c, x, y, s, signed), Out(c, xx, yy, s, signed))
      BY <2>1, <3>3, <3>4, XorMember
    <3> QED
      BY <1>2, <3>5, DifferBy DEF D
  <2>4. CASE c \in {"$shift", "$shiftx"}
    <3>1. CellLogic(c) = "cellift_shift_shiftx_precise"
      BY <2>4 DEF CellLogic, Exact
    <3>2. i \in cellift_shift_shiftx_precise(a, b, at, bt, signed)
      BY <1>5, <3>1 DEF T, TaintBy
    <3>3. \A x, y, u : Out(c, x, y, u, signed) = Shift(x, Offset(y, signed))
      BY <2>4 DEF Out
    <3>4. PICK x, xx \in va, y, yy \in vb : (i + Offset(y, signed) \in x) # (i + Offset(yy, signed) \in xx)
      BY <3>2, ShiftxExact DEF va, vb, ShiftsDiffer
    <3>5. i \in Xor(Out(c, x, y, s, signed), Out(c, xx, yy, s, signed))
      BY <2>1, <3>3, <3>4, XorMember
    <3> QED
      BY <1>2, <3>5, DifferBy DEF D
  <2> QED
    BY <1>14, <2>2, <2>3, <2>4
<1>15. c \notin {"$sub", "$mul", "$sshr"}
  BY DEF CellLogic, Exact
<1> QED
  BY <1>6, <1>7, <1>8, <1>9, <1>10, <1>11, <1>12, <1>13, <1>14, <1>15 DEF Stateless, OneBit

LEMMA ExactIsProved ==
    ASSUME NEW c \in Stateless, Logic(c) \in Exact
    PROVE  Logic(c) = CellLogic(c) /\ Logic(c) \in Proved
<1>1. Logic(c) \in Proved
  BY DEF Exact, Proved
<1> QED
  BY <1>1, LogicOfCell DEF Exact

\* Exactness of the tracking: whatever values and taints the wires carry, an
\* exact logic taints the bits that the tainted bits of its operands can
\* change and no other, for every width (cells/*.cc).  The two adders, and
\* the loops of the precise shifts, are as exact as the gates.
THEOREM ExactLogicsAreExact == Spec => []TaintIsExact
<1>1. TaintTypeOK => TaintIsExact
  <2> SUFFICES ASSUME TaintTypeOK, NEW c \in Stateless, Logic(c) \in Exact,
                      NEW a \in Data, NEW b \in Data, NEW s \in Control, NEW signed \in BOOLEAN,
                      signed => c \in Signable
               PROVE  TaintBy(Logic(c), val[a], val[b], val[s], taint[a], taint[b], taint[s], signed)
                        = Influence(c, val[a], val[b], val[s], taint[a], taint[b], taint[s], signed)
    BY DEF TaintIsExact
  <2> DEFINE T == TaintBy(Logic(c), val[a], val[b], val[s], taint[a], taint[b], taint[s], signed)
             I == Influence(c, val[a], val[b], val[s], taint[a], taint[b], taint[s], signed)
  <2>1. /\ val[a] \in Vec /\ val[b] \in Vec /\ val[s] \in SUBSET {0}
        /\ taint[a] \in Vec /\ taint[b] \in Vec /\ taint[s] \in SUBSET {0}
    BY WiresAssumption DEF TaintTypeOK, Wires, Word, Positions, Vec
  <2>2. Logic(c) = CellLogic(c) /\ Logic(c) \in Proved
    BY ExactIsProved
  <2>3. T \in Vec
    BY <2>1, TaintByType
  <2>4. ASSUME NEW i \in T PROVE i \in I
    BY <2>1, <2>2, <2>3, <2>4, StatelessExact DEF Vec
  <2>5. ASSUME NEW i \in I PROVE i \in T
    <3>1. PICK x \in Variants(val[a], taint[a]), y \in Variants(val[b], taint[b]),
               u \in Variants(val[s], taint[s]) :
             i \in Xor(Out(c, val[a], val[b], val[s], signed), Out(c, x, y, u, signed))
      BY <2>5 DEF Influence
    <3>2. /\ x \in Vec /\ Covers(taint[a], val[a], x)
          /\ y \in Vec /\ Covers(taint[b], val[b], y)
          /\ u \in SUBSET {0} /\ Covers(taint[s], val[s], u)
      BY <2>1 DEF Variants, Covers, Xor
    <3>3. Covers(T, Out(c, val[a], val[b], val[s], signed), Out(c, x, y, u, signed))
      BY <2>1, <2>2, <3>2, StatelessSound
    <3> QED
      BY <3>1, <3>3 DEF Covers
  <2> HIDE DEF T, I
  <2>6. T = I
    BY <2>4, <2>5
  <2> QED
    BY <2>6 DEF T, I
<1> QED
  BY <1>1, TaintTypeCorrect, PTL

=============================================================================
