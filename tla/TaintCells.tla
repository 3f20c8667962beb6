----------------------------- MODULE TaintCells -----------------------------
(***************************************************************************)
(* The cells of a netlist and the taint logic that the pass cellift of     *)
(* PDIFT instruments them with (passes/cellift/cells).  A vector of Width  *)
(* bits is the set of the positions of its bits that are high, a taint the *)
(* set of its tainted bits: And is \cap, Or is \cup, and a narrow vector   *)
(* is zero-extended by being what it is.  No policy expression is loaded,  *)
(* so a taint carries no path label (state_num = 0): see ExecPolicy.       *)
(* The ports of a cell have one width; its attributes are unset.           *)
(***************************************************************************)
EXTENDS Integers

CONSTANT Width      \* bits of a data wire

\* Wires have at least one bit.
ASSUME WidthAssumption == Width \in Nat \ {0}

Bits == 0 .. (Width - 1)
Vec == SUBSET Bits
Msb == Width - 1

(***************************************************************************)
(* What the cells of the synthesiser compute.                              *)
(***************************************************************************)
Inv(a) == Bits \ a
Xor(a, b) == (a \ b) \cup (b \ a)
Bit(p) == IF p THEN {0} ELSE {}          \* a one-bit result
Rep(p) == IF p THEN Bits ELSE {}         \* one bit repeated over the width

\* Positions a carry (a borrow) comes into: generated below, passed on since.
Carry(a, b) ==
    {i \in Bits : \E j \in Bits : /\ j < i
                                  /\ j \in a \cap b
                                  /\ \A k \in Bits : j < k /\ k < i => k \in a \cup b}
Borrow(a, b) ==
    {i \in Bits : \E j \in Bits : /\ j < i
                                  /\ j \in b \ a
                                  /\ \A k \in Bits : j < k /\ k < i => k \notin a \ b}
Add(a, b) == Xor(Xor(a, b), Carry(a, b))
Sub(a, b) == Xor(Xor(a, b), Borrow(a, b))
Neg(a) == Sub({}, a)

\* The highest bit that differs decides; a signed comparison flips the signs.
Greater(a, b) == \E i \in a \ b : \A j \in b \ a : j < i
Flip(a) == Xor(a, {Msb})
Gt(a, b, signed) == IF signed THEN Greater(Flip(a), Flip(b)) ELSE Greater(a, b)
Ge(a, b, signed) == ~Gt(b, a, signed)

\* The number a vector stands for, unsigned and in two's complement.
Num(b) ==
    LET top[i \in 0 .. Width] ==      \* of the i highest bits
            IF i = 0 THEN 0 ELSE 2 * top[i - 1] + (IF Width - i \in b THEN 1 ELSE 0)
    IN  top[Width]
Offset(b, signed) == IF signed /\ Msb \in b THEN Num(b) - (Num(Bits) + 1) ELSE Num(b)

Shift(a, n) == {i \in Bits : i + n \in a}    \* right if n > 0, left if n < 0
Sshr(a, n, signed) ==
    Shift(a, n) \cup {i \in Bits : signed /\ i + n > Msb /\ Msb \in a}

\* The low bits of the product.
Mul(a, b) == {i \in Bits : ((Num(a) * Num(b)) \div 2 ^ i) % 2 = 1}

\* $pmux: the word of b that the high bit of s selects, a if there is none.
Pmux(a, b, s) == IF s = {} THEN a ELSE UNION {b[i] : i \in s}
OneHot(s) == \A i, j \in s : i = j

(***************************************************************************)
(* The taint of the output of each cell, from the values and the taints of *)
(* its inputs.                                                             *)
(***************************************************************************)
\* The least and the greatest value that the tainted bits allow.
Least(a, at) == a \ at
Most(a, at) == a \cup at

\* Mutant: two tainted bits are forgotten.
cellift_and_one_of_two(a, b, at, bt) == (at \cap b) \cup (bt \cap a)

cellift_and(a, b, at, bt) == (at \cap b) \cup (bt \cap a) \cup (at \cap bt)

\* Mutant: the taint of a passes whatever b is.
cellift_or_open(a, b, at, bt) == at \cup (bt \cap Inv(a))

cellift_or(a, b, at, bt) == (at \cap Inv(b)) \cup (bt \cap Inv(a)) \cup (at \cap bt)

cellift_xor(at, bt) == at \cup bt

cellift_not(at) == at

cellift_mux(a, b, s, at, bt, st) ==
    (at \cap Rep(s = {} \/ st # {})) \cup (bt \cap Rep(s # {} \/ st # {}))
        \cup (Xor(a, b) \cap Rep(st # {}))

\* Both extremes are added; where the sums differ the taint may reach.
cellift_add(a, b, at, bt) ==
    Xor(Add(Least(a, at), Least(b, bt)), Add(Most(a, at), Most(b, bt))) \cup at \cup bt

\* A chain of full adders, each with the taint of its carry.
rtlift_add(a, b, at, bt) ==
    LET carry[i \in 0 .. Width] ==
            IF i = 0 THEN [val |-> FALSE, taint |-> FALSE]
            ELSE LET p == (i - 1) \in a      pt == (i - 1) \in at
                     q == (i - 1) \in b      qt == (i - 1) \in bt
                     c == carry[i - 1].val   ct == carry[i - 1].taint
                 IN  [val   |-> (p /\ q) \/ ((p # q) /\ c),
                      taint |-> \/ pt /\ (qt \/ ct \/ q # c)
                                \/ qt /\ (ct \/ p # c)
                                \/ ct /\ p # q]
    IN  {i \in Bits : i \in at \cup bt \/ carry[i].taint}

\* Only the extremes of a are taken: b is subtracted with the value it has.
cellift_sub(a, b, at, bt) ==
    Xor(Sub(Most(a, at), b), Sub(Least(a, at), b)) \cup at \cup bt

cellift_neg(a, at) == Xor(Neg(Least(a, at)), Neg(Most(a, at))) \cup at

\* Mutant: equal operands taint the result, tainted or not.
cellift_eq_ne_untested(a, b, at, bt) == Bit(a \ (at \cup bt) = b \ (at \cup bt))

cellift_eq_ne(a, b, at, bt) ==
    Bit(at \cup bt # {} /\ a \ (at \cup bt) = b \ (at \cup bt))

\* The extremes of a comparison: a signed one swaps the roles of the sign bit.
Min(a, at, signed) ==
    IF signed THEN (Least(a, at) \ {Msb}) \cup (Most(a, at) \cap {Msb}) ELSE Least(a, at)
Max(a, at, signed) ==
    IF signed THEN (Most(a, at) \ {Msb}) \cup (Least(a, at) \cap {Msb}) ELSE Most(a, at)

cellift_ge(a, b, at, bt, signed) ==
    Bit(Ge(Min(a, at, signed), Max(b, bt, signed), signed)
            # Ge(Max(a, at, signed), Min(b, bt, signed), signed))

cellift_gt(a, b, at, bt, signed) ==
    Bit(Gt(Min(a, at, signed), Max(b, bt, signed), signed)
            # Gt(Max(a, at, signed), Min(b, bt, signed), signed))

\* a <= b is b >= a: the code compares the same extremes with the other cell.
cellift_le(a, b, at, bt, signed) ==
    Bit(Ge(Max(b, bt, signed), Min(a, at, signed), signed)
            # Ge(Min(b, bt, signed), Max(a, at, signed), signed))

cellift_lt(a, b, at, bt, signed) ==
    Bit(Gt(Max(b, bt, signed), Min(a, at, signed), signed)
            # Gt(Min(b, bt, signed), Max(a, at, signed), signed))

\* $logic_not, $reduce_or and $reduce_bool
cellift_logic_not(a, at) == Bit(at # {} /\ Least(a, at) = {})

cellift_logic_and(a, b, at, bt) ==
    Bit((Least(a, at) # {} /\ Least(b, bt) # {}) # (Most(a, at) # {} /\ Most(b, bt) # {}))

cellift_logic_or(a, b, at, bt) ==
    Bit((Least(a, at) # {} \/ Least(b, bt) # {}) # (Most(a, at) # {} \/ Most(b, bt) # {}))

cellift_reduce_and(a, at) == Bit(at # {} /\ Most(a, at) = Bits)

cellift_reduce_xor(at) == Bit(at # {})

\* The OR reductions of the two operands go into empty signals, not to Y.
cellift_mul == {}

\* The conjunctive logics: one OR reduction of every tainted input bit.
conjunctive_one_input(at) == Rep(at # {})
conjunctive_two_inputs(at, bt) == Rep(at \cup bt # {})
conjunctive_three_inputs(at, bt, st) == Rep(at \cup bt \cup st # {})

(***************************************************************************)
(* Shifts.  First by the untainted bits of b, then by every amount k that  *)
(* the tainted bits of b can add.                                          *)
(***************************************************************************)
Reaches(bt, k) == \E x \in SUBSET bt : Num(x) = k

cellift_shl_sshl_precise(a, b, at, bt) ==
    LET n  == Num(Least(b, bt))
        ia == Shift(a, 0 - n)
        it == Shift(at, 0 - n)
    IN  {i \in Bits :
            \/ i \in it
            \/ \E k \in 1 .. i : /\ Reaches(bt, k)
                                 /\ \/ (i \in ia) # (i - k \in ia)
                                    \/ i \in it \/ i - k \in it
            \/ Num(bt) > i /\ i \in ia \cup it}

cellift_shr(a, b, at, bt) ==
    LET n  == Num(Least(b, bt))
        ia == Shift(a, n)
        it == Shift(at, n)
    IN  {i \in Bits :
            \/ i \in it
            \/ \E k \in 1 .. (Msb - i) : /\ Reaches(bt, k)
                                         /\ \/ (i \in ia) # (i + k \in ia)
                                            \/ i \in it \/ i + k \in it
            \/ Num(bt) >= Width - i /\ i \in ia \cup it}

\* A shift past the end repeats the sign: the value of the sign bit is
\* compared, its taint is not looked at.
cellift_sshr(a, b, at, bt, signed) ==
    LET n  == Num(Least(b, bt))
        ia == Sshr(a, n, signed)
        it == Sshr(at, n, signed)
    IN  {i \in Bits :
            \/ i \in it
            \/ \E k \in 1 .. (Msb - i) : /\ Reaches(bt, k)
                                         /\ \/ (i \in ia) # (i + k \in ia)
                                            \/ i \in it \/ i + k \in it
            \/ /\ Num(bt) >= Width - i
               /\ i \in it \/ (i \in ia) # (signed /\ Msb \in ia)}

\* $shift and $shiftx: offset is what b may stand for, in its signedness.
cellift_shift_shiftx_precise(a, b, at, bt, signed) ==
    LET offset == {Offset(Least(b, bt) \cup y, signed) : y \in SUBSET bt}
        from(i) == {h \in Bits : h - i \in offset}
    IN  {i \in Bits :
            \/ from(i) \cap at # {}
            \/ \E h, l \in from(i) : (h \in a) # (l \in a)
            \/ /\ from(i) \cap Most(a, at) # {}
               /\ \E n \in offset : i + n \notin Bits}

\* The imprecise shifts: a tainted b taints all, else the taint is shifted too.
cellift_shl_sshl_imprecise(b, at, bt) == Rep(bt # {}) \cup Shift(at, 0 - Num(b))
cellift_shr_sshr_imprecise(b, at, bt, signed) ==
    Rep(bt # {}) \cup Sshr(at, Num(b), signed)
cellift_shiftx_imprecise(b, at, bt, signed) ==
    Rep(bt # {}) \cup Shift(at, Offset(b, signed))

\* The reduction that should ask whether b is tainted is given a's taint.
cellift_shift_imprecise(b, at, signed) ==
    Rep(at # {}) \cup Shift(at, Offset(b, signed))

(***************************************************************************)
(* $pmux, with a word b[i] for each bit i of s; at most one bit of s is    *)
(* supposed to be high.                                                    *)
(***************************************************************************)
\* Taint that a selected, or possibly selected, word brings along.
PmuxFlow(s, at, bt, st) ==
    (at \cap Rep(s \ st = {})) \cup UNION {bt[i] : i \in s \cup st}

\* Where a possibly selected word differs from a, if a may be selected.
PmuxDiffers(a, b, s, st) ==
    {j \in Bits : s \ st = {} /\ st # {} /\ \E i \in s \cup st : j \in Xor(a, b[i])}

\* The fold over the pairs (i, k) continues from its element i - 1, which is
\* that of an earlier pair, so that of all the pairs two are left.
PmuxPairs(b, s, st) ==
    LET against(i, k) == IF {i, k} \subseteq s \cup st THEN Xor(b[i], b[k]) ELSE {}
    IN  IF Width = 2 THEN against(0, 1) ELSE against(0, Msb - 1) \cup against(Msb - 1, Msb)

cellift_pmux_small_cells(a, b, s, at, bt, st) ==
    IF Width = 1
    THEN cellift_mux(a, b[0], s, at, bt[0], st)
    ELSE PmuxFlow(s, at, bt, st) \cup PmuxDiffers(a, b, s, st) \cup PmuxPairs(b, s, st)

\* The mismatch of a against b is computed and then left out of the output.
cellift_pmux_large_cells(b, s, at, bt, st) ==
    PmuxFlow(s, at, bt, st)
        \cup UNION {IF i # k THEN Xor(b[i], b[k]) ELSE {} : i, k \in s \cup st}

=============================================================================
