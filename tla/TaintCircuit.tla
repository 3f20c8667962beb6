---------------------------- MODULE TaintCircuit ----------------------------
(***************************************************************************)
(* A netlist instrumented by the pass cellift of PDIFT, run beside a twin  *)
(* whose secret inputs differ: val is what a wire carries, alt what it     *)
(* carries in the twin, taint what the instrumentation says of it.  The    *)
(* instrumentation sees only the first run.  Evaluating a netlist is a     *)
(* sequence of steps, each of which computes the output of one cell, so    *)
(* every netlist over the cells in Logics, in every order its cells are    *)
(* evaluated in, is a behaviour.  Clock and reset are the same in both     *)
(* runs: they are always considered untainted.                             *)
(***************************************************************************)
EXTENDS TaintCells, FiniteSets

CONSTANTS
    Data,            \* wires of Width bits
    Control,         \* one-bit wires: selects, enables, results of comparisons
    OptionChoices,   \* the sets of command-line options the pass may be given
    Logics,          \* the instrumentation functions the circuit is built with
    Flops,           \* the types of its flip-flops and latches
    AllUses          \* whether they are also used where their logic loses taint

\* A wire has one width.
ASSUME WiresAssumption == Data \cap Control = {}

VARIABLES opts, val, alt, taint

vars == <<opts, val, alt, taint>>

Wires == Data \cup Control
Positions(w) == IF w \in Data THEN Bits ELSE {0}
Word(w) == SUBSET Positions(w)
Low(v) == v \cap {0}       \* a one-bit port reads the lowest bit of its wire

(***************************************************************************)
(* What a cell computes.                                                   *)
(***************************************************************************)
\* Cells with a one-bit result: it may go to a control wire.
OneBit == {"$eq", "$ne", "$ge", "$gt", "$le", "$lt", "$logic_not", "$logic_and",
           "$logic_or", "$reduce_or", "$reduce_and", "$reduce_xor"}
Stateless == OneBit \cup {"$and", "$or", "$xor", "$not", "$mux", "$add", "$sub", "$neg",
                          "$mul", "$shl", "$shr", "$sshr", "$shift", "$shiftx"}

\* Cells whose result depends on their operands being signed.
Signable == {"$ge", "$gt", "$le", "$lt", "$sshr", "$shift", "$shiftx"}

Out(c, a, b, s, signed) ==
    CASE c = "$and"        -> a \cap b
      [] c = "$or"         -> a \cup b
      [] c = "$xor"        -> Xor(a, b)
      [] c = "$not"        -> Inv(a)
      [] c = "$mux"        -> IF s = {} THEN a ELSE b
      [] c = "$add"        -> Add(a, b)
      [] c = "$sub"        -> Sub(a, b)
      [] c = "$neg"        -> Neg(a)
      [] c = "$mul"        -> Mul(a, b)
      [] c = "$eq"         -> Bit(a = b)
      [] c = "$ne"         -> Bit(a # b)
      [] c = "$ge"         -> Bit(Ge(a, b, signed))
      [] c = "$gt"         -> Bit(Gt(a, b, signed))
      [] c = "$le"         -> Bit(Ge(b, a, signed))
      [] c = "$lt"         -> Bit(Gt(b, a, signed))
      [] c = "$logic_not"  -> Bit(a = {})
      [] c = "$logic_and"  -> Bit(a # {} /\ b # {})
      [] c = "$logic_or"   -> Bit(a # {} \/ b # {})
      [] c = "$reduce_or"  -> Bit(a # {})
      [] c = "$reduce_and" -> Bit(a = Bits)
      [] c = "$reduce_xor" -> Bit(Cardinality(a) % 2 = 1)
      [] c = "$shl"        -> Shift(a, 0 - Num(b))
      [] c = "$shr"        -> Shift(a, Num(b))
      [] c = "$sshr"       -> Sshr(a, Num(b), signed)
      [] OTHER             -> Shift(a, Offset(b, signed))     \* $shift, $shiftx

(***************************************************************************)
(* The function that instruments a cell, by its type and the options.      *)
(***************************************************************************)
\* The option that turns the logic of a cell into one OR reduction.
ConjunctiveOption(c) ==
    CASE c = "$and"                        -> "-conjunctive-and"
      [] c = "$or"                         -> "-conjunctive-or"
      [] c = "$add"                        -> "-conjunctive-add"
      [] c = "$sub"                        -> "-conjunctive-sub"
      [] c = "$neg"                        -> "-conjunctive-neg"
      [] c = "$mul"                        -> "-conjunctive-mul"
      [] c = "$mux"                        -> "-conjunctive-mux"
      [] c = "$pmux"                       -> "-conjunctive-pmux"
      [] c \in {"$eq", "$ne"}              -> "-conjunctive-eq-ne"
      [] c = "$ge"                         -> "-conjunctive-ge"
      [] c = "$gt"                         -> "-conjunctive-gt"
      [] c = "$le"                         -> "-conjunctive-le"
      [] c = "$lt"                         -> "-conjunctive-lt"
      [] c = "$logic_and"                  -> "-conjunctive-logic-and"
      [] c = "$logic_or"                   -> "-conjunctive-logic-or"
      [] c \in {"$logic_not", "$reduce_or"} -> "-conjunctive-logic-not"
      [] c = "$reduce_and"                 -> "-conjunctive-reduce-and"
      [] c = "$shl"                        -> "-conjunctive-shl-sshl"
      [] c = "$shr"                        -> "-conjunctive-shr"
      [] c = "$sshr"                       -> "-conjunctive-sshr"
      [] c \in {"$shift", "$shiftx"}       -> "-conjunctive-shift-shiftx"
      [] OTHER                             -> "none"           \* $xor, $not, $reduce_xor

\* The logic of a cell whose conjunctive option is not given.
CellLogic(c) ==
    LET given(o) == o \in opts IN
    CASE c = "$and"                         -> "cellift_and"
      [] c = "$or"                          -> "cellift_or"
      [] c = "$xor"                         -> "cellift_xor"
      [] c = "$not"                         -> "cellift_not"
      [] c = "$mux"                         -> "cellift_mux"
      [] c = "$add"   -> IF given("-rtlift") THEN "rtlift_add" ELSE "cellift_add"
      [] c = "$sub"                         -> "cellift_sub"
      [] c = "$neg"                         -> "cellift_neg"
      [] c = "$mul"                         -> "cellift_mul"
      [] c \in {"$eq", "$ne"}               -> "cellift_eq_ne"
      [] c = "$ge"                          -> "cellift_ge"
      [] c = "$gt"                          -> "cellift_gt"
      [] c = "$le"                          -> "cellift_le"
      [] c = "$lt"                          -> "cellift_lt"
      [] c \in {"$logic_not", "$reduce_or"} -> "cellift_logic_not"
      [] c = "$logic_and"                   -> "cellift_logic_and"
      [] c = "$logic_or"                    -> "cellift_logic_or"
      [] c = "$reduce_and"                  -> "cellift_reduce_and"
      [] c = "$reduce_xor"                  -> "cellift_reduce_xor"
      [] c = "$shl"   -> IF given("-imprecise-shl-sshl") THEN "cellift_shl_sshl_imprecise"
                         ELSE "cellift_shl_sshl_precise"
      [] c \in {"$shr", "$sshr"} /\ given("-imprecise-shr-sshr")
                                            -> "cellift_shr_sshr_imprecise"
      [] c = "$shr"                         -> "cellift_shr"
      [] c = "$sshr"                        -> "cellift_sshr"
      [] c \in {"$shift", "$shiftx"} /\ given("-precise-shiftx")
                                            -> "cellift_shift_shiftx_precise"
      [] c = "$shiftx"                      -> "cellift_shiftx_imprecise"
      [] c = "$shift"                       -> "cellift_shift_imprecise"
      [] c = "$pmux"  -> IF given("-pmux-use-large-cells") THEN "cellift_pmux_large_cells"
                         ELSE "cellift_pmux_small_cells"

\* Cells whose conjunctive logic takes one or three inputs, not two.
OneInput == {"$neg", "$logic_not", "$reduce_or", "$reduce_and"}
ThreeInputs == {"$mux", "$pmux"}

Logic(c) ==
    LET given(o) == o \in opts
        conjoined == \/ given(ConjunctiveOption(c))
                     \/ c \in {"$and", "$or"} /\ given("-conjunctive-gates")
    IN
    CASE conjoined /\ c \in OneInput         -> "conjunctive_one_input"
      [] conjoined /\ c \in ThreeInputs      -> "conjunctive_three_inputs"
      [] conjoined /\ c \notin OneInput \cup ThreeInputs -> "conjunctive_two_inputs"
      [] OTHER -> CellLogic(c)

\* The taint that the function l gives the output of a stateless cell.
TaintBy(l, a, b, s, at, bt, st, signed) ==
    CASE l = "conjunctive_one_input"    -> conjunctive_one_input(at)
      [] l = "conjunctive_two_inputs"   -> conjunctive_two_inputs(at, bt)
      [] l = "conjunctive_three_inputs" -> conjunctive_three_inputs(at, bt, st)
      [] l = "cellift_and"         -> cellift_and(a, b, at, bt)
      [] l = "cellift_or"          -> cellift_or(a, b, at, bt)
      [] l = "cellift_xor"         -> cellift_xor(at, bt)
      [] l = "cellift_not"         -> cellift_not(at)
      [] l = "cellift_mux"         -> cellift_mux(a, b, s, at, bt, st)
      [] l = "cellift_add"         -> cellift_add(a, b, at, bt)
      [] l = "rtlift_add"          -> rtlift_add(a, b, at, bt)
      [] l = "cellift_sub"         -> cellift_sub(a, b, at, bt)
      [] l = "cellift_neg"         -> cellift_neg(a, at)
      [] l = "cellift_mul"         -> cellift_mul
      [] l = "cellift_eq_ne"       -> cellift_eq_ne(a, b, at, bt)
      [] l = "cellift_ge"          -> cellift_ge(a, b, at, bt, signed)
      [] l = "cellift_gt"          -> cellift_gt(a, b, at, bt, signed)
      [] l = "cellift_le"          -> cellift_le(a, b, at, bt, signed)
      [] l = "cellift_lt"          -> cellift_lt(a, b, at, bt, signed)
      [] l = "cellift_logic_not"   -> cellift_logic_not(a, at)
      [] l = "cellift_logic_and"   -> cellift_logic_and(a, b, at, bt)
      [] l = "cellift_logic_or"    -> cellift_logic_or(a, b, at, bt)
      [] l = "cellift_reduce_and"  -> cellift_reduce_and(a, at)
      [] l = "cellift_reduce_xor"  -> cellift_reduce_xor(at)
      [] l = "cellift_shr"         -> cellift_shr(a, b, at, bt)
      [] l = "cellift_sshr"        -> cellift_sshr(a, b, at, bt, signed)
      [] l = "cellift_shl_sshl_precise"     -> cellift_shl_sshl_precise(a, b, at, bt)
      [] l = "cellift_shift_shiftx_precise" ->
             cellift_shift_shiftx_precise(a, b, at, bt, signed)
      [] l = "cellift_shl_sshl_imprecise"   -> cellift_shl_sshl_imprecise(b, at, bt)
      [] l = "cellift_shr_sshr_imprecise"   -> cellift_shr_sshr_imprecise(b, at, bt, signed)
      [] l = "cellift_shiftx_imprecise"     -> cellift_shiftx_imprecise(b, at, bt, signed)
      [] OTHER                              -> cellift_shift_imprecise(b, at, signed)

(***************************************************************************)
(* Flip-flops and latches.  $_DFF_, $_SDFF_ ... stand for the one-bit      *)
(* types of techmap, $_DFF_R_ and $_DFFE_R_ for those with a reset.        *)
(***************************************************************************)
OneBitFlops == {"$_DFF_", "$_DFF_R_", "$_SDFF_", "$_DFFE_", "$_DFFE_R_", "$_SDFFE_",
                "$_SDFFCE_", "$_DLATCH_"}
AsyncReset == {"$adff", "$adffe", "$_DFF_R_", "$_DFFE_R_"}
WithReset == AsyncReset \cup {"$sdff", "$sdffe", "$sdffce", "$_SDFF_", "$_SDFFE_", "$_SDFFCE_"}
EnableFirst == {"$sdffce", "$_SDFFCE_"}       \* reset only where enabled
Latches == {"$dlatch", "$_DLATCH_"}
WithEnable == Latches \cup EnableFirst \cup
              {"$dffe", "$sdffe", "$adffe", "$_DFFE_", "$_DFFE_R_", "$_SDFFE_"}

\* A reset: its level, its polarity and the value it sets.  rst_polarity of
\* the taint is taken from the letter of the type that is the reset value.
ClearedByValue == {"$_DFFE_R_", "$_SDFFE_"}
Resets(f, q) ==
    {r \in [level : BOOLEAN, polarity : BOOLEAN, value : Word(q)] :
        f \notin WithReset => r = [level |-> FALSE, polarity |-> TRUE, value |-> {}]}
Active(f, r) == f \in WithReset /\ r.level = r.polarity
Cleared(f, r) ==
    /\ f \in WithReset
    /\ r.level = IF f \in ClearedByValue THEN r.value # {} ELSE r.polarity

\* What q holds after the clock edge (a latch: after its enable is looked at).
FlopOut(f, r, d, q, e) ==
    LET held == f \in WithEnable /\ e = {}
    IN  IF held /\ (f \in EnableFirst \/ ~Active(f, r)) THEN q
        ELSE IF Active(f, r) THEN r.value ELSE d

\* The bits a tainted enable reaches: $dffe cuts its taint off past the last
\* bit, and a wider flop extends the one bit of it with zeros.
EnableReach(f, et) == IF f = "$dffe" THEN {} ELSE et

\* A latch: the taint that passes, or the one it holds.
cellift_dlatch(e, dt, qt) == IF e = {} THEN qt ELSE dt

\* The taint flop has a reset of its own.
cellift_sdff(cleared, t) == IF cleared THEN {} ELSE t

\* The enable is folded into the data of a taint flop that has none.
cellift_dffe(d, q, e, dt, qt, reach) ==
    (dt \cap Rep(e # {})) \cup (qt \cap Rep(e = {})) \cup ((Xor(d, q) \cup dt \cup qt) \cap reach)

FlopTaint(f, r, d, q, e, dt, qt, et) ==
    IF f \in Latches THEN cellift_dlatch(e, dt, qt)
    ELSE cellift_sdff(Cleared(f, r),
                      IF f \in WithEnable
                      THEN cellift_dffe(d, q, e, dt, qt, EnableReach(f, et))
                      ELSE dt)

\* The uses of a flip-flop that its taint logic is fit for: its enable is
\* untainted or its taint is propagated, its taint is cleared by the reset
\* itself, and no reset comes while an enable that has priority is low.
EnableTracked == {"$_DFFE_", "$_DFFE_R_", "$_SDFFE_", "$_SDFFCE_"}
Handled(f, r, e, et) ==
    /\ f \in WithEnable /\ et # {} => f \in EnableTracked
    /\ f \in ClearedByValue => r.polarity = (r.value # {})
    /\ f \in EnableFirst /\ (e = {} \/ et # {}) => ~Active(f, r)

-----------------------------------------------------------------------------
Init ==
    /\ opts \in OptionChoices
    /\ val = [w \in Wires |-> {}]
    /\ alt = [w \in Wires |-> {}]
    /\ taint = [w \in Wires |-> {}]

\* The two runs and the instrumentation give wire y its next content.
Set(y, v, u, t) ==
    /\ val' = [val EXCEPT ![y] = v]
    /\ alt' = [alt EXCEPT ![y] = u]
    /\ taint' = [taint EXCEPT ![y] = t]
    /\ UNCHANGED opts

\* An input: whoever drives it taints at least the bits that are secret.
Drive(y) ==
    \E v, u, t \in Word(y) : Xor(v, u) \subseteq t /\ Set(y, v, u, t)

\* The wires the one-bit select or enable may come from: a cell without one
\* is given whichever control wire.
Selects(c) == IF c = "$mux" THEN Wires ELSE Control
Enables(f) == IF f \in WithEnable THEN Wires ELSE Control

\* A stateless cell computes its output, and its logic the taint of it.
Evaluate(c, y) ==
    /\ Logic(c) \in Logics
    /\ y \in Control => c \in OneBit
    /\ \E a, b \in Data, s \in Selects(c), signed \in BOOLEAN :
         /\ signed => c \in Signable
         /\ Set(y, Out(c, val[a], val[b], Low(val[s]), signed),
                   Out(c, alt[a], alt[b], Low(alt[s]), signed),
                   Positions(y) \cap
                       TaintBy(Logic(c), val[a], val[b], Low(val[s]),
                               taint[a], taint[b], Low(taint[s]), signed))

\* A $pmux whose select is one-hot in both runs, as its logic supposes.
PmuxTaint(a, b, s, at, bt, st) ==
    CASE Logic("$pmux") = "cellift_pmux_small_cells" ->
           cellift_pmux_small_cells(a, b, s, at, bt, st)
      [] Logic("$pmux") = "cellift_pmux_large_cells" ->
           cellift_pmux_large_cells(b, s, at, bt, st)
      [] OTHER -> conjunctive_three_inputs(at, UNION {bt[i] : i \in Bits}, st)

EvaluatePmux(y) ==
    /\ Logic("$pmux") \in Logics
    /\ \E a, s \in Data, b \in [Bits -> Data] :
         /\ OneHot(val[s]) /\ OneHot(alt[s])
         /\ Set(y, Pmux(val[a], [i \in Bits |-> val[b[i]]], val[s]),
                   Pmux(alt[a], [i \in Bits |-> alt[b[i]]], alt[s]),
                   PmuxTaint(val[a], [i \in Bits |-> val[b[i]]], val[s],
                             taint[a], [i \in Bits |-> taint[b[i]]], taint[s]))

\* Mutant: a one-bit flip-flop keeps every bit of its data wire.
ClockUncut(f, q) ==
    \E d \in Data : Set(q, val[d], alt[d], taint[d])

\* A clock edge of a flip-flop, or an evaluation of a latch.
Clock(f, q) ==
    /\ f \in OneBitFlops <=> q \in Control
    /\ \E d \in Wires, e \in Enables(f), r \in Resets(f, q) :
         LET data(m) == IF q \in Control THEN Low(m[d]) ELSE m[d]
             en(m)   == Low(m[e])
         IN  /\ d \in Control => q \in Control
             /\ AllUses \/ Handled(f, r, en(val), en(taint))
             /\ Set(q, FlopOut(f, r, data(val), val[q], en(val)),
                       FlopOut(f, r, data(alt), alt[q], en(alt)),
                       FlopTaint(f, r, data(val), val[q], en(val),
                                 data(taint), taint[q], en(taint)))

\* A reset that waits for no clock.  The taint of $_DFFE_R_ has a synchronous
\* one and stays.
ResetNow(f, q) ==
    /\ f \in AsyncReset
    /\ f \in OneBitFlops <=> q \in Control
    /\ \E v \in Word(q) : Set(q, v, v, IF f = "$_DFFE_R_" THEN taint[q] ELSE {})

\* $aldff loads AD, and its taint the value of AD in the place of its taint.
LoadNow(q) ==
    /\ "$aldff" \in Flops
    /\ \E ad \in Data : /\ AllUses \/ taint[ad] = {}
                        /\ Set(q, val[ad], alt[ad], val[ad])

Next ==
    \/ \E y \in Wires : Drive(y)
    \/ \E c \in Stateless, y \in Wires : Evaluate(c, y)
    \/ \E y \in Data : EvaluatePmux(y)
    \/ \E f \in Flops, q \in Wires : Clock(f, q)
    \/ \E f \in Flops, q \in Wires : ResetNow(f, q)
    \/ \E q \in Data : LoadNow(q)

Spec == Init /\ [][Next]_vars

-----------------------------------------------------------------------------
\* The options are given once; every wire and its taint have the same bits.
TaintTypeOK ==
    /\ opts \in OptionChoices
    /\ {val, alt, taint} \subseteq [Wires -> Vec]
    /\ \A w \in Wires : val[w] \in Word(w) /\ alt[w] \in Word(w) /\ taint[w] \in Word(w)

\* Information flow tracking is sound: whatever cells and flip-flops the
\* secret went through, with whichever options, every bit the twin shows
\* different is tainted (cells/*.cc: one wrong term in one of them is enough).
DifferencesAreTainted == \A w \in Wires : Xor(val[w], alt[w]) \subseteq taint[w]

\* The bits of a result that the tainted bits of the operands can change.
Variants(v, t) == {x \in Vec : Xor(x, v) \subseteq t}
Influence(c, a, b, s, at, bt, st, signed) ==
    {i \in Bits :
        \E x \in Variants(a, at), y \in Variants(b, bt), u \in Variants(s, st) :
            i \in Xor(Out(c, a, b, s, signed), Out(c, x, y, u, signed))}

\* The logics that are not meant to be imprecise taint no bit in vain, for
\* values and taints of any origin: in particular the CellIFT adder and the
\* RTLIFT one, two very different circuits, are equally precise.
Exact == {"cellift_and", "cellift_or", "cellift_xor", "cellift_not", "cellift_mux",
          "cellift_add", "rtlift_add", "cellift_neg", "cellift_eq_ne", "cellift_ge",
          "cellift_gt", "cellift_le", "cellift_lt", "cellift_logic_not",
          "cellift_logic_and", "cellift_logic_or", "cellift_reduce_and",
          "cellift_reduce_xor", "cellift_shl_sshl_precise", "cellift_shr",
          "cellift_shift_shiftx_precise"}
TaintIsExact ==
    \A c \in Stateless :
        Logic(c) \in Exact =>
        \A a, b \in Data, s \in Control, signed \in BOOLEAN :
            a # b /\ (signed => c \in Signable) =>
            TaintBy(Logic(c), val[a], val[b], val[s], taint[a], taint[b], taint[s], signed)
                = Influence(c, val[a], val[b], val[s], taint[a], taint[b], taint[s], signed)

\* cellift.cc, line 564: "Multipliers are implemented using a single OR
\* reduction" of the taints of the operands.
MulIsOrReduction ==
    \A a, b \in Data :
        Logic("$mul") = "cellift_mul" =>
            TaintBy(Logic("$mul"), val[a], val[b], {}, taint[a], taint[b], {}, FALSE)
                = conjunctive_two_inputs(taint[a], taint[b])

=============================================================================
