----------------------------- MODULE Conditions -----------------------------
(***************************************************************************)
(* How the sequential analyser judges a condition (check_condition and     *)
(* to_values in plugins/internal/utils.py, run_if_elem in                  *)
(* handlers/condition.py).  A condition is either a comparison of two      *)
(* operands or an expression whose truth is asked for; an operand is the   *)
(* set of objects and literal values it may have.  Fractions are counted   *)
(* in tenths.  and, or, not and expression lists only combine the verdicts *)
(* of their operands and are left out.                                     *)
(***************************************************************************)
EXTENDS Integers, FiniteSets

CONSTANT MaxPerSide   \* most values or objects an expression has (a bound)

ASSUME ConditionsAssumption == MaxPerSide \in Nat \ {0}

Few(S) == {T \in SUBSET S : Cardinality(T) <= MaxPerSide}

\* The kinds of objects, with '' for strings; "object" and "function" have no
\* code, and nothing is known of "wildcard".  One that stands for many: "1" for
\* a number, "'1'" for a string that reads like it, "'1.0'" for one that does
\* not and is equal to it, "1.0000001" for a number %g prints like it.
Object == {"undefined", "null", "false", "true", "NaN", "0", "1", "1.0000001",
           "''", "'1'", "'1.0'", "object", "function", "wildcard"}
Literal == {"0", "''", "1", "wildcard"}

Equality == {"===", "!==", "==", "!="}
Relational == {"<", ">", "<=", ">="}

Comparison == [op : Equality \cup Relational, left : Few(Object), right : Few(Object)]
Truth == [op : {"truth"}, objs : Few(Object), values : Few(Literal)]
Condition == Comparison \cup Truth

-----------------------------------------------------------------------------
\* to_values compares texts: a number and a string may read alike.
ToValue(o) == IF o \in {"1", "1.0000001", "'1'"} THEN "1" ELSE o
ToValues(objs) == {ToValue(o) : o \in objs}

\* Broken on purpose: only two unknown values make the answer a guess.
GuessBoth(op, v, w) ==
  \/ op \in Relational /\ (v # "undefined" \/ w # "undefined")
  \/ v = "wildcard" /\ w = "wildcard"

\* A pair of values in a comparison: whether the answer is only a guess (where
\* an order is asked for every defined value makes it one), and whether it is
\* true.  Two undefined values are equal to js_cmp, so <= and >= hold of them.
Guess(op, v, w) ==
  \/ op \in Relational /\ (v # "undefined" \/ w # "undefined")
  \/ op \in Equality /\ (v # "undefined") # (w # "undefined")
  \/ v = "wildcard" \/ w = "wildcard"

Agree(op, v, w) ==
  /\ ~Guess(op, v, w)
  /\ \/ op \in {"===", "==", "<=", ">="} /\ v = w
     \/ op \in {"!==", "!="} /\ v # w

Pairs(c) == ToValues(c.left) \X ToValues(c.right)

\* true_num, total_num and deter_flag.  A guess counts a half, and so does a
\* function; undefined, null and false count a tenth, and NaN a whole.  Literals
\* are counted by two loops, the second of which takes a wildcard for any string.
Tenths == {"undefined", "null", "false"}
Unknown == {"wildcard", "function"}
Whole == Object \ (Tenths \cup Unknown \cup {"0", "''"})

ObjectNum(objs) ==
  Cardinality(objs \cap Tenths) + 5 * Cardinality(objs \cap Unknown)
    + 10 * Cardinality(objs \cap Whole)

LiteralNum(values) ==
  5 * Cardinality(values \cap {"wildcard"})
    + 10 * Cardinality(values \ {"wildcard", "0"}) + 10 * Cardinality(values \ {"''", "0"})

TrueNum(c) ==
  IF c.op # "truth"
  THEN 5 * Cardinality({p \in Pairs(c) : Guess(c.op, p[1], p[2])})
         + 10 * Cardinality({p \in Pairs(c) : Agree(c.op, p[1], p[2])})
  ELSE ObjectNum(c.objs) + LiteralNum(c.values)

TotalNum(c) ==
  IF c.op # "truth" THEN Cardinality(Pairs(c))
  ELSE Cardinality(c.objs \ {"undefined"}) + Cardinality(c.values)

Deterministic(c) ==
  /\ TotalNum(c) # 0
  /\ IF c.op # "truth"
     THEN \A p \in Pairs(c) : ~Guess(c.op, p[1], p[2])
     ELSE c.objs \cap Unknown = {} /\ "wildcard" \notin c.values

\* The verdict of run_if_elem: the arm is run as part of the parent branch,
\* run as a branch of its own, or passed over.
Verdict(c) ==
  IF Deterministic(c) /\ TrueNum(c) = 10 * TotalNum(c) THEN "sure"
  ELSE IF ~Deterministic(c) \/ (0 < TrueNum(c) /\ TrueNum(c) < 10 * TotalNum(c))
  THEN "unsure"
  ELSE "passed"

Verdicts == {Verdict(c) : c \in Condition}

-----------------------------------------------------------------------------
(* What the program may do, the reference for the verdicts: the equality   *)
(* and the truth of JavaScript.                                            *)

\* The objects something may be when the program runs.
Concrete(o) == IF o = "wildcard" THEN Object \ {"wildcard"} ELSE {o}
Possible(objs) == UNION {Concrete(o) : o \in objs}

Truthy == {"true", "1", "1.0000001", "'1'", "'1.0'", "object", "function"}

\* What == compares as numbers, and what it asks for a primitive value first.
Zeros == {"0", "''", "false"}
Ones == {"1", "true", "'1'", "'1.0'"}
Strings == {"''", "'1'", "'1.0'"}
Compound == {"object", "function"}
Nullish == {"undefined", "null"}

SameNumber(v, w) ==
  ({v, w} \subseteq Zeros \/ {v, w} \subseteq Ones) /\ ~({v, w} \subseteq Strings)

Loose(v, w) ==
  IF v \in Nullish \/ w \in Nullish THEN {{v, w} \subseteq Nullish}
  ELSE IF v = "NaN" \/ w = "NaN" THEN {FALSE}
  ELSE IF v = w THEN {TRUE}
  ELSE IF (v \in Compound) # (w \in Compound) THEN BOOLEAN
  ELSE {SameNumber(v, w)}

\* The order of two defined values is left open.
Answers(op, v, w) ==
  CASE op = "===" -> {v = w /\ v # "NaN"}
    [] op = "!==" -> {~(v = w /\ v # "NaN")}
    [] op = "=="  -> Loose(v, w)
    [] op = "!="  -> {~z : z \in Loose(v, w)}
    [] op \in Relational -> IF "undefined" \in {v, w} THEN {FALSE} ELSE BOOLEAN

Outcomes(c) ==
  IF c.op # "truth"
  THEN UNION {Answers(c.op, v, w) : v \in Possible(c.left), w \in Possible(c.right)}
  ELSE {(x \in Truthy) : x \in Possible(c.objs \cup c.values)}

\* The comparisons that texts get wrong: NaN with itself; different objects that
\* read alike; where == converts, the same number read differently and an object
\* beside what it may be converted to; undefined with itself in <= and >=.
ReadAlike(v, w) == v # w /\ ToValue(v) = ToValue(w)

Misjudged(op, v, w) ==
  \/ op \in Equality /\ v = "NaN" /\ w = "NaN"
  \/ op \in {"===", "!=="} /\ ReadAlike(v, w)
  \/ op \in {"==", "!="} /\ v # w /\ ReadAlike(v, w) # SameNumber(v, w)
  \/ /\ op \in {"==", "!="} /\ (v \in Compound) # (w \in Compound)
     /\ {v, w} \cap (Nullish \cup {"NaN"}) = {}
  \/ op \in {"<=", ">="} /\ v = "undefined" /\ w = "undefined"

\* The ways the count goes wrong: a comparison of that kind, literals that are
\* not 0 (they are counted twice, and '' once), NaN (which is false), and
\* undefined beside objects that are all true (a share of more than one).
Miscounted(c) ==
  IF c.op # "truth"
  THEN \E v \in c.left, w \in c.right : Misjudged(c.op, v, w)
  ELSE \/ c.values \ {"0", "wildcard"} # {}
       \/ "NaN" \in c.objs
       \/ "undefined" \in c.objs /\ c.objs \ {"undefined"} \subseteq Truthy

\* The analyser is sure only of what is so: it passes over an arm only when
\* the condition is false in every run, and runs it without a branch only when
\* the condition is true in every run.
VerdictIsRight(c) ==
  /\ Verdict(c) = "sure" => Outcomes(c) = {TRUE}
  /\ Verdict(c) = "passed" => Outcomes(c) \subseteq {FALSE}

=============================================================================
