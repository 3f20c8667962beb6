--------------------------- MODULE MCInstrumenter ---------------------------
(* Programs of three statements; one policy, or two of which the second    *)
(* may have the id that has no slot, or one that is ignored.               *)
EXTENDS Instrumenter

CONSTANT t1

OneThread == {t1}
PathIds == 1..4

T(b, dollar, digit) == [base |-> b, dollar |-> dollar, digit |-> digit]
Plain(t) == [text |-> t, to |-> <<>>, falls |-> TRUE]
If(n) == [text |-> T("other", TRUE, 1), to |-> <<n>>, falls |-> TRUE]
Switch(m, n) == [text |-> T("other", FALSE, 0), to |-> <<m, n>>, falls |-> FALSE]

SourceTexts == {T("source", TRUE, 1), T("source", TRUE, 2), T("source", FALSE, 2)}
SinkTexts == {T("sink", TRUE, 1), T("sink", TRUE, 2), T("sink", FALSE, 0)}

Firsts == {Plain(t) : t \in SourceTexts} \cup {Plain(T("other", FALSE, 0))}
Middles == {If(3), If(1), Switch(1, 3), Plain(T("source", TRUE, 1))}
Lasts == {Plain(t) : t \in SinkTexts}

SmallPrograms == {<<a, b, c>> : a \in Firsts, b \in Middles, c \in Lasts}

Source(p, t) == [kind |-> "source", path |-> p, text |-> t]
Sink(p, k, t) == [kind |-> "sink", path |-> p, node |-> k, text |-> t]
Branch(p, k, roads, arm) ==
  [kind |-> "branch", path |-> p, node |-> k, roads |-> roads, arm |-> arm]

Straight(p) == {<<Source(p, s), Sink(p, 1, k)>> : s \in SourceTexts, k \in SinkTexts}
Forked(p) == {<<Source(p, T("source", TRUE, 1)), Branch(p, 1, r, 1), Sink(p, 2, k)>> :
                r \in {2, 3}, k \in SinkTexts}

OnePolicy == Straight(1) \cup Forked(1)
SmallPlans == OnePolicy
  \cup {x \o y : x \in Straight(1),
                 y \in {<<Source(p, T("source", TRUE, 2)), Branch(p, 1, 2, 0),
                          Sink(p, 2, T("sink", TRUE, 1))>> : p \in 2..4}}

=============================================================================
