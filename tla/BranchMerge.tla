----------------------------- MODULE BranchMerge -----------------------------
(***************************************************************************)
(* Branch-sensitive assignment in the sequential analyser                  *)
(* (HandleIf.process in plugins/internal/handlers/condition.py, merge in   *)
(* plugins/internal/utils.py, get_objs_by_name_node and                    *)
(* assign_obj_nodes_to_name_node in core/graph.py).                        *)
(*                                                                         *)
(* The program under analysis assigns objects to one variable, in and      *)
(* around nested ifs.  The analyser walks every arm that may run.  In an   *)
(* arm it is not sure of it does not touch the edges it finds: it adds     *)
(* Addition and Deletion edges tagged with the arm, and merge() folds the  *)
(* tags of an if into those of the arm the if stands in.  The history      *)
(* variable possible is what the walk should find in the variable.         *)
(***************************************************************************)
EXTENDS Conditions, Sequences

CONSTANTS
  Objects,   \* object nodes
  MaxRight,  \* most objects on the right of an assignment (a bound)
  MaxIfs,    \* ifs walked (a bound)
  MaxElems,  \* conditions of an if, its else aside (a bound)
  MaxDepth   \* ifs within ifs (a bound)

ASSUME BranchMergeAssumption ==
  /\ Objects # {}
  /\ MaxRight \in Nat \ {0} /\ MaxIfs \in Nat /\ MaxElems \in Nat \ {0} /\ MaxDepth \in Nat

VARIABLES
  edges,     \* the NAME_TO_OBJ edges of the variable's name node
  stack,     \* the calls of HandleIf.process under way, the outermost first
  ifs,       \* number of ifs begun: stmt_id is a new one for each
  raised,    \* merge raised KeyError, which ends the analysis
  possible,  \* history: the objects the variable may hold at this point
  plain      \* history: nothing happened that the code is known to get wrong

mergeVars == <<edges, stack, ifs, raised, possible, plain>>

NoTag == [point |-> 0, branch |-> 0, mark |-> "none"]
Mark(tag, m) == [point |-> tag.point, branch |-> tag.branch, mark |-> m]
Edge(o, tag) == [obj |-> o, tag |-> tag]

\* The objects an assignment may have on its right, or the variable at first.
Rights == {S \in SUBSET Objects \ {{}} : Cardinality(S) <= MaxRight}

Top == stack[Len(stack)]
Outer == SubSeq(stack, 1, Len(stack) - 1)
InArm == ~raised /\ (stack # <<>> => Top.arm # "none")

\* The list "branches": that of the arm around, and a tag more for an arm that
\* is run as a branch.
Branches(frames) ==
  LET parent_branch[k \in 0..Len(frames)] ==
        IF k = 0 THEN <<>>
        ELSE IF frames[k].arm = "branch"
        THEN Append(parent_branch[k - 1], [point |-> frames[k].point, branch |-> frames[k].branch])
        ELSE parent_branch[k - 1]
  IN  parent_branch[Len(frames)]

\* get_objs_by_name_node: without branches every object with an edge; with
\* them the deepest branch that says something of an object decides.
Visible(E, branches) ==
  IF branches = <<>> THEN {e.obj : e \in E}
  ELSE LET Added(o, i) == IF i = 0 THEN Edge(o, NoTag) \in E
                          ELSE Edge(o, Mark(branches[i], "A")) \in E
           Deleted(o, i) == Edge(o, Mark(branches[i], "D")) \in E
       IN  {o \in Objects : \E i \in 0..Len(branches) :
              Added(o, i) /\ \A j \in (i + 1)..Len(branches) : ~Deleted(o, j)}

-----------------------------------------------------------------------------
\* Broken on purpose: a Deletion edge is added besides the removal of the
\* branch's own addition.
ReassignedTwice(E, branches, new) ==
  LET pre == Visible(E, branches)
      tag == branches[Len(branches)]
  IN  IF branches = <<>>
      THEN {e \in E : e.obj \notin pre} \cup {Edge(o, NoTag) : o \in new}
      ELSE (E \ {Edge(o, Mark(tag, "A")) : o \in pre})
             \cup {Edge(o, Mark(tag, "D")) : o \in pre}
             \cup {Edge(o, Mark(tag, "A")) : o \in new}

\* assign_obj_nodes_to_name_node.
Reassigned(E, branches, new) ==
  LET pre == Visible(E, branches)
      tag == branches[Len(branches)]
      added == {o \in pre : Edge(o, Mark(tag, "A")) \in E}
  IN  IF branches = <<>>
      THEN {e \in E : e.obj \notin pre} \cup {Edge(o, NoTag) : o \in new}
      ELSE (E \ {Edge(o, Mark(tag, "A")) : o \in added})
             \cup {Edge(o, Mark(tag, "D")) : o \in pre \ added}
             \cup {Edge(o, Mark(tag, "A")) : o \in new}

\* The variable has no edge to the objects assigned, the additions of the arms
\* of the innermost if aside.
NewHere(E, branches, new) ==
  branches # <<>> => \A e \in E : e.obj \in new =>
    e.tag.mark = "A" /\ e.tag.point = branches[Len(branches)].point

Assign ==
  /\ InArm
  /\ \E new \in Rights :
       /\ edges' = Reassigned(edges, Branches(stack), new)
       /\ possible' = new
       /\ plain' = (plain /\ NewHere(edges, Branches(stack), new))
  /\ UNCHANGED <<stack, ifs, raised>>

\* Broken on purpose: stmt_id is the node alone, the same for every if.
BeginIfSameId ==
  /\ InArm /\ ifs < MaxIfs /\ Len(stack) < MaxDepth
  /\ \E elems \in 1..MaxElems, else \in BOOLEAN :
       stack' = Append(stack,
         [point |-> 1, elems |-> elems, hasElse |-> else,
          branch_num_counter |-> 0, else_is_deterministic |-> TRUE,
          arm |-> "none", branch |-> 0, over |-> FALSE,
          rest |-> possible, found |-> {}])
  /\ ifs' = ifs + 1
  /\ UNCHANGED <<edges, raised, possible, plain>>

\* An if with some conditions and perhaps an else.
BeginIf ==
  /\ InArm /\ ifs < MaxIfs /\ Len(stack) < MaxDepth
  /\ \E elems \in 1..MaxElems, else \in BOOLEAN :
       stack' = Append(stack,
         [point |-> ifs + 1, elems |-> elems, hasElse |-> else,
          branch_num_counter |-> 0, else_is_deterministic |-> TRUE,
          arm |-> "none", branch |-> 0, over |-> FALSE,
          rest |-> possible, found |-> {}])
  /\ ifs' = ifs + 1
  /\ UNCHANGED <<edges, raised, possible, plain>>

\* The arm of an elem is run, as part of the parent branch or as a branch.
RunInParent(frame) ==
  stack' = Append(Outer, [frame EXCEPT !.arm = "parent", !.over = TRUE, !.rest = {}])

RunAsBranch(frame) ==
  stack' = Append(Outer, [frame EXCEPT !.arm = "branch", !.branch = @ + 1,
                                       !.branch_num_counter = @ + 1])

\* The next elem with a condition.  possible at its arm is what is left of
\* the runs that came as far as its condition.
NextElem ==
  /\ ~raised /\ stack # <<>> /\ Top.arm = "none" /\ ~Top.over /\ Top.elems > 0
  /\ LET frame == [Top EXCEPT !.elems = @ - 1] IN
     \E verdict \in Verdicts :
       \/ /\ verdict = "sure"
          /\ RunInParent(frame)
          /\ plain' = (plain /\ Top.else_is_deterministic)
       \/ /\ verdict = "unsure"
          /\ RunAsBranch([frame EXCEPT !.else_is_deterministic = FALSE])
          /\ UNCHANGED plain
       \/ /\ verdict = "passed"
          /\ stack' = Append(Outer, frame)
          /\ UNCHANGED plain
  /\ possible' = Top.rest
  /\ UNCHANGED <<edges, ifs, raised>>

Else ==
  /\ ~raised /\ stack # <<>> /\ Top.arm = "none" /\ ~Top.over /\ Top.elems = 0 /\ Top.hasElse
  /\ \/ Top.else_is_deterministic /\ RunInParent(Top)
     \/ ~Top.else_is_deterministic
        /\ RunAsBranch([Top EXCEPT !.over = TRUE, !.rest = {}])
  /\ possible' = Top.rest
  /\ UNCHANGED <<edges, ifs, raised, plain>>

\* simurun_block returns from an arm.
EndArm ==
  /\ ~raised /\ stack # <<>> /\ Top.arm # "none"
  /\ stack' = Append(Outer, [Top EXCEPT !.arm = "none", !.found = @ \cup possible])
  /\ possible' = Top.rest
  /\ UNCHANGED <<edges, ifs, raised, plain>>

-----------------------------------------------------------------------------
\* Broken on purpose: an if without an else has no branch more.
NoHiddenElse(frame) == frame.branch_num_counter

\* merge.  An if without an else counts one branch more, a hidden else that
\* neither adds nor deletes.
NumOfBranches(frame) ==
  frame.branch_num_counter + (IF frame.hasElse THEN 0 ELSE 1)

Created(E, frame) ==
  {e.obj : e \in {e \in E : e.tag.point = frame.point /\ e.tag.mark = "A"}}

DeletedByAll(E, frame) ==
  {o \in Objects : NumOfBranches(frame) > 0 /\
     \A b \in 1..NumOfBranches(frame) :
       Edge(o, [point |-> frame.point, branch |-> b, mark |-> "D"]) \in E}

\* The edges without those of the if, and with its additions as additions of
\* the parent branch; then what all its branches delete is deleted there.
Merged(E, frame, branches) ==
  LET Parent(m) == IF branches = <<>> THEN NoTag ELSE Mark(branches[Len(branches)], m)
      flat == {e \in E : e.tag.point # frame.point}
                \cup {Edge(o, Parent("A")) : o \in Created(E, frame)}
      gone == DeletedByAll(E, frame)
      cancelled == {Edge(o, Parent("A")) : o \in gone} \cap flat
  IN  IF branches = <<>> THEN flat \ cancelled
      ELSE (flat \ cancelled)
             \cup {Edge(o, Parent("D")) : o \in {o \in gone : Edge(o, Parent("A")) \notin flat}}

\* An object every branch deletes that has no edge outside the if: once the
\* tags are removed the graph has no entry for it, and reading it raises.
Missing(E, frame) ==
  \E o \in DeletedByAll(E, frame) \ Created(E, frame) :
    \A e \in E : e.obj = o => e.tag.point = frame.point

AtMerge ==
  /\ ~raised /\ stack # <<>> /\ Top.arm = "none"
  /\ Top.over \/ (Top.elems = 0 /\ ~Top.hasElse)

EndIf ==
  /\ AtMerge
  /\ ~Missing(edges, Top)
  /\ edges' = Merged(edges, Top, Branches(Outer))
  /\ possible' = Top.found \cup Top.rest
  /\ stack' = Outer
  /\ UNCHANGED <<ifs, raised, plain>>

\* The exception leaves every call; of the edges nothing is read any more.
MergeRaises ==
  /\ AtMerge
  /\ Missing(edges, Top)
  /\ raised' = TRUE
  /\ UNCHANGED <<edges, stack, ifs, possible, plain>>

Init ==
  /\ \E new \in Rights :
       edges = {Edge(o, NoTag) : o \in new} /\ possible = new
  /\ stack = <<>> /\ ifs = 0 /\ raised = FALSE /\ plain = TRUE

Next == Assign \/ BeginIf \/ NextElem \/ Else \/ EndArm \/ EndIf \/ MergeRaises

Spec == Init /\ [][Next]_mergeVars

-----------------------------------------------------------------------------
Tags == [point : 1..MaxIfs, branch : 1..(MaxElems + 1), mark : {"A", "D"}]

Frame ==
  [point : 1..MaxIfs, elems : 0..MaxElems, hasElse : BOOLEAN,
   branch_num_counter : 0..(MaxElems + 1), else_is_deterministic : BOOLEAN,
   arm : {"none", "parent", "branch"}, branch : 0..(MaxElems + 1),
   over : BOOLEAN, rest : SUBSET Objects, found : SUBSET Objects]

\* Every edge is untagged or tagged with a branch, at most MaxDepth calls are
\* nested and ifs are numbered in the order they are begun.
MergeTypeOK ==
  /\ edges \subseteq [obj : Objects, tag : Tags \cup {NoTag}]
  /\ stack \in Seq(Frame) /\ Len(stack) <= MaxDepth
  /\ \A i, j \in DOMAIN stack : i < j => stack[i].point < stack[j].point
  /\ ifs \in 0..MaxIfs /\ raised \in BOOLEAN /\ possible \subseteq Objects /\ plain \in BOOLEAN

\* At every point of the program the variable shows exactly the objects that
\* the arms on the way there may have left in it: no assignment of another arm
\* shows through, a merge loses none and keeps none that every arm replaced.
\* The two cases in which the code does lose objects are left out: an object
\* assigned in a branch while the variable has an older edge to it, and an arm
\* that is sure to run after one that is not.
LookupIsExact ==
  plain /\ InArm => Visible(edges, Branches(stack)) = possible

\* A deletion always cancels something: the object has an edge in a branch
\* around the one it is deleted in, or without a tag. So merge never looks for
\* an object that has no edge left, and does not raise.
DeletionsCancel ==
  plain => ~raised /\ \A e \in edges : e.tag.mark = "D" =>
    \E d \in edges : d.obj = e.obj /\ d.tag.mark # "D" /\ d.tag.point < e.tag.point

\* check_condition alone, looked at before the first if: apart from the
\* conditions it miscounts, no arm that some run of the program takes is passed
\* over, and none that some run does not take is run as if sure.
VerdictsAreRight ==
  ifs = 0 => \A c \in Condition : ~Miscounted(c) => VerdictIsRight(c)

=============================================================================
