------------------------------ MODULE Evaluator ------------------------------
(***************************************************************************)
(* The named-expression evaluator (src/expression/): a growing set of      *)
(* entries, a topological order computed by compile, and an evaluation     *)
(* that walks that order and stops at the first error.                     *)
(*                                                                         *)
(* A definition is abstracted to its name, the names it references in the  *)
(* order cxpr_expr_ast_references collects them, and whether its text      *)
(* parses.  A reference `a.b` counts as a reference to `a`, which is what  *)
(* cxpr_expression_reference_matches_name makes of it.                     *)
(***************************************************************************)
EXTENDS Integers, Sequences, FiniteSets, Relation

CONSTANTS
    Defs,        \* definitions [name, refs, parses] the host may add
    MaxRefs,     \* size of the reference buffer (256 in the code)
    MaxEntries   \* bound on the number of entries

EvaluatorAssumption == MaxRefs \in Nat /\ MaxEntries \in Nat

VARIABLES
    entries,    \* sequence of [name, refs, program, evaluated]
    order,      \* eval_order: positions in entries
    compiled,   \* the compiled flag
    outcome,    \* what the last call reported
    fresh       \* history variable: the last call was an evaluation that ran

vars == <<entries, order, compiled, outcome, fresh>>

Positions == DOMAIN entries
Outcomes == {"ok", "syntax", "cycle", "compile", "eval"}

Init ==
    /\ entries = <<>>
    /\ order = <<>>
    /\ compiled = FALSE
    /\ outcome = "ok"
    /\ fresh = FALSE

-----------------------------------------------------------------------------
(* Dependencies as the code sees them and as the definitions state them. *)

(* Mutant: only the first reference is looked at. *)
DependsOnFirst(i, j) == entries[i].refs # <<>> /\ entries[i].refs[1] = entries[j].name

(* cxpr_expression_depends_on: the buffer holds MaxRefs references. *)
DependsOn(i, j) ==
    \E r \in DOMAIN entries[i].refs : r <= MaxRefs /\ entries[i].refs[r] = entries[j].name

References(i, j) == \E r \in DOMAIN entries[i].refs : entries[i].refs[r] = entries[j].name

(* Transitive dependencies. *)
Needs == TransitiveClosure([i, j \in Positions |-> DependsOn(i, j)], Positions)

-----------------------------------------------------------------------------
(* cxpr_expression_topo_sort *)

(* cxpr_expression_dfs_cycle: colours 0 unvisited, 1 on the stack, 2 done.
   The result is [cyclic, color]. *)
RECURSIVE DfsCycle(_, _, _)
RECURSIVE DfsChildren(_, _, _, _)

DfsCycle(node, color, depth) ==
    LET entered == [color EXCEPT ![node] = 1]
    IN  IF depth > Len(entries) \/ DependsOn(node, node)
        THEN [cyclic |-> TRUE, color |-> entered]
        ELSE DfsChildren(node, 1, entered, depth)

DfsChildren(node, i, color, depth) ==
    IF i > Len(entries)
    THEN [cyclic |-> FALSE, color |-> [color EXCEPT ![node] = 2]]
    ELSE IF i = node \/ ~DependsOn(node, i) \/ color[i] = 2
    THEN DfsChildren(node, i + 1, color, depth)
    ELSE IF color[i] = 1
    THEN [cyclic |-> TRUE, color |-> color]
    ELSE LET sub == DfsCycle(i, color, depth + 1)
         IN  IF sub.cyclic THEN sub ELSE DfsChildren(node, i + 1, sub.color, depth)

(* The loop that starts a search at every unvisited entry. *)
RECURSIVE CycleFrom(_, _)
CycleFrom(i, color) ==
    IF i > Len(entries) THEN FALSE
    ELSE IF color[i] # 0 THEN CycleFrom(i + 1, color)
    ELSE LET sub == DfsCycle(i, color, 0)
         IN  sub.cyclic \/ CycleFrom(i + 1, sub.color)

Cyclic == CycleFrom(1, [i \in Positions |-> 0])

InDegree == [i \in Positions |-> Cardinality({j \in Positions \ {i} : DependsOn(i, j)})]

(* Ascending sequence of a set of positions: the order in which both loops of
   the sort append to the queue. *)
RECURSIVE Ascending(_)
Ascending(S) ==
    IF S = {} THEN <<>>
    ELSE LET m == CHOOSE x \in S : \A y \in S : x <= y IN <<m>> \o Ascending(S \ {m})

(* The queue loop: take a node, release those it was the last to hold up. *)
RECURSIVE Drain(_, _, _)
Drain(queue, degree, done) ==
    IF queue = <<>> THEN done
    ELSE LET node == Head(queue)
             waiting == {i \in Positions \ {node} : DependsOn(i, node)}
             left == [i \in Positions |-> IF i \in waiting THEN degree[i] - 1 ELSE degree[i]]
         IN  Drain(Tail(queue) \o Ascending({i \in waiting : left[i] = 0}), left, Append(done, node))

Sorted == Drain(Ascending({i \in Positions : InDegree[i] = 0}), InDegree, <<>>)

(* The sort reports a cycle, or an order; with no entries it keeps the old
   order and succeeds. *)
TopoFails == Positions # {} /\ (Cyclic \/ Len(Sorted) # Len(entries))
TopoOrder == IF Positions = {} THEN order ELSE Sorted

(* cxpr_expression_dependency_instruction_count_at: the entries counted, each
   once, starting from visited. *)
RECURSIVE CountedFrom(_, _, _)

CountedFrom(idx, i, visited) ==
    LET seen == visited \cup {idx}
    IN  IF i > Len(entries) THEN seen
        ELSE IF i # idx /\ DependsOn(idx, i) /\ i \notin seen
        THEN CountedFrom(idx, i + 1, CountedFrom(i, 1, seen))
        ELSE CountedFrom(idx, i + 1, seen)

-----------------------------------------------------------------------------

NewEntry(d) == [name |-> d.name, refs |-> d.refs, program |-> FALSE, evaluated |-> FALSE]

(* cxpr_expression_add *)
Add(d) ==
    /\ Len(entries) < MaxEntries
    /\ fresh' = FALSE
    /\ \/ /\ ~d.parses
          /\ outcome' = "syntax"
          /\ UNCHANGED <<entries, order, compiled>>
       \/ /\ d.parses
          /\ entries' = Append(entries, NewEntry(d))
          /\ compiled' = FALSE
          /\ outcome' = "ok"
          /\ UNCHANGED order

(* cxpr_expressions_add: all or, after cxpr_evaluator_truncate, none.  The
   compiled flag is lost as soon as one definition had been added. *)
AddMany(ds) ==
    LET good == {k \in DOMAIN ds : \A l \in 1..k : ds[l].parses}
    IN  /\ Len(entries) + Len(ds) <= MaxEntries
        /\ fresh' = FALSE
        /\ UNCHANGED order
        /\ entries' = IF good = DOMAIN ds
                      THEN entries \o [k \in DOMAIN ds |-> NewEntry(ds[k])] ELSE entries
        /\ compiled' = (compiled /\ good = {})
        /\ outcome' = IF good = DOMAIN ds THEN "ok" ELSE "syntax"

(* cxpr_evaluator_compile: the sort, then one program per entry.  An entry
   that does not analyse or compile loses its program and stops the loop; the
   entries after it keep the program of an earlier compile. *)
Compile ==
    /\ fresh' = FALSE
    /\ \/ /\ TopoFails
          /\ outcome' = "cycle"
          /\ UNCHANGED <<entries, order, compiled>>
       \/ /\ ~TopoFails
          /\ order' = TopoOrder
          /\ \/ /\ entries' = [i \in Positions |-> [entries[i] EXCEPT !.program = TRUE]]
                /\ compiled' = TRUE
                /\ outcome' = "ok"
             \/ \E k \in Positions :
                /\ entries' = [i \in Positions |->
                      [entries[i] EXCEPT !.program = IF i < k THEN TRUE
                                                     ELSE IF i = k THEN FALSE ELSE @]]
                /\ compiled' = FALSE
                /\ outcome' = "compile"

(* cxpr_evaluator_eval: results are dropped, then the order is walked up to
   the first entry that fails. *)
Eval ==
    \/ /\ ~compiled
       /\ outcome' = "syntax"
       /\ fresh' = FALSE
       /\ UNCHANGED <<entries, order, compiled>>
    \/ /\ compiled
       /\ \E m \in 0..Len(order) :
          /\ entries' = [i \in Positions |->
                [entries[i] EXCEPT !.evaluated = \E k \in 1..m : order[k] = i]]
          /\ outcome' = IF m = Len(order) THEN "ok" ELSE "eval"
       /\ fresh' = TRUE
       /\ UNCHANGED <<order, compiled>>

Next ==
    \/ \E d \in Defs : Add(d)
    \/ \E d \in Defs, e \in Defs : AddMany(<<d, e>>)
    \/ Compile
    \/ Eval

Spec == Init /\ [][Next]_vars

-----------------------------------------------------------------------------

Place(i) == CHOOSE k \in DOMAIN order : order[k] = i

(* Compile reports a circular dependency exactly when there is one: the depth
   bound and the colouring of the search neither miss a cycle nor invent one,
   and the queue loop never disagrees with the search.  "Evaluate the compiled
   expression set in dependency order": while compiled, the order holds every
   entry once and each after everything it references.  The instruction count
   of an entry is over the entry and all it needs, directly or not. *)
DependencyOrder ==
    /\ TopoFails <=> \E i \in Positions : Needs[i, i]
    /\ compiled =>
        /\ Len(order) = Len(entries)
        /\ \A i \in Positions : \E k \in DOMAIN order : order[k] = i
        /\ \A i, j \in Positions : References(i, j) => Place(j) < Place(i)
        /\ \A i \in Positions :
             CountedFrom(i, 1, {}) = {i} \cup {j \in Positions : Needs[i, j]}

(* After an evaluation, even one that stopped half way, whatever has a result
   was computed from results of the same evaluation. *)
ResultsAreClosed ==
    fresh => \A i, j \in Positions :
        entries[i].evaluated /\ References(i, j) => entries[j].evaluated
=============================================================================
