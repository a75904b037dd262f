-------------------------- MODULE MCEngineSession --------------------------
(***************************************************************************)
(* The engine and the evaluator it runs on, in four parts that share no    *)
(* state: the lookback and watch machine of a session (EngineSession), its *)
(* parameters (EngineParams), evaluation inside a tick (EngineEval) and    *)
(* the named-expression evaluator (Evaluator).  A behaviour exercises the  *)
(* part chosen at the start.                                               *)
(*                                                                         *)
(* The session has two lookback targets of different depth and one watch   *)
(* per edge kind; one parameter the program mentions and one it does not.  *)
(* The evaluator has three names and every reference list without          *)
(* repetition up to two long.                                              *)
(***************************************************************************)
EXTENDS EngineSession, TLC

CONSTANTS Parts, price, cross, score, low, Params, External, ParamValues, None, MaxSteps, EvalTicks, Entries

ASSUME ParamsAssumption == External \subseteq Params /\ None \notin ParamValues

VARIABLES part,
          own, parent, linked, evaluatedWith, given, calls,
          scenario, plan, position, sources, argRing, tracked, results, pulls, memoUsed, ticks,
          entries, order, compiled, outcome, fresh

pvars == <<own, parent, linked, evaluatedWith, given, calls>>
evars == <<scenario, plan, position, sources, argRing, tracked, results, pulls, memoUsed, ticks>>
nvars == <<entries, order, compiled, outcome, fresh>>

MCExprs == <<cross, score>>
MCMaxLookback == (price :> 2)
MCMaxDepth == (score :> 1)
MCWatches == <<[expr |-> cross, edge |-> "rising"], [expr |-> cross, edge |-> "falling"],
               [expr |-> cross, edge |-> "changed"], [expr |-> cross, edge |-> "level"]>>
BoolWatch == (cross :> {True, False} @@ score :> {low, NaN})

P == INSTANCE EngineParams WITH Values <- ParamValues, seen <- evaluatedWith

-----------------------------------------------------------------------------
(* Programs of two expressions over one source of each kind, as the trees of
   EngineEval.  The first expression is a target of lookbacks, the second looks
   back. *)

Kinds == ("price" :> "pull") @@ ("bar" :> "view") @@ ("metric" :> "pull")

Id(n) == [k |-> "id", n |-> n]
Idx(t, d) == [k |-> "idx", t |-> t, d |-> d]
Add(l, r) == [k |-> "add", l |-> l, r |-> r]

Price == Id("price")
Bar == Id("bar")
Metric == [k |-> "call", n |-> "metric", a |-> "a"]
Other == [k |-> "call", n |-> "metric", a |-> "b"]
E == Id("e")

Leaves == {Price, Bar}
Back(S, D) == {Idx(x, d) : x \in S, d \in D}
Sums(S, T) == {Add(x, y) : x \in S, y \in T}
Program(S, T) == {<<[name |-> "e", ast |-> x], [name |-> "f", ast |-> y]>> : x \in S, y \in T}

(* Sources: brackets in brackets, brackets around sums that hold brackets. *)
Nested == Back(Sums(Leaves \cup Back(Leaves, 1..2), Leaves) \cup Back(Leaves, 1..2), 1..2)
          \cup Back(Leaves, 0..2)
SourcePrograms == Program(Leaves \cup Back(Leaves, {1}) \cup Sums({Price}, {Bar, Idx(Price, 2)}),
                          Nested \cup Back({E}, 0..2) \cup {Idx(Idx(E, 1), 1), Add(E, Idx(E, 1))})

(* Calls with arguments, each evaluated in every tick but the last. *)
CallPrograms == Program({Metric, Add(Metric, Idx(Metric, 1)), Idx(Add(Metric, Price), 1)},
                        {Metric, Idx(Metric, 1), Add(Idx(Metric, 2), Metric), Add(Metric, Other),
                         Add(Idx(Metric, 1), Idx(Other, 1)),
                         Idx(Add(Metric, Idx(Metric, 1)), 1), Idx(Add(Idx(Other, 1), Metric), 1),
                         [k |-> "if", l |-> Idx(E, 1), r |-> Idx(Price, 1)]})

(* The sources are also driven by repositioned ticks; the calls with a memo that
   has room and with one that fills up at its first entry. *)
Scenarios ==
    {[prog |-> p, memoCap |-> 8, indices |-> {0, 2}, flags |-> {FALSE}] : p \in SourcePrograms}
    \cup {[prog |-> p, memoCap |-> m, indices |-> {}, flags |-> BOOLEAN] :
              p \in CallPrograms, m \in {1, 8}}

V == INSTANCE EngineEval WITH
    MaxTicks <- EvalTicks, cursor <- position, srcRing <- sources, exprRing <- tracked, result <- results

-----------------------------------------------------------------------------

Lists == {<<>>} \cup {<<a>> : a \in Entries} \cup {s \in Entries \X Entries : s[1] # s[2]}
Defs == {[name |-> n, refs |-> r, parses |-> TRUE] : n \in Entries, r \in Lists}
        \cup {[name |-> n, refs |-> <<>>, parses |-> FALSE] : n \in Entries}

N == INSTANCE Evaluator WITH MaxRefs <- 2, MaxEntries <- 3

ASSUME NamedAssumption == N!EvaluatorAssumption

(* The names of entries are only compared for equality. *)
Symmetry == Permutations(Entries)

-----------------------------------------------------------------------------

MCInit ==
    /\ part \in Parts
    /\ Init
    /\ P!Init
    /\ part # "params" => parent = [p \in Params |-> None]
    /\ V!Init
    /\ part # "eval" => scenario = CHOOSE s \in Scenarios : TRUE
    /\ N!Init

MCNext ==
    /\ UNCHANGED part
    /\ \/ part = "session" /\ Next /\ UNCHANGED <<pvars, evars, nvars>>
       \/ part = "params" /\ P!Next /\ UNCHANGED <<vars, evars, nvars>>
       \/ part = "eval" /\ V!Next /\ UNCHANGED <<vars, pvars, nvars>>
       \/ part = "named" /\ N!Next /\ UNCHANGED <<vars, pvars, evars>>

MCSpec == MCInit /\ [][MCNext]_<<part, vars, pvars, evars, nvars>>

(* The host context answers for a session only during fallback ticks: a plain
   tick, even after a fallback tick that failed, reads no parameter but those
   set by cxpr_engine_set_param and those that a fallback tick copied because
   the program mentions them. *)
PlainTicksAreClosed == P!PlainTicksAreClosed

(* "Params are fixed for the life of a session unless changed by an explicit
   call to this setter; they are never re-hydrated per tick", as the declaration
   of cxpr_engine_set_param says. *)
ParamsAreFixed == P!ParamsAreFixed

(* Every expression evaluates to what it means: the scan makes every ring deep
   enough, nested brackets add up, inline re-evaluation shifts every source it
   contains, and neither the memo nor a full memo changes a result.  No pull
   callback is asked the same thing twice in a tick while the memo has room. *)
ResultsAreMeaning == V!ResultsAreMeaning

(* Compile reports a circular dependency exactly when there is one, and leaves
   an order in which every entry comes after everything it references; the
   instructions counted for an entry are those of all it needs. *)
DependencyOrder == N!DependencyOrder

(* After an evaluation, even one that stopped half way, whatever has a result
   was computed from results of the same evaluation. *)
ResultsAreClosed == N!ResultsAreClosed
=============================================================================
