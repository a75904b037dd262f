----------------------------- MODULE EngineEval -----------------------------
(***************************************************************************)
(* Evaluation inside a tick: how the scan of src/engine/lookback.c sizes   *)
(* the rings, how the resolver answers `target[n]`, and how the tick memo, *)
(* the per-argument rings and inline re-evaluation of src/engine/source.c  *)
(* produce values.                                                         *)
(*                                                                         *)
(* Expressions are small syntax trees.  Values are symbolic: a sample is   *)
(* <<source, argument, position>>, a value the sequence of samples it was  *)
(* computed from, and NotANumber the empty sequence, which absorbs         *)
(* addition.  Two values are equal exactly when they were read from the    *)
(* same places.                                                            *)
(***************************************************************************)
EXTENDS Integers, Sequences, FiniteSets, FiniteSetsExt, SequencesExt

CONSTANTS
    Kinds,      \* [source names -> {"pull", "view", "column"}]
    Scenarios,  \* set of [prog, memoCap, indices, flags]: a program (a sequence of
                \* [name, ast] in dependency order), the size of the tick memo, the
                \* cursor positions the host passes to tick_at and the values it
                \* may give the variable of a conditional
    MaxTicks    \* bound on the ticks between two resets

NotANumber == <<>>
Rings == INSTANCE EngineRing WITH NaN <- NotANumber, Garbage <- <<"garbage">>

Id(n) == [k |-> "id", n |-> n]
Call(n, a) == [k |-> "call", n |-> n, a |-> a]
Idx(t, d) == [k |-> "idx", t |-> t, d |-> d]
Add(l, r) == [k |-> "add", l |-> l, r |-> r]
If(l, r) == [k |-> "if", l |-> l, r |-> r]

SourceNames == DOMAIN Kinds
Sample(s, a, p) == <<<<s, a, p>>>>
Plus(x, y) == IF x = NotANumber \/ y = NotANumber THEN NotANumber ELSE x \o y

VARIABLES
    scenario,  \* the session's program and how the host drives it
    plan,      \* what the build found out about the program
    cursor,    \* cursor of the last tick, -1 before the first
    srcRing,   \* [pull sources with a ring -> ring]
    argRing,   \* <<source, argument>> -> [ring, last]: last is last_append_cursor
    exprRing,  \* [tracked expressions -> ring]
    result,    \* results of the last tick
    pulls,     \* history variable: pull callbacks of the last tick per request
    memoUsed,  \* memo entries the last tick made
    ticks      \* history variable: [at, flag] of every tick since reset

vars == <<scenario, plan, cursor, srcRing, argRing, exprRing, result, pulls, memoUsed, ticks>>

prog == scenario.prog

-----------------------------------------------------------------------------
(* engine_scan_ast_with_offset: facts <<what, name, depth>> about a program. *)

ExprNames(p) == {p[i].name : i \in DOMAIN p}

(* Mutant: the lookback inherited from enclosing brackets is forgotten. *)
RECURSIVE ScanFlat(_, _, _)
ScanFlat(p, ast, inherited) ==
    CASE ast.k = "id" ->
            IF ast.n \in SourceNames THEN {<<"bare", ast.n, inherited>>}
            ELSE IF inherited > 0 THEN {<<"track", ast.n, inherited>>} ELSE {}
      [] ast.k = "call" -> {<<"call", ast.n, inherited>>}
      [] ast.k = "idx" ->
            (IF ast.t.k = "id" /\ ast.t.n \in ExprNames(p)
             THEN {<<"track", ast.t.n, ast.d>>} ELSE {})
            \cup ScanFlat(p, ast.t, ast.d)
      [] OTHER -> ScanFlat(p, ast.l, inherited) \cup ScanFlat(p, ast.r, inherited)

RECURSIVE Scan(_, _, _)
Scan(p, ast, inherited) ==
    CASE ast.k = "id" ->
            IF ast.n \in SourceNames THEN {<<"bare", ast.n, inherited>>}
            ELSE IF inherited > 0 THEN {<<"track", ast.n, inherited>>} ELSE {}
      [] ast.k = "call" -> {<<"call", ast.n, inherited>>}
      [] ast.k = "idx" ->
            (IF ast.t.k = "id" /\ ast.t.n \in ExprNames(p)
             THEN {<<"track", ast.t.n, inherited + ast.d>>} ELSE {})
            \cup Scan(p, ast.t, inherited + ast.d)
      [] OTHER -> Scan(p, ast.l, inherited) \cup Scan(p, ast.r, inherited)

Facts(p) == UNION {Scan(p, p[i].ast, 0) : i \in DOMAIN p}

(* What the build keeps of the scan: the deepest lookback of every name, the
   sources read by name, the expressions with a ring and the sources with one. *)
Planned(p, facts) ==
    LET depth == [n \in SourceNames \cup ExprNames(p) |->
                     Max({0} \cup {f[3] : f \in {g \in facts : g[2] = n}})]
    IN  [depth |-> depth,
         bare |-> {f[2] : f \in {g \in facts : g[1] = "bare"}},
         tracked |-> {f[2] : f \in {g \in facts : g[1] = "track"}},
         ringed |-> {s \in SourceNames : Kinds[s] = "pull" /\ depth[s] > 0}]

-----------------------------------------------------------------------------
(* State threaded through an evaluation: memo, argument rings, pull counts,
   results so far.  An evaluation returns [v, st]. *)

(* A request is <<source, argument, offset>>; hydration asks at offset -1. *)
CountPull(st, request) ==
    [st EXCEPT !.pulls = [x \in DOMAIN @ \cup {request} |->
        (IF x \in DOMAIN @ THEN @[x] ELSE 0) + IF x = request THEN 1 ELSE 0]]

(* engine_arg_ring_get_or_create *)
ArgRing(st, s, a) ==
    IF <<s, a>> \in DOMAIN st.args THEN st.args[<<s, a>>]
    ELSE [ring |-> Rings!NewRing(plan.depth[s] + 1), last |-> -1]

(* engine_arg_ring_append: at most one sample per cursor position. *)
ArgAppend(entry, v, c) ==
    IF entry.last = c THEN entry
    ELSE [ring |-> Rings!RingAppend(entry.ring, v), last |-> c]

(* engine_source_memo_get *)
Remembered(st, s, a, off) ==
    {i \in DOMAIN st.memo : st.memo[i].s = s /\ st.memo[i].a = a /\ st.memo[i].off = off}

(* engine_source_memo_set: a full memo stops caching. *)
Remember(st, s, a, off, v) ==
    IF Len(st.memo) >= scenario.memoCap THEN st
    ELSE [st EXCEPT !.memo = Append(@, [s |-> s, a |-> a, off |-> off, v |-> v])]

Indexed(s, a, p) == IF p >= 0 THEN Sample(s, a, p) ELSE NotANumber

(* engine_resolve_source_call at cursor c in tick t. *)
ResolveSource(st, s, a, off, c, t) ==
    IF Remembered(st, s, a, off) # {}
    THEN [v |-> st.memo[Min(Remembered(st, s, a, off))].v, st |-> st]
    ELSE LET pulled == CountPull(st, <<s, a, off>>)
             entry == ArgAppend(ArgRing(st, s, a), Sample(s, a, t), c)
             kept == [pulled EXCEPT !.args = [x \in DOMAIN @ \cup {<<s, a>>} |->
                          IF x = <<s, a>> THEN entry ELSE @[x]]]
             r == IF Kinds[s] = "pull" /\ a # "none" /\ s \in plan.ringed
                  THEN [v |-> Rings!RingRead(entry.ring, off), st |-> kept]
                  ELSE IF Kinds[s] = "pull" /\ a = "none" /\ (off > 0 \/ s \in plan.ringed)
                  THEN [v |-> IF s \in plan.ringed THEN Rings!RingRead(st.src[s], off) ELSE NotANumber,
                        st |-> st]
                  ELSE IF Kinds[s] = "pull"
                  THEN [v |-> Sample(s, a, t), st |-> pulled]
                  ELSE [v |-> Indexed(s, a, c - off), st |-> st]
         IN  [v |-> r.v, st |-> Remember(r.st, s, a, off, r.v)]

(* engine_hydrate_sources_at_offset: the bare values of a shifted context. *)
RECURSIVE HydrateAt(_, _, _, _, _, _)
HydrateAt(names, bare, st, off, c, t) ==
    IF names = <<>> THEN [bare |-> bare, st |-> st]
    ELSE LET r == ResolveSource(st, Head(names), "none", off, c, t)
         IN  HydrateAt(Tail(names), [bare EXCEPT ![Head(names)] = r.v], r.st, off, c, t)

(* Literal brackets directly inside brackets are summed before the resolver is
   asked (ir/compile/node.c and eval/tree.c). *)
RECURSIVE Flatten(_, _)
Flatten(t, d) == IF t.k = "idx" THEN Flatten(t.t, d + t.d) ELSE [t |-> t, d |-> d]

(* engine_tracked_expression_value: depth 0 is the result of this tick. *)
TrackedValue(st, e, d) ==
    IF d = 0 /\ e \in DOMAIN st.res THEN st.res[e] ELSE Rings!RingRead(st.expr[e], d)

(* One expression; w holds what does not change during it: the bare values,
   the active offset, whether the tree evaluator runs (the compiled program
   does not), the cursor, the tick and the host's flag. *)
RECURSIVE Eval(_, _, _)
RECURSIVE Resolver(_, _, _, _)

(* engine_lookback_resolver *)
Resolver(target, d, w, st) ==
    IF target.k = "call"
    THEN ResolveSource(st, target.n, target.a, w.off + d, w.c, w.t)
    ELSE IF target.k = "id" /\ target.n \in SourceNames
    THEN ResolveSource(st, target.n, "none", w.off + d, w.c, w.t)
    ELSE IF target.k = "id"
    THEN [v |-> TrackedValue(st, target.n, d), st |-> st]
    ELSE LET h == HydrateAt(SetToSeq(plan.bare), w.bare, st, w.off + d, w.c, w.t)
         IN  Eval(target, [w EXCEPT !.bare = h.bare, !.off = @ + d, !.tree = TRUE], h.st)

Eval(ast, w, st) ==
    CASE ast.k = "id" ->
            [v |-> IF ast.n \in SourceNames THEN w.bare[ast.n] ELSE st.res[ast.n], st |-> st]
      [] ast.k = "call" -> ResolveSource(st, ast.n, ast.a, w.off, w.c, w.t)
      [] ast.k = "add" ->
            LET l == Eval(ast.l, w, st)
                r == Eval(ast.r, w, l.st)
            IN  [v |-> Plus(l.v, r.v), st |-> r.st]
      [] ast.k = "if" -> Eval(IF w.flag THEN ast.l ELSE ast.r, w, st)
      [] ast.k = "idx" ->
            LET first == IF w.tree THEN Eval(ast.t, w, st).st ELSE st
                flat == Flatten(ast.t, ast.d)
            IN  Resolver(flat.t, flat.d, w, first)

(* cxpr_evaluator_eval over the program. *)
RECURSIVE EvalFrom(_, _, _)
EvalFrom(i, w, st) ==
    IF i > Len(prog) THEN st
    ELSE LET r == Eval(prog[i].ast, w, st)
             v == r.v
         IN  EvalFrom(i + 1, w, [r.st EXCEPT !.res = [n \in DOMAIN @ \cup {prog[i].name} |->
                 IF n = prog[i].name THEN v ELSE @[n]]])

(* The hydration loop of cxpr_engine_tick. *)
RECURSIVE Hydrate(_, _, _, _, _)
Hydrate(names, bare, st, c, t) ==
    IF names = <<>> THEN [bare |-> bare, st |-> st]
    ELSE LET s == Head(names)
             r == IF Kinds[s] = "pull"
                  THEN [v |-> Sample(s, "none", t), st |-> CountPull(st, <<s, "none", -1>>)]
                  ELSE ResolveSource(st, s, "none", 0, c, t)
             fed == IF s \in plan.ringed
                    THEN [r.st EXCEPT !.src[s] = Rings!RingAppend(@, r.v)] ELSE r.st
         IN  Hydrate(Tail(names), [bare EXCEPT ![s] = r.v], fed, c, t)

-----------------------------------------------------------------------------

Empty == [x \in {} |-> NotANumber]

Init ==
    /\ scenario \in Scenarios
    /\ plan = Planned(prog, Facts(prog))
    /\ cursor = -1
    /\ srcRing = [s \in plan.ringed |-> Rings!NewRing(plan.depth[s] + 1)]
    /\ exprRing = [e \in plan.tracked |-> Rings!NewRing(plan.depth[e] + 1)]
    /\ argRing = Empty
    /\ result = Empty
    /\ pulls = Empty
    /\ memoUsed = 0
    /\ ticks = <<>>

(* The state a tick's evaluation starts from: an empty memo and a reserved cell
   in every expression ring. *)
Start ==
    [memo |-> <<>>, args |-> argRing, pulls |-> Empty, res |-> Empty, src |-> srcRing,
     expr |-> [e \in DOMAIN exprRing |-> Rings!RingAppend(exprRing[e], NotANumber)]]

(* cxpr_engine_tick arriving at cursor c; the host's flag decides conditionals. *)
TickTo(c, flag) ==
    /\ Len(ticks) < MaxTicks
    /\ \E h \in {Hydrate(SetToSeq(plan.bare \cup plan.ringed), [s \in SourceNames |-> NotANumber],
                          Start, c, Len(ticks) + 1)} :
       \E st \in {EvalFrom(1, [bare |-> h.bare, off |-> 0, tree |-> FALSE, c |-> c,
                              t |-> Len(ticks) + 1, flag |-> flag], h.st)} :
          /\ srcRing' = st.src
          /\ argRing' = st.args
          /\ result' = st.res
          /\ exprRing' = [e \in DOMAIN exprRing |-> Rings!RingFill(st.expr[e], st.res[e])]
          /\ pulls' = st.pulls
          /\ memoUsed' = Len(st.memo)
    /\ cursor' = c
    /\ ticks' = Append(ticks, [at |-> c, flag |-> flag])
    /\ UNCHANGED <<scenario, plan>>

Tick == \E flag \in scenario.flags : TickTo(cursor + 1, flag)

TickAt == \E index \in scenario.indices, flag \in scenario.flags : TickTo(index, flag)

(* cxpr_engine_session_reset *)
Reset ==
    /\ cursor' = -1
    /\ srcRing' = [s \in DOMAIN srcRing |-> Rings!RingReset(srcRing[s])]
    /\ exprRing' = [e \in DOMAIN exprRing |-> Rings!RingReset(exprRing[e])]
    /\ argRing' = [x \in DOMAIN argRing |-> [ring |-> Rings!RingReset(argRing[x].ring), last |-> -1]]
    /\ ticks' = <<>>
    /\ UNCHANGED <<scenario, plan, result, pulls, memoUsed>>

Next == Tick \/ TickAt \/ Reset

Spec == Init /\ [][Next]_vars

-----------------------------------------------------------------------------
(* What an expression means: Meaning(ast, t, off) is its value at tick t, off
   samples back.  Pull samples count ticks; indexed sources count positions
   back from the cursor of tick t. *)

Defined(n) == prog[CHOOSE i \in DOMAIN prog : prog[i].name = n].ast

RECURSIVE Meaning(_, _, _)
Meaning(ast, t, off) ==
    LET read(s, a) == IF Kinds[s] = "pull"
                      THEN IF t - off >= 1 THEN Sample(s, a, t - off) ELSE NotANumber
                      ELSE Indexed(s, a, ticks[t].at - off)
    IN  CASE ast.k = "id" ->
                IF ast.n \in SourceNames THEN read(ast.n, "none")
                ELSE IF t - off >= 1 THEN Meaning(Defined(ast.n), t - off, 0) ELSE NotANumber
          [] ast.k = "call" -> read(ast.n, ast.a)
          [] ast.k = "idx" -> Meaning(ast.t, t, off + ast.d)
          [] ast.k = "add" -> Plus(Meaning(ast.l, t, off), Meaning(ast.r, t, off))
          [] ast.k = "if" -> Meaning(IF ticks[t].flag THEN ast.l ELSE ast.r, t, off)

(* Every expression evaluates to what it means: the scan makes every ring deep
   enough, nested brackets add up, inline re-evaluation shifts every source it
   contains, and neither the memo nor a full memo changes a result.  It takes
   one call of a pull callback for hydration and one for each distinct source,
   argument and offset, as long as the memo has room (engine_source_memo_get
   before every resolution). *)
ResultsAreMeaning ==
    /\ ticks # <<>> => \A i \in DOMAIN prog :
         result[prog[i].name] = Meaning(prog[i].ast, Len(ticks), 0)
    /\ memoUsed < scenario.memoCap => \A x \in DOMAIN pulls : pulls[x] = 1
=============================================================================
