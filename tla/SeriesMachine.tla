--------------------------- MODULE SeriesMachine ---------------------------
(***************************************************************************)
(* A host that records samples and asks for expressions over their past:   *)
(* through a model session, which keeps the history its compiler planned   *)
(* (src/model/session.c), through the C generated for the model            *)
(* (src/model/codegen/), or through the history adapter over columns of    *)
(* its own (src/history.c).                                                *)
(***************************************************************************)
EXTENDS GeneratedTick

CONSTANTS Cases,        \* what the host may set up: [host, policy, model, rows],
                        \* rows the samples it may record: input name -> Value
          MaxSamples,   \* bound: accepted ticks of a session
          MaxGenerated, \* bound: accepted ticks of a generated function
          MaxRows,      \* bound: rows of the adapter's columns
          MaxSets       \* bound: parameters set

VARIABLES
    setup,    \* the case
    stage,    \* "source", then "ready" or "rejected"
    plan,     \* history_specs: by name the depth of its ring
    now,      \* the variables of the session's context
    par,      \* its parameters
    past,     \* the rings of the session, newest first
    gen,      \* the generated state; <<>> while it is zeroed memory
    feed,     \* the samples of all accepted ticks, or of the columns
    cursor,   \* *state->cursor of the adapter
    out,      \* the result of the last evaluation
    want,     \* what it should be
    sets      \* the parameters set so far

vars == <<setup, stage, plan, now, par, past, gen, feed, cursor, out, want, sets>>

Model == setup.model
Inputs == DOMAIN (CHOOSE row \in setup.rows : TRUE)

-----------------------------------------------------------------------------
(* What an expression means at sample t of a history: the same expression with
   every name n samples earlier.  Names have no value before sample 1, and the
   first one where the host's policy says so. *)

RECURSIVE Meaning(_, _, _)

(* The offsets below n at which the series is a number, and a sum over them. *)
Numbers(S, n) == {i \in 0 .. n - 1 : S[i] # NaN}
SumOver(is, f) == FoldSet(LAMBDA i, sum : sum + f[i], 0, is)

(* The value of S at the offsets is that is above (below) all others. *)
Extreme(S, is, up) ==
    S[CHOOSE i \in is : \A j \in is : IF up THEN S[j].v <= S[i].v ELSE S[j].v >= S[i].v]

(* A function of the series S(0), S(1), ... *)
MeaningOfCount(name, S, n, extra) ==
    LET is == Numbers(S, n)
        val == [i \in is |-> S[i].v]
        dist == [i \in is |-> IF val[i] < extra.v THEN extra.v - val[i] ELSE val[i] - extra.v]
        count == Cardinality(is)
        sum == SumOver(is, val)
        ordered(a, b) == S[a] # NaN /\ S[b] # NaN /\ S[a].v > S[b].v
    IN  CASE name = "rising" -> BoolV(\A i \in 1 .. n - 1 : ordered(i - 1, i))
          [] name = "falling" -> BoolV(\A i \in 1 .. n - 1 : ordered(i, i - 1))
          [] name = "net_up" -> BoolV(ordered(0, n))
          [] name = "net_down" -> BoolV(ordered(n, 0))
          [] name = "repeat" -> BoolV(\A i \in 0 .. n - 1 : S[i].v = 1)
          [] name = "delta" -> IF {S[0], S[n]} \cap {NaN} # {} THEN NaN ELSE Num(S[0].v - S[n].v)
          [] name = "roc" -> IF S[n] \in {NaN, Num(0)} \/ S[0] = NaN THEN NaN
                             ELSE Num(TruncDiv(S[0].v - S[n].v, S[n].v))
          [] name = "window_roc" ->
                IF S[0] = NaN THEN NaN ELSE IF S[n] \in {NaN, Num(0)} THEN Num(0)
                ELSE Num(TruncDiv(100 * (S[0].v - S[n].v), S[n].v))
          [] name \in {"highest", "lowest"} ->
                IF S[0] = NaN THEN NaN ELSE Extreme(S, is, name = "highest")
          [] count = 0 \/ (name = "window_mean_absdev" /\ extra = NaN) -> Num(0)
          [] name \in {"window_highest", "window_lowest"} ->
                Extreme(S, is, name = "window_highest")
          [] name = "bars_since_extreme" ->
                Num(Min({i \in is : S[i] = Extreme(S, is, extra.v >= 0)}))
          [] name = "window_sum" -> Num(sum)
          [] name = "window_mean" -> Num(TruncDiv(sum, count))
          [] name = "window_wma" ->
                Num(TruncDiv(SumOver(is, [i \in is |-> val[i] * (n - i)]),
                             SumOver(is, [i \in is |-> n - i])))
          [] name = "window_stddev" ->
                Num(FSqrt((count * SumOver(is, [i \in is |-> val[i] * val[i]]) - sum * sum)
                          \div (count * count)))
          [] name = "window_mean_absdev" -> Num(TruncDiv(SumOver(is, dist), count))

MeaningOfCross(above, L, R) ==
    LET gt(a, b) == NaN \notin {a, b} /\ a.v > b.v
        le(a, b) == NaN \notin {a, b} /\ a.v <= b.v
    IN  BoolV(IF above THEN gt(L[0], R[0]) /\ le(L[1], R[1])
              ELSE gt(R[0], L[0]) /\ le(R[1], L[1]))

MeaningOfOverlap(L, R, bars) ==
    BoolV(/\ \E i \in 0 .. bars : L[i].v = 1
          /\ \E i \in 0 .. bars : R[i].v = 1)

(* h is the history: its samples, the policy before the first, the parameters
   and the defined functions. *)
Meaning(ast, t, h) ==
    LET arg(i) == Meaning(ast.a[i], t, h)
        series(i, n) == [k \in 0 .. n |-> Meaning(ast.a[i], t - k, h)]
        named == ast.k = "call" /\ ast.s \in DOMAIN h.fns
        f == h.fns[ast.s]
    IN  CASE ast.k = "num" -> Num(ast.n)
          [] ast.k = "bool" -> BoolV(ast.n = 1)
          [] ast.k = "par" -> h.par[ast.s]
          [] ast.k = "id" -> IF t \in DOMAIN h.feed THEN h.feed[t][ast.s]
                             ELSE IF h.policy = "clamp" /\ t < 1 THEN h.feed[1][ast.s] ELSE NaN
          [] ast.k = "idx" -> Meaning(ast.a[1], t - arg(2).v, h)
          [] named -> Meaning(Substitute(f.body, f, ast.a), t, h)
          [] ast.k = "call" /\ ~named /\ ast.s \in Crosses ->
                MeaningOfCross(ast.s = "cross_above", series(1, 1), series(2, 1))
          [] ast.k = "call" /\ ~named /\ ast.s \in Overlaps ->
                LET bars == IF Len(ast.a) = 3 THEN arg(3).v ELSE 0
                IN  MeaningOfOverlap(series(1, bars), series(2, bars), bars)
          [] ast.k = "call" /\ ~named /\ IsSeriesFunction(ast.s)
             /\ ast.s \notin Crosses \cup Overlaps ->
                MeaningOfCount(ast.s, series(1, arg(2).v), arg(2).v,
                               IF Len(ast.a) = 3 THEN arg(3) ELSE Num(0))
          [] ast.k = "call" /\ ast.s = "if" -> IF arg(1).v = 1 THEN arg(2) ELSE arg(3)
          [] ast.k = "call" /\ ast.s = "within" ->
                BoolV(/\ NaN \notin {arg(1), arg(2), arg(3)}
                      /\ arg(1).v \in arg(2).v .. arg(3).v
                      /\ Len(ast.a) > 3 /\ arg(4).v = 0 => arg(1) # arg(2)
                      /\ Len(ast.a) > 4 /\ arg(5).v = 0 => arg(1) # arg(3))
          [] ast.k = "call" /\ ~named /\ ~IsSeriesFunction(ast.s) /\ ast.s \notin {"if", "within"} ->
                NativeCall(ast.s, [i \in DOMAIN ast.a |-> arg(i)])
          [] ast.k = "un" -> Scaled(ast.s, arg(1))
          [] ast.k = "ter" -> IF arg(1).v = 1 THEN arg(2) ELSE arg(3)
          [] ast.k = "bin" /\ ast.s \in {"and", "or"} ->
                BoolV(IF ast.s = "and" THEN arg(1).v = 1 /\ arg(2).v = 1
                      ELSE arg(1).v = 1 \/ arg(2).v = 1)
          [] ast.k = "bin" /\ ast.s \notin {"and", "or"} -> Both(ast.s, arg(1), arg(2))

(* The samples an expression reaches back at most: by its windows and indexes,
   added up where they nest. *)
RECURSIVE Reach(_, _)
Reach(ast, h) ==
    LET deepest == Max({0} \cup {Reach(ast.a[i], h) : i \in DOMAIN ast.a})
        count == Meaning(ast.a[2], 1, h).v
    IN  CASE ast.k = "idx" -> deepest + count
          [] ast.k = "call" /\ ast.s \in Crosses -> deepest + 1
          [] ast.k = "call" /\ ast.s \in Overlaps ->
                deepest + IF Len(ast.a) = 3 THEN Meaning(ast.a[3], 1, h).v ELSE 0
          [] ast.k = "call" /\ ast.s \in {"delta", "roc", "net_up", "net_down", "window_roc"} ->
                deepest + count
          [] ast.k = "call" /\ IsSeriesFunction(ast.s)
             /\ ast.s \notin Crosses \cup Overlaps
                             \cup {"delta", "roc", "net_up", "net_down", "window_roc"} ->
                deepest + count - 1
          [] OTHER -> deepest

-----------------------------------------------------------------------------
(* The session and the adapter *)

(* The parameters the tick works with: the generated function takes each of
   them back to its metadata, a session uses what was set. *)
WithinMetadata(c, v) ==
    LET below == IF c.max >= 0 THEN Min({c.max, v}) ELSE v
    IN  IF c.min >= 0 THEN Max({c.min, below}) ELSE below

Effective ==
    IF setup.host # "generated" THEN par
    ELSE [c \in DOMAIN par |-> Num(WithinMetadata(Model.consts[c], par[c].v))]

World(host, vals, cur) ==
    [now |-> vals, par |-> par, fns |-> Model.fns, host |-> host, past |-> past,
     col |-> [x \in Inputs |-> [i \in DOMAIN feed |-> feed[i][x]]],
     cursor |-> cur, policy |-> setup.policy, g |-> 0]

History(samples) ==
    [feed |-> samples, par |-> Effective, fns |-> Model.fns, policy |-> setup.policy]

(* Update(f, x, v): f with the value v at x. *)
Update(f, x, v) == [y \in DOMAIN f \cup {x} |-> IF y = x THEN v ELSE f[y]]

RECURSIVE RunBindings(_, _, _)

Bound(w, i, v) ==
    RunBindings(IF IsErr(v) THEN w ELSE [w EXCEPT !.now = Update(@, Model.binds[i][1], v)], i + 1, v)

(* The expressions of the compiled bindings, expanded, in order; the first that
   fails ends the tick. *)
RunBindings(w, i, last) ==
    IF i > Len(Model.binds) \/ IsErr(last) THEN [now |-> w.now, v |-> last]
    ELSE Bound(w, i, Eval(InlineDefinedCalls(Model.binds[i][2], Model.fns), w))

RECURSIVE BindingMeanings(_, _, _)
BindingMeanings(sample, i, last) ==
    IF i > Len(Model.binds) \/ IsErr(last) THEN [sample |-> sample, v |-> last]
    ELSE LET v == Meaning(Model.binds[i][2], Len(feed) + 1, History(Append(feed, sample)))
         IN  BindingMeanings(Update(sample, Model.binds[i][1], v), i + 1, v)

Init ==
    /\ setup \in Cases
    /\ stage = "source"
    /\ plan = <<>>
    /\ now = <<>>
    /\ par = [c \in DOMAIN setup.model.consts |-> Num(setup.model.consts[c].expr.n)]
    /\ past = <<>>
    /\ gen = <<>>
    /\ feed = <<>>
    /\ cursor = 0
    /\ out = Missing
    /\ want = Missing
    /\ sets = 0

ExpandedModel ==
    [Model EXCEPT !.binds = [i \in DOMAIN @ |-> <<@[i][1], InlineDefinedCalls(@[i][2], Model.fns)>>]]

(* cxpr_model_compile: the histories are planned; the resolver is installed only
   if there is one; then, for a generated function, cxpr_model_compiled_generate_c. *)
Compile ==
    /\ stage = "source"
    /\ LET needs == IF setup.host = "adapter" THEN {} ELSE CollectLookbacks(Model)
           specs == HistorySpecs(needs \ {Unbounded})
       IN  /\ stage' = IF \/ Unbounded \in needs
                          \/ setup.host = "generated" /\ ~HasGenerated(ExpandedModel, specs)
                       THEN "rejected" ELSE "ready"
           /\ plan' = specs
           /\ past' = [x \in DOMAIN specs |-> <<>>]
    /\ UNCHANGED <<setup, now, par, gen, feed, cursor, out, want, sets>>

(* cxpr_model_session_capture_history of an accepted tick: every ring holds the
   newest samples, up to its depth. *)
Pushed(values, failed) ==
    [x \in DOMAIN past |-> IF failed THEN past[x]
                           ELSE SubSeq(<<values[x]>> \o past[x], 1,
                                       IF Len(past[x]) < plan[x] THEN Len(past[x]) + 1 ELSE plan[x])]

(* The end of a tick: the results of its bindings, and what they should be. *)
Ticked(run, ref) ==
    /\ now' = run.now
    /\ out' = run.v
    /\ want' = ref.v
    /\ past' = Pushed(run.now, IsErr(run.v))
    /\ feed' = IF IsErr(run.v) THEN feed ELSE Append(feed, ref.sample)

(* cxpr_model_session_tick after the host set the inputs. *)
Tick(sample) ==
    /\ stage = "ready"
    /\ setup.host = "session"
    /\ Len(feed) < MaxSamples
    /\ Ticked(RunBindings(World(IF plan = <<>> THEN "none" ELSE "session",
                               [x \in DOMAIN now \cup DOMAIN sample |->
                                  IF x \in DOMAIN sample THEN sample[x] ELSE now[x]], 0),
                          1, Missing),
              BindingMeanings(sample, 1, Missing))
    /\ UNCHANGED <<setup, stage, plan, par, gen, cursor, sets>>

(* The end of a call of the generated function, and what it should give. *)
Emitted(end, ref) ==
    /\ out' = end.now[Last(Model.binds)[1]]
    /\ want' = ref.v
    /\ gen' = [hist |-> HistoriesPushed(end), win |-> end.win]
    /\ now' = end.now
    /\ feed' = Append(feed, ref.sample)

(* It returns early, with no number as output and its state as it was, if the
   guard fails. *)
Generated(g, sample) ==
    IF PassesGuard(g, Model.guard)
    THEN Emitted(RunEmitted(g, 1), BindingMeanings(sample, 1, Missing))
    ELSE /\ out' = NaN
         /\ want' = NaN
         /\ gen' = [hist |-> g.hist, win |-> g.win]
         /\ UNCHANGED <<now, feed>>

(* A call of the generated function, which initialises zeroed state first. *)
TickGenerated(sample) ==
    /\ stage = "ready"
    /\ setup.host = "generated"
    /\ Len(feed) < MaxGenerated
    /\ LET state == IF gen = <<>> THEN GeneratedInit(ExpandedModel, plan) ELSE gen
       IN  Generated([m |-> ExpandedModel, plan |-> plan, par |-> Effective, now |-> sample,
                      hist |-> state.hist, win |-> state.win], sample)
    /\ UNCHANGED <<setup, stage, plan, par, past, cursor, sets>>

(* What the host sets: to a session, a value the metadata allows; to a generated
   function, also one beside it.  A parameter without a maximum stays at or
   below its default, which the compiler planned for. *)
Settable(c) ==
    LET top == IF c.max >= 0 THEN c.max ELSE c.expr.n
    IN  IF setup.host = "generated"
        THEN c.min - 1 .. (IF c.max >= 0 THEN top + 1 ELSE top) ELSE c.min .. top

(* cxpr_context_set_param of the session's context; of a generated function, the
   params of its next call. *)
SetParam(c, v) ==
    /\ stage = "ready"
    /\ setup.host # "adapter"
    /\ sets < MaxSets
    /\ v # par[c].v
    /\ par' = [par EXCEPT ![c] = Num(v)]
    /\ sets' = sets + 1
    /\ UNCHANGED <<setup, stage, plan, now, past, gen, feed, cursor, out, want>>

(* The host appends a row to its columns.  The adapter keeps nothing from one
   evaluation to the next: a behaviour ends with the first. *)
Record(sample) ==
    /\ stage = "ready"
    /\ setup.host = "adapter"
    /\ out = Missing
    /\ Len(feed) < MaxRows
    /\ feed' = Append(feed, sample)
    /\ UNCHANGED <<setup, stage, plan, now, par, past, gen, cursor, out, want, sets>>

(* The host moves the cursor, which may be past the last row, sets the
   variables to that row and evaluates. *)
Evaluate(c) ==
    /\ stage = "ready"
    /\ setup.host = "adapter"
    /\ feed # <<>>
    /\ out = Missing
    /\ LET vals == feed[IF c < Len(feed) THEN c + 1 ELSE Len(feed)]
           ast == Model.binds[1][2]
       IN  /\ out' = Eval(ast, World("adapter", vals, c))
           /\ want' = Meaning(ast, c + 1, History(feed))
    /\ cursor' = c
    /\ UNCHANGED <<setup, stage, plan, now, par, past, gen, feed, sets>>

Next ==
    \/ Compile
    \/ \E sample \in setup.rows : Tick(sample) \/ TickGenerated(sample) \/ Record(sample)
    \/ \E c \in DOMAIN par : \E v \in Settable(Model.consts[c]) : SetParam(c, v)
    \/ \E c \in 0 .. MaxRows : Evaluate(c)

Spec == Init /\ [][Next]_vars

-----------------------------------------------------------------------------
(* Properties *)

Same(x, y) == x = y \/ (IsErr(x) /\ IsErr(y))

(* The last binding of a session is what its expression means over the samples
   of the accepted ticks: the history the compiler planned is deep enough for
   every offset it is evaluated at, whatever parameters within their metadata
   the host sets, and a failed tick leaves no sample behind
   (cxpr_model_collect_lookbacks, cxpr_model_lookback_resolver,
   cxpr_eval_at_offset). *)
SessionMeansPast == setup.host = "session" /\ out # Missing => Same(out, want)

(* The generated function gives what the last binding means over the samples of
   the calls its guard let through, for every period the parameters take: the
   running sum of a ring stays the sum of its window while other periods are
   read from the history, counters fit their width, a shared expression advances
   its ring once, and a call the guard rejects leaves no sample behind
   (cxpr_model_c_emit_planned_simple_aggregate_binding,
   cxpr_model_compiled_generate_c_ast). *)
GeneratedMeansPast == setup.host = "generated" /\ out # Missing => out = want

(* The history adapter gives what the expression means at the cursor, with the
   policy's value before the first row; it fails only if a row before the first
   is reached under the error policy, and always at a cursor past the last row
   unless the policy is NaN (cxpr_history_numeric_resolve,
   cxpr_history_value_at). *)
AdapterMeansPast ==
    setup.host = "adapter" /\ out # Missing =>
        IF cursor >= Len(feed) THEN setup.policy # "nan" => IsErr(out)
        ELSE IF setup.policy = "error" /\ IsErr(out)
        THEN cursor < Reach(Model.binds[1][2], History(feed))
        ELSE out = want
=============================================================================
