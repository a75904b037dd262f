--------------------------- MODULE GeneratedTick ---------------------------
(***************************************************************************)
(* The tick function that is generated in C for a compiled model           *)
(* (src/model/codegen/, src/model/window/plan.c, src/codegen.c).           *)
(*                                                                         *)
(* What the emitted text computes is modelled, not the text: an expression *)
(* is a C expression over the inputs, the parameters and the histories of  *)
(* the generated state; a binding that is a mean or a sum of a window has  *)
(* a ring with a running sum.  Model state, buffers and child models are   *)
(* in ModelSession and ModelChild.  C divides by zero without an error, so *)
(* no division is modelled.                                                *)
(*                                                                         *)
(* g is what a tick works on: m, the model with its calls expanded; plan,  *)
(* by name the depth of its history; par, the parameters; now, the inputs  *)
(* and the bindings so far; hist and win, the histories and the rings.     *)
(***************************************************************************)
EXTENDS Series

CONSTANTS ShiftDepth,     \* 4: the deepest history that is shifted, not a ring
          NarrowMax       \* 255: the largest capacity with uint8_t counters

GeneratedAssumption == ShiftDepth \in Nat /\ NarrowMax \in Nat

(* cxpr_model_c_window_counter_type, cxpr_model_c_history_counter_type: n as it
   is stored. *)
Counter(capacity, n) == IF capacity > NarrowMax THEN n ELSE n % (NarrowMax + 1)

-----------------------------------------------------------------------------
(* Histories: shifted, or a ring of the next power of two. *)

Shifted(depth) == depth <= ShiftDepth

(* cxpr_model_c_history_capacity *)
HistoryCapacity(depth) ==
    IF Shifted(depth) THEN depth ELSE Min({c \in {2 ^ k : k \in 0 .. depth} : c >= depth})

FreshHistory(depth) == [values |-> [i \in 0 .. HistoryCapacity(depth) - 1 |-> NaN], next |-> 0]

(* The sample n ticks ago, n > 0 (cxpr_model_c_emit_dynamic_history_value). *)
HistoryAt(h, depth, n) ==
    LET capacity == HistoryCapacity(depth)
    IN  IF n > depth THEN NaN
        ELSE IF Shifted(depth) THEN h.values[n - 1]
        ELSE h.values[(h.next + capacity - n) % capacity]

HistoryPush(h, depth, v) ==
    LET capacity == HistoryCapacity(depth)
    IN  IF Shifted(depth)
        THEN [h EXCEPT !.values = [i \in DOMAIN @ |-> IF i = 0 THEN v ELSE @[i - 1]]]
        ELSE [values |-> [h.values EXCEPT ![h.next] = v],
              next |-> Counter(capacity, (h.next + 1) % capacity)]

-----------------------------------------------------------------------------
(* Expressions *)

RECURSIVE CValue(_, _, _)

(* cxpr_model_ast_c_emit_leaf of a name *)
CLeaf(name, n, g) ==
    IF n = 0 THEN g.now[name] ELSE HistoryAt(g.hist[name], g.plan[name], n)

(* cxpr_model_ast_c_emit_lookback: an index that is not a literal. *)
CLookback(ast, i, n, g) ==
    IF n # 0 \/ i = NaN THEN NaN
    ELSE CLeaf(ast.a[1].s, IF i.v <= 0 THEN 0 ELSE i.v, g)

(* cxpr_model_c_window_period_capacity, cxpr_model_window_plan_period_capacity:
   the rule of the history's depth, written once more. *)
PeriodCapacity(m, period) == PeriodDepth(m, period)

(* (int)fmax(1.0, fmin(capacity, round(period))) *)
WithinCapacity(capacity, period) ==
    IF period = NaN THEN capacity ELSE Max({1, Min({capacity, period.v})})

(* The samples of a window and what it makes of them; a parameter that is the
   period leaves the ones beyond it unread. *)
CReduced(call, capacity, limit, n, g) ==
    LET tail == WindowTable[call.s].tail
        read(i) == i < capacity + tail /\ (call.a[2].k = "par" => i < limit + tail)
        vs == [i \in 0 .. capacity |-> IF read(i) THEN CValue(call.a[1], n + i, g) ELSE NaN]
        extra == IF Len(call.a) = 2 THEN Num(0)
                 ELSE CValue(call.a[3], IF call.s = "bars_since_extreme" THEN 0 ELSE n, g)
    IN  Reduced(call.s, extra, vs, limit)

(* cxpr_model_ast_c_emit_window_call *)
CWindow(call, n, g) ==
    LET capacity == PeriodCapacity(g.m, call.a[2])
    IN  CReduced(call, capacity, WithinCapacity(capacity, CValue(call.a[2], 0, g)), n, g)

(* roc of a literal period is in percent, and 0 where a sample is missing. *)
CRoc(now, before) ==
    IF NaN \in {now, before} \/ before = Num(0) THEN Num(0)
    ELSE Num(TruncDiv(100 * (now.v - before.v), before.v))

(* min and max: a comparison of two, otherwise fmin and fmax, which leave out
   what is no number. *)
CExtreme(up, args) ==
    LET xs == SelectSeq(args, IsNumber)
    IN  IF Len(args) = 2 THEN (IF Better(up, args[1], args[2]) THEN args[1] ELSE args[2])
        ELSE IF xs = <<>> THEN NaN ELSE ExtremeOf(up, [i \in 0 .. Len(xs) - 1 |-> xs[i + 1]], Len(xs))

(* cxpr_model_ast_c_emit_call, cxpr_cg_emit_call_at_offset: every argument at the
   offset of the call. *)
CCall(call, n, g) ==
    LET series(i, last) == [k \in 0 .. last |-> CValue(call.a[i], n + k, g)]
        args == [i \in DOMAIN call.a |-> CValue(call.a[i], n, g)]
        f == g.m.fns[call.s]
    IN  CASE IsWindowFunction(call.s) -> CWindow(call, n, g)
          [] call.s \in DOMAIN g.m.fns -> CValue(Substitute(f.body, f, call.a), n, g)
          [] call.s \in Trends ->
                Trend(call.s = "rising", series(1, call.a[2].n - 1), call.a[2].n)
          [] call.s = "repeat" -> Repeat(series(1, call.a[2].n - 1), call.a[2].n)
          [] call.s \in Crosses -> Cross(call.s = "cross_above", series(1, 1), series(2, 1))
          [] call.s = "roc" -> CRoc(CValue(call.a[1], n, g), CValue(call.a[1], n + call.a[2].n, g))
          [] call.s \in {"min", "max"} -> CExtreme(call.s = "max", args)
          [] call.s = "if" -> IF args[1].v # 0 THEN args[2] ELSE args[3]
          [] call.s = "within" -> Within(args)
          [] OTHER -> NativeCall(call.s, args)

(* cxpr_cg_emit_at_offset: literal indexes add up on the way to the names. *)
CValue(ast, n, g) ==
    LET arg(i) == CValue(ast.a[i], n, g)
        logical == ast.s \in {"and", "or"}
    IN  CASE ast.k = "num" -> Num(ast.n)
          [] ast.k = "bool" -> BoolV(ast.n = 1)
          [] ast.k = "par" -> g.par[ast.s]
          [] ast.k = "id" -> CLeaf(ast.s, n, g)
          [] ast.k = "idx" -> IF LiteralOffset(ast.a[2]) THEN CValue(ast.a[1], n + ast.a[2].n, g)
                              ELSE CLookback(ast, CValue(ast.a[2], 0, g), n, g)
          [] ast.k = "call" -> CCall(ast, n, g)
          [] ast.k = "un" -> Scaled(ast.s, arg(1))
          [] ast.k = "ter" -> IF arg(1).v # 0 THEN arg(2) ELSE arg(3)
          [] ast.k = "bin" /\ logical -> Logical(ast.s, arg(1), arg(2))
          [] ast.k = "bin" /\ ~logical -> BinaryValues(ast.s, arg(1), arg(2))

-----------------------------------------------------------------------------
(* Rings of the bindings that are a mean or a sum of a window *)

Aggregates == {"window_mean", "window_sum"}

IsCallOf(ast, names) == ast.k = "call" /\ ast.s \in names /\ Len(ast.a) = 2

(* cxpr_model_window_plan_add_nested_roc_aggregate *)
RocAggregate(ast) == IsCallOf(ast, Aggregates) /\ IsCallOf(ast.a[1], {"window_roc"})

(* cxpr_model_window_plan_add_simple_aggregate *)
SimpleAggregate(ast) ==
    /\ IsCallOf(ast, Aggregates)
    /\ ~(ast.a[1].k = "call" /\ IsWindowFunction(ast.a[1].s))

RECURSIVE PlannedIn(_)

(* cxpr_model_window_plan_visit: equal aggregates share a ring. *)
PlannedIn(ast) ==
    {x \in {ast} : RocAggregate(x) \/ SimpleAggregate(x)}
      \cup UNION {PlannedIn(ast.a[i]) :
                    i \in IF ast.k \in {"call", "bin", "un", "ter", "idx"} THEN DOMAIN ast.a ELSE {}}

(* cxpr_model_window_plan_build *)
WindowPlan(m) == UNION {PlannedIn(m.binds[i][2]) : i \in DOMAIN m.binds}

(* The struct of a ring, as the generated init function leaves it. *)
FreshRing(capacity) ==
    [values |-> [i \in 0 .. capacity - 1 |-> NaN], next |-> 0, count |-> 0, sum |-> 0]

(* The emitted update: the oldest value leaves the sum and the newest enters;
   both may be no number. *)
Rolled(ring, capacity, v) ==
    LET old == ring.values[ring.next]
        kept == IF old # NaN /\ ring.count > 0 THEN ring.count - 1 ELSE ring.count
    IN  [values |-> [ring.values EXCEPT ![ring.next] = v],
         next |-> Counter(capacity, (ring.next + 1) % capacity),
         count |-> IF v = NaN THEN kept ELSE kept + 1,
         sum |-> ring.sum - (IF old = NaN THEN 0 ELSE old.v) + (IF v = NaN THEN 0 ELSE v.v)]

(* cxpr_model_c_window_aggregate_result_expr *)
RingResult(op, ring) ==
    Num(IF ring.count = 0 THEN 0
        ELSE IF op = "window_mean" THEN TruncDiv(ring.sum, ring.count) ELSE ring.sum)

Stored(ring, capacity) == [ring EXCEPT !.count = Counter(capacity, @)]

(* cxpr_model_c_period_is_static_capacity: a period that is not a parameter
   itself counts with the value it has by default. *)
StaticPeriod(m, period) ==
    period.k # "par" /\ WindowConstant(m, period) = Num(PeriodCapacity(m, period))

(* cxpr_model_c_period_limit_expr *)
PeriodLimit(g, period, capacity) ==
    IF StaticPeriod(g.m, period) THEN capacity
    ELSE WithinCapacity(capacity, CValue(period, 0, g))

(* A result: v, and win, the rings after it. *)
Result(v, win) == [v |-> v, win |-> win]

FromRingWhenFull(call, capacity, full, ring, loop, win) ==
    Result(IF full THEN RingResult(call.s, ring) ELSE loop,
           IF full THEN [win EXCEPT ![call] = Stored(ring, capacity)] ELSE win)

(* The result of the ring if the period is the full one, else of the loop over
   the history; the ring is kept in both cases. *)
FromRing(call, capacity, full, ring, loop, win) ==
    Result(IF full THEN RingResult(call.s, ring) ELSE loop,
           [win EXCEPT ![call] = Stored(ring, capacity)])

RollWithin(call, capacity, limit, g) ==
    FromRing(call, capacity, limit = capacity,
             Rolled(g.win[call], capacity, CValue(call.a[1], 0, g)),
             CReduced(call, capacity, limit, 0, g), g.win)

(* cxpr_model_c_emit_planned_simple_aggregate_binding *)
RollSimple(call, capacity, g) ==
    RollWithin(call, capacity, PeriodLimit(g, call.a[2], capacity), g)

RocValue(series, n, period, g) ==
    WindowRoc([i \in {0, period} |-> CValue(series, n + i, g)], period)

(* cxpr_model_c_emit_planned_roc_rolling_update,
   cxpr_model_c_emit_planned_roc_aggregate_fallback *)
RollRocWithin(call, rocCapacity, capacity, rp, ap, g) ==
    FromRing(call, capacity, rp = rocCapacity /\ ap = capacity,
             Rolled(g.win[call], capacity, RocValue(call.a[1].a[1], 0, rocCapacity, g)),
             WindowAgg(call.s, [i \in 0 .. ap - 1 |-> RocValue(call.a[1].a[1], i, rp, g)], ap),
             g.win)

(* cxpr_model_c_emit_planned_roc_aggregate_binding *)
RollRoc(call, rocCapacity, capacity, g) ==
    RollRocWithin(call, rocCapacity, capacity, PeriodLimit(g, call.a[1].a[2], rocCapacity),
                  PeriodLimit(g, call.a[2], capacity), g)

-----------------------------------------------------------------------------
(* Bindings *)

(* A name with a history: what the emitted loops can read. *)
Keyed(ast, plan) == ast.k = "id" /\ ast.s \in DOMAIN plan

(* cxpr_model_c_match_mean_stddev_pair: a mean whose next binding is the standard
   deviation of the same window; the two are computed in one loop. *)
PairAt(m, i) ==
    LET mean == m.binds[i][2]
        next == m.binds[i + 1][2]
    IN  /\ i < Len(m.binds)
        /\ m.guard \notin {m.binds[i][1], m.binds[i + 1][1]}
        /\ IsCallOf(mean, {"window_mean"}) /\ IsCallOf(next, {"window_stddev"})
        /\ mean.a = next.a
        /\ mean.a[1].k \in {"id", "par", "num"} /\ mean.a[2].k \in {"par", "num"}

(* cxpr_model_c_emit_simple_window_binding: a window of two arguments over no
   other window is a loop up to the period, that leaves out what is no number. *)
LoopsOver(ast) ==
    /\ ast.k = "call" /\ IsWindowFunction(ast.s) /\ Len(ast.a) = 2 /\ ast.s # "window_roc"
    /\ ~(ast.a[1].k = "call" /\ IsWindowFunction(ast.a[1].s))

(* Also one of the two results of cxpr_model_c_emit_mean_stddev_bindings, whose
   loop keeps the sum and the sum of squares. *)
LoopedWindow(call, limit, g) ==
    Reduced(call.s, Num(0), [i \in 0 .. limit - 1 |-> CValue(call.a[1], i, g)], limit)

(* cxpr_model_c_match_scaled_high_low_midpoint: half of a window's highest and a
   window's lowest with the same period. *)
IsMidpoint(ast) ==
    /\ ast.k = "un" /\ ast.s = "half" /\ ast.a[1].k = "bin" /\ ast.a[1].s = "+"
    /\ LET parts == ast.a[1].a
       IN  /\ \A i \in 1 .. 2 : IsCallOf(parts[i], {"window_highest", "window_lowest"})
           /\ parts[1].s # parts[2].s
           /\ parts[1].a[2] = parts[2].a[2] /\ parts[1].a[2].k \in {"par", "num"}

(* cxpr_model_c_emit_midpoint_binding: one loop, over the offsets at which both
   series are numbers. *)
MidpointValue(parts, limit, g) ==
    LET of(name) == (CHOOSE i \in 1 .. 2 : parts[i].s = name)
        high(i) == CValue(parts[of("window_highest")].a[1], i, g)
        low(i) == CValue(parts[of("window_lowest")].a[1], i, g)
        is == {i \in 0 .. limit - 1 : NaN \notin {high(i), low(i)}}
    IN  IF is = {} THEN Num(0)
        ELSE Num(TruncDiv(Max({high(i).v : i \in is}) + Min({low(i).v : i \in is}), 2))

(* The earlier bindings with the same expression
   (cxpr_model_c_find_common_binding_expr); the guard's has no name to share. *)
CommonWith(m, i) ==
    {j \in 1 .. i - 1 : m.binds[j][2] = m.binds[i][2] /\ m.binds[j][1] # m.guard}

(* The value of binding i, and the rings after it: the first emitter of
   cxpr_model_compiled_generate_c_ast that takes the expression.  The guard is
   not computed again: its name is true once it let the call through. *)
EmittedBinding(i, g) ==
    LET ast == g.m.binds[i][2]
        common == CommonWith(g.m, i)
        limit(period) == WithinCapacity(PeriodCapacity(g.m, period), CValue(period, 0, g))
    IN  IF g.m.binds[i][1] = g.m.guard THEN Result(BoolV(TRUE), g.win)
        ELSE IF common # {} THEN Result(g.now[g.m.binds[Min(common)][1]], g.win)
        ELSE IF PairAt(g.m, i) \/ (i > 1 /\ PairAt(g.m, i - 1)) THEN
                Result(LoopedWindow(ast, limit(ast.a[2]), g), g.win)
        ELSE IF RocAggregate(ast) THEN
                RollRoc(ast, PeriodCapacity(g.m, ast.a[1].a[2]), PeriodCapacity(g.m, ast.a[2]), g)
        ELSE IF SimpleAggregate(ast) /\ Keyed(ast.a[1], g.plan) THEN
                RollSimple(ast, PeriodCapacity(g.m, ast.a[2]), g)
        ELSE IF IsMidpoint(ast) THEN
                Result(MidpointValue(ast.a[1].a, limit(ast.a[1].a[1].a[2]), g), g.win)
        ELSE IF LoopsOver(ast) THEN Result(LoopedWindow(ast, limit(ast.a[2]), g), g.win)
        ELSE Result(CValue(ast, 0, g), g.win)

RECURSIVE RunEmitted(_, _)

AfterBinding(g, i, result) ==
    RunEmitted([g EXCEPT !.now = [x \in DOMAIN @ \cup {g.m.binds[i][1]} |->
                                    IF x = g.m.binds[i][1] THEN result.v ELSE @[x]],
                         !.win = result.win], i + 1)

RunEmitted(g, i) == IF i > Len(g.m.binds) THEN g ELSE AfterBinding(g, i, EmittedBinding(i, g))

(* cxpr_model_c_emit_slot_init_function *)
GeneratedInit(m, plan) ==
    [hist |-> [x \in DOMAIN plan |-> FreshHistory(plan[x])],
     win |-> [call \in WindowPlan(m) |-> FreshRing(PeriodCapacity(m, call.a[2]))]]

(* The end of a tick: every history takes the value of its name. *)
HistoriesPushed(g) == [x \in DOMAIN g.hist |-> HistoryPush(g.hist[x], g.plan[x], g.now[x])]

(* The guard of a model with invalid_input_guard: inputs and parameters are
   finite and the guard's expression is true. *)
PassesGuard(g, guard) ==
    guard # "" =>
        /\ \A x \in DOMAIN g.now : g.now[x] # NaN
        /\ \A c \in DOMAIN g.par : g.par[c] # NaN
        /\ CValue(BindingOf(g.m, guard), 0, g).v # 0

-----------------------------------------------------------------------------
(* What has no C *)

RECURSIVE Generates(_, _, _, _)

GeneratesCall(call, n, m, plan) ==
    LET over(i, last) == \A k \in 0 .. last : Generates(call.a[i], n + k, m, plan)
        all == \A i \in DOMAIN call.a : Generates(call.a[i], n, m, plan)
        period == call.a[2]
    IN  CASE IsWindowFunction(call.s) ->
                /\ Generates(period, 0, m, plan)
                /\ over(1, PeriodCapacity(m, period) + WindowTable[call.s].tail - 1)
                /\ Len(call.a) = 3 =>
                      Generates(call.a[3], IF call.s = "bars_since_extreme" THEN 0 ELSE n, m, plan)
          [] call.s \in Trends -> period.k = "num" /\ period.n >= 2 /\ over(1, period.n - 1)
          [] call.s = "repeat" -> period.k = "num" /\ over(1, period.n - 1)
          [] call.s \in Crosses -> over(1, 1) /\ over(2, 1)
          [] call.s = "roc" -> /\ period.k = "num" /\ period.n >= 1
                               /\ Generates(call.a[1], n, m, plan)
                               /\ Generates(call.a[1], n + period.n, m, plan)
          [] OTHER -> all /\ call.s \in {"abs", "min", "max", "mean", "nan", "if", "within"}
                                        \cup DOMAIN m.fns

(* An offset reaches a parameter, or a name without a history; or there is no C
   function. *)
Generates(ast, n, m, plan) ==
    LET parts == \A i \in DOMAIN ast.a : Generates(ast.a[i], n, m, plan)
    IN  CASE ast.k \in {"num", "bool"} -> TRUE
          [] ast.k = "par" -> n = 0
          [] ast.k = "id" -> n > 0 => ast.s \in DOMAIN plan
          [] ast.k = "idx" -> IF LiteralOffset(ast.a[2]) THEN Generates(ast.a[1], n + ast.a[2].n, m, plan)
                              ELSE Keyed(ast.a[1], plan) /\ Generates(ast.a[2], 0, m, plan)
          [] ast.k = "call" -> GeneratesCall(ast, n, m, plan)
          [] ast.k \in {"un", "ter", "bin"} -> parts

(* A mean or sum of window_roc over an expression, with a period set at run
   time: the loop fails after its first half is written, and what is left is no
   C. *)
HalfEmitted(ast, m, plan) ==
    /\ RocAggregate(ast)
    /\ ~Keyed(ast.a[1].a[1], plan)
    /\ ~(StaticPeriod(m, ast.a[2]) /\ StaticPeriod(m, ast.a[1].a[2]))

(* cxpr_model_compiled_generate_c_ast gives a function. *)
HasGenerated(m, plan) ==
    \A i \in DOMAIN m.binds :
        /\ Generates(m.binds[i][2], 0, m, plan)
        /\ ~HalfEmitted(m.binds[i][2], m, plan)
=============================================================================
