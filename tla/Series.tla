------------------------------- MODULE Series -------------------------------
(***************************************************************************)
(* Series functions and lookbacks (src/timeseries.c, history.c, the        *)
(* at-offset evaluation of src/eval/api.c, the resolver of                 *)
(* src/model/session.c).                                                   *)
(*                                                                         *)
(* A series function evaluates its first argument at several offsets into  *)
(* the past.  What an offset means is left to the registry: the lookback   *)
(* resolver of a model session reads recorded histories, the index         *)
(* capability of the history adapter the host's columns at a cursor.       *)
(*                                                                         *)
(* The world w of an evaluation: now, the variables of the context; par,   *)
(* its parameters; fns, the defined functions; host, who owns the past     *)
(* ("session", "adapter" or "none": nobody); past, by name                 *)
(* the recorded samples, newest first; col, by name the adapter's column,  *)
(* oldest first; cursor and policy of the adapter; g, the thread-local     *)
(* offset g_eval_lookback_offset.                                          *)
(*                                                                         *)
(* A name stands for every target with a key (a field, a chain, a          *)
(* producer).  State buffers are in ModelSession.                          *)
(***************************************************************************)
EXTENDS Ast, ExprValues, SequencesExt, FiniteSetsExt

CONSTANT MaxDynamicOffset    \* 512 in the resolver of a model session

DynamicOffsetAssumption == MaxDynamicOffset \in Nat

-----------------------------------------------------------------------------
(* Reading the samples.  A sample that could not be read is an error; the
   function then fails at the first one it meets. *)

Gt(a, b) == NaN \notin {a, b} /\ a.v > b.v
Le(a, b) == NaN \notin {a, b} /\ a.v <= b.v
IsNumber(x) == x # NaN

OfType(x, t) == Require(x, t, x)

AllRead(reads, then) ==
    LET bad == SelectSeq(reads, IsErr) IN IF bad # <<>> THEN Head(bad) ELSE then

-----------------------------------------------------------------------------
(* What the functions make of vs, the sample at each offset from 0. *)

(* cxpr_timeseries_trend_eval: pairs from the newest, until one is not strictly
   ordered. *)
Trend(up, vs, n) ==
    LET kept(i) == IF up THEN Gt(vs[i], vs[i + 1]) ELSE Gt(vs[i + 1], vs[i])
        stop == {i \in 0 .. n - 2 : IsErr(vs[i]) \/ IsErr(vs[i + 1]) \/ ~kept(i)}
    IN  IF stop = {} THEN BoolV(TRUE)
        ELSE AllRead(<<vs[Min(stop)], vs[Min(stop) + 1]>>, BoolV(FALSE))

(* cxpr_timeseries_cross_eval *)
Cross(above, l, r) ==
    AllRead(<<l[0], r[0], l[1], r[1]>>,
            BoolV(IF above THEN Le(l[1], r[1]) /\ Gt(l[0], r[0])
                  ELSE Le(r[1], l[1]) /\ Gt(r[0], l[0])))

(* cxpr_timeseries_delta, cxpr_timeseries_roc *)
Delta(vs, n) == AllRead(<<vs[0], vs[n]>>, NumericBinaryOp("-", vs[0], vs[n]))
Roc(vs, n) ==
    AllRead(<<vs[0], vs[n]>>,
            IF vs[n] = Num(0) THEN NaN
            ELSE NumericBinaryOp("/", NumericBinaryOp("-", vs[0], vs[n]), vs[n]))

(* cxpr_timeseries_net_eval: two numbers that are not finite never rise. *)
Net(up, vs, n) ==
    AllRead(<<vs[0], vs[n]>>,
            BoolV(IF up THEN Gt(vs[0], vs[n]) ELSE Gt(vs[n], vs[0])))

(* The samples at offsets 0 to n - 1, in the order they are read. *)
Samples(vs, n) == [i \in 1 .. n |-> vs[i - 1]]

Better(up, a, b) == IF up THEN Gt(a, b) ELSE Gt(b, a)

(* cxpr_timeseries_window_eval: the first sample is taken as it is. *)
ExtremeOf(up, vs, n) ==
    AllRead(Samples(vs, n),
            FoldLeft(LAMBDA out, x : IF Better(up, x, out) THEN x ELSE out,
                     vs[0], Tail(Samples(vs, n))))

Total(xs) == FoldLeft(LAMBDA sum, x : sum + x.v, 0, xs)

(* The variance of numbers, rounded as the division of integers is. *)
Variance(xs) ==
    LET n == Len(xs)
        squares == FoldLeft(LAMBDA sum, x : sum + x.v * x.v, 0, xs)
    IN  (n * squares - Total(xs) * Total(xs)) \div (n * n)

(* cxpr_timeseries_window_agg_eval: samples that are not a number are left
   out; of none, everything is 0. *)
WindowAgg(op, vs, n) ==
    AllRead(Samples(vs, n),
        LET xs == SelectSeq(Samples(vs, n), IsNumber)
            best(up) == FoldLeft(LAMBDA out, x : IF Better(up, x, out) THEN x ELSE out,
                                 Head(xs), Tail(xs))
        IN  IF xs = <<>> THEN Num(0)
            ELSE CASE op = "window_sum" -> Num(Total(xs))
                   [] op = "window_mean" -> Num(TruncDiv(Total(xs), Len(xs)))
                   [] op = "window_stddev" -> Num(FSqrt(Variance(xs)))
                   [] op = "window_highest" -> best(TRUE)
                   [] op = "window_lowest" -> best(FALSE))

(* cxpr_timeseries_window_wma: the newest sample weighs n, the oldest 1. *)
Wma(vs, n) ==
    AllRead(Samples(vs, n),
        LET is == {i \in 0 .. n - 1 : vs[i] # NaN}
            weights == FoldSet(LAMBDA i, sum : sum + (n - i), 0, is)
            weighted == FoldSet(LAMBDA i, sum : sum + vs[i].v * (n - i), 0, is)
        IN  Num(IF is = {} THEN 0 ELSE TruncDiv(weighted, weights)))

(* cxpr_timeseries_window_roc, in percent *)
WindowRoc(vs, n) ==
    AllRead(<<vs[0], vs[n]>>,
            IF vs[0] = NaN THEN NaN
            ELSE IF vs[n] \in {NaN, Num(0)} THEN Num(0)
            ELSE Num(TruncDiv(100 * (vs[0].v - vs[n].v), vs[n].v)))

(* cxpr_timeseries_bars_since_extreme: how long ago the extreme was, the
   newest of equal ones. *)
BarsSince(up, vs, n) ==
    AllRead(Samples(vs, n),
        LET is == {i \in 0 .. n - 1 : vs[i] # NaN}
            top == {i \in is : \A j \in is : ~Better(up, vs[j], vs[i])}
        IN  Num(IF is = {} THEN 0 ELSE Min(top)))

(* cxpr_timeseries_window_mean_absdev around a center *)
MeanAbsDev(center, vs, n) ==
    LET xs == SelectSeq(Samples(vs, n), IsNumber)
        dist(x) == IF x.v < center.v THEN center.v - x.v ELSE x.v - center.v
    IN  IF center = NaN THEN Num(0)
        ELSE AllRead(Samples(vs, n),
                IF xs = <<>> THEN Num(0)
                ELSE Num(TruncDiv(Total([i \in DOMAIN xs |-> Num(dist(xs[i]))]), Len(xs))))

(* cxpr_timeseries_repeat *)
Repeat(vs, n) ==
    LET stop == {i \in 0 .. n - 1 : vs[i] # BoolV(TRUE)}
    IN  IF stop = {} THEN BoolV(TRUE) ELSE vs[Min(stop)]

(* cxpr_timeseries_overlap_eval: back from the newest sample until both have
   been seen; a signal that was seen is not read again. *)
Overlap(l, r, bars) ==
    LET seen(s, i) == \E j \in 0 .. i : s[j] = BoolV(TRUE)
        open(s, i) == i = 0 \/ ~seen(s, i - 1)
        fails(s, i) == open(s, i) /\ IsErr(s[i])
        stop == {i \in 0 .. bars : fails(l, i) \/ fails(r, i) \/ (seen(l, i) /\ seen(r, i))}
        at == Min(stop)
    IN  IF stop = {} THEN BoolV(FALSE)
        ELSE IF fails(l, at) THEN l[at] ELSE IF fails(r, at) THEN r[at] ELSE BoolV(TRUE)

-----------------------------------------------------------------------------
(* Who answers a lookback *)

RECURSIVE Eval(_, _)

(* cxpr_lookback_literal_offset *)
LiteralOffset(index) == index.k = "num" /\ index.n >= 0

(* A lookback resolver is installed: a session does, the adapter registers an
   index capability for the names of its sources. *)
Resolved(w) == w.host = "session"

(* The ring of a history: NaN before its first sample, and beyond its depth. *)
SessionRead(past, name, n) ==
    IF name \notin DOMAIN past \/ Len(past[name]) < n THEN NaN ELSE past[name][n]

(* cxpr_model_lookback_resolver: a name at an offset that is a literal, or
   evaluates to one up to a limit; Unhandled for a target without a key. *)
SessionResolve(target, index, at, w) ==
    IF ~LiteralOffset(index) /\ IsErr(at) THEN at
    ELSE IF ~LiteralOffset(index) /\ (at.t # "num" \/ at = NaN \/ at.v \notin 0 .. MaxDynamicOffset)
    THEN Err("syntax")
    ELSE IF target.k # "id" THEN Unhandled
    ELSE IF at.v # 0 THEN SessionRead(w.past, target.s, at.v)
    ELSE IF target.s \in DOMAIN w.now THEN w.now[target.s] ELSE Unhandled

(* Mutant: before the first sample the policy is not asked. *)
ColumnAtFirst(column, cursor, policy, n) ==
    IF cursor \notin 0 .. Len(column) - 1
    THEN IF policy = "nan" THEN NaN ELSE Err("range")
    ELSE column[IF cursor - n >= 0 THEN cursor - n + 1 ELSE 1]

(* cxpr_history_value_at: a cursor outside the column is not clamped. *)
ColumnAt(column, cursor, policy, n) ==
    IF cursor \notin 0 .. Len(column) - 1
    THEN IF policy = "nan" THEN NaN ELSE Err("range")
    ELSE IF cursor - n >= 0 THEN column[cursor - n + 1]
    ELSE CASE policy = "clamp" -> column[1]
           [] policy = "nan" -> NaN
           [] policy = "error" -> Err("range")

(* The world with the sources among names n samples back; the error of a
   sample out of range. *)
ShiftedWorld(w, names, n) ==
    LET read == [x \in names |-> ColumnAt(w.col[x], w.cursor, w.policy, n)]
        bad == {x \in names : IsErr(read[x])}
    IN  IF bad # {} THEN [err |-> Err("range"), w |-> w]
        ELSE [err |-> Missing,
              w |-> [w EXCEPT !.now = [x \in DOMAIN @ \cup names |->
                                         IF x \in names THEN read[x] ELSE @[x]]]]

(* cxpr_history_numeric_resolve: the target evaluated where every source it
   refers to has its earlier value.  A lookback inside the target is resolved
   from the cursor again. *)
AdapterResolve(target, at, w) ==
    LET names == {x \in DOMAIN w.col : <<x>> \in References(target)}
        shifted == ShiftedWorld(w, names, at.v)
    IN  IF names = {} THEN Unhandled
        ELSE IF IsErr(at) THEN at
        ELSE IF at.t # "num" \/ at = NaN \/ at.v < 0 THEN Err("index")
        ELSE IF IsErr(shifted.err) THEN shifted.err
        ELSE Eval(target, shifted.w)

(* The resolver or the capability is asked. *)
Resolve(target, index, w) ==
    LET at == IF LiteralOffset(index) THEN Num(index.n) ELSE Eval(index, w)
    IN  CASE w.host = "session" -> SessionResolve(target, index, at, w)
          [] w.host = "adapter" -> AdapterResolve(target, at, w)
          [] OTHER -> Unhandled

(* cxpr_eval_ast_at_lookback at a literal offset.  A target that is not simple
   and that nobody answers for is evaluated with the offset added to
   every lookback below it; the names in it are read now. *)
AtLookback(ast, n, w) ==
    LET past == Resolve(ast, NumLit(n + w.g), w)
    IN  IF past # Unhandled THEN past
        ELSE IF SimpleTarget(ast) THEN Err("syntax")
        ELSE Eval(ast, [w EXCEPT !.g = @ + n])

(* cxpr_eval_at_offset: a call is left to a resolver as a unit; any other
   compound target is rewritten to read its names earlier. *)
AtOffset(ast, n, w) ==
    IF n = 0 \/ SimpleTarget(ast) \/ (Resolved(w) /\ ast.k = "call") THEN AtLookback(ast, n, w)
    ELSE Eval(ApplyOffset(ast, n), w)

(* cxpr_eval_ast_number_at_offset, cxpr_eval_ast_bool_at_offset at every offset
   up to n. *)
Reads(ast, t, n, w) == [i \in 0 .. n |-> OfType(AtOffset(ast, i, w), t)]

-----------------------------------------------------------------------------
(* Calls *)

(* The windows of src/window.c: the arguments, and the samples read beyond the
   period. *)
WindowTable ==
    [window_roc |-> [arity |-> 2, tail |-> 1], window_sum |-> [arity |-> 2, tail |-> 0],
     window_mean |-> [arity |-> 2, tail |-> 0], window_wma |-> [arity |-> 2, tail |-> 0],
     window_stddev |-> [arity |-> 2, tail |-> 0], window_highest |-> [arity |-> 2, tail |-> 0],
     window_lowest |-> [arity |-> 2, tail |-> 0],
     bars_since_extreme |-> [arity |-> 3, tail |-> 0],
     window_mean_absdev |-> [arity |-> 3, tail |-> 0]]

(* cxpr_window_ir_find *)
IsWindowFunction(name) == name \in DOMAIN WindowTable

Trends == {"rising", "falling"}
Crosses == {"cross_above", "cross_below"}
Overlaps == {"overlaps", "signal_overlaps"}
Counted == Trends \cup {"delta", "roc", "highest", "lowest", "net_up", "net_down", "repeat"}

(* cxpr_timeseries_is_builtin: cxpr_register_timeseries *)
IsSeriesFunction(name) == name \in Counted \cup Crosses \cup Overlaps \/ IsWindowFunction(name)

(* cxpr_timeseries_read_samples once the count is evaluated *)
Whole(x, least) ==
    Require(x, "num", IF x = NaN \/ x.v < least THEN Err("syntax") ELSE x)

(* A function of one series and a count; extra is the mode of a
   bars_since_extreme or the center of a window_mean_absdev. *)
Reduced(name, extra, vs, n) ==
    CASE name \in Trends -> Trend(name = "rising", vs, n)
      [] name = "delta" -> Delta(vs, n)
      [] name = "roc" -> Roc(vs, n)
      [] name \in {"highest", "lowest"} -> ExtremeOf(name = "highest", vs, n)
      [] name \in {"net_up", "net_down"} -> Net(name = "net_up", vs, n)
      [] name = "repeat" -> Repeat(vs, n)
      [] name = "window_roc" -> WindowRoc(vs, n)
      [] name = "window_wma" -> Wma(vs, n)
      [] name = "bars_since_extreme" -> BarsSince(extra.v >= 0, vs, n)
      [] name = "window_mean_absdev" -> MeanAbsDev(extra, vs, n)
      [] OTHER -> WindowAgg(name, vs, n)

(* The count, then the third argument, then the samples. *)
CountedCall(ast, n, extra, w) ==
    IF IsErr(n) THEN n
    ELSE IF IsErr(extra) THEN extra
    ELSE Reduced(ast.s, extra,
                 Reads(ast.a[1], IF ast.s = "repeat" THEN "bool" ELSE "num", n.v, w), n.v)

(* cxpr_timeseries_read_overlap_bars: 0 when it is left out. *)
OverlapCall(ast, bars, w) ==
    IF IsErr(bars) THEN bars
    ELSE Overlap(Reads(ast.a[1], "bool", bars.v, w), Reads(ast.a[2], "bool", bars.v, w), bars.v)

SeriesCall(ast, w) ==
    LET arity == Len(ast.a)
        number(i) == OfType(Eval(ast.a[i], w), "num")
        expected == IF IsWindowFunction(ast.s) THEN {WindowTable[ast.s].arity}
                    ELSE IF ast.s \in Overlaps THEN {2, 3} ELSE {2}
    IN  IF arity \notin expected THEN Err("arity")
        ELSE IF ast.s \in Crosses
        THEN Cross(ast.s = "cross_above", Reads(ast.a[1], "num", 1, w), Reads(ast.a[2], "num", 1, w))
        ELSE IF ast.s \in Overlaps
        THEN OverlapCall(ast, IF arity = 2 THEN Num(0) ELSE Whole(number(3), 0), w)
        ELSE CountedCall(ast, Whole(number(2), IF ast.s \in Trends THEN 2 ELSE 1),
                         IF arity = 3 THEN number(3) ELSE Num(0), w)

(* A function of numbers; these stand for the others.  min and max keep their
   first argument until one compares below (above) it. *)
NativeCall(name, args) ==
    LET bad == SelectSeq(args, LAMBDA x : x.t # "num")
        nan == NaN \in ToSet(args)
    IN  IF bad # <<>> THEN (IF IsErr(Head(bad)) THEN Head(bad) ELSE Err("type"))
        ELSE CASE name = "nan" -> NaN
               [] name \in {"min", "max"} ->
                     FoldLeft(LAMBDA out, x : IF Better(name = "max", x, out) THEN x ELSE out,
                              Head(args), Tail(args))
               [] name = "abs" -> IF nan THEN NaN ELSE Num(IF args[1].v < 0 THEN -args[1].v ELSE args[1].v)
               [] name = "mean" -> IF nan THEN NaN ELSE Num(TruncDiv(Total(args), Len(args)))

(* cxpr_fn_within: both bounds belong to the range unless the fourth or the
   fifth argument says otherwise. *)
Within(args) ==
    LET incl(i) == i \in DOMAIN args => args[i].v = 1
        above(a, b, too) == IF too THEN Le(b, a) ELSE Gt(a, b)
    IN  AllRead(args, BoolV(above(args[1], args[2], incl(4)) /\ above(args[3], args[1], incl(5))))

(* A defined function whose call was not expanded (cxpr_eval_defined_function):
   simple arguments are written into its body, others are numbers of an overlay. *)
DefinedCall(f, args, w) ==
    LET simple == \A i \in DOMAIN args : args[i].k \in {"id", "num", "par", "bool"}
        value == [i \in DOMAIN args |-> OfType(Eval(args[i], w), "num")]
        of(x) == value[CHOOSE i \in DOMAIN f.params : f.params[i] = x]
    IN  IF Len(args) # Len(f.params) THEN Err("arity")
        ELSE IF simple THEN Eval(Substitute(f.body, f, args), w)
        ELSE AllRead(value,
                Eval(f.body, [w EXCEPT !.now = [x \in DOMAIN @ \cup ToSet(f.params) |->
                                                  IF x \in ToSet(f.params) THEN of(x) ELSE @[x]]]))

CallOf(ast, w) ==
    IF IsSeriesFunction(ast.s) THEN SeriesCall(ast, w)
    ELSE IF ast.s \in DOMAIN w.fns THEN DefinedCall(w.fns[ast.s], ast.a, w)
    ELSE IF ast.s = "within"
    THEN Within([i \in DOMAIN ast.a |-> OfType(Eval(ast.a[i], w), IF i <= 3 THEN "num" ELSE "bool")])
    ELSE NativeCall(ast.s, [i \in DOMAIN ast.a |-> Eval(ast.a[i], w)])

-----------------------------------------------------------------------------
(* The tree evaluator on the nodes a series is made of *)

(* CXPR_NODE_INDEX without arrays.  Literal offsets of nested indexes are added
   up when all of them are literal, for a capability also the outer ones.  The
   target is only evaluated where nobody answers, and its error is lost to a
   resolver. *)
IndexOf(ast, flat, w) ==
    LET inner == flat.t.k = "idx" /\ Resolved(w)
        past == IF inner THEN Resolve(ast.a[1], ast.a[2], w) ELSE Resolve(flat.t, flat.i, w)
        target == Eval(ast.a[1], w)
    IN  IF past # Unhandled THEN past
        ELSE IF ~Resolved(w) /\ IsErr(target) THEN target
        ELSE Err("type")

(* An operand; "half" is the product with the literal 0.5, the one fraction. *)
Scaled(op, x) ==
    IF op # "half" THEN UnaryValue(op, x)
    ELSE Require(x, "num", IF x = NaN THEN NaN ELSE Num(TruncDiv(x.v, 2)))

Both(op, x, y) == AllRead(<<x, y>>, BinaryValues(op, x, y))
Logical(op, x, y) ==
    Require(x, "bool", IF x = BoolV(op = "or") THEN x ELSE OfType(y, "bool"))
Chosen(c, x, y) == Require(c, "bool", IF c.v = 1 THEN x ELSE y)

(* cxpr_eval_node: logical operators and ?: leave out what they do not need. *)
Eval(ast, w) ==
    LET arg(i) == Eval(ast.a[i], w)
        logical == ast.s \in {"and", "or"}
    IN  CASE ast.k = "num" -> Num(ast.n)
          [] ast.k = "bool" -> BoolV(ast.n = 1)
          [] ast.k = "id" -> IF ast.s \in DOMAIN w.now THEN w.now[ast.s] ELSE Err("unknown_id")
          [] ast.k = "par" -> IF ast.s \in DOMAIN w.par THEN w.par[ast.s] ELSE Err("unknown_id")
          [] ast.k = "idx" -> IndexOf(ast, IF LiteralOffset(ast.a[2]) THEN Flatten(ast.a[1], ast.a[2].n)
                                           ELSE [t |-> ast.a[1], i |-> ast.a[2]], w)
          [] ast.k = "call" -> CallOf(ast, w)
          [] ast.k = "un" -> Scaled(ast.s, arg(1))
          [] ast.k = "ter" -> Chosen(arg(1), arg(2), arg(3))
          [] ast.k = "bin" /\ logical -> Logical(ast.s, arg(1), arg(2))
          [] ast.k = "bin" /\ ~logical -> Both(ast.s, arg(1), arg(2))

-----------------------------------------------------------------------------
(***************************************************************************)
(* How much history a compiled model keeps (src/model/lookback/collect.c,  *)
(* src/model/window/window.c), once calls of functions that look back are  *)
(* expanded (src/model/inline.c).                                          *)
(*                                                                         *)
(* A model m: consts, by name the constants and parameters [expr, call,    *)
(* min, max], call for a parameter of the call and -1 for metadata it does *)
(* not have; binds, the bindings as <<name, expression>> in dependency     *)
(* order; fns, the defined functions [params, body].                       *)
(*                                                                         *)
(* Collecting takes the deepest of the depths asked for a name, so it is   *)
(* the set of what is asked: <<name, depth>> pairs, with Unbounded among   *)
(* them if the model is rejected.                                          *)
(***************************************************************************)

CONSTANTS FunctionDepth,     \* 64: nested expansions of defined functions
          BoundDepth,        \* 32: nested expressions of a bound
          DefaultPeriod      \* 512: samples kept for a period nobody bounds

PlanAssumption == FunctionDepth \in Nat /\ BoundDepth \in Nat /\ DefaultPeriod \in Nat \ {0}

-----------------------------------------------------------------------------
(* Expanding defined functions *)

(* cxpr_model_local_lookup: the last local of the name. *)
LocalLookup(locals, name) ==
    LET at == {i \in DOMAIN locals : locals[i][1] = name}
    IN  IF at = {} THEN NoAst ELSE locals[Max(at)][2]

RECURSIVE InlineLocals(_, _)

(* The fields of a record, each a local of the ones after it. *)
RECURSIVE InlineFields(_, _, _, _)
InlineFields(rec, locals, i, done) ==
    IF i > Len(rec.a) THEN [rec EXCEPT !.a = done]
    ELSE LET x == InlineLocals(rec.a[i], locals)
         IN  InlineFields(rec, Append(locals, <<rec.p[i], x>>), i + 1, Append(done, x))

(* cxpr_model_inline_locals *)
InlineLocals(ast, locals) ==
    IF ast.k = "id"
    THEN IF LocalLookup(locals, ast.s) = NoAst THEN ast ELSE LocalLookup(locals, ast.s)
    ELSE IF ast.k = "rec" THEN InlineFields(ast, locals, 1, <<>>)
    ELSE IF ast.k \notin {"bin", "un", "call", "prd", "idx", "ter"} THEN ast
    ELSE [ast EXCEPT !.a = [i \in DOMAIN @ |-> InlineLocals(@[i], locals)]]

RECURSIVE SeriesAware(_, _, _)

(* cxpr_model_defined_body_is_series_aware: an index or a window in the body,
   or in the body of a function it calls.  The other series functions are not
   looked for. *)
SeriesAware(ast, fns, depth) ==
    /\ depth <= FunctionDepth
    /\ \/ ast.k = "idx"
       \/ ast.k = "call" /\ IsWindowFunction(ast.s)
       \/ ast.k = "call" /\ ast.s \in DOMAIN fns /\ SeriesAware(fns[ast.s].body, fns, depth + 1)
       \/ /\ ast.k \in {"call", "rec", "bin", "un", "ter", "arr"}
          /\ \E i \in DOMAIN ast.a : SeriesAware(ast.a[i], fns, depth)

RECURSIVE ExpandDefined(_, _, _)

Expanding == {"call", "rec", "bin", "un", "idx", "ter", "arr"}

(* A call with its arguments expanded: the body of a function that looks back,
   with the arguments for its parameters, is expanded again. *)
ExpandCall(call, fns, depth) ==
    LET f == fns[call.s]
        locals == [i \in DOMAIN f.params |-> <<f.params[i], call.a[i]>>]
    IN  IF call.s \notin DOMAIN fns THEN call
        ELSE IF ~SeriesAware(f.body, fns, 0) THEN call
        ELSE IF Len(f.params) # Len(call.a) THEN NoAst
        ELSE ExpandDefined(InlineLocals(f.body, locals), fns, depth + 1)

(* cxpr_model_expand_defined_owned; NoAst if it fails. *)
ExpandDefined(ast, fns, depth) ==
    LET parts == [i \in DOMAIN ast.a |-> ExpandDefined(ast.a[i], fns, depth)]
        whole == [ast EXCEPT !.a = parts]
    IN  IF depth > FunctionDepth THEN NoAst
        ELSE IF ast.k \notin Expanding THEN ast
        ELSE IF NoAst \in ToSet(parts) THEN NoAst
        ELSE IF ast.k = "call" THEN ExpandCall(whole, fns, depth)
        ELSE whole

(* cxpr_model_inline_defined_calls *)
InlineDefinedCalls(ast, fns) == ExpandDefined(ast, fns, 0)

-----------------------------------------------------------------------------
(* The largest value an index can have; NoBound if that is not known. *)

NoBound == -1

BindingOf(m, name) ==
    LET at == {i \in DOMAIN m.binds : m.binds[i][1] = name}
    IN  IF at = {} THEN NoAst ELSE m.binds[Min(at)][2]

(* A parameter of the call: its metadata has a minimum and a maximum, and its
   default is a literal between them. *)
ParamBound(c) ==
    IF c.min >= 0 /\ c.max >= c.min /\ c.expr.k = "num" /\ c.expr.n \in c.min .. c.max
    THEN c.max ELSE NoBound

CeilDiv(a, b) == (a + b - 1) \div b

RECURSIVE BoundImpl(_, _, _)

BinaryBound(ast, l, r) ==
    CASE NoBound \in {l, r} -> NoBound
      [] ast.s = "+" -> l + r
      [] ast.s = "-" -> l
      [] ast.s = "*" -> l * r
      [] ast.s = "/" -> IF ast.a[2].k = "num" /\ r > 0 THEN CeilDiv(l, r) ELSE NoBound
      [] OTHER -> NoBound

CallBound(ast, bounds) ==
    CASE ast.s \in {"round", "floor", "ceil"} /\ Len(ast.a) = 1 -> Max(bounds)
      [] ast.s \in {"max", "min"} /\ ast.a # <<>> ->
            IF NoBound \in bounds THEN NoBound ELSE IF ast.s = "max" THEN Max(bounds) ELSE Min(bounds)
      [] OTHER -> NoBound

(* cxpr_model_lookback_bound_impl *)
BoundImpl(m, ast, depth) ==
    LET of(x) == BoundImpl(m, x, depth + 1)
    IN  CASE depth > BoundDepth \/ ast = NoAst -> NoBound
          [] ast.k = "num" -> IF ast.n >= 0 THEN ast.n ELSE NoBound
          [] ast.k = "par" -> IF ast.s \notin DOMAIN m.consts THEN NoBound
                              ELSE IF m.consts[ast.s].call THEN ParamBound(m.consts[ast.s])
                              ELSE of(m.consts[ast.s].expr)
          [] ast.k = "id" -> of(BindingOf(m, ast.s))
          [] ast.k = "call" -> CallBound(ast, {of(ast.a[i]) : i \in DOMAIN ast.a})
          [] ast.k = "bin" -> BinaryBound(ast, of(ast.a[1]), of(ast.a[2]))
          [] OTHER -> NoBound

(* cxpr_model_lookback_bound of an index, or the literal itself *)
IndexBound(m, index) == IF LiteralOffset(index) THEN index.n ELSE BoundImpl(m, index, 0)

-----------------------------------------------------------------------------
(* Windows *)

RECURSIVE WindowConstant(_, _)

(* cxpr_eval_constant_double of literals, cxpr_model_window_constant_default of
   a parameter, cxpr_model_window_constant_expr of an expression of them;
   Missing if it is none of these. *)
WindowConstant(m, ast) ==
    LET arg(i) == WindowConstant(m, ast.a[i])
        args == {arg(i) : i \in DOMAIN ast.a}
        vs == {x.v : x \in args}
    IN  CASE ast.k = "num" -> Num(ast.n)
          [] ast.k = "par" -> IF ast.s \in DOMAIN m.consts /\ m.consts[ast.s].expr.k = "num"
                              THEN Num(m.consts[ast.s].expr.n) ELSE Missing
          [] ast.k = "call" /\ ast.s \in {"min", "max"} /\ ast.a # <<>> ->
                IF Missing \in args THEN Missing
                ELSE Num(IF ast.s = "min" THEN Min(vs) ELSE Max(vs))
          [] ast.k = "bin" /\ ast.s \in ArithOps ->
                IF Missing \in args \/ (ast.s = "/" /\ arg(2) = Num(0)) THEN Missing
                ELSE NumericBinaryOp(ast.s, arg(1), arg(2))
          [] OTHER -> Missing

(* cxpr_model_window_period_depth: the maximum of a parameter that is the whole
   period; a parameter inside an expression counts with its default. *)
PeriodDepth(m, period) ==
    LET bounded == period.k = "par" /\ period.s \in DOMAIN m.consts /\ m.consts[period.s].max >= 0
        constant == WindowConstant(m, period)
        raw == IF bounded THEN m.consts[period.s].max
               ELSE IF Found(constant) THEN constant.v ELSE DefaultPeriod
    IN  IF raw < 1 THEN 1 ELSE raw

Unbounded == <<"", 0>>

(* The samples before the current one that a window call reads. *)
WindowReach(m, call) == PeriodDepth(m, call.a[2]) + WindowTable[call.s].tail - 1

WindowArityOk(call) == Len(call.a) = WindowTable[call.s].arity

RECURSIVE WindowNeeds(_, _, _)

(* cxpr_model_window_collect_target *)
WindowNeeds(m, ast, base) ==
    LET parts == UNION {WindowNeeds(m, ast.a[i], base) : i \in DOMAIN ast.a}
        window == ast.k = "call" /\ IsWindowFunction(ast.s)
    IN  CASE ast.k = "id" -> {<<ast.s, base>>}
          [] ast.k = "idx" -> IF IndexBound(m, ast.a[2]) = NoBound THEN {Unbounded}
                              ELSE WindowNeeds(m, ast.a[1], base + IndexBound(m, ast.a[2]))
          [] window -> IF ~WindowArityOk(ast) THEN {Unbounded}
                       ELSE WindowNeeds(m, ast.a[1], base + WindowReach(m, ast))
          [] ast.k \in {"bin", "un", "ter", "call"} /\ ~window -> parts
          [] OTHER -> {}

-----------------------------------------------------------------------------
(* The lookbacks of an expression *)

(* cxpr_model_lookback_target_key: what has a history of its own. *)
KeyNeeds(ast, depth) == IF ast.k = "id" THEN {<<ast.s, depth>>} ELSE {}

(* rising, falling, repeat: the series, or every name in it. *)
TrendNeeds(m, call, enclosing) ==
    LET bound == BoundImpl(m, call.a[2], 0)
        depth == bound - 1 + enclosing
    IN  IF bound = NoBound THEN {Unbounded}
        ELSE IF bound <= 1 THEN {}
        ELSE KeyNeeds(call.a[1], depth) \cup {<<x[1], depth>> : x \in References(call.a[1])}

(* cross_above, cross_below: one sample of each side that is a name. *)
CrossNeeds(call) == KeyNeeds(call.a[1], 1) \cup KeyNeeds(call.a[2], 1)

CallNeeds(m, call, enclosing) ==
    (IF ~IsWindowFunction(call.s) THEN {}
     ELSE IF ~WindowArityOk(call) THEN {Unbounded}
     ELSE WindowNeeds(m, call.a[1], enclosing + WindowReach(m, call)))
    \cup (IF call.s \in Trends \cup {"repeat"} /\ Len(call.a) = 2
          THEN TrendNeeds(m, call, enclosing) ELSE {})
    \cup (IF call.s \in Crosses /\ Len(call.a) = 2 THEN CrossNeeds(call) ELSE {})

RECURSIVE Needs(_, _, _)

(* Mutant: the target of an index starts again at offset 0. *)
IndexNeedsAlone(m, ast, offset) == KeyNeeds(ast.a[1], offset) \cup Needs(m, ast.a[1], 0)

IndexNeeds(m, ast, offset) == KeyNeeds(ast.a[1], offset) \cup Needs(m, ast.a[1], offset)

(* cxpr_model_collect_lookbacks_in_ast *)
Needs(m, ast, enclosing) ==
    LET bound == IndexBound(m, ast.a[2])
        parts == UNION {Needs(m, ast.a[i], enclosing) : i \in DOMAIN ast.a}
    IN  CASE ast.k = "idx" -> IF bound = NoBound THEN {Unbounded}
                              ELSE IndexNeeds(m, ast, bound + enclosing)
          [] ast.k = "call" -> CallNeeds(m, ast, enclosing) \cup parts
          [] ast.k \in {"rec", "bin", "un", "prd", "ter"} -> parts
          [] OTHER -> {}

(* The expressions a model evaluates: of its constants, then its bindings. *)
Expanded(m) ==
    {InlineDefinedCalls(m.consts[c].expr, m.fns) : c \in DOMAIN m.consts}
      \cup {InlineDefinedCalls(m.binds[i][2], m.fns) : i \in DOMAIN m.binds}

(* cxpr_model_collect_lookbacks *)
CollectLookbacks(m) ==
    UNION {IF ast = NoAst THEN {Unbounded} ELSE Needs(m, ast, 0) : ast \in Expanded(m)}

(* cxpr_model_history_spec_add: by name the deepest lookback; of depth 0,
   none. *)
HistorySpecs(needs) ==
    LET deep == {x \in needs : x[2] > 0}
    IN  [name \in {x[1] : x \in deep} |-> Max({x[2] : x \in {y \in deep : y[1] = name}})]
=============================================================================
