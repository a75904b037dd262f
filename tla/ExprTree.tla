------------------------------ MODULE ExprTree ------------------------------
(***************************************************************************)
(* The tree evaluator: src/eval/tree.c, calls.c, calls/producer.c and its  *)
(* helpers (memo, struct cache, constants), src/call/args.c,               *)
(* src/registry/call.c.                                                    *)
(*                                                                         *)
(* An evaluation is a state [v, e, m, x]: the value returned, the code in  *)
(* err ("" is CXPR_OK), the memo of the context evaluated in, and the      *)
(* context.  err is threaded because the code looks at it only at some     *)
(* places: an error can be pending while the next operand is evaluated.    *)
(* Allocation never fails.                                                 *)
(***************************************************************************)
EXTENDS ExprValues

(* F of the value of x (x is evaluated once). *)
With(x, F(_)) == CHOOSE y \in {F(w) : w \in {x}} : TRUE

MemoOff == [on |-> FALSE, t |-> <<>>]
MemoOn == [on |-> TRUE, t |-> <<>>]
Start(x, m) == [v |-> NaN, e |-> "", m |-> m, x |-> x]

Failed(s) == s.e # ""
Fail(s, code) == [s EXCEPT !.v = NaN, !.e = code]
Ok(s, value) == [s EXCEPT !.v = value]
Put(s, value) == IF IsErr(value) THEN Fail(s, value.s) ELSE Ok(s, value)

(* The code that runs F only when err is clear, and returns NaN otherwise. *)
Then(s, F(_)) == IF Failed(s) THEN Ok(s, NaN) ELSE F(s)

(* Evaluation in an overlay of the context; its memo is off. *)
Push(s, frame) == [s EXCEPT !.x = <<frame>> \o @, !.m = MemoOff]
Pop(outer, s) == [s EXCEPT !.x = outer.x, !.m = outer.m]

Frame(names, values) ==
    FoldLeftDomain(LAMBDA f, i : SetValue(f, <<names[i]>>, values[i]), EmptyFrame, names)

-----------------------------------------------------------------------------
(* Binding arguments to parameters (src/call/args.c) *)

(* cxpr_call_param_name_matches *)
ParamNameMatches(param, name) ==
    \/ param = name
    \/ <<param, name>> \in {<<"value", "condition">>, <<"mult", "multiplier">>,
                            <<"multiplier", "mult">>, <<"samples", "bars">>}

(* The parameter an argument goes to in the window of argc parameters after
   lo: its own position, or the first whose name matches; 0 if none does. *)
WindowSlot(names, params, lo, i) ==
    IF names[i] = "" THEN i
    ELSE LET at == {j \in DOMAIN names : ParamNameMatches(params[lo + j], names[i])}
         IN  IF at = {} THEN 0 ELSE CHOOSE j \in at : \A k \in at : j <= k

(* cxpr_call_bind_named_window, one window: positional arguments first, every
   slot taken once. *)
WindowFits(names, params, lo) ==
    /\ \A i, j \in DOMAIN names : names[i] # "" /\ names[j] = "" => j < i
    /\ \A i \in DOMAIN names : WindowSlot(names, params, lo, i) # 0
    /\ \A i, j \in DOMAIN names :
          WindowSlot(names, params, lo, i) = WindowSlot(names, params, lo, j) => i = j

(* Mutant: named arguments are taken in the order written. *)
BindArgsInOrder(ast, f) == [code |-> "", args |-> ast.a]

(* cxpr_call_bind_args.  The search over all parameters after the windows can
   only fail: arguments that fill a positional prefix fit the first window. *)
BindArgs(ast, f) ==
    LET names == ArgNames(ast)
        fits == {lo \in 0 .. (Len(f.params) - Len(names)) : WindowFits(names, f.params, lo)}
    IN  IF ~NamedArgs(ast) THEN [code |-> "", args |-> ast.a]
        ELSE IF f.params = <<>> THEN [code |-> "syntax", args |-> <<>>]
        ELSE IF fits # {}
        THEN LET lo == CHOOSE l \in fits : \A k \in fits : l <= k
             IN  [code |-> "",
                  args |-> [j \in DOMAIN names |->
                              ast.a[CHOOSE i \in DOMAIN names :
                                      WindowSlot(names, f.params, lo, i) = j]]]
        ELSE [code |-> IF Len(names) > Len(f.params)
                          /\ \A i \in 1 .. (Len(f.params) + 1) : names[i] = ""
                       THEN "arity" ELSE "syntax",
              args |-> <<>>]

-----------------------------------------------------------------------------
(* Constant arguments and the keys of the struct cache *)

(* A result that needs all of the operands, and no division by zero. *)
OrMissing(x, operands) == IF Missing \in operands \/ IsErr(x) THEN Missing ELSE x

RECURSIVE ConstDouble(_, _)

(* cxpr_eval_constant_double with no context; cxpr_eval_const_or_param_double
   with one. *)
ConstDouble(ast, ctx) ==
    LET arg(i) == ConstDouble(ast.a[i], ctx)
    IN  CASE ast.k = "num" -> Num(ast.n)
          [] ast.k = "par" -> GetParam(ctx, ast.p)
          [] ast.k = "un" /\ ast.s = "-" -> OrMissing(NumberOp("-", Num(0), arg(1)), {arg(1)})
          [] ast.k = "bin" /\ ast.s \in ArithOps \cup {"%", "^"} ->
                OrMissing(NumberOp(ast.s, arg(1), arg(2)), {arg(1), arg(2)})
          [] ast.k = "ter" ->
                IF ~Found(arg(1)) THEN Missing ELSE IF arg(1).v # 0 THEN arg(2) ELSE arg(3)
          [] OTHER -> Missing

(* The values of constant arguments; <<Missing>> if one is not constant. *)
ConstDoubles(args, ctx) ==
    LET vs == SelectSeq([i \in DOMAIN args |-> ConstDouble(args[i], ctx)], Found)
    IN  IF Len(vs) = Len(args) THEN vs ELSE <<Missing>>

(* cxpr_build_struct_cache_key: name(args), or the bare name. *)
CacheKey(name, args) == IF args = <<>> THEN <<name>> ELSE <<name, ToString(args)>>
NoKey == <<>>
KeyOf(name, args) == IF args = <<Missing>> THEN NoKey ELSE CacheKey(name, args)

-----------------------------------------------------------------------------
(* The memo (src/eval/helpers/cache.c) *)

(* cxpr_eval_ast_memoable *)
Memoable(ast, reg) ==
    /\ ast.k = "call"
    /\ HasFn(reg, ast.s)
    /\ ~FnOf(reg, ast.s).handler
    /\ FnOf(reg, ast.s).kind \notin {"ast", "producer"}

(* cxpr_eval_memo_get: the first entry with an equal tree. *)
MemoGet(m, ast) ==
    LET at == {i \in DOMAIN m.t : m.t[i][1] = ast}
    IN  IF ~m.on \/ at = {} THEN Missing ELSE m.t[CHOOSE i \in at : \A j \in at : i <= j][2]

(* cxpr_eval_memo_set: numbers and bools only. *)
MemoSet(m, ast, value) ==
    IF m.on /\ value.t \in {"num", "bool"} THEN [m EXCEPT !.t = Append(@, <<ast, value>>)] ELSE m

-----------------------------------------------------------------------------
(* Substituting arguments for parameters (src/eval/calls.c) *)

ScalarParam(f, i) == f.pfields[i] = <<>>
ScalarOnly(f) == \A i \in DOMAIN f.params : ScalarParam(f, i)

(* cxpr_eval_defined_call_can_inline_value_args: arguments whose evaluation
   can be repeated and delayed. *)
CanInlineValueArgs(f, args) ==
    \A i \in DOMAIN f.params :
        ScalarParam(f, i) /\ args[i].k \in {"id", "par", "num", "bool", "str"}

(* The struct a name is bound to, or the cached one. *)
StructNamed(ctx, path) == FirstFound(<<GetStruct(ctx, path), GetCached(ctx, path)>>)

(* cxpr_eval_defined_call_can_inline_struct_args *)
CanInlineStructArgs(f, args, ctx) ==
    \A i \in DOMAIN f.params :
        ScalarParam(f, i) \/ /\ args[i].k = "id"
                             /\ Found(StructNamed(ctx, args[i].p))

(* cxpr_eval_defined_overlay_direct_field: a body p.f of an argument that is an
   identifier. *)
DirectField(f, args, ctx) ==
    LET arg == ArgForName(f, args, f.body.p[1])
    IN  IF f.body.k \notin {"fld", "chn"} \/ Len(f.body.p) # 2 THEN Missing
        ELSE IF arg.k # "id" THEN Missing
        ELSE FirstFound(<<FieldOf(StructNamed(ctx, arg.p), f.body.p[2]),
                          GetNumber(ctx, <<arg.s, f.body.p[2]>>)>>)

(* cxpr_context_copy_prefixed_scalars: the numbers named o.f or o_f of every
   frame, an outer one over an inner one. *)
PrefixedKeys(frame, o) ==
    {k \in DOMAIN frame : k[1] = "vars" /\ \/ Len(k[2]) > 1 /\ k[2][1] = o
                                           \/ Len(k[2]) > 2 /\ k[2][1] = "_" /\ k[2][2] = o}
CopyPrefixed(ctx, o, param, frame) ==
    LET under(k) == <<param>> \o SubSeq(k[2], IF k[2][1] = "_" THEN 3 ELSE 2, Len(k[2]))
        copy(f, src) == FoldLeft(LAMBDA g, k : SetValue(g, under(k), src[k]), f,
                                 SetToSeq(PrefixedKeys(src, o)))
    IN  FoldLeft(copy, frame, ctx)

-----------------------------------------------------------------------------
(* Calls *)

RECURSIVE Tree(_, _, _, _)

(* cxpr_eval_node *)
Node(ast, reg, s) == Tree(ast, reg, s, TRUE)

(* Arguments evaluated one by one, err checked after each. *)
RECURSIVE Each(_, _, _, _)
Each(asts, reg, s, vs) ==
    IF asts = <<>> THEN [s |-> s, vs |-> vs]
    ELSE With(Node(Head(asts), reg, s),
              LAMBDA r : IF Failed(r) THEN [s |-> r, vs |-> vs]
                         ELSE Each(Tail(asts), reg, r, Append(vs, r.v)))

(* All of them were evaluated. *)
Complete(r, asts) == Len(r.vs) = Len(asts)

(* cxpr_eval_scalar_arg *)
ScalarArg(ast, reg, s) ==
    With(Node(ast, reg, s), LAMBDA r : Then(r, LAMBDA q : Put(q, Require(q.v, "num", q.v))))

(* Arguments of a native function: all evaluated, err checked at the end. *)
RECURSIVE AllScalars(_, _, _, _)
AllScalars(asts, reg, s, vs) ==
    IF asts = <<>> THEN [s |-> s, vs |-> vs]
    ELSE With(ScalarArg(Head(asts), reg, s),
              LAMBDA r : AllScalars(Tail(asts), reg, r, Append(vs, r.v)))

(* Arguments of a producer: err checked after each. *)
RECURSIVE ScalarArgs(_, _, _, _)
ScalarArgs(asts, reg, s, vs) ==
    IF asts = <<>> THEN [s |-> s, vs |-> vs]
    ELSE With(ScalarArg(Head(asts), reg, s),
              LAMBDA r : IF Failed(r) THEN [s |-> r, vs |-> vs]
                         ELSE ScalarArgs(Tail(asts), reg, r, Append(vs, r.v)))

ArityOk(f, n) == n >= f.min /\ n <= f.max

(* cxpr_registry_call_typed: a call that succeeds clears err. *)
CallTyped(f, args, s) ==
    IF f.kind \notin {"native", "sync", "value", "typed", "fields"} THEN Fail(s, "unknown_fn")
    ELSE IF ~ArityOk(f, Len(args)) THEN Fail(s, "arity")
    ELSE IF \E i \in DOMAIN args \cap DOMAIN f.argt : args[i].t # f.argt[i] THEN Fail(s, "type")
    ELSE IF f.kind \in {"value", "typed"}
    THEN [s EXCEPT !.v = IF f.ret = "bool" THEN BoolV(HostResult(args).v > 0)
                         ELSE HostResult(args), !.e = ""]
    ELSE IF \E i \in DOMAIN args : args[i].t # "num" THEN Fail(s, "type")
    ELSE [s EXCEPT !.v = Apply(f, args), !.e = ""]

(* cxpr_eval_struct_result *)
StructResult(f, name, args, hint, reg, s) ==
    IF f.kind # "producer" THEN Fail(s, "unknown_fn")
    ELSE IF ~ArityOk(f, Len(args)) THEN Fail(s, "arity")
    ELSE With(ScalarArgs(args, reg, s, <<>>),
              LAMBDA r : LET key == IF hint = NoKey THEN CacheKey(name, r.vs) ELSE hint
                             fields == HostFields(f.rfields, r.vs)
                         IN  IF ~Complete(r, args) THEN Ok(r.s, NaN)
                             ELSE IF Found(GetCached(r.s.x, key)) THEN Ok(r.s, GetCached(r.s.x, key))
                             ELSE [r.s EXCEPT !.v = fields,
                                              !.x[1] = Bind(@, "cached", key, fields)])

(* A record from field bodies evaluated in the context of s. *)
RecordOf(names, bodies, reg, s) ==
    With(Each(bodies, reg, s, <<>>),
         LAMBDA r : IF Complete(r, bodies)
                    THEN Ok(r.s, StructV([i \in DOMAIN names |-> <<names[i], r.vs[i]>>]))
                    ELSE Ok(r.s, NaN))

(* The parameters bound to evaluated arguments, then F in the overlay. *)
InOverlay(f, args, reg, s, F(_)) ==
    With(Each(args, reg, s, <<>>),
         LAMBDA r : IF Complete(r, args) THEN Pop(r.s, F(Push(r.s, Frame(f.params, r.vs))))
                    ELSE Ok(r.s, NaN))

(* A function that returns a record. *)
RecordReturn(f, args, reg, s) ==
    InOverlay(f, args, reg, s, LAMBDA o : RecordOf(f.rfields, f.rbodies, reg, o))

(* A field of an argument that must have it: of the record, or o.f or o_f. *)
ArgField(arg, record, field, ctx) ==
    IF arg.k # "id" THEN FieldOf(record, field)
    ELSE FirstFound(<<GetField(ctx, arg.p, field), GetNumber(ctx, <<arg.s, field>>),
                      GetNumber(ctx, <<"_", arg.s, field>>)>>)

(* The fields of one struct argument bound as the numbers p.f. *)
BindFields(param, fields, values, s, frame) ==
    LET bad == SelectSeq(values, LAMBDA x : x.t # "num")
    IN  IF bad # <<>>
        THEN [s |-> Fail(s, IF Found(Head(bad)) THEN "type" ELSE "unknown_id"), frame |-> frame]
        ELSE [s |-> s, frame |-> FoldLeftDomain(
                           LAMBDA g, j : SetValue(g, <<param, fields[j]>>, values[j]), frame, fields)]

(* The overlay of a function with struct parameters: every field it uses is
   bound as the number p.f. *)
RECURSIVE StructParams(_, _, _, _, _, _)
StructParams(f, args, i, reg, s, frame) ==
    IF i > Len(f.params) THEN [s |-> s, frame |-> frame, ok |-> TRUE]
    ELSE LET arg == args[i]
             plain == ScalarParam(f, i)
             bind(r) == IF (plain \/ arg.k # "id") /\ Failed(r) THEN [s |-> r, frame |-> frame]
                        ELSE IF plain
                        THEN [s |-> r, frame |-> SetValue(frame, <<f.params[i]>>, r.v)]
                        ELSE IF arg.k # "id" /\ r.v.t # "struct"
                        THEN [s |-> Fail(r, "type"), frame |-> frame]
                        ELSE BindFields(f.params[i], f.pfields[i],
                                        [j \in DOMAIN f.pfields[i] |->
                                           ArgField(arg, r.v, f.pfields[i][j], r.x)], r, frame)
             next(b) == IF Failed(b.s) THEN [s |-> b.s, frame |-> frame, ok |-> FALSE]
                        ELSE StructParams(f, args, i + 1, reg, b.s, b.frame)
         IN  With(With(IF plain \/ arg.k # "id" THEN Node(arg, reg, s) ELSE s, bind), next)

(* cxpr_eval_defined_with_overlay: identifiers are passed as what they name. *)
RECURSIVE PassParams(_, _, _, _, _, _)
PassParams(f, args, i, reg, s, frame) ==
    IF i > Len(f.params) THEN [s |-> s, frame |-> frame, ok |-> TRUE]
    ELSE LET arg == args[i]
             to == <<f.params[i]>>
             record == StructNamed(s.x, arg.p)
             number == GetNumber(s.x, arg.p)
             prefixed == \E j \in DOMAIN s.x : PrefixedKeys(s.x[j], arg.s) # {}
             bound == IF arg.k = "id" /\ Found(record)
                      THEN [s |-> s, frame |-> Bind(frame, "structs", to, record)]
                      ELSE IF arg.k = "id" /\ Found(number)
                      THEN [s |-> s, frame |-> SetValue(frame, to, number)]
                      ELSE IF arg.k = "id" /\ prefixed
                      THEN [s |-> s, frame |-> CopyPrefixed(s.x, arg.s, f.params[i], frame)]
                      ELSE With(Node(arg, reg, s),
                                LAMBDA r : [s |-> r, frame |-> SetValue(frame, to, r.v)])
         IN  With(bound, LAMBDA b : IF Failed(b.s) THEN [s |-> b.s, frame |-> frame, ok |-> FALSE]
                                    ELSE PassParams(f, args, i + 1, reg, b.s, b.frame))

(* cxpr_eval_defined_function *)
DefinedFunction(f, ast, args, reg, s) ==
    LET scalar == ScalarOnly(f)
        passed == scalar /\ \E i \in DOMAIN args :
                               args[i].k = "id" /\ ~Found(GetNumber(s.x, args[i].p))
        direct == DirectField(f, args, s.x)
        body(r) == IF ~r.ok THEN Ok(r.s, NaN)
                   ELSE Pop(r.s, Node(f.body, reg, Push(r.s, r.frame)))
    IN  IF Len(ast.a) # Len(f.params) THEN Fail(s, "arity")
        ELSE IF f.kind = "record" THEN RecordReturn(f, args, reg, s)
        ELSE IF CanInlineValueArgs(f, args) THEN Node(Substitute(f.body, f, args), reg, s)
        ELSE IF (passed \/ ~scalar) /\ Found(direct) THEN Ok(s, direct)
        ELSE IF scalar /\ ~passed THEN InOverlay(f, args, reg, s, LAMBDA o : Node(f.body, reg, o))
        ELSE IF ~scalar /\ CanInlineStructArgs(f, args, s.x)
        THEN Node(Substitute(f.body, f, args), reg, s)
        ELSE With(IF passed THEN PassParams(f, args, 1, reg, s, EmptyFrame)
                  ELSE StructParams(f, args, 1, reg, s, EmptyFrame), body)

(* The struct of a producer: cached under the key of its constant arguments, or
   of the values its arguments have. *)
ProducedStruct(f, name, args, reg, s) ==
    LET keyed(r) == IF r.key # NoKey /\ Found(GetCached(r.s.x, r.key))
                    THEN Ok(r.s, GetCached(r.s.x, r.key))
                    ELSE StructResult(f, name, args, r.key, reg, r.s)
        finite(vs) == \A i \in DOMAIN vs : vs[i] # NaN
        valued(q) == [s |-> q.s, key |-> IF Complete(q, args) /\ finite(q.vs)
                                         THEN CacheKey(name, q.vs) ELSE NoKey]
    IN  With(KeyOf(name, ConstDoubles(args, s.x)),
             LAMBDA key : With(IF key # NoKey THEN [s |-> s, key |-> key]
                               ELSE valued(ScalarArgs(args, reg, s, <<>>)), keyed))

(* cxpr_eval_cached_producer_access *)
ProducerAccess(ast, reg, s) ==
    LET f == FnOf(reg, ast.s)
        bound == BindArgs(ast, f)
        field(r) == LET x == FieldOf(r.v, ast.p[1])
                    IN  IF Failed(r) THEN Ok(r, NaN)
                        ELSE IF Found(x) THEN Ok(r, x) ELSE Fail(r, "unknown_id")
    IN  IF ~HasFn(reg, ast.s) THEN Fail(s, "unknown_fn")
        ELSE IF f.kind \notin {"producer", "record"} THEN Fail(s, "unknown_fn")
        ELSE IF bound.code # "" THEN Fail(s, bound.code)
        ELSE With(IF f.kind = "record" THEN RecordReturn(f, bound.args, reg, s)
                  ELSE ProducedStruct(f, ast.s, bound.args, reg, s), field)

(* A struct function: the fields of struct arguments as numbers. *)
FieldsCall(f, args, s) ==
    LET value(arg, field) == IF arg.k # "id" THEN Err("syntax") ELSE GetField(s.x, arg.p, field)
        flat == FlattenSeq([i \in DOMAIN args |->
                              [j \in DOMAIN f.rfields |-> value(args[i], f.rfields[j])]])
        bad == SelectSeq(flat, LAMBDA x : x.t # "num")
    IN  IF Len(args) # f.max THEN Fail(s, "arity")
        ELSE IF bad = <<>> THEN Ok(s, Apply(f, flat))
        ELSE Fail(s, IF IsErr(Head(bad)) THEN "syntax"
                     ELSE IF Found(Head(bad)) THEN "type" ELSE "unknown_id")

(* The condition of if() and ?: is a bool; only the chosen branch is evaluated. *)
Branch(cond, yes, no, reg, s) ==
    With(Node(cond, reg, s),
         LAMBDA r : IF Failed(r) THEN Ok(r, NaN)
                    ELSE IF r.v.t # "bool" THEN Fail(r, "type")
                    ELSE Node(IF r.v.v = 1 THEN yes ELSE no, reg, r))

(* A producer called by position: the cached struct of a constant key, or the
   struct it produces. *)
ProducerCall(f, ast, reg, s) ==
    With(KeyOf(ast.s, ConstDoubles(ast.a, <<>>)),
         LAMBDA key : IF key # NoKey /\ Found(GetCached(s.x, key)) THEN Ok(s, GetCached(s.x, key))
                      ELSE StructResult(f, ast.s, ast.a, key, reg, s))

(* What an AST-aware function returns is external. *)
HostAstCall(s) == Ok(s, Num(7))

(* A call with its arguments in parameter order. *)
BoundCall(f, ast, args, reg, s) ==
    IF f.kind \in {"defined", "record"} THEN DefinedFunction(f, ast, args, reg, s)
    ELSE IF f.kind = "producer"
    THEN StructResult(f, ast.s, args, NoKey, reg, s)
    ELSE IF f.kind = "fields" THEN FieldsCall(f, args, s)
    ELSE IF ast.s = "if" /\ Len(args) = 3 THEN Branch(args[1], args[2], args[3], reg, s)
    ELSE IF ~ArityOk(f, Len(args)) THEN Fail(s, "arity")
    ELSE IF f.kind = "native" /\ args = <<>> THEN Ok(s, Apply(f, <<>>))
    ELSE IF f.kind = "native"
    THEN With(AllScalars(args, reg, s, <<>>),
              LAMBDA r : Then(r.s, LAMBDA q : Ok(q, Apply(f, r.vs))))
    ELSE With(Each(args, reg, s, <<>>),
              LAMBDA r : IF Complete(r, args) THEN CallTyped(f, r.vs, r.s) ELSE Ok(r.s, NaN))

(* CXPR_NODE_FUNCTION_CALL *)
FunctionCall(ast, reg, s) ==
    LET f == FnOf(reg, ast.s)
        bound == BindArgs(ast, f)
    IN  IF ~HasFn(reg, ast.s) THEN Fail(s, "unknown_fn")
        ELSE IF f.handler \/ f.kind = "ast" THEN HostAstCall(s)
        ELSE IF f.kind = "producer" /\ ~NamedArgs(ast) THEN ProducerCall(f, ast, reg, s)
        ELSE IF bound.code # "" THEN Fail(s, bound.code)
        ELSE BoundCall(f, ast, bound.args, reg, s)

-----------------------------------------------------------------------------
(* Fields, chains and indexes *)

(* cxpr_eval_struct_field_value *)
FieldValue(s, record, field) ==
    IF Found(FieldOf(record, field)) THEN Ok(s, FieldOf(record, field)) ELSE Fail(s, "unknown_id")

(* cxpr_expression_lookup_typed_result in the scope of this context only *)
Scoped(ctx, path) == Lookup(ctx[1], "scope", path)

(* cxpr_eval_field_access of an object and a field *)
FieldAccess(ast, reg, s) ==
    LET full == Scoped(s.x, ast.p)
        root == Scoped(s.x, <<ast.p[1]>>)
        own == GetField(s.x, <<ast.p[1]>>, ast.s)
        flat == GetNumber(s.x, ast.p)
    IN  IF HasScope(s.x) /\ Found(full) THEN Ok(s, full)
        ELSE IF HasScope(s.x) /\ Found(root)
        THEN IF root.t = "struct" THEN FieldValue(s, root, ast.s) ELSE Fail(s, "unknown_id")
        ELSE IF Found(own) THEN Ok(s, own)
        ELSE IF Found(flat) THEN Ok(s, flat)
        ELSE IF HasFn(reg, ast.p[1]) /\ FnOf(reg, ast.p[1]).kind = "producer"
        THEN With(StructResult(FnOf(reg, ast.p[1]), ast.p[1], <<>>, NoKey, reg, s),
                  LAMBDA r : Then(r, LAMBDA q : FieldValue(q, q.v, ast.s)))
        ELSE Fail(s, "unknown_id")

(* cxpr_eval_field_access of an expression *)
FieldOfExpr(ast, reg, s) ==
    LET base == ast.a[1]
    IN  IF base.k = "call" /\ HasFn(reg, base.s) /\ FnOf(reg, base.s).kind \in {"producer", "record"}
        THEN ProducerAccess(AstNode("prd", base.s, 0, <<ast.s>> \o base.p, base.a), reg, s)
        ELSE With(Node(base, reg, s),
                  LAMBDA r : IF Failed(r) THEN Ok(r, NaN)
                             ELSE IF r.v.t # "struct" THEN Fail(r, "type")
                             ELSE FieldValue(r, r.v, ast.s))

(* The fields of a chain from the struct that i components name. *)
RECURSIVE WalkFields(_, _, _, _)
WalkFields(s, record, path, i) ==
    LET x == FieldOf(record, path[i])
    IN  IF ~Found(x) THEN Fail(s, "unknown_id")
        ELSE IF i = Len(path) THEN Ok(s, x)
        ELSE IF x.t # "struct" THEN Fail(s, "type")
        ELSE WalkFields(s, x, path, i + 1)

(* cxpr_eval_chain_access: the full name or the shortest prefix that is a
   struct in the scope, else the struct of the root. *)
ChainAccess(ast, s) ==
    LET prefix(n) == Scoped(s.x, SubSeq(ast.p, 1, n))
        named == {n \in 1 .. (Len(ast.p) - 1) : Found(prefix(n))}
        structs == {n \in named : prefix(n).t = "struct"}
        shortest == CHOOSE n \in structs : \A m \in structs : n <= m
        own == GetStruct(s.x, <<ast.p[1]>>)
        typed == GetTyped(s.x, <<ast.p[1]>>)
        root == IF Found(own) THEN own ELSE typed
    IN  IF HasScope(s.x) /\ Found(Scoped(s.x, ast.p)) THEN Ok(s, Scoped(s.x, ast.p))
        ELSE IF HasScope(s.x) /\ structs # {}
        THEN WalkFields(s, prefix(shortest), ast.p, shortest + 1)
        ELSE IF HasScope(s.x) /\ named # {} THEN Fail(s, "unknown_id")
        ELSE IF root.t = "struct" THEN WalkFields(s, root, ast.p, 2)
        ELSE Fail(s, "unknown_id")

(* cxpr_registry_select_index_capability: the owner of an identifier, or the
   one owner of the names an expression refers to. *)
Capability(reg, target) ==
    LET names == {n \in DOMAIN reg.caps : <<n>> \in References(target)}
        owners == {reg.caps[n] : n \in names}
    IN  IF Cardinality(owners) > 1 THEN "clash"
        ELSE IF owners = {} THEN "" ELSE CHOOSE o \in owners : TRUE

(* What a capability and the lookback resolver of the host return is external:
   the resolver knows the past of the identifiers in reg.past, n samples ago
   reg.past[name] + n, for an index that is constant. *)
HostIndex(target, n) == Num(50 + n)
HostLookback(reg, target, index) ==
    LET n == ConstDouble(index, <<>>)
    IN  IF target.k = "id" /\ target.s \in DOMAIN reg.past /\ Found(n)
        THEN Num(reg.past[target.s] + n.v) ELSE Unhandled

(* The element of an array value that an index expression selects. *)
ArrayElement(array, index, reg, s) ==
    With(Node(index, reg, s), LAMBDA r : Then(r, LAMBDA q : Put(q, ElementAt(array, q.v))))

(* A capability answers an index that is a non-negative whole number. *)
CapabilityIndex(target, index, reg, s) ==
    With(Node(index, reg, s),
         LAMBDA r : IF Failed(r) THEN Ok(r, NaN)
                    ELSE IF r.v.t # "num" \/ r.v = NaN \/ r.v.v < 0 THEN Fail(r, "index")
                    ELSE Ok(r, HostIndex(target, r.v.v)))

(* CXPR_NODE_INDEX: an array, then a capability of an identifier, then an array
   the target evaluates to, then the lookback resolver, then a capability of
   any other target.  flat is the target and the offset of nested literal
   lookbacks, owner its capability, past the resolver's answer. *)
IndexOwned(target, index, flat, owner, past, reg, s) ==
    LET named == GetTyped(s.x, target.p)
        early == flat.t.k = "id" \/ ~reg.resolver
        capability(r) == IF owner = "clash" THEN Fail(r, "type")
                         ELSE CapabilityIndex(flat.t, flat.i, reg, r)
        resolved(r) == IF reg.resolver /\ past # Unhandled THEN Ok(r, past)
                       ELSE IF flat.t.k # "id" /\ owner # "" THEN capability(r)
                       ELSE Fail(r, "type")
    IN  IF target.k = "id" /\ named.t = "array" THEN ArrayElement(named, index, reg, s)
        ELSE IF early /\ owner # "" THEN capability(s)
        ELSE With(Node(target, reg, s),
                  LAMBDA r : IF ~Failed(r) /\ r.v.t = "array" THEN ArrayElement(r.v, index, reg, r)
                             ELSE IF Failed(r) /\ ~reg.resolver THEN Ok(r, NaN)
                             ELSE resolved([r EXCEPT !.e = ""]))

IndexFlat(target, index, flat, reg, s) ==
    IndexOwned(target, index, flat, Capability(reg, flat.t),
               HostLookback(reg, IF flat.t.k = "idx" THEN target ELSE flat.t,
                                 IF flat.t.k = "idx" THEN index ELSE flat.i),
               reg, s)

Index(ast, reg, s) ==
    IndexFlat(ast.a[1], ast.a[2],
              IF ast.a[2].k = "num" THEN Flatten(ast.a[1], ast.a[2].n)
              ELSE [t |-> ast.a[1], i |-> ast.a[2]],
              reg, s)

-----------------------------------------------------------------------------
(* The evaluator *)

(* The operator on the left value and the evaluated right operand. *)
BinaryRight(op, left, r) ==
    IF Failed(r) THEN Ok(r, NaN)
    ELSE Put(r, IF op \in {"and", "or"} THEN Require(r.v, "bool", r.v)
                ELSE BinaryValues(op, left, r.v))

(* cxpr_eval_binary_op *)
BinaryOp(ast, reg, s) ==
    LET logical == ast.s \in {"and", "or"}
        decided(r) == r.v.v = (IF ast.s = "or" THEN 1 ELSE 0)
    IN  With(Node(ast.a[1], reg, s),
             LAMBDA l : IF Failed(l) THEN Ok(l, NaN)
                        ELSE IF logical /\ l.v.t # "bool" THEN Fail(l, "type")
                        ELSE IF logical /\ decided(l) THEN l
                        ELSE BinaryRight(ast.s, l.v, Node(ast.a[2], reg, l)))

RECURSIVE RecordFields(_, _, _, _)

(* A record literal: each field sees the ones before it. *)
RecordFields(names, bodies, reg, r) ==
    IF bodies = <<>> THEN Ok(r.s, StructV(r.f))
    ELSE With(Node(Head(bodies), reg, r.s),
              LAMBDA q : IF Failed(q) THEN Ok(q, NaN)
                         ELSE RecordFields(Tail(names), Tail(bodies), reg,
                                [s |-> [q EXCEPT !.x[1] = SetValue(@, <<Head(names)>>, q.v)],
                                 f |-> Append(r.f, <<Head(names), q.v>>)]))

FoundOr(s, value) == IF Found(value) THEN Ok(s, value) ELSE Fail(s, "unknown_id")

(* cxpr_eval_node_uncached *)
NodeUncached(ast, reg, s) ==
    CASE ast.k = "num" -> Ok(s, Num(ast.n))
      [] ast.k = "int" -> Ok(s, Int64(ast.n))
      [] ast.k = "bool" -> Ok(s, BoolV(ast.n = 1))
      [] ast.k = "str" -> Ok(s, Str(ast.s))
      [] ast.k = "arr" -> With(Each(ast.a, reg, s, <<>>),
                               LAMBDA r : IF Complete(r, ast.a) THEN Ok(r.s, ArrayV(r.vs))
                                          ELSE Ok(r.s, NaN))
      [] ast.k = "rec" -> Pop(s, RecordFields(ast.p, ast.a, reg,
                                              [s |-> Push(s, EmptyFrame), f |-> <<>>]))
      [] ast.k = "id" -> FoundOr(s, GetTyped(s.x, ast.p))
      [] ast.k = "par" -> FoundOr(s, GetParamTyped(s.x, ast.p))
      [] ast.k = "fld" -> FieldAccess(ast, reg, s)
      [] ast.k = "fof" -> FieldOfExpr(ast, reg, s)
      [] ast.k = "chn" -> ChainAccess(ast, s)
      [] ast.k = "idx" -> Index(ast, reg, s)
      [] ast.k = "bin" -> BinaryOp(ast, reg, s)
      [] ast.k = "un" -> With(Node(ast.a[1], reg, s),
                              LAMBDA r : Then(r, LAMBDA q : Put(q, UnaryValue(ast.s, q.v))))
      [] ast.k = "ter" -> Branch(ast.a[1], ast.a[2], ast.a[3], reg, s)
      [] ast.k = "call" -> FunctionCall(ast, reg, s)
      [] ast.k = "prd" -> IF HasFn(reg, ast.s) /\ FnOf(reg, ast.s).handler THEN HostAstCall(s)
                          ELSE ProducerAccess(ast, reg, s)

(* What the memo keeps of a call that succeeded. *)
Remember(memo, ast, r) ==
    IF ~memo \/ Failed(r) THEN r ELSE [r EXCEPT !.m = MemoSet(@, ast, r.v)]

(* cxpr_eval_node: the calls of one evaluation are memoised by their tree, unless
   the caller goes past the memo (cxpr_eval_defined_function for a compiled
   call). *)
Tree(ast, reg, s, memoise) ==
    LET memo == memoise /\ Memoable(ast, reg)
        known == MemoGet(s.m, ast)
    IN  IF memo /\ Found(known) THEN Ok(s, known)
        ELSE Remember(memo, ast, NodeUncached(ast, reg, s))

-----------------------------------------------------------------------------
(***************************************************************************)
(* The static check an expression passes before it is evaluated as a tree  *)
(* or compiled (src/typecheck.c).  A static type is the type of a value,   *)
(* "unknown" (accepted everywhere) or "error" (the check fails with        *)
(* CXPR_ERR_TYPE_MISMATCH).                                                *)
(***************************************************************************)

IsNumeric(t) == t \in {"num", "int64", "unknown"}
IsStructOperand(t) == IsNumeric(t) \/ t = "struct"
IsBoolType(t) == t \in {"bool", "unknown"}

(* cxpr_typecheck_join: the type of two branches. *)
Join(a, b) ==
    IF "error" \in {a, b} THEN "error"
    ELSE IF a = b \/ b = "unknown" THEN a
    ELSE IF a = "unknown" THEN b
    ELSE "error"

(* cxpr_typecheck_record_shapes_match: only two literals are compared. *)
ShapesMatch(l, r) ==
    l.k = "rec" /\ r.k = "rec" => Len(l.p) = Len(r.p) /\ ToSet(l.p) \subseteq ToSet(r.p)

LiteralIndex(index, count) == index.k = "num" /\ index.n >= 0 /\ index.n < count

RECURSIVE StaticIndexValue(_)

(* cxpr_typecheck_resolve_static_index_value *)
StaticIndexValue(ast) ==
    IF ast.k # "idx" THEN ast
    ELSE LET target == StaticIndexValue(ast.a[1])
         IN  IF target.k = "arr" /\ LiteralIndex(ast.a[2], Len(target.a))
             THEN target.a[ast.a[2].n + 1] ELSE ast

(* Mutant: a comparison is a number. *)
BinaryTypeNumber(op, l, r, lt, rt) == IF op \in {"==", "!="} THEN "bool" ELSE "num"

(* cxpr_typecheck_infer_binary, both operands being free of errors *)
BinaryType(op, l, r, lt, rt) ==
    LET known == lt # "unknown" /\ rt # "unknown"
    IN  IF op \in ArithOps
        THEN IF ~IsStructOperand(lt) \/ ~IsStructOperand(rt) \/ ~ShapesMatch(l, r) THEN "error"
             ELSE IF "struct" \in {lt, rt} THEN "struct"
             ELSE IF known /\ lt # rt THEN "error"
             ELSE IF "int64" \in {lt, rt} THEN "int64" ELSE "num"
        ELSE IF op \in {"%", "^"} \cup CmpOps
        THEN IF ~IsNumeric(lt) \/ ~IsNumeric(rt) THEN "error"
             ELSE IF op \in CmpOps THEN "bool" ELSE "num"
        ELSE IF op \in {"==", "!="} THEN IF known /\ lt # rt THEN "error" ELSE "bool"
        ELSE IF IsBoolType(lt) /\ IsBoolType(rt) THEN "bool" ELSE "error"

RECURSIVE TypeOf(_, _)

(* cxpr_typecheck_infer_array_element: the element of a literal index, or the
   type all elements share. *)
ElementType(array, index, reg) ==
    LET types == {TypeOf(array.a[i], reg) : i \in DOMAIN array.a}
        known == types \ {"unknown"}
    IN  IF LiteralIndex(index, Len(array.a)) THEN TypeOf(array.a[index.n + 1], reg)
        ELSE IF "error" \in types THEN "error"
        ELSE IF Cardinality(known) = 1 THEN CHOOSE t \in known : TRUE ELSE "unknown"

(* The declared type an argument is compared with: by exact name, else by
   position. *)
DeclaredArg(f, ast, i) ==
    LET names == ArgNames(ast)
        at == IF i \in DOMAIN names /\ names[i] # ""
              THEN {p \in DOMAIN f.params : f.params[p] = names[i]} ELSE {}
        slot == IF at = {} THEN i ELSE CHOOSE p \in at : \A q \in at : p <= q
    IN  IF slot \in DOMAIN f.argt THEN f.argt[slot] ELSE "unknown"

(* cxpr_typecheck_infer_call *)
CallType(ast, reg) ==
    LET type(i) == TypeOf(ast.a[i], reg)
        f == FnOf(reg, ast.s)
        known == HasFn(reg, ast.s)
        bad(i) == \/ type(i) = "error"
                  \/ ast.s \in {"any", "all"} /\ ~IsBoolType(type(i))
                  \/ known /\ "unknown" \notin {type(i), DeclaredArg(f, ast, i)}
                           /\ type(i) # DeclaredArg(f, ast, i)
    IN  IF ast.s = "if" /\ Len(ast.a) = 3
        THEN IF ~IsBoolType(type(1)) /\ ~IsNumeric(type(1)) THEN "error" ELSE Join(type(2), type(3))
        ELSE IF \E i \in DOMAIN ast.a : bad(i) THEN "error"
        ELSE IF known /\ f.ret # "" THEN f.ret ELSE "unknown"

(* A field of an expression: of a record literal it is known. *)
FieldType(ast, reg) ==
    LET base == StaticIndexValue(ast.a[1])
        at == {i \in DOMAIN base.p : base.p[i] = ast.s}
    IN  IF TypeOf(ast.a[1], reg) = "error" THEN "error"
        ELSE IF base.k = "rec"
        THEN IF at = {} THEN "error"
             ELSE TypeOf(base.a[CHOOSE i \in at : \A j \in at : i <= j], reg)
        ELSE IF ast.a[1].k \in {"num", "bool", "str", "arr"} THEN "error" ELSE "unknown"

(* An index: a number; what a capability returns, or an element of a literal. *)
IndexType(ast, reg) ==
    LET target == StaticIndexValue(ast.a[1])
        owner == Capability(reg, ast.a[1])
    IN  IF ~IsNumeric(TypeOf(ast.a[2], reg)) \/ owner = "clash" THEN "error"
        ELSE IF owner # "" THEN "num"
        ELSE IF target.k = "arr" THEN ElementType(target, ast.a[2], reg)
        ELSE IF TypeOf(ast.a[1], reg) = "error" THEN "error" ELSE "unknown"

(* cxpr_typecheck_infer *)
TypeOf(ast, reg) ==
    LET type(i) == TypeOf(ast.a[i], reg)
        failed == \E i \in DOMAIN ast.a : type(i) = "error"
    IN  CASE ast.k = "num" -> "num"
          [] ast.k = "int" -> "int64"
          [] ast.k = "bool" -> "bool"
          [] ast.k = "str" -> "string"
          [] ast.k = "arr" -> "array"
          [] ast.k = "rec" -> IF failed THEN "error" ELSE "struct"
          [] ast.k = "fof" -> FieldType(ast, reg)
          [] ast.k = "idx" -> IndexType(ast, reg)
          [] ast.k = "call" -> CallType(ast, reg)
          [] ast.k = "bin" -> IF failed THEN "error"
                              ELSE BinaryType(ast.s, ast.a[1], ast.a[2], type(1), type(2))
          [] ast.k = "un" -> IF ast.s = "not" THEN IF IsBoolType(type(1)) THEN "bool" ELSE "error"
                             ELSE IF IsNumeric(type(1)) THEN "num" ELSE "error"
          [] ast.k = "ter" -> IF IsBoolType(type(1)) THEN Join(type(2), type(3)) ELSE "error"
          [] OTHER -> "unknown"

(* cxpr_typecheck *)
Typechecks(ast, reg) == TypeOf(ast, reg) # "error"

-----------------------------------------------------------------------------
(* cxpr_eval_ast_value inside an evaluation: err is cleared; the memo is shared
   with the evaluation around it, if there is one. *)
EvalValue(ast, reg, s) ==
    With(Node(ast, reg, [s EXCEPT !.e = "", !.m = IF s.m.on THEN s.m ELSE MemoOn]),
         LAMBDA r : [r EXCEPT !.m = IF s.m.on THEN r.m ELSE s.m])

(* cxpr_eval_ast: checked first. *)
EvalAst(ast, reg, s) ==
    IF Typechecks(ast, reg) THEN EvalValue(ast, reg, s) ELSE Fail(s, "type")
=============================================================================
