------------------------------- MODULE IRExec -------------------------------
(***************************************************************************)
(* The IR executors: src/ir/exec/typed.c, fast.c, calls.c, lookup.c.       *)
(*                                                                         *)
(* An execution is a record [mode, code, ip, st, bs, lb, off, loc, v, e,   *)
(* m, x, done]: which executor runs, the program, the instruction, the     *)
(* stack (of values; of numbers in the fast modes), the stack of bools of  *)
(* the bool mode, the saved lookback offsets and the current one, the      *)
(* locals, and the state [v, e, m, x] of an evaluation.  ub marks an       *)
(* access outside a stack array: the fast executors do not check.          *)
(***************************************************************************)
EXTENDS IRCompile

Run(mode, code, loc, s) ==
    [mode |-> mode, code |-> code, ip |-> 1, st |-> <<>>, bs |-> <<>>, lb |-> <<>>, off |-> 0,
     loc |-> loc, v |-> NaN, e |-> "", m |-> s.m, x |-> s.x, done |-> FALSE, ub |-> FALSE]

Halt(r, code) == [r EXCEPT !.v = NaN, !.e = code, !.done = TRUE]
Return(r, value) == [r EXCEPT !.v = value, !.done = TRUE]
Go(r, ip) == [r EXCEPT !.ip = ip]
Next1(r) == [r EXCEPT !.ip = @ + 1]
OutOfBounds(r) == [r EXCEPT !.ub = TRUE, !.done = TRUE]

(* The topmost n values, and the stack without them. *)
Tops(stack, n) == SubSeq(stack, Len(stack) - n + 1, Len(stack))
Without(stack, n) == SubSeq(stack, 1, Len(stack) - n)

-----------------------------------------------------------------------------
(* Lookups (src/ir/exec/lookup.c, src/ir/program.c) *)

AsNumber(x) == IF x.t = "bool" THEN Num(x.v) ELSE IF x.t = "num" THEN x ELSE Missing

(* cxpr_ir_lookup_cached_scalar of a variable: what the scope binds decides;
   then bools before numbers, frame by frame. *)
CachedScalar(ctx, path) ==
    LET scoped == Scoped(ctx, path)
    IN  IF HasScope(ctx) /\ Found(scoped) THEN AsNumber(scoped) ELSE GetPrehashed(ctx, path)

(* cxpr_ir_load_variable_typed *)
LoadVariable(ctx, path) ==
    LET scoped == Scoped(ctx, path)
        typed == GetTyped(ctx, path)
    IN  IF HasScope(ctx) /\ Found(scoped) THEN scoped
        ELSE IF Found(typed) THEN typed ELSE CachedScalar(ctx, path)

(* CXPR_OP_LOAD_PARAM of the typed executor: bools, strings, numbers. *)
LoadParam(ctx, path) ==
    LET typed(map) == Through(ctx, LAMBDA f : Lookup(f, map, path))
    IN  IF Found(typed("pbools")) THEN typed("pbools")
        ELSE IF Found(typed("pstrs")) THEN typed("pstrs") ELSE GetParam(ctx, path)

(* cxpr_ir_call_producer_cached, _const_field: [v, e, m, x] with the struct;
   a produced struct is cached in the context. *)
CallProducer(f, name, key, args, s) ==
    LET own == IF key # NoKey THEN key ELSE CacheKey(name, args)
        fields == HostFields(f.rfields, args)
    IN  IF f.kind # "producer" THEN Fail(s, "syntax")
        ELSE IF ~ArityOk(f, Len(args)) THEN Fail(s, "arity")
        ELSE IF key # NoKey /\ Found(GetCached(s.x, key)) THEN Ok(s, GetCached(s.x, key))
        ELSE IF \E i \in DOMAIN args : args[i].t # "num" THEN Fail(s, "type")
        ELSE IF Found(GetCached(s.x, own)) THEN Ok(s, GetCached(s.x, own))
        ELSE [s EXCEPT !.v = fields, !.x[1] = Bind(@, "cached", own, fields)]

(* cxpr_ir_call_producer_field_cached *)
ProducerField(s, field) == Then(s, LAMBDA q : FieldValue(q, q.v, field))

(* cxpr_ir_load_field_value: the scope, the context, a producer without
   arguments, and the number named o.f last. *)
LoadField(path, reg, s) ==
    LET scoped == Scoped(s.x, path)
        root == Scoped(s.x, <<path[1]>>)
        own == GetField(s.x, <<path[1]>>, path[2])
        flat == GetPrehashed(s.x, path)
        produces == /\ HasFn(reg, path[1])
                    /\ FnOf(reg, path[1]).kind = "producer"
                    /\ FnOf(reg, path[1]).max = 0
        number(q) == IF Found(flat) THEN Ok(q, flat) ELSE Fail(q, "unknown_id")
    IN  IF HasScope(s.x) /\ Found(scoped) THEN Ok(s, scoped)
        ELSE IF HasScope(s.x) /\ Found(root) /\ root.t # "struct" THEN Fail(s, "unknown_id")
        ELSE IF Found(own) THEN Ok(s, own)
        ELSE IF produces
        THEN With(CallProducer(FnOf(reg, path[1]), path[1], NoKey, <<>>, s),
                  LAMBDA r : IF Failed(r) THEN r
                             ELSE IF Found(FieldOf(r.v, path[2])) THEN Ok(r, FieldOf(r.v, path[2]))
                             ELSE number(r))
        ELSE number(s)

(* cxpr_ir_load_named_field_value *)
LoadNamedField(root, field, s) ==
    LET own == GetField(s.x, root, field)
        flat == GetPrehashed(s.x, root \o <<field>>)
    IN  IF Found(own) THEN Ok(s, own) ELSE IF Found(flat) THEN Ok(s, flat) ELSE Fail(s, "unknown_id")

(* cxpr_ir_load_chain_value: the longest prefix that is a struct in the scope. *)
LoadChain(path, s) ==
    LET prefix(n) == Scoped(s.x, SubSeq(path, 1, n))
        named == {n \in 1 .. (Len(path) - 1) : Found(prefix(n))}
        structs == {n \in named : prefix(n).t = "struct"}
        longest == CHOOSE n \in structs : \A k \in structs : k <= n
        own == GetStruct(s.x, <<path[1]>>)
        root == IF Found(own) THEN own ELSE GetTyped(s.x, <<path[1]>>)
    IN  IF HasScope(s.x) /\ structs # {} THEN WalkFields(s, prefix(longest), path, longest + 1)
        ELSE IF HasScope(s.x) /\ named # {} THEN Fail(s, "unknown_id")
        ELSE IF root.t = "struct" THEN WalkFields(s, root, path, 2)
        ELSE Fail(s, "unknown_id")

-----------------------------------------------------------------------------
(* Lookback in the typed executor *)

(* What a capability answers: a value, an error, or Unhandled. *)
ResolveCapability(reg, target, offset) ==
    LET owner == Capability(reg, target)
    IN  IF owner = "clash" THEN Err("type")
        ELSE IF owner = "" THEN Unhandled ELSE HostIndex(target, offset)

(* The lookback resolver of the host, if there is one. *)
Resolver(reg, target, offset) ==
    IF reg.resolver THEN HostLookback(reg, target, NumLit(offset)) ELSE Unhandled

(* cxpr_ir_resolve_lookback_target: an array element; the resolver for a target
   that is no identifier; a capability; the resolver. *)
LookbackTarget(target, offset, reg, s) ==
    LET named == IF target.k = "id" THEN GetTyped(s.x, target.p) ELSE Missing
        hosted == ResolveCapability(reg, target, offset)
        first == Resolver(reg, target, offset)
    IN  IF named.t = "array"
        THEN IF offset < Len(named.f) THEN Ok(s, named.f[offset + 1][2]) ELSE Fail(s, "index")
        ELSE IF target.k # "id" /\ first # Unhandled THEN Ok(s, first)
        ELSE IF hosted # Unhandled THEN Put(s, hosted)
        ELSE IF first # Unhandled THEN Ok(s, first)
        ELSE Fail(s, "syntax")

(* cxpr_ir_resolve_lookback_instr: the tree of a load, or one rebuilt from its
   name. *)
LookbackOf(i) ==
    IF i.a # NoAst THEN i.a
    ELSE CASE i.op \in {"LOAD_VAR", "LOAD_VAR_SQUARE"} -> Id(i.p[1])
           [] i.op \in {"LOAD_FIELD", "LOAD_FIELD_SQUARE"} -> Fld(i.p[1], i.p[2])
           [] i.op = "LOAD_NAMED_FIELD" -> Fld(i.p[1], i.q)
           [] i.op = "LOAD_CHAIN" -> Chain(i.p)

-----------------------------------------------------------------------------
(* Calls (src/ir/exec/calls.c) *)

(* cxpr_ir_call_instr_memoable, cxpr_ir_call_memo_get, _set: the calls of an
   evaluation are known by their tree. *)
InstrMemoable(i, f) == i.a.k = "call" /\ ~f.handler /\ f.kind \notin {"ast", "producer"}
CallMemoGet(i, f, r) == IF InstrMemoable(i, f) THEN MemoGet(r.m, i.a) ELSE Missing
CallMemoSet(i, f, r, value) ==
    IF InstrMemoable(i, f) THEN [r EXCEPT !.m = MemoSet(@, i.a, value)] ELSE r

(* One parameter of a function that returns a record: the fields it uses of an
   identifier that is no struct, or its value. *)
BindRecordParam(f, ast, args, j, s, frame) ==
    LET root == ast.a[j].s
        field(k) == LET dotted == GetNumber(s.x, <<root, f.pfields[j][k]>>)
                    IN  IF Found(dotted) THEN dotted
                        ELSE GetNumber(s.x, <<"_", root, f.pfields[j][k]>>)
        by_field == /\ ~ScalarParam(f, j)
                    /\ args[j].t # "struct"
                    /\ ast.k = "call"
                    /\ ast.a[j].k = "id"
    IN  IF ~by_field THEN [ok |-> TRUE, frame |-> SetValue(frame, <<f.params[j]>>, args[j])]
        ELSE [ok |-> \A k \in DOMAIN f.pfields[j] : Found(field(k)),
              frame |-> FoldLeftDomain(
                            LAMBDA g, k : SetValue(g, <<f.params[j], f.pfields[j][k]>>, field(k)),
                            frame, f.pfields[j])]

RECURSIVE EvalBodies(_, _, _, _, _)

(* The trees of bodies in turn, checked first as cxpr_eval_ast does; a call is
   evaluated as it is, and not looked up in the memo. *)
EvalBodies(call, bodies, reg, s, vs) ==
    IF bodies = <<>> THEN [s |-> s, vs |-> vs]
    ELSE IF ~call /\ ~Typechecks(Head(bodies), reg) THEN [s |-> Fail(s, "type"), vs |-> vs]
    ELSE With(Tree(Head(bodies), reg,
                   IF call THEN s ELSE [s EXCEPT !.e = "", !.m = IF @.on THEN @ ELSE MemoOn], ~call),
              LAMBDA r : IF Failed(r) THEN [s |-> [r EXCEPT !.m = IF s.m.on THEN @ ELSE s.m], vs |-> vs]
                         ELSE EvalBodies(call, Tail(bodies), reg,
                                         [r EXCEPT !.m = IF s.m.on THEN @ ELSE s.m], Append(vs, r.v)))

(* Why a call of a defined function is refused; "" if it is not. *)
Refused(f, args, bound) ==
    IF f.kind \notin {"defined", "record"} THEN "syntax"
    ELSE IF Len(args) # Len(f.params) THEN "arity"
    ELSE IF f.kind = "record" /\ ~bound.ok THEN "unknown_id" ELSE ""

(* cxpr_ir_call_defined_scalar.  A call evaluates the tree of the call again, in
   the context of the caller; a record is built from the stacked arguments. *)
BoundRecord(f, ast, args, s) ==
    FoldLeftDomain(LAMBDA acc, j : IF acc.ok THEN BindRecordParam(f, ast, args, j, s, acc.frame) ELSE acc,
                   [ok |-> TRUE, frame |-> EmptyFrame], args)

RecordMade(f, s, done) ==
    Pop(s, IF Complete(done, f.rbodies)
           THEN Ok(done.s, StructV([j \in DOMAIN f.rfields |-> <<f.rfields[j], done.vs[j]>>]))
           ELSE done.s)

-----------------------------------------------------------------------------
(* The typed executor (src/ir/exec/typed.c): every push and pop is checked. *)

TypedPush(r, value) ==
    IF Len(r.st) >= StackCapacity THEN Halt(r, "syntax")
    ELSE Next1([r EXCEPT !.st = Append(@, value), !.v = NaN])

(* Push the value of a sub-evaluation, or stop with its error. *)
PushResult(r) == IF Failed(r) THEN Halt(r, r.e) ELSE TypedPush(r, r.v)
PushValue(r, value) == IF IsErr(value) THEN Halt(r, value.s) ELSE TypedPush(r, value)
Squared(r) == IF Failed(r) THEN r ELSE Put(r, Require(r.v, "num", ArithmeticOp("*", r.v, r.v)))

(* F of the topmost n values and of the execution without them. *)
TypedPop(r, n, F(_, _)) ==
    IF Len(r.st) < n THEN Halt(r, "syntax")
    ELSE F(Tops(r.st, n), [r EXCEPT !.st = Without(@, n)])

OpOf(opcode) == CHOOSE op \in ArithOps \cup CmpOps \cup {"%", "^", "==", "!="} : BinaryOpcode(op) = opcode

(* The arithmetic of two numbers, no divisor being zero. *)
Double(op, a, b) ==
    IF op \in {"==", "!="} THEN EqualityOp(op, a, b)
    ELSE IF op \in CmpOps \cup ArithOps THEN NumericBinaryOp(op, a, b)
    ELSE IF NaN \in {a, b} THEN NaN
    ELSE Num(IF op = "%" THEN FMod(a.v, b.v) ELSE FPow(a.v, b.v))

TypedBinary(op, a, b) ==
    LET scalars == {"num", "bool", "string", "ts", "dur", "int64"}
    IN  IF op \in {"==", "!="}
        THEN IF a.t = b.t /\ a.t \in scalars THEN EqualityOp(op, a, b) ELSE Err("type")
        ELSE IF a.t = "num" /\ b.t = "num"
        THEN IF op \in {"/", "%"} /\ b = Num(0) THEN Err("div0") ELSE Double(op, a, b)
        ELSE IF op \in {"%", "^"} THEN Err("type")
        ELSE HandledOrType(ValueBinaryOp(op, a, b))

(* The numeric opcodes of one operand. *)
UnaryDouble(op, a) ==
    IF op = "NEG" THEN [a EXCEPT !.v = -@]
    ELSE IF op = "SQUARE" THEN NumericBinaryOp("*", a, a)
    ELSE Libm(CASE op = "SIGN" -> "sign" [] op = "SQRT" -> "sqrt" [] op = "ABS" -> "abs"
                [] op \in {"FLOOR", "CEIL", "ROUND"} -> "floor", <<a>>)

TypedUnary(op, a) ==
    IF op = "NEG" /\ a.t = "int64" THEN IF a.v = Int64Min THEN Err("syntax") ELSE Int64(-a.v)
    ELSE Require(a, "num", UnaryDouble(op, a))

(* CXPR_OP_CLAMP: the bounds are taken as they are given. *)
ClampOp(args) ==
    LET x == IF args[1].v < args[2].v THEN args[2].v ELSE args[1].v
    IN  IF NaN \in {args[i] : i \in DOMAIN args} THEN NaN
        ELSE Num(IF x > args[3].v THEN args[3].v ELSE x)

AllNumbers(args) == \A j \in DOMAIN args : args[j].t = "num"

(* Pushes, arrays, loads.  Inside a lookback a load asks for the sample at the
   current offset. *)
TypedLoad(i, r, reg) ==
    LET square == i.op \in {"LOAD_VAR_SQUARE", "LOAD_FIELD_SQUARE", "LOAD_LOCAL_SQUARE",
                            "LOAD_PARAM_SQUARE"}
        push(q) == PushResult(IF square THEN Squared(q) ELSE q)
        back == Len(r.lb) > 0
        found(value) == IF Found(value) THEN Ok(r, value) ELSE Fail(r, "unknown_id")
    IN  CASE i.op \in {"LOAD_LOCAL", "LOAD_LOCAL_SQUARE"} ->
               IF i.n \in DOMAIN r.loc THEN push(Ok(r, r.loc[i.n])) ELSE Halt(r, "syntax")
          [] i.op = "LOAD_PARAM" -> push(found(LoadParam(r.x, i.p)))
          [] i.op = "LOAD_PARAM_SQUARE" -> push(found(GetParam(r.x, i.p)))
          [] back /\ i.op \notin {"LOAD_LOCAL", "LOAD_LOCAL_SQUARE", "LOAD_PARAM", "LOAD_PARAM_SQUARE"} ->
               push(LookbackTarget(LookbackOf(i), r.off, reg, r))
          [] ~back /\ i.op \in {"LOAD_VAR", "LOAD_VAR_SQUARE"} -> push(found(LoadVariable(r.x, i.p)))
          [] ~back /\ i.op \in {"LOAD_FIELD", "LOAD_FIELD_SQUARE"} ->
               With(LoadField(i.p, reg, r), push)
          [] ~back /\ i.op = "LOAD_NAMED_FIELD" -> push(LoadNamedField(i.p, i.q, r))
          [] ~back /\ i.op = "LOAD_CHAIN" -> push(LoadChain(i.p, r))

Loads == FastLoads \cup {"LOAD_FIELD", "LOAD_FIELD_SQUARE", "LOAD_NAMED_FIELD", "LOAD_CHAIN"}
NativeCalls == {"CALL_UNARY", "CALL_BINARY", "CALL_TERNARY"}
NativeArgs(op) == CASE op = "CALL_UNARY" -> 1 [] op = "CALL_BINARY" -> 2 [] op = "CALL_TERNARY" -> 3

(* native_scalar of the entry as it is now; a replaced entry has none. *)
HasNative(f, n) == f.kind = "native" /\ f.max = n

(* CALL_UNARY, _BINARY, _TERNARY *)
TypedNative(i, r, reg) ==
    LET f == FnOf(reg, i.p[1])
        n == NativeArgs(i.op)
    IN  TypedPop(r, n, LAMBDA args, q :
            IF ~AllNumbers(args) THEN Halt(q, "type")
            ELSE IF Found(CallMemoGet(i, f, q)) THEN TypedPush(q, CallMemoGet(i, f, q))
            ELSE IF ~HasNative(f, n) THEN OutOfBounds(q)
            ELSE TypedPush(CallMemoSet(i, f, q, Apply(f, args)), Apply(f, args)))

(* CALL_FUNC, CALL_DEFINED (with outcome t): an error stops before the result is
   memoised. *)
TypedCall(t, i, r, reg) ==
    LET f == FnOf(reg, i.p[1])
    IN  TypedPop(r, i.n, LAMBDA args, q :
            IF Found(CallMemoGet(i, f, q)) THEN TypedPush(q, CallMemoGet(i, f, q))
            ELSE With(IF i.op = "CALL_FUNC" THEN CallTyped(f, args, q) ELSE t,
                      LAMBDA c : PushResult(IF Failed(c) THEN c ELSE CallMemoSet(i, f, c, c.v))))

(* CALL_PRODUCER, _CONST: with the GET_FIELD behind it in one step. *)
TypedProducer(i, r, reg) ==
    LET f == FnOf(reg, i.p[1])
        key == IF i.op = "CALL_PRODUCER" THEN NoKey ELSE Tail(i.p)
        fused == r.ip < Len(r.code) /\ r.code[r.ip + 1].op = "GET_FIELD"
    IN  TypedPop(r, i.n, LAMBDA args, q :
            With(CallProducer(f, i.p[1], key, args, q),
                 LAMBDA c : IF fused THEN PushResult(Next1(ProducerField(c, r.code[r.ip + 1].p[1])))
                            ELSE PushResult(c)))

(* CALL_PRODUCER_CONST_FIELD: inside a lookback too, the struct of now. *)
TypedConstField(i, r, reg) ==
    LET args == [j \in DOMAIN i.a.a |-> Num(i.a.a[j].n)]
    IN  With(CallProducer(FnOf(reg, i.p[1]), i.p[1], Tail(i.p), args, r),
             LAMBDA c : PushResult(ProducerField(c, i.q)))

(* LOOKBACK_PUSH, _POP, _RESOLVE *)
TypedLookback(i, r, reg) ==
    CASE i.op = "LOOKBACK_PUSH" ->
           IF Len(r.lb) >= StackCapacity THEN Halt(r, "syntax")
           ELSE Next1([r EXCEPT !.lb = Append(@, r.off), !.off = @ + i.n])
      [] i.op = "LOOKBACK_POP" ->
           IF r.lb = <<>> THEN Halt(r, "syntax")
           ELSE Next1([r EXCEPT !.lb = Front(@), !.off = Last(r.lb)])
      [] i.op = "LOOKBACK_RESOLVE" ->
           IF ~reg.resolver /\ DOMAIN reg.caps = {} THEN Halt(r, "syntax")
           ELSE PushResult(LookbackTarget(i.a, r.off + i.n, reg, r))

(* A tree evaluated inside a program. *)
TypedAst(t, i, r, reg) ==
    PushResult(IF Len(r.lb) > 0 THEN LookbackTarget(i.a, r.off, reg, r) ELSE t)

TypedJump(i, r) ==
    IF i.op = "JUMP" THEN Go(r, i.n)
    ELSE TypedPop(r, 1, LAMBDA args, q :
            IF args[1].t # "bool" THEN Halt(q, "type")
            ELSE IF (args[1].v = 1) = (i.op = "JUMP_IF_TRUE") THEN Go(q, i.n) ELSE Next1(q))

(* INDEX of an array value by a value. *)
TypedIndex(array, index) == IF array.t # "array" THEN Err("type") ELSE ElementAt(array, index)

(* One instruction of cxpr_ir_exec_typed *)
TypedStep(t, i, r, reg) ==
    CASE i.op = "PUSH_CONST" -> TypedPush(r, Num(i.n))
      [] i.op = "PUSH_INT64" -> TypedPush(r, Int64(i.n))
      [] i.op = "PUSH_BOOL" -> TypedPush(r, BoolV(i.n # 0))
      [] i.op = "PUSH_STRING" -> TypedPush(r, Str(i.p[1]))
      [] i.op = "BUILD_ARRAY" -> TypedPop(r, i.n, LAMBDA args, q : TypedPush(q, ArrayV(args)))
      [] i.op = "INDEX" -> TypedPop(r, 2, LAMBDA args, q : PushValue(q, TypedIndex(args[1], args[2])))
      [] i.op \in Loads -> TypedLoad(i, r, reg)
      [] i.op \in Arithmetic \cup Comparisons ->
           TypedPop(r, 2, LAMBDA args, q : PushValue(q, TypedBinary(OpOf(i.op), args[1], args[2])))
      [] i.op = "NOT" ->
           TypedPop(r, 1, LAMBDA args, q :
                       PushValue(q, Require(args[1], "bool", BoolV(args[1].v = 0))))
      [] i.op \in UnaryOps \ {"CALL_UNARY"} ->
           TypedPop(r, 1, LAMBDA args, q : PushValue(q, TypedUnary(i.op, args[1])))
      [] i.op = "CLAMP" ->
           TypedPop(r, 3, LAMBDA args, q : IF ~AllNumbers(args) THEN Halt(q, "type")
                                           ELSE TypedPush(q, ClampOp(args)))
      [] i.op \in NativeCalls -> TypedNative(i, r, reg)
      [] i.op \in {"CALL_FUNC", "CALL_DEFINED"} -> TypedCall(t, i, r, reg)
      [] i.op \in {"CALL_PRODUCER", "CALL_PRODUCER_CONST"} -> TypedProducer(i, r, reg)
      [] i.op = "CALL_PRODUCER_CONST_FIELD" -> TypedConstField(i, r, reg)
      [] i.op = "GET_FIELD" ->
           TypedPop(r, 1, LAMBDA args, q : IF args[1].t # "struct" THEN Halt(q, "type")
                                           ELSE PushResult(FieldValue(q, args[1], i.p[1])))
      [] i.op = "CALL_AST" -> TypedAst(t, i, r, reg)
      [] i.op \in {"JUMP"} \cup CondJumps -> TypedJump(i, r)
      [] i.op \in {"LOOKBACK_PUSH", "LOOKBACK_POP", "LOOKBACK_RESOLVE"} -> TypedLookback(i, r, reg)
      [] i.op = "RETURN" ->
           TypedPop(r, 1, LAMBDA args, q : IF q.st # <<>> THEN Halt(q, "syntax") ELSE Return(q, args[1]))

-----------------------------------------------------------------------------
(* The fast executors (src/ir/exec/fast.c).  They trust the validator: a push
   beyond the array or a pop below it is not checked. *)

FastPop(r, n, F(_, _)) ==
    IF Len(r.st) < n THEN OutOfBounds(r)
    ELSE F(Tops(r.st, n), [r EXCEPT !.st = Without(@, n)])

PushNumber(r, value) ==
    IF Len(r.st) >= StackCapacity THEN OutOfBounds(r)
    ELSE Next1([r EXCEPT !.st = Append(@, value), !.v = NaN])

PushBool(r, b) ==
    IF Len(r.bs) >= StackCapacity THEN OutOfBounds(r)
    ELSE Next1([r EXCEPT !.bs = Append(@, b), !.v = NaN])

(* A bool is 1 or 0 on the stack of the scalar executor and has a stack of its
   own in the bool executor. *)
PushScalar(r, value, code) ==
    IF value.t = "num" THEN PushNumber(r, value)
    ELSE IF value.t # "bool" THEN Halt(r, code)
    ELSE IF r.mode = "bool" THEN PushBool(r, value.v = 1)
    ELSE PushNumber(r, Num(value.v))

(* The loads: a number, whatever else the name is bound to. *)
FastLoad(i, r) ==
    LET square == i.op \in {"LOAD_VAR_SQUARE", "LOAD_LOCAL_SQUARE", "LOAD_PARAM_SQUARE"}
        value == CASE i.op \in {"LOAD_LOCAL", "LOAD_LOCAL_SQUARE"} ->
                        IF i.n \in DOMAIN r.loc THEN r.loc[i.n] ELSE Missing
                   [] i.op \in {"LOAD_VAR", "LOAD_VAR_SQUARE"} -> CachedScalar(r.x, i.p)
                   [] i.op \in {"LOAD_PARAM", "LOAD_PARAM_SQUARE"} -> GetParam(r.x, i.p)
    IN  IF ~Found(value)
        THEN Halt(r, IF i.op \in {"LOAD_LOCAL", "LOAD_LOCAL_SQUARE"} THEN "syntax" ELSE "unknown_id")
        ELSE PushNumber(r, IF square THEN NumericBinaryOp("*", value, value) ELSE value)

FastBinary(i, r) ==
    FastPop(r, 2, LAMBDA args, q :
        IF i.op \in {"DIV", "MOD"} /\ args[2] = Num(0) THEN Halt(q, "div0")
        ELSE PushScalar(q, Double(OpOf(i.op), args[1], args[2]), "syntax"))

(* Mutant: an argument of a native call stays on the stack. *)
FastNativeKeeps(i, r, reg) ==
    LET n == NativeArgs(i.op)
    IN  FastPop(r, n - 1, LAMBDA args, q : PushNumber(q, Apply(FnOf(reg, i.p[1]), Tops(r.st, n))))

(* The result of a call whose n arguments are on the stack: the memo's, or the
   native function's through the entry the instruction holds. *)
FastNative(i, r, reg) ==
    LET f == FnOf(reg, i.p[1])
        n == NativeArgs(i.op)
    IN  FastPop(r, n, LAMBDA args, q :
            IF Found(CallMemoGet(i, f, q)) THEN PushScalar(q, CallMemoGet(i, f, q), "syntax")
            ELSE IF ~HasNative(f, n) THEN OutOfBounds(q)
            ELSE PushNumber(CallMemoSet(i, f, q, Apply(f, args)), Apply(f, args)))

(* CALL_FUNC: the number of arguments is not compared with the entry's. *)
FastCall(i, r, reg) ==
    LET f == FnOf(reg, i.p[1])
    IN  IF f.kind = "typed" THEN Halt(r, "syntax")
        ELSE FastPop(r, i.n, LAMBDA args, q :
            IF Found(CallMemoGet(i, f, q)) THEN PushScalar(q, CallMemoGet(i, f, q), "syntax")
            ELSE IF f.kind \notin {"native", "sync", "value"} THEN OutOfBounds(q)
            ELSE With(PushScalar(q, Apply(f, args), "syntax"),
                      LAMBDA c : IF Failed(c) THEN c ELSE CallMemoSet(i, f, c, Apply(f, args))))

(* CALL_DEFINED of the scalar executor, and of the bool executor with its memo. *)
ScalarDefined(t, i, r) ==
    IF Len(r.st) < i.n THEN OutOfBounds(r)
    ELSE IF Failed(t) THEN Halt(t, t.e) ELSE PushScalar(t, t.v, "type")

BoolDefined(t, i, r, reg) ==
    LET f == FnOf(reg, i.p[1])
    IN  FastPop(r, i.n, LAMBDA args, q :
            IF Found(CallMemoGet(i, f, q)) THEN PushScalar(q, CallMemoGet(i, f, q), "type")
            ELSE IF Failed(t) THEN Halt(t, t.e)
            ELSE PushScalar(CallMemoSet(i, f, t, t.v), t.v, "type"))

(* The opcodes both executors treat alike. *)
FastStep(i, r, reg) ==
    CASE i.op = "PUSH_CONST" -> PushNumber(r, Num(i.n))
      [] i.op = "PUSH_BOOL" -> PushScalar(r, BoolV(i.n # 0), "syntax")
      [] i.op \in FastLoads -> FastLoad(i, r)
      [] i.op \in Arithmetic \cup Comparisons -> FastBinary(i, r)
      [] i.op \in UnaryOps \ {"NOT", "CALL_UNARY"} ->
           FastPop(r, 1, LAMBDA args, q : PushNumber(q, UnaryDouble(i.op, args[1])))
      [] i.op = "CLAMP" -> FastPop(r, 3, LAMBDA args, q : PushNumber(q, ClampOp(args)))
      [] i.op \in NativeCalls -> FastNative(i, r, reg)
      [] i.op = "CALL_FUNC" -> FastCall(i, r, reg)
      [] i.op = "JUMP" -> Go(r, i.n)
      [] OTHER -> Halt(r, "syntax")

(* One instruction of cxpr_ir_exec_scalar_fast: NaN is neither equal to zero nor
   a reason to skip a branch. *)
ScalarStep(t, i, r, reg) ==
    CASE i.op = "NOT" ->
           FastPop(r, 1, LAMBDA args, q : PushNumber(q, Num(IF args[1] = Num(0) THEN 1 ELSE 0)))
      [] i.op \in CondJumps ->
           FastPop(r, 1, LAMBDA args, q :
               IF (args[1] # Num(0)) = (i.op = "JUMP_IF_TRUE") THEN Go(q, i.n) ELSE Next1(q))
      [] i.op = "CALL_DEFINED" -> ScalarDefined(t, i, r)
      [] i.op = "RETURN" -> IF Len(r.st) # 1 THEN Halt(r, "syntax") ELSE Return(r, r.st[1])
      [] OTHER -> FastStep(i, r, reg)

(* One instruction of cxpr_ir_exec_bool_fast *)
BoolStep(t, i, r, reg) ==
    LET empty == r.bs = <<>>
        top == Last(r.bs)
    IN  CASE i.op = "NOT" ->
               IF empty THEN OutOfBounds(r) ELSE Next1([r EXCEPT !.bs = Front(@) \o <<~top>>])
          [] i.op \in CondJumps ->
               IF empty THEN OutOfBounds(r)
               ELSE IF top = (i.op = "JUMP_IF_TRUE") THEN Go([r EXCEPT !.bs = Front(@)], i.n)
               ELSE Next1([r EXCEPT !.bs = Front(@)])
          [] i.op = "CALL_DEFINED" -> BoolDefined(t, i, r, reg)
          [] i.op = "RETURN" ->
               IF r.st # <<>> \/ Len(r.bs) # 1 THEN Halt(r, "syntax") ELSE Return(r, BoolV(r.bs[1]))
          [] OTHER -> FastStep(i, r, reg)

(* What the tree evaluator returns for the instruction, if it asks it: for the
   operand of CALL_AST, for a call, or for the fields of a record function. *)
Outcome(kind, i, f, bound, q, done) ==
    IF kind # "ast" /\ Refused(f, Tops(q.st, i.n), bound) # ""
    THEN Fail([q EXCEPT !.st = Without(@, i.n)], Refused(f, Tops(q.st, i.n), bound))
    ELSE IF kind = "record" THEN RecordMade(f, [q EXCEPT !.st = Without(@, i.n)], done)
    ELSE done.s

TreeAsked(kind, i, f, bound, r, reg) ==
    Outcome(kind, i, f, bound, r,
            EvalBodies(kind = "defined", IF kind = "record" THEN f.rbodies ELSE <<i.a>>, reg,
                       IF kind = "ast" THEN r
                       ELSE IF kind = "defined" THEN [r EXCEPT !.st = Without(@, i.n)]
                       ELSE Push([r EXCEPT !.st = Without(@, i.n)], bound.frame), <<>>))

TreeOutcome(i, r, reg) ==
    LET f == FnOf(reg, i.p[1])
    IN  TreeAsked(IF i.op = "CALL_AST" THEN "ast" ELSE f.kind, i, f,
                  BoundRecord(f, i.a, Tops(r.st, i.n), [r EXCEPT !.st = Without(@, i.n)]), r, reg)

(* One instruction, t being the tree evaluator's outcome. *)
StepWith(t, i, r, reg) ==
    CASE r.mode = "typed" -> TypedStep(t, i, r, reg)
      [] r.mode = "scalar" -> ScalarStep(t, i, r, reg)
      [] r.mode = "bool" -> BoolStep(t, i, r, reg)

ExecStep(r, reg) ==
    LET i == r.code[r.ip]
    IN  IF r.ip > Len(r.code) THEN Halt(r, "syntax") ELSE StepWith(TreeOutcome(i, r, reg), i, r, reg)

RECURSIVE ToEnd(_, _)
ToEnd(r, reg) == IF r.done THEN r ELSE With(ExecStep(r, reg), LAMBDA q : ToEnd(q, reg))

Exec(mode, code, loc, reg, s) == ToEnd(Run(mode, code, loc, s), reg)

-----------------------------------------------------------------------------
(***************************************************************************)
(* The ways to evaluate an expression: a compiled program (src/ir/exec/    *)
(* api.c, src/ir/program.c) and the entry points over a tree (src/eval/    *)
(* api.c), with the shortcut for numbers.                                  *)
(*                                                                         *)
(* The state of an evaluation gets two parts more: prep, the programs that *)
(* entries of defined functions hold (entry->defined_program, or its       *)
(* failure), and ok, what the shortcut returns.                            *)
(***************************************************************************)

StartCall(ctx, prep) ==
    [v |-> NaN, e |-> "", m |-> MemoOff, x |-> ctx, ok |-> TRUE, prep |-> prep, ub |-> FALSE]

(* An execution's outcome in the state of the caller. *)
Took(s, r) == [s EXCEPT !.v = r.v, !.e = r.e, !.m = r.m, !.x = r.x, !.ub = @ \/ r.ub]

-----------------------------------------------------------------------------
(* Compiled programs (src/ir/exec/api.c) *)

(* cxpr_expr_compile: checked, then compiled; [code, kind, e]. *)
ExprCompile(ast, reg) ==
    IF Typechecks(ast, reg) THEN Compile(ast, reg, <<>>)
    ELSE [code |-> <<>>, kind |-> "unknown", e |-> "type", at |-> <<>>]

(* cxpr_ir_prepare_defined_program: compiled once, failure remembered. *)
PrepareDefined(name, reg, s) ==
    LET f == FnOf(reg, name)
    IN  IF ~ScalarOnly(f) \/ name \in DOMAIN s.prep THEN s
        ELSE [s EXCEPT !.prep = [n \in DOMAIN @ \cup {name} |->
                IF n = name THEN Compile(f.body, reg, f.params) ELSE @[n]]]

Prepared(name, reg, s) ==
    ScalarOnly(FnOf(reg, name)) /\ name \in DOMAIN s.prep /\ s.prep[name].e = ""

NumberOnly(s) == IF Failed(s) THEN s ELSE IF s.v.t # "num" THEN Fail(s, "type") ELSE s

(* The executors tried in this order until one succeeds; err is reset by each.
   When all fail, the error of the last but one stays. *)
RECURSIVE Attempt(_, _, _, _, _)
Attempt(modes, prog, loc, reg, s) ==
    With(Took(s, Exec(Head(modes), prog.code, loc, reg, s)),
         LAMBDA r : IF ~Failed(r) THEN r
                    ELSE IF Len(modes) > 1 THEN Attempt(Tail(modes), prog, loc, reg, r)
                    ELSE IF Failed(s) THEN s ELSE r)

(* cxpr_ir_exec_with_locals, cxpr_ir_exec *)
ExecWithLocals(prog, loc, reg, s) ==
    NumberOnly(Attempt(<<IF prog.kind = "double" THEN "scalar" ELSE "typed">>, prog, loc, reg,
                       [s EXCEPT !.e = ""]))

(* cxpr_ir_program_is_bare_identifier *)
BareIdentifier(code) == Len(code) = 2 /\ code[1].op = "LOAD_VAR" /\ code[2].op = "RETURN"

(* cxpr_expr_compiled_eval_value, cxpr_expr_compiled_eval: a failed fast run is
   tried again with types; the error of the fast run stays when both fail. *)
Modes(prog) ==
    CASE prog.kind = "double" /\ BareIdentifier(prog.code) -> <<"typed", "scalar", "typed">>
      [] prog.kind = "double" /\ ~BareIdentifier(prog.code) -> <<"scalar", "typed">>
      [] prog.kind = "bool" -> <<"bool">>
      [] prog.kind = "unknown" -> <<"typed">>

CompiledValue(prog, reg, s) == Attempt(Modes(prog), prog, <<>>, reg, s)

(* cxpr_expr_compiled_eval_number *)
CompiledNumber(prog, reg, s) ==
    NumberOnly(Attempt(IF prog.kind = "double" THEN <<"scalar">> ELSE Modes(prog), prog, <<>>, reg, s))

(* cxpr_expr_compiled_eval_bool *)
CompiledBool(prog, reg, s) ==
    With(CompiledValue(prog, reg, s),
         LAMBDA r : IF Failed(r) THEN r ELSE IF r.v.t # "bool" THEN Fail(r, "type") ELSE r)

-----------------------------------------------------------------------------
(* The shortcut for numbers (src/eval/api.c).  ok is what it returns: FALSE
   sends the caller to the tree evaluator.  err stays set while the operands
   behind the failed one are evaluated. *)

No(s) == [s EXCEPT !.ok = FALSE]
Yes(s, value) == [s EXCEPT !.ok = TRUE, !.v = value]
YesFail(s, code) == [s EXCEPT !.ok = TRUE, !.v = NaN, !.e = code]
YesFound(s, value) == IF Found(value) THEN Yes(s, value) ELSE YesFail(s, "unknown_id")
IfOk(s, F(_)) == IF s.ok THEN F(s) ELSE s

(* CXPR_NODE_IDENTIFIER: numbers and bools of the context; with a scope, the
   number it resolves to.  The slot a node remembers of a context without a
   parent (cxpr_eval_root_slot_cached_number) is left out here and in FastParam:
   the cell is read anew by every evaluation, and the context of a case keeps its
   address while the version that guards the slot changes with every new name. *)
FastIdentifier(ast, s) ==
    LET direct == GetPrehashed(s.x, ast.p)
        has_bools == \E k \in DOMAIN s.x[1] : k[1] = "bools"
    IN  IF HasScope(s.x) \/ (has_bools /\ ~Found(direct)) THEN YesFound(s, GetNumber(s.x, ast.p))
        ELSE YesFound(s, direct)

(* CXPR_NODE_VARIABLE: a typed parameter where the name is one of a struct. *)
FastParam(ast, s) ==
    LET typed == IF Len(ast.p) > 1 \/ Found(GetStruct(s.x, ast.p)) THEN GetParamTyped(s.x, ast.p)
                 ELSE Missing
    IN  IF Found(typed) THEN IF typed.t = "num" THEN Yes(s, typed) ELSE No(s)
        ELSE YesFound(s, GetParam(s.x, ast.p))

RECURSIVE NumberFast(_, _, _), BoolFast(_, _, _), FastArgs(_, _, _, _)

(* The arguments, up to one the shortcut leaves or one that fails. *)
FastArgs(args, reg, s, vs) ==
    IF args = <<>> THEN [s |-> s, vs |-> vs, all |-> TRUE]
    ELSE With(NumberFast(Head(args), reg, s),
              LAMBDA r : IF ~r.ok \/ Failed(r) THEN [s |-> r, vs |-> vs, all |-> FALSE]
                         ELSE FastArgs(Tail(args), reg, r, Append(vs, r.v)))

(* cxpr_eval_bool_fast *)
BoolFast(ast, reg, s) ==
    LET stop(l) == l.v.v = (IF ast.s = "or" THEN 1 ELSE 0)
    IN  CASE ast.k = "bool" -> Yes(s, BoolV(ast.n = 1))
          [] ast.k = "un" /\ ast.s = "not" ->
               With(BoolFast(ast.a[1], reg, s), LAMBDA r : IfOk(r, LAMBDA q : Yes(q, BoolV(q.v.v = 0))))
          [] ast.k = "bin" /\ ast.s \in {"and", "or"} ->
               With(BoolFast(ast.a[1], reg, s),
                    LAMBDA l : IF ~l.ok \/ stop(l) THEN l ELSE BoolFast(ast.a[2], reg, l))
          [] ast.k = "bin" /\ ast.s \in CmpOps \cup {"==", "!="} ->
               With(NumberFast(ast.a[1], reg, s), LAMBDA l : IfOk(l, LAMBDA p :
                    With(NumberFast(ast.a[2], reg, p), LAMBDA r : IfOk(r, LAMBDA q :
                         Yes(q, Double(ast.s, l.v, q.v))))))
          [] OTHER -> No(s)

(* The outcome of a call, memoised if it succeeded. *)
Memoised(ast, r) ==
    [r EXCEPT !.ok = TRUE, !.m = IF Failed(r) THEN @ ELSE MemoSet(@, ast, r.v)]

(* Mutant: the arguments are bound last to first. *)
RunPreparedReversed(q, ast, values, reg) ==
    IF ~Prepared(ast.s, reg, q) THEN No([q EXCEPT !.e = ""])
    ELSE Memoised(ast, ExecWithLocals(q.prep[ast.s], Reverse(values), reg, q))

RunPrepared(q, ast, values, reg) ==
    IF ~Prepared(ast.s, reg, q) THEN No([q EXCEPT !.e = ""])
    ELSE Memoised(ast, ExecWithLocals(q.prep[ast.s], values, reg, q))

(* A call of a defined function: its prepared program, run in the context of
   the caller.  An error among the arguments is dropped and the tree takes over;
   without arguments the program's run resets it. *)
FastDefined(ast, args, reg) ==
    IF args.all THEN RunPrepared(PrepareDefined(ast.s, reg, args.s), ast, args.vs, reg)
    ELSE IF Failed(args.s) /\ args.s.ok THEN No([args.s EXCEPT !.e = ""])
    ELSE args.s

(* A call whose arguments the shortcut has taken, or has not. *)
FastCalled(f, ast, args, reg) ==
    IF f.kind = "defined" THEN FastDefined(ast, args, reg)
    ELSE IF ~args.all THEN IF args.s.ok THEN Ok(args.s, NaN) ELSE args.s
    ELSE IF f.kind = "record" THEN No(args.s)
    ELSE Memoised(ast, Ok(args.s, Apply(f, args.vs)))

(* CXPR_NODE_FUNCTION_CALL *)
FastFunctionCall(ast, reg, s) ==
    LET f == FnOf(reg, ast.s)
        known == MemoGet(s.m, ast)
    IN  IF NamedArgs(ast) \/ ~HasFn(reg, ast.s) THEN No(s)
        ELSE IF f.handler \/ f.kind \in {"ast", "producer", "fields", "value", "typed"} THEN No(s)
        ELSE IF ~ArityOk(f, Len(ast.a)) THEN YesFail(s, "arity")
        ELSE IF Found(known) THEN IF known.t = "num" THEN Yes(s, known) ELSE No(s)
        ELSE IF f.kind = "defined" /\ (Len(ast.a) # Len(f.params) \/ ~ScalarOnly(f)) THEN No(s)
        ELSE FastCalled(f, ast, FastArgs(ast.a, reg, s, <<>>), reg)

(* cxpr_eval_number_fast *)
NumberFast(ast, reg, s) ==
    CASE ast.k = "num" -> Yes(s, Num(ast.n))
      [] ast.k = "id" -> FastIdentifier(ast, s)
      [] ast.k = "par" -> FastParam(ast, s)
      [] ast.k = "un" /\ ast.s = "-" ->
           With(NumberFast(ast.a[1], reg, s),
                LAMBDA r : IfOk(r, LAMBDA q : Yes(q, [q.v EXCEPT !.v = -@])))
      [] ast.k = "bin" /\ ast.s \in ArithOps \cup {"%", "^"} ->
           With(NumberFast(ast.a[1], reg, s), LAMBDA l : IfOk(l, LAMBDA p :
                With(NumberFast(ast.a[2], reg, p), LAMBDA r : IfOk(r, LAMBDA q :
                     IF ast.s \in {"/", "%"} /\ q.v = Num(0) THEN YesFail(q, "div0")
                     ELSE Yes(q, Double(ast.s, l.v, q.v))))))
      [] ast.k = "ter" ->
           With(BoolFast(ast.a[1], reg, s), LAMBDA c : IfOk(c, LAMBDA q :
                NumberFast(IF q.v.v = 1 THEN ast.a[2] ELSE ast.a[3], reg, q)))
      [] ast.k = "prd" ->
           IF ~HasFn(reg, ast.s) \/ FnOf(reg, ast.s).kind # "producer" \/ FnOf(reg, ast.s).handler
              \/ NamedArgs(ast)
           THEN No(s)
           ELSE With(Node(ast, reg, s), LAMBDA r :
                     IF Failed(r) THEN Yes(r, NaN)
                     ELSE IF r.v.t \in {"num", "bool"} THEN Yes(r, Num(r.v.v)) ELSE No(r))
      [] ast.k = "call" -> FastFunctionCall(ast, reg, s)
      [] OTHER -> No(s)

-----------------------------------------------------------------------------
(* cxpr_eval_ast_number and its program cached in the tree *)

RECURSIVE SafeToCompile(_, _, _), AllSafe(_, _, _)

(* cxpr_eval_ast_auto_compile_safe: [s, safe]; it prepares the programs of the
   defined functions it meets. *)
SafeToCompile(ast, reg, s) ==
    LET f == FnOf(reg, ast.s)
        unsafe == [s |-> s, safe |-> FALSE]
        body(q) == IF ~Prepared(ast.s, reg, q) THEN [s |-> q, safe |-> FALSE]
                   ELSE SafeToCompile(f.body, reg, q)
    IN  CASE ast.k \in {"num", "bool", "id", "par"} -> [s |-> s, safe |-> TRUE]
          [] ast.k \in {"un", "bin", "ter"} -> AllSafe(ast.a, reg, s)
          [] ast.k = "call" ->
               IF NamedArgs(ast) \/ ~HasFn(reg, ast.s) THEN unsafe
               ELSE IF ~ArityOk(f, Len(ast.a)) \/ f.handler THEN unsafe
               ELSE IF f.kind \in {"ast", "producer", "fields", "value", "typed", "sync"} THEN unsafe
               ELSE IF f.kind # "defined" THEN AllSafe(ast.a, reg, s)
               ELSE With(body(PrepareDefined(ast.s, reg, s)),
                         LAMBDA r : IF r.safe THEN AllSafe(ast.a, reg, r.s) ELSE r)
          [] OTHER -> unsafe

AllSafe(asts, reg, s) ==
    IF asts = <<>> THEN [s |-> s, safe |-> TRUE]
    ELSE With(SafeToCompile(Head(asts), reg, s),
              LAMBDA r : IF r.safe THEN AllSafe(Tail(asts), reg, r.s) ELSE r)

(* The compiled program of a tree that is safe; any failure sends the caller on. *)
RunNumber(prog, reg, s) == IF prog.e # "" THEN Fail(s, prog.e) ELSE CompiledNumber(prog, reg, s)
ByProgram(ast, reg, r) ==
    IF r.safe THEN RunNumber(ExprCompile(ast, reg), reg, r.s) ELSE Fail(r.s, "unsafe")

(* The tree evaluator for what the shortcut leaves. *)
OrTree(ast, reg, m, r) ==
    IF r.ok THEN [r EXCEPT !.m = m]
    ELSE NumberOnly(EvalValue(ast, reg, [r EXCEPT !.m = m, !.ok = TRUE]))
OrFast(ast, reg, c) ==
    IF ~Failed(c) THEN c
    ELSE OrTree(ast, reg, c.m,
                NumberFast(ast, reg, [c EXCEPT !.e = "", !.m = IF @.on THEN @ ELSE MemoOn]))

(* cxpr_eval_ast_number.  The program is compiled anew for every version of the
   registry, so that its cache is not seen here. *)
EvalNumber(ast, reg, s) ==
    OrFast(ast, reg, ByProgram(ast, reg, SafeToCompile(ast, reg, [s EXCEPT !.e = ""])))

(* cxpr_eval_ast_bool *)
EvalBool(ast, reg, s) ==
    IF ~IsBoolType(TypeOf(ast, reg)) THEN Fail(s, "type")
    ELSE With(EvalValue(ast, reg, s),
              LAMBDA r : IF Failed(r) THEN r ELSE IF r.v.t # "bool" THEN Fail(r, "type") ELSE r)

-----------------------------------------------------------------------------
(* Evaluation at an offset into the past *)

(* cxpr_eval_ast_at_lookback at a literal index that is not negative: a
   capability of an identifier; the resolver; a capability of another target.
   Unhandled if none of them answers. *)
AtLookback(ast, index, reg, s) ==
    LET owner == Capability(reg, ast)
        resolved == IF reg.resolver THEN HostLookback(reg, ast, NumLit(index)) ELSE Unhandled
        hosted == IF owner = "clash" THEN Fail(s, "type") ELSE Ok(s, HostIndex(ast, index))
    IN  IF ast.k = "id" /\ owner # "" THEN hosted
        ELSE IF resolved = Unhandled /\ owner # "" THEN hosted
        ELSE IF resolved = Unhandled /\ SimpleTarget(ast) THEN Fail(s, "syntax")
        ELSE Ok(s, resolved)

(* The offset moved to the names; else what the host answered; else the
   expression as it is now.  The offset pending meanwhile
   (g_eval_lookback_offset) is added where an AST function of the host evaluates
   an argument at an offset, which is external here (Series models it), and
   sends calls past the memo, which makes no difference to functions that depend
   on nothing but their arguments.  The index nodes of the tree do not see it. *)
OffsetResult(shift, asked, ast, offset, reg, s) ==
    IF shift /\ ~Typechecks(ApplyOffset(ast, offset), reg) THEN Fail(s, "type")
    ELSE IF ~shift /\ (Failed(asked) \/ asked.v # Unhandled) THEN asked
    ELSE EvalValue(IF shift THEN ApplyOffset(ast, offset) ELSE ast, reg, s)

(* cxpr_eval_at_offset: names and calls with a resolver as a unit, any other
   expression with the offset moved to its names. *)
AtOffset(ast, offset, reg, s) ==
    IF offset < 0 THEN Fail(s, "syntax")
    ELSE OffsetResult(offset # 0 /\ ~SimpleTarget(ast) /\ ~(reg.resolver /\ ast.k = "call"),
                      AtLookback(ast, offset, reg, s), ast, offset, reg, s)

(* cxpr_eval_ast_number_at_offset, cxpr_eval_ast_bool_at_offset *)
NumberAtOffset(ast, offset, reg, s) == NumberOnly(AtOffset(ast, offset, reg, s))

BoolAtOffset(ast, offset, reg, s) ==
    IF ~IsBoolType(TypeOf(ast, reg)) THEN Fail(s, "type")
    ELSE With(AtOffset(ast, offset, reg, s),
              LAMBDA r : IF Failed(r) THEN r ELSE IF r.v.t # "bool" THEN Fail(r, "type") ELSE r)
=============================================================================
