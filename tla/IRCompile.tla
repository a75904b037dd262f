------------------------------ MODULE IRCompile ------------------------------
(***************************************************************************)
(* The IR compiler: src/ir/program.c (constants), src/ir/compile.c,        *)
(* src/ir/compile/node.c, shared.c, infer.c, and the validators of         *)
(* src/ir/validate.c.                                                      *)
(*                                                                         *)
(* An instruction is [op, n, p, q, a]: its opcode; the number it pushes,   *)
(* the arguments it takes, its slot or its target; the name it loads or    *)
(* calls; a field; and the tree it carries (the payload of a call is the   *)
(* key of the memo).  Instructions are numbered from 1.                    *)
(*                                                                         *)
(* A compilation is [code, e].  Its environment is [reg, locals, subst,    *)
(* depth]: subst is the stack of inlined calls, innermost first.           *)
(***************************************************************************)
EXTENDS ExprTree

(* The limits of src/limits.h and of the validators. *)
CONSTANTS
    InlineDepthLimit,   \* CXPR_IR_INLINE_DEPTH_LIMIT
    InferDepthLimit,    \* CXPR_IR_INFER_DEPTH_LIMIT
    StackCapacity,      \* CXPR_IR_STACK_CAPACITY
    MaxFastCode,        \* instructions a validator looks at (256)
    MaxFastArgs         \* arguments of a call it accepts (32)

ASSUME LimitsAssumption ==
    /\ InlineDepthLimit \in Nat
    /\ InferDepthLimit \in Nat
    /\ StackCapacity \in Nat \ {0}
    /\ MaxFastCode \in Nat \ {0}
    /\ MaxFastArgs \in Nat

Instr(op) == [op |-> op, n |-> 0, p |-> <<>>, q |-> "", a |-> NoAst]
InstrN(op, n) == [Instr(op) EXCEPT !.n = n]
InstrP(op, path, ast) == [Instr(op) EXCEPT !.p = path, !.a = ast]
CallInstr(op, name, argc, ast) == [Instr(op) EXCEPT !.n = argc, !.p = <<name>>, !.a = ast]
AstInstr(ast) == [Instr("CALL_AST") EXCEPT !.a = ast]

-----------------------------------------------------------------------------
(* Constant folding (src/ir/program.c) *)

RECURSIVE Constant(_, _)

WholeIndex(x, n) == x.t = "num" /\ x # NaN /\ x.v >= 0 /\ x.v < n

RECURSIVE ConstantArray(_, _)

(* cxpr_ir_constant_array_value_ast: the literal that a path of constant
   indexes selects. *)
ConstantArray(ast, reg) ==
    IF ast.k = "arr" THEN ast
    ELSE IF ast.k # "idx" THEN NoAst
    ELSE LET target == ConstantArray(ast.a[1], reg)
             index == Constant(ast.a[2], reg)
         IN  IF target.k = "arr" /\ WholeIndex(index, Len(target.a)) THEN target.a[index.v + 1]
             ELSE NoAst

(* A literal offset on a target that is no array is dropped: a constant is the
   same at every sample. *)
ConstantIndex(ast, reg) ==
    LET target == ConstantArray(ast.a[1], reg)
        index == Constant(ast.a[2], reg)
        selected == Constant(target.a[index.v + 1], reg)
    IN  IF target.k = "arr"
        THEN IF WholeIndex(index, Len(target.a)) /\ selected.t \in {"num", "bool"} THEN selected
             ELSE Missing
        ELSE IF ast.a[2].k = "num" THEN Constant(ast.a[1], reg) ELSE Missing

(* Division by a constant zero is left to fail at run time. *)
ConstantBinary(op, l, r) ==
    IF op \in ArithOps \cup {"%", "^"}
    THEN IF l.t # "num" \/ r.t # "num" \/ (op \in {"/", "%"} /\ r = Num(0)) THEN Missing
         ELSE ArithmeticOp(op, l, r)
    ELSE IF op \in CmpOps
    THEN IF l.t # "num" \/ r.t # "num" THEN Missing ELSE NumericBinaryOp(op, l, r)
    ELSE IF op \in {"and", "or"}
    THEN IF l.t # "bool" \/ r.t # "bool" THEN Missing
         ELSE BoolV(IF op = "and" THEN l.v = 1 /\ r.v = 1 ELSE l.v = 1 \/ r.v = 1)
    ELSE IF l.t = r.t /\ l.t \in {"num", "bool", "string"} THEN EqualityOp(op, l, r)
    ELSE Missing

(* A function of numbers, called at compile time; a result that is not finite
   is not a constant. *)
ConstantCall(ast, reg) ==
    LET f == FnOf(reg, ast.s)
        args == [i \in DOMAIN ast.a |-> Constant(ast.a[i], reg)]
        value == Apply(f, args)
    IN  IF ~HasFn(reg, ast.s) THEN Missing
        ELSE IF f.kind \notin {"native", "sync"} \/ f.handler \/ ~ArityOk(f, Len(ast.a)) THEN Missing
        ELSE IF \E i \in DOMAIN args : args[i].t # "num" THEN Missing
        ELSE IF value = NaN THEN Missing ELSE value

(* A constant bool selects a branch; the other one need not be constant. *)
ConstantBranch(cond, yes, no, reg) ==
    LET c == Constant(cond, reg)
    IN  IF c.t # "bool" THEN Missing ELSE Constant(IF c.v = 1 THEN yes ELSE no, reg)

(* cxpr_ir_constant_typed_value *)
Constant(ast, reg) ==
    LET arg(i) == Constant(ast.a[i], reg)
    IN  CASE ast.k = "num" -> Num(ast.n)
          [] ast.k = "int" -> Int64(ast.n)
          [] ast.k = "bool" -> BoolV(ast.n = 1)
          [] ast.k = "str" -> Str(ast.s)
          [] ast.k = "idx" -> ConstantIndex(ast, reg)
          [] ast.k = "un" /\ ast.s = "-" -> IF arg(1).t = "num" THEN Num(-arg(1).v) ELSE Missing
          [] ast.k = "un" /\ ast.s = "not" ->
                IF arg(1).t = "bool" THEN BoolV(arg(1).v = 0) ELSE Missing
          [] ast.k = "bin" ->
                IF Found(arg(1)) /\ Found(arg(2)) THEN ConstantBinary(ast.s, arg(1), arg(2))
                ELSE Missing
          [] ast.k = "ter" -> ConstantBranch(ast.a[1], ast.a[2], ast.a[3], reg)
          [] ast.k = "call" /\ ~NamedArgs(ast) ->
                IF ast.s = "if" /\ Len(ast.a) = 3
                THEN ConstantBranch(ast.a[1], ast.a[2], ast.a[3], reg)
                ELSE ConstantCall(ast, reg)
          [] OTHER -> Missing

(* The numbers that constant arguments are; <<Missing>> if one is none. *)
Constants(args, reg) ==
    LET vs == SelectSeq([i \in DOMAIN args |-> Constant(args[i], reg)], LAMBDA x : x.t = "num")
    IN  IF Len(vs) = Len(args) THEN vs ELSE <<Missing>>

(* cxpr_ir_build_constant_producer_key *)
ConstantKey(name, args, reg) ==
    KeyOf(name, Constants(args, reg))

-----------------------------------------------------------------------------
(* The kind of result (src/ir/compile/infer.c) *)

RECURSIVE Infer(_, _, _)

(* A bool condition and two branches of one known kind. *)
InferBranch(c, x, y) == IF c = "bool" /\ x = y THEN x ELSE "unknown"

InferBinary(op, l, r) ==
    IF "unknown" \in {l, r} THEN "unknown"
    ELSE IF op \in {"and", "or"} THEN IF l = "bool" /\ r = "bool" THEN "bool" ELSE "unknown"
    ELSE IF op \in {"==", "!="} THEN IF l = r THEN "bool" ELSE "unknown"
    ELSE IF l # "double" \/ r # "double" THEN "unknown"
    ELSE IF op \in CmpOps THEN "bool" ELSE "double"

(* A call of numbers: what its function returns, or its body. *)
InferCall(ast, reg, depth) ==
    LET f == FnOf(reg, ast.s)
        all == \A i \in DOMAIN ast.a : Infer(ast.a[i], reg, depth + 1) = "double"
    IN  IF ~HasFn(reg, ast.s) THEN "unknown"
        ELSE IF f.kind \in {"ast", "fields", "producer", "typed", "record"} \/ ~all THEN "unknown"
        ELSE CASE f.kind \in {"native", "sync"} -> "double"
               [] f.kind = "value" -> IF f.ret = "bool" THEN "bool"
                                      ELSE IF f.ret = "num" THEN "double" ELSE "unknown"
               [] f.kind = "defined" -> IF ScalarOnly(f) THEN Infer(f.body, reg, depth + 1)
                                        ELSE "unknown"

(* cxpr_ir_infer_fast_result_kind *)
Infer(ast, reg, depth) ==
    LET arg(i) == Infer(ast.a[i], reg, depth + 1)
    IN  IF depth > InferDepthLimit THEN "unknown"
        ELSE CASE ast.k \in {"num", "id", "par"} -> "double"
               [] ast.k = "bool" -> "bool"
               [] ast.k = "un" -> IF arg(1) = (IF ast.s = "not" THEN "bool" ELSE "double")
                                  THEN arg(1) ELSE "unknown"
               [] ast.k = "bin" -> InferBinary(ast.s, arg(1), arg(2))
               [] ast.k = "ter" \/ (ast.k = "call" /\ ast.s = "if" /\ Len(ast.a) = 3) ->
                     InferBranch(arg(1), arg(2), arg(3))
               [] ast.k = "call" /\ ~(ast.s = "if" /\ Len(ast.a) = 3) -> InferCall(ast, reg, depth)
               [] OTHER -> "unknown"

-----------------------------------------------------------------------------
(* Emitting code *)

(* F of a compilation that has not failed. *)
AndThen(c, F(_)) == With(c, LAMBDA d : IF d.e # "" THEN d ELSE F(d))

(* cxpr_ir_emit, cxpr_ir_patch_target to the next instruction *)
Emit(c, instr) == [c EXCEPT !.code = Append(@, instr)]
Patch(c, at) == [c EXCEPT !.code[at].n = Len(c.code) + 1]
CompileError(c, code) == [c EXCEPT !.e = code]

(* cxpr_ir_subst_lookup: the innermost inlined call with this parameter; its
   argument is compiled in the calls around that one. *)
SubstFrame(subst, name) ==
    LET at == {i \in DOMAIN subst : \E j \in DOMAIN subst[i].names : subst[i].names[j] = name}
    IN  IF at = {} THEN 0 ELSE CHOOSE i \in at : \A j \in at : i <= j
SubstArg(frame, name) ==
    LET at == {j \in DOMAIN frame.names : frame.names[j] = name}
    IN  frame.args[CHOOSE j \in at : \A k \in at : j <= k]
Outside(env, i) == [env EXCEPT !.subst = SubSeq(@, i + 1, Len(@))]

(* cxpr_ir_local_index; 0 if there is none. *)
LocalIndex(env, name) ==
    LET at == {i \in DOMAIN env.locals : env.locals[i] = name}
    IN  IF at = {} THEN 0 ELSE CHOOSE i \in at : \A j \in at : i <= j

RECURSIVE CompileNode(_, _, _)

RECURSIVE CompileEach(_, _, _)
CompileEach(asts, env, c) ==
    IF asts = <<>> THEN c
    ELSE AndThen(CompileNode(Head(asts), env, c), LAMBDA d : CompileEach(Tail(asts), env, d))

(* The arguments, then the instruction that takes them. *)
CompileArgs(asts, instr, env, c) == AndThen(CompileEach(asts, env, c), LAMBDA d : Emit(d, instr))

RECURSIVE LeafLoad(_, _, _)

(* cxpr_ir_emit_leaf_load of a square: NoInstr if the tree is no leaf. *)
NoInstr == Instr("")
LeafLoad(ast, env, square) ==
    LET op(name) == IF square THEN name \o "_SQUARE" ELSE name
        at == SubstFrame(env.subst, ast.s)
        local == LocalIndex(env, ast.s)
    IN  CASE ast.k = "id" /\ at # 0 -> LeafLoad(SubstArg(env.subst[at], ast.s), Outside(env, at), square)
          [] ast.k = "id" /\ at = 0 /\ local # 0 -> InstrN(op("LOAD_LOCAL"), local)
          [] ast.k = "id" /\ at = 0 /\ local = 0 -> InstrP(op("LOAD_VAR"), ast.p, NoAst)
          [] ast.k = "par" -> InstrP(op("LOAD_PARAM"), ast.p, NoAst)
          [] ast.k = "fld" -> InstrP(op("LOAD_FIELD"), ast.p, NoAst)
          [] OTHER -> NoInstr

(* An identifier: an argument of an inlined call, a local, or a variable. *)
CompileIdentifier(ast, env, c) ==
    LET at == SubstFrame(env.subst, ast.s)
        local == LocalIndex(env, ast.s)
    IN  IF at # 0 THEN CompileNode(SubstArg(env.subst[at], ast.s), Outside(env, at), c)
        ELSE Emit(c, IF local # 0 THEN InstrN("LOAD_LOCAL", local) ELSE InstrP("LOAD_VAR", ast.p, ast))

(* A field of an expression. *)
CompileFieldOf(ast, env, c) ==
    LET base == ast.a[1]
    IN  IF base.k = "call" /\ HasFn(env.reg, base.s) /\ FnOf(env.reg, base.s).handler
        THEN Emit(c, AstInstr(ast))
        ELSE CompileArgs(<<base>>, InstrP("GET_FIELD", <<ast.s>>, NoAst), env, c)

(* A producer and the field in one instruction when its arguments are constant;
   else the call, then the field of its result. *)
CompileBoundProducer(f, ast, args, values, env, c) ==
    LET n == Len(args)
        get == InstrP("GET_FIELD", <<ast.p[1]>>, NoAst)
        call == IF f.kind = "record" THEN CallInstr("CALL_DEFINED", ast.s, n, ast)
                ELSE CallInstr("CALL_PRODUCER", ast.s, n, NoAst)
        whole == [InstrP("CALL_PRODUCER_CONST_FIELD", <<ast.s>> \o KeyOf(ast.s, values),
                         ArrLit([i \in 1 .. n |-> NumLit(values[i].v)]))
                  EXCEPT !.n = n, !.q = ast.p[1]]
    IN  IF f.kind = "producer" /\ values # <<Missing>> THEN Emit(c, whole)
        ELSE AndThen(CompileArgs(args, call, env, c), LAMBDA d : Emit(d, get))

(* A field of a producer or of a function that returns a record. *)
CompileProducer(ast, env, c) ==
    LET f == FnOf(env.reg, ast.s)
        bound == BindArgs(ast, f)
    IN  IF HasFn(env.reg, ast.s) /\ f.handler THEN Emit(c, AstInstr(ast))
        ELSE IF ~HasFn(env.reg, ast.s) THEN CompileError(c, "unknown_fn")
        ELSE IF f.kind \notin {"producer", "record"} THEN CompileError(c, "unknown_fn")
        ELSE IF bound.code # "" THEN CompileError(c, bound.code)
        ELSE CompileBoundProducer(f, ast, bound.args, Constants(bound.args, env.reg), env, c)

(* cxpr_ir_index_has_literal_array_base *)
RECURSIVE LiteralArrayBase(_)
LiteralArrayBase(ast) ==
    IF ast.k = "idx" THEN LiteralArrayBase(ast.a[1]) ELSE ast.k = "arr"

(* cxpr_ir_simple_lookback_target *)
SimpleLookback(ast) == ast.k \in {"id", "fld", "fof", "chn", "prd"}

(* CXPR_NODE_INDEX: an element of an array literal, or a lookback by the sum of
   literal offsets; any other index is left to the tree. *)
CompileIndex(ast, env, c) ==
    LET flat == Flatten(ast.a[1], ast.a[2].n)
        offset == flat.i.n
    IN  IF LiteralArrayBase(ast.a[1]) THEN CompileArgs(ast.a, Instr("INDEX"), env, c)
        ELSE IF ast.a[2].k # "num" THEN Emit(c, AstInstr(ast))
        ELSE IF ~SimpleLookback(flat.t)
        THEN Emit(c, [InstrN("LOOKBACK_RESOLVE", offset) EXCEPT !.a = flat.t])
        ELSE AndThen(CompileNode(flat.t, env, Emit(c, InstrN("LOOKBACK_PUSH", offset))),
                     LAMBDA d : Emit(d, Instr("LOOKBACK_POP")))

(* cond, JUMP_IF_FALSE no, yes, JUMP end, no: ..., end: *)
CompileBranch(cond, yes, no, env, c) ==
    AndThen(CompileNode(cond, env, c), LAMBDA c1 :
    AndThen(CompileNode(yes, env, Emit(c1, Instr("JUMP_IF_FALSE"))), LAMBDA c2 :
    AndThen(CompileNode(no, env, Patch(Emit(c2, Instr("JUMP")), Len(c1.code) + 1)), LAMBDA c3 :
        Patch(c3, Len(c2.code) + 1))))

(* The opcode of a built-in function, whatever is registered under its name. *)
Intrinsic(name, n) ==
    LET ops == [sqrt |-> "SQRT", abs |-> "ABS", sign |-> "SIGN", floor |-> "FLOOR",
                ceil |-> "CEIL", round |-> "ROUND", pow |-> "POW", clamp |-> "CLAMP"]
        arity == [f \in DOMAIN ops |-> CASE f = "pow" -> 2 [] f = "clamp" -> 3 [] OTHER -> 1]
    IN  IF name \in DOMAIN ops THEN IF arity[name] = n THEN ops[name] ELSE "" ELSE ""

(* cxpr_ir_is_special_builtin_name *)
SpecialBuiltin(name) ==
    name \in {"if", "sqrt", "abs", "pow", "sign", "floor", "ceil", "round", "clamp"}

RECURSIVE ContainsString(_)

(* cxpr_ir_ast_contains_string_literal *)
ContainsString(ast) ==
    \/ ast.k = "str"
    \/ ast.k \in {"bin", "un", "call", "prd", "idx", "ter"} /\ \E i \in DOMAIN ast.a : ContainsString(ast.a[i])

RECURSIVE ReadsRuntime(_)

(* cxpr_ir_arg_needs_catchor_passthrough *)
ReadsRuntime(ast) ==
    \/ ast.k \in {"id", "fld", "fof", "chn", "call", "prd", "idx"}
    \/ ast.k \in {"bin", "un", "ter"} /\ \E i \in DOMAIN ast.a : ReadsRuntime(ast.a[i])

RECURSIVE NeedsAstEval(_, _, _)

(* cxpr_ir_defined_body_needs_ast_eval *)
NeedsAstEval(ast, reg, depth) ==
    LET f == FnOf(reg, ast.s)
        known == ast.k = "call" /\ HasFn(reg, ast.s)
    IN  /\ depth <= InlineDepthLimit
        /\ \/ known /\ (f.kind = "ast" \/ f.handler)
           \/ known /\ f.kind = "defined" /\ NeedsAstEval(f.body, reg, depth + 1)
           \/ \E i \in DOMAIN ast.a : NeedsAstEval(ast.a[i], reg, depth)

(* cxpr_ir_defined_call_can_inline *)
CanInline(f, argc, reg) ==
    /\ f.kind = "defined"
    /\ argc = Len(f.params)
    /\ ~NeedsAstEval(f.body, reg, 0)
    /\ ScalarOnly(f)

(* cxpr_ir_emit_defined_direct_field_call: a body p.f of an identifier. *)
DirectFieldInstr(f, args) ==
    LET at == {i \in DOMAIN f.params : f.params[i] = f.body.p[1]}
        i == CHOOSE j \in at : \A k \in at : j <= k
    IN  IF f.body.k \notin {"fld", "chn"} \/ Len(f.body.p) # 2 THEN NoInstr
        ELSE IF at = {} THEN NoInstr
        ELSE IF i > Len(args) THEN NoInstr
        ELSE IF args[i].k # "id" THEN NoInstr
        ELSE [Instr("LOAD_NAMED_FIELD") EXCEPT !.p = <<args[i].s>>, !.q = f.body.p[2]]

(* A function written as an expression. *)
CompileDefined(f, ast, env, c) ==
    LET direct == DirectFieldInstr(f, ast.a)
        frame == [names |-> f.params, args |-> ast.a]
        call == CallInstr("CALL_DEFINED", ast.s, Len(ast.a), ast)
    IN  IF f.kind = "defined" /\ direct # NoInstr THEN Emit(c, direct)
        ELSE IF f.kind = "record" THEN CompileArgs(ast.a, call, env, c)
        ELSE IF ~CanInline(f, Len(ast.a), env.reg) THEN Emit(c, AstInstr(ast))
        ELSE IF env.depth < InlineDepthLimit
        THEN CompileNode(f.body, [env EXCEPT !.subst = <<frame>> \o @, !.depth = @ + 1], c)
        ELSE CompileArgs(ast.a, call, env, c)

(* The opcode of a call by the shape of a native function. *)
CallOp(f, n) ==
    IF f.kind = "native" /\ n = f.max /\ n \in 1 .. 3
    THEN <<"CALL_UNARY", "CALL_BINARY", "CALL_TERNARY">>[n] ELSE "CALL_FUNC"

(* A call of a producer, with the key of constant arguments. *)
ProducerInstr(name, n, key) ==
    IF key # NoKey THEN [InstrP("CALL_PRODUCER_CONST", <<name>> \o key, NoAst) EXCEPT !.n = n]
    ELSE CallInstr("CALL_PRODUCER", name, n, NoAst)

(* CXPR_NODE_FUNCTION_CALL *)
CompileCall(ast, env, c) ==
    LET f == FnOf(env.reg, ast.s)
        n == Len(ast.a)
        host == \/ ast.s \in {"min", "max"} /\ n \in 1 .. 8
                \/ f.kind \in {"native", "sync", "value", "typed"}
        op == IF ast.s \in {"min", "max"} /\ n \in 1 .. 8 THEN "CALL_FUNC" ELSE CallOp(f, n)
        passthrough == f.handler /\ (ContainsString(ast) \/ \E i \in 1 .. n : ReadsRuntime(ast.a[i]))
    IN  IF NamedArgs(ast) THEN Emit(c, AstInstr(ast))
        ELSE IF ast.s = "if" /\ n = 3 THEN CompileBranch(ast.a[1], ast.a[2], ast.a[3], env, c)
        ELSE IF ~HasFn(env.reg, ast.s)
        THEN IF SpecialBuiltin(ast.s) THEN Emit(c, AstInstr(ast)) ELSE CompileError(c, "unknown_fn")
        ELSE IF Intrinsic(ast.s, n) # "" THEN CompileArgs(ast.a, Instr(Intrinsic(ast.s, n)), env, c)
        ELSE IF f.kind = "ast" THEN Emit(c, AstInstr(ast))
        ELSE IF passthrough /\ ~(ast.s \in {"min", "max"} /\ n \in 1 .. 8) THEN Emit(c, AstInstr(ast))
        ELSE IF host THEN CompileArgs(ast.a, CallInstr(op, ast.s, n, ast), env, c)
        ELSE IF f.kind = "producer"
        THEN CompileArgs(ast.a, ProducerInstr(ast.s, n, ConstantKey(ast.s, ast.a, env.reg)), env, c)
        ELSE IF f.kind \in {"defined", "record"} THEN CompileDefined(f, ast, env, c)
        ELSE Emit(c, AstInstr(ast))

-----------------------------------------------------------------------------
(* Operators *)

(* and, or: a constant left operand (left) decides or disappears; otherwise the right
   one is evaluated only when the left one does not decide. *)
CompileLogical(ast, left, env, c) ==
    LET decides == IF ast.s = "or" THEN 1 ELSE 0
        jump == Instr(IF ast.s = "or" THEN "JUMP_IF_TRUE" ELSE "JUMP_IF_FALSE")
        push(n) == InstrN("PUSH_BOOL", n)
        (* and: ..., 1, JUMP end, F: 0; or: ..., 1, JUMP end, T: 1, JUMP end, F: 0 *)
        tail(c1, c2) ==
            LET first == Len(c1.code) + 1
                second == Len(c2.code) + 1
                d == Emit(Emit(Emit(c2, Instr("JUMP_IF_FALSE")), push(1)), Instr("JUMP"))
                end == Len(d.code)
                t == Emit(Emit(Patch(d, first), push(1)), Instr("JUMP"))
                endT == Len(t.code)
            IN  IF ast.s = "and" THEN Patch(Emit(Patch(Patch(d, first), second), push(0)), end)
                ELSE Patch(Patch(Emit(Patch(t, second), push(0)), end), endT)
    IN  IF left.t = "bool" /\ left.v = decides THEN Emit(c, push(decides))
        ELSE IF left.t = "bool" THEN CompileNode(ast.a[2], env, c)
        ELSE AndThen(CompileNode(ast.a[1], env, c), LAMBDA c1 :
             AndThen(CompileNode(ast.a[2], env, Emit(c1, jump)), LAMBDA c2 : tail(c1, c2)))

RECURSIVE HasKind(_, _)
HasKind(ast, kinds) == ast.k \in kinds \/ \E i \in DOMAIN ast.a : HasKind(ast.a[i], kinds)

(* Mutant: operands of one kind count as equal. *)
AstEqualKind(l, r) == l.k = r.k

(* cxpr_ir_ast_equal: strings, arrays and records equal nothing. *)
AstEqual(l, r) == l = r /\ ~HasKind(l, {"str", "arr", "rec"})

BinaryOpcode(op) ==
    CASE op = "+" -> "ADD" [] op = "-" -> "SUB" [] op = "*" -> "MUL" [] op = "/" -> "DIV"
      [] op = "%" -> "MOD" [] op = "^" -> "POW" [] op = "==" -> "CMP_EQ" [] op = "!=" -> "CMP_NEQ"
      [] op = "<" -> "CMP_LT" [] op = "<=" -> "CMP_LTE" [] op = ">" -> "CMP_GT" [] op = ">=" -> "CMP_GTE"

(* x * x evaluates x once. *)
CompileBinary(ast, env, c) ==
    LET leaf == LeafLoad(ast.a[1], env, TRUE)
    IN  IF ast.s \in {"and", "or"} THEN CompileLogical(ast, Constant(ast.a[1], env.reg), env, c)
        ELSE IF ast.s = "*" /\ AstEqual(ast.a[1], ast.a[2])
        THEN IF leaf # NoInstr THEN Emit(c, leaf)
             ELSE CompileArgs(<<ast.a[1]>>, Instr("SQUARE"), env, c)
        ELSE CompileArgs(ast.a, Instr(BinaryOpcode(ast.s)), env, c)

PushConstant(x) ==
    CASE x.t = "num" -> InstrN("PUSH_CONST", x.v)
      [] x.t = "bool" -> InstrN("PUSH_BOOL", x.v)
      [] x.t = "string" -> InstrP("PUSH_STRING", <<x.s>>, NoAst)

(* A tree whose constant value, if it has one, is x. *)
CompileNodeAs(x, ast, env, c) ==
    CASE x.t \in {"num", "bool", "string"} -> Emit(c, PushConstant(x))
      [] x.t \notin {"num", "bool", "string"} /\ ast.k = "int" -> Emit(c, InstrN("PUSH_INT64", ast.n))
      [] ast.k = "arr" -> CompileArgs(ast.a, InstrN("BUILD_ARRAY", Len(ast.a)), env, c)
      [] ast.k = "rec" -> Emit(c, AstInstr(ast))
      [] ast.k = "id" -> CompileIdentifier(ast, env, c)
      [] ast.k = "par" -> Emit(c, InstrP("LOAD_PARAM", ast.p, NoAst))
      [] ast.k = "fld" -> Emit(c, InstrP("LOAD_FIELD", ast.p, ast))
      [] ast.k = "chn" -> Emit(c, InstrP("LOAD_CHAIN", ast.p, ast))
      [] ast.k = "fof" -> CompileFieldOf(ast, env, c)
      [] ast.k = "prd" -> CompileProducer(ast, env, c)
      [] ~Found(x) /\ ast.k = "idx" -> CompileIndex(ast, env, c)
      [] ~Found(x) /\ ast.k = "call" -> CompileCall(ast, env, c)
      [] ~Found(x) /\ ast.k = "bin" -> CompileBinary(ast, env, c)
      [] ~Found(x) /\ ast.k = "un" ->
            CompileArgs(ast.a, Instr(IF ast.s = "not" THEN "NOT" ELSE "NEG"), env, c)
      [] ~Found(x) /\ ast.k = "ter" -> CompileBranch(ast.a[1], ast.a[2], ast.a[3], env, c)
      [] OTHER -> CompileError(c, "syntax")

(* cxpr_ir_compile_node *)
CompileNode(ast, env, c) == CompileNodeAs(Constant(ast, env.reg), ast, env, c)

-----------------------------------------------------------------------------
(* The validators (src/ir/validate.c) *)

Arithmetic == {"ADD", "SUB", "MUL", "DIV", "MOD", "POW"}
Comparisons == {"CMP_EQ", "CMP_NEQ", "CMP_LT", "CMP_LTE", "CMP_GT", "CMP_GTE"}
UnaryOps == {"SQUARE", "NEG", "SIGN", "SQRT", "ABS", "FLOOR", "CEIL", "ROUND", "CALL_UNARY"}
FastLoads == {"LOAD_LOCAL", "LOAD_LOCAL_SQUARE", "LOAD_VAR", "LOAD_VAR_SQUARE", "LOAD_PARAM",
              "LOAD_PARAM_SQUARE"}
CondJumps == {"JUMP_IF_FALSE", "JUMP_IF_TRUE"}

(* A stack effect is [ok, take, give]: the numbers and the bools it takes and
   gives. *)
Effect(take, give) == [ok |-> TRUE, take |-> take, give |-> give]
NoEffect == [ok |-> FALSE, take |-> <<0, 0>>, give |-> <<0, 0>>]

(* cxpr_ir_scalar_stack_effect: one stack of numbers. *)
ScalarEffect(i, reg) ==
    LET to(pops) == Effect(<<pops, 0>>, <<1, 0>>)
    IN  CASE i.op \in {"CALL_PRODUCER_CONST_FIELD", "CALL_FUNC", "CALL_DEFINED"} /\ i.n > MaxFastArgs -> NoEffect
          [] i.op \in FastLoads \cup {"PUSH_CONST", "PUSH_BOOL", "CALL_PRODUCER_CONST_FIELD"} -> to(0)
          [] i.op \in Arithmetic \cup Comparisons \cup {"CALL_BINARY"} -> to(2)
          [] i.op \in {"CLAMP", "CALL_TERNARY"} -> to(3)
          [] i.op \in UnaryOps \cup {"NOT", "GET_FIELD"} -> to(1)
          [] i.op \in {"CALL_FUNC", "CALL_DEFINED"} -> to(i.n)
          [] i.op \in CondJumps \cup {"RETURN"} -> Effect(<<1, 0>>, <<0, 0>>)
          [] i.op = "JUMP" -> Effect(<<0, 0>>, <<0, 0>>)
          [] OTHER -> NoEffect

(* cxpr_ir_bool_fast_stack_effect: a stack of numbers and one of bools. *)
BoolEffect(i, reg) ==
    LET f == FnOf(reg, i.p[1])
        num(pops) == Effect(<<pops, 0>>, <<1, 0>>)
        bool(nums, bools) == Effect(<<nums, bools>>, <<0, 1>>)
    IN  CASE i.op \in {"CALL_FUNC", "CALL_DEFINED"} /\ i.n > MaxFastArgs -> NoEffect
          [] i.op \in FastLoads \cup {"PUSH_CONST"} -> num(0)
          [] i.op = "PUSH_BOOL" -> bool(0, 0)
          [] i.op \in Arithmetic \cup {"CALL_BINARY"} -> num(2)
          [] i.op \in Comparisons -> bool(2, 0)
          [] i.op \in UnaryOps -> num(1)
          [] i.op = "NOT" -> bool(0, 1)
          [] i.op \in {"CLAMP", "CALL_TERNARY"} -> num(3)
          [] i.op = "CALL_FUNC" -> IF f.kind = "value" /\ f.ret = "bool" THEN bool(i.n, 0)
                                   ELSE IF f.kind # "typed" THEN num(i.n) ELSE NoEffect
          [] i.op = "CALL_DEFINED" -> IF f.ret = "bool" THEN bool(i.n, 0)
                                      ELSE IF f.ret = "num" THEN num(i.n) ELSE NoEffect
          [] i.op \in CondJumps \cup {"RETURN"} -> Effect(<<0, 1>>, <<0, 0>>)
          [] i.op = "JUMP" -> Effect(<<0, 0>>, <<0, 0>>)
          [] OTHER -> NoEffect

(* Where an instruction can go. *)
Successors(code, ip) ==
    CASE code[ip].op = "RETURN" -> <<>>
      [] code[ip].op = "JUMP" -> <<code[ip].n>>
      [] code[ip].op \in CondJumps -> <<code[ip].n, ip + 1>>
      [] OTHER -> <<ip + 1>>

AfterEffect(d, e) == [k \in 1 .. 2 |-> d[k] - e.take[k] + e.give[k]]

(* A target is an instruction, and reached with one depth only. *)
JoinsAgree(code, at, ip, next) ==
    \A t \in ToSet(Successors(code, ip)) : t \in DOMAIN code /\ at[t] \in {<<>>, next}

RECURSIVE Depths(_, _, _, _, _)

(* cxpr_ir_validate_scalar_fast_program, cxpr_ir_validate_bool_fast_program: the
   depth of the stacks at every instruction control reaches; <<>> if there is
   none.  at[ip] is <<>> until ip is reached. *)
Depths(code, effects, final, work, at) ==
    IF work = <<>> THEN at
    ELSE LET ip == Last(work)
             d == at[ip]
             e == effects[ip]
             next == AfterEffect(d, e)
             new == SelectSeq(Successors(code, ip), LAMBDA t : at[t] = <<>>)
         IN  IF \/ ~e.ok
                \/ \E k \in 1 .. 2 : d[k] < e.take[k] \/ next[k] > StackCapacity
                \/ code[ip].op = "RETURN" /\ d # final
                \/ ~JoinsAgree(code, at, ip, next)
             THEN <<>>
             ELSE Depths(code, effects, final, Front(work) \o new,
                         [t \in DOMAIN at |-> IF t \in ToSet(new) THEN next ELSE at[t]])

StackDepths(code, reg, kind) ==
    LET effects == [ip \in DOMAIN code |-> IF kind = "bool" THEN BoolEffect(code[ip], reg)
                                           ELSE ScalarEffect(code[ip], reg)]
        start == [ip \in DOMAIN code |-> IF ip = 1 THEN <<0, 0>> ELSE <<>>]
    IN  IF Len(code) \notin 1 .. MaxFastCode THEN <<>>
        ELSE With(effects, LAMBDA e :
                Depths(code, e, IF kind = "bool" THEN <<0, 1>> ELSE <<1, 0>>, <<1>>, start))

-----------------------------------------------------------------------------
(* Mutant: a program the validator refuses is run fast all the same. *)
ClassifiedTrusts(c, kind, reg) ==
    [code |-> c.code, e |-> c.e, kind |-> kind,
     at |-> IF kind = "unknown" \/ c.e # "" THEN <<>> ELSE StackDepths(c.code, reg, kind)]

(* The kind a program is run as: the one inferred, if the validator accepts the
   code as such; at is the stack depth before each instruction. *)
Classified(c, kind, reg) ==
    LET at == IF kind = "unknown" \/ c.e # "" THEN <<>> ELSE StackDepths(c.code, reg, kind)
    IN  IF c.e # "" THEN [code |-> <<>>, kind |-> "unknown", e |-> c.e, at |-> <<>>]
        ELSE [code |-> c.code, e |-> "", kind |-> IF at = <<>> THEN "unknown" ELSE kind, at |-> at]

(* cxpr_ir_compile_with_locals: [code, kind, e, at].  The fast path is taken only
   by a program the validator accepts; at is what it found. *)
Compile(ast, reg, locals) ==
    LET env == [reg |-> reg, locals |-> locals, subst |-> <<>>, depth |-> 0]
    IN  Classified(AndThen(CompileNode(ast, env, [code |-> <<>>, e |-> ""]),
                           LAMBDA d : Emit(d, Instr("RETURN"))),
                   Infer(ast, reg, 0), reg)
=============================================================================
