----------------------------- MODULE ExprMachine -----------------------------
(***************************************************************************)
(* A host with one expression, a registry and a context: it compiles the   *)
(* expression, binds names, registers functions anew, and evaluates by     *)
(* every entry point, in any order.  The executors run instruction by      *)
(* instruction.                                                            *)
(***************************************************************************)
EXTENDS IRExec

CONSTANTS Cases,        \* [ast, reg, ctx, sets, defs]: what a host may start with and do
          MaxChanges,   \* bound on the changes of the context and of the registry
          MaxOffset     \* bound on the samples an evaluation goes back

VARIABLES case,     \* the expression, and the changes the host may make
          reg, ctx,
          old,      \* "prog", "prep": made before an entry it may use was replaced
          prep,     \* the programs entries of defined functions hold
          prog,     \* the compiled expression; kind "" before it is compiled
          mach,     \* the execution in progress
          left,     \* the executors to try when it fails
          out,      \* the outcome of each entry point since the last change
          changes   \* changes made

vars == <<case, reg, ctx, old, prep, prog, mach, left, out, changes>>

NoProg == [code |-> <<>>, kind |-> "", e |-> "", at |-> <<>>]
NoRun == Run("none", <<>>, <<>>, StartCall(<<>>, <<>>))
Idle == mach.mode = "none"
NoneYet == [tree |-> Missing, number |-> Missing, compiled |-> Missing, past |-> <<>>]

(* What an entry point reports: a value, or an error. *)
Report(s) == IF s.e # "" THEN Err(s.e) ELSE s.v

Init ==
    /\ case \in Cases
    /\ reg = case.reg
    /\ ctx = case.ctx
    /\ old = {}
    /\ prep = [n \in {} |-> NoProg]
    /\ prog = NoProg
    /\ mach = NoRun
    /\ left = <<>>
    /\ out = NoneYet
    /\ changes = 0

(* cxpr_expr_compile *)
CompileExpression ==
    /\ Idle
    /\ prog.kind = "" \/ "prog" \in old
    /\ prog' = ExprCompile(case.ast, reg)
    /\ out' = NoneYet
    /\ old' = old \ {"prog"}
    /\ UNCHANGED <<case, reg, ctx, prep, mach, left, changes>>

StartRun(modes) ==
    /\ mach' = Run(Head(modes), prog.code, <<>>, StartCall(ctx, prep))
    /\ left' = Tail(modes)

(* cxpr_expr_compiled_eval: the call, *)
BeginCompiled ==
    /\ Idle
    /\ prog.kind # "" /\ prog.e = ""
    /\ out.compiled = Missing
    /\ StartRun(Modes(prog))
    /\ UNCHANGED <<case, reg, ctx, old, prep, prog, out, changes>>

(* one instruction, *)
Step ==
    /\ ~Idle /\ ~mach.done
    /\ \E next \in {ExecStep(mach, reg)} : mach' = next
    /\ UNCHANGED <<case, reg, ctx, old, prep, prog, left, out, changes>>

(* another attempt, *)
Retry ==
    /\ ~Idle /\ mach.done /\ ~mach.ub
    /\ mach.e # "" /\ left # <<>>
    /\ StartRun(left)
    /\ UNCHANGED <<case, reg, ctx, old, prep, prog, out, changes>>

(* and the return.  What a producer cached stays in the context. *)
Finish ==
    /\ ~Idle /\ mach.done /\ ~mach.ub
    /\ mach.e = "" \/ left = <<>>
    /\ out' = [out EXCEPT !.compiled = Report(mach)]
    /\ ctx' = mach.x
    /\ mach' = NoRun
    /\ left' = <<>>
    /\ UNCHANGED <<case, reg, old, prep, prog, changes>>

(* cxpr_eval_ast *)
EvalTree ==
    /\ Idle
    /\ out.tree = Missing
    /\ \E r \in {EvalAst(case.ast, reg, StartCall(ctx, prep))} :
          /\ out' = [out EXCEPT !.tree = Report(r)]
          /\ ctx' = r.x
    /\ UNCHANGED <<case, reg, old, prep, prog, mach, left, changes>>

(* cxpr_eval_ast_number *)
EvalAsNumber ==
    /\ Idle
    /\ out.number = Missing
    /\ \E r \in {EvalNumber(case.ast, reg, StartCall(ctx, prep))} :
          /\ out' = [out EXCEPT !.number = Report(r)]
          /\ ctx' = r.x
          /\ prep' = r.prep
    /\ UNCHANGED <<case, reg, old, prog, mach, left, changes>>

(* cxpr_eval_ast_at_offset *)
EvalPast ==
    /\ Idle
    /\ out.past = <<>>
    /\ \E n \in 0 .. MaxOffset :
          \E r \in {AtOffset(case.ast, n, reg, StartCall(ctx, prep))} :
             /\ out' = [out EXCEPT !.past = <<n, Report(r)>>]
             /\ ctx' = r.x
    /\ UNCHANGED <<case, reg, old, prep, prog, mach, left, changes>>

(* cxpr_context_set_value *)
HostSet ==
    /\ Idle
    /\ changes < MaxChanges
    /\ \E set \in case.sets : ctx' = [ctx EXCEPT ![1] = SetValue(@, <<set[1]>>, set[2])]
    /\ out' = NoneYet
    /\ changes' = changes + 1
    /\ UNCHANGED <<case, reg, old, prep, prog, mach, left>>

(* cxpr_registry_add or _define_fn of a name that is registered: the entry is
   replaced in place, with the program it held. *)
Replace ==
    /\ Idle
    /\ changes < MaxChanges
    /\ \E def \in case.defs :
          /\ reg' = [reg EXCEPT !.fns[def[1]] = def[2]]
          /\ prep' = [n \in DOMAIN prep \ {def[1]} |-> prep[n]]
          /\ old' = old \cup {x \in {"prog", "prep"} :
                                 IF x = "prog" THEN prog.kind # "" ELSE ~(DOMAIN prep \subseteq {def[1]})}
    /\ out' = NoneYet
    /\ changes' = changes + 1
    /\ UNCHANGED <<case, ctx, prog, mach, left>>

Next == \/ CompileExpression \/ BeginCompiled \/ Step \/ Retry \/ Finish
        \/ EvalTree \/ EvalAsNumber \/ EvalPast \/ HostSet \/ Replace

Spec == Init /\ [][Next]_vars

-----------------------------------------------------------------------------
(* What the entry points promise each other *)

RECURSIVE CallsOf(_)

(* The calls in an expression. *)
CallsOf(ast) ==
    (IF ast.k \in {"call", "prd"} THEN {ast} ELSE {})
    \cup UNION {CallsOf(ast.a[i]) : i \in DOMAIN ast.a}

DefinedCalls(ast) == {c \in CallsOf(ast) : HasFn(reg, c.s) /\ FnOf(reg, c.s).kind = "defined"}

RECURSIVE Nesting(_), Operands(_)

(* How deep calls of defined functions nest, through bodies and arguments. *)
Nesting(ast) ==
    LET below(c) == Nesting(FnOf(reg, c.s).body) + 1
    IN  Max({0} \cup {below(c) : c \in DefinedCalls(ast)})

(* The operands an expression, its functions inlined, keeps on the stack at once. *)
Operands(ast) ==
    LET f == FnOf(reg, ast.s)
        body == IF ast.k = "call" /\ HasFn(reg, ast.s) THEN Operands(f.body) ELSE 1
    IN  Max({1} \cup {Operands(ast.a[i]) + i - 1 + (IF ast.k = "call" THEN body ELSE 0)
                       : i \in DOMAIN ast.a})

(* The built-in the compiler gives an opcode of its own that does not treat
   bounds in the wrong order as the function does. *)
BoundsOrdered(ast) ==
    \A c \in CallsOf(ast) : c.s = "clamp" =>
        Len(c.a) = 3 /\ c.a[2].k = "num" /\ c.a[3].k = "num" /\ c.a[2].n <= c.a[3].n

RECURSIVE HasRecord(_)
HasRecord(ast) == ast.k = "rec" \/ \E i \in DOMAIN ast.a : HasRecord(ast.a[i])

(* Within the limits of the compiler: calls nest no deeper than it inlines, the
   operands fit the stack, and no function body it inlines builds a record. *)
WithinLimits(ast) ==
    /\ Nesting(ast) <= InlineDepthLimit
    /\ Operands(ast) <= StackCapacity
    /\ BoundsOrdered(ast)
    /\ \A c \in DefinedCalls(ast) : ~HasRecord(FnOf(reg, c.s).body)

(* The names of the context are numbers, structs and arrays. *)
Untyped(c) == \A k \in DOMAIN c[1] : k[1] \in {"vars", "params", "structs", "arrs", "cached"}

Scalar(x) == x.t \in {"num", "bool"}

(* A scalar cxpr_eval_ast makes of an expression a compiled program makes of it
   too.  An error it reports the program reports if the expression calls no
   defined function: one that is inlined may never read the argument in error. *)
CompiledAgrees ==
    (/\ out.compiled # Missing /\ out.tree # Missing
     /\ "prog" \notin old /\ Untyped(ctx) /\ WithinLimits(case.ast))
    => /\ Scalar(out.tree) => out.compiled = out.tree
       /\ (IsErr(out.tree) /\ DefinedCalls(case.ast) = {}) => IsErr(out.compiled)

RECURSIVE Reached(_)

(* The defined functions a call runs. *)
Reached(c) == {c.s} \cup UNION {Reached(d) : d \in DefinedCalls(FnOf(reg, c.s).body)}

(* No function body is run for two calls with different arguments. *)
BodiesRunOnce(ast) ==
    \A c, d \in DefinedCalls(ast) : c # d => Reached(c) \cap Reached(d) = {}

(* The shortcut for numbers of cxpr_eval_ast_number, its programs and its memo
   included, gives what the tree evaluator gives. *)
NumberAgrees ==
    (/\ out.number # Missing /\ out.tree # Missing
     /\ "prep" \notin old /\ Untyped(ctx) /\ WithinLimits(case.ast) /\ BodiesRunOnce(case.ast))
    => /\ out.tree.t = "num" => out.number = out.tree
       /\ (IsErr(out.tree) /\ Typechecks(case.ast, reg) /\ DefinedCalls(case.ast) = {})
          => IsErr(out.number)

(* A type the checker infers is the type of the value an evaluation returns;
   what it calls a number may also be an int64, or a struct of numbers when an
   operand was not known. *)
TypesPredict ==
    (out.tree # Missing /\ ~IsErr(out.tree))
    => LET type == TypeOf(case.ast, reg)
       IN  /\ type \in {"bool", "string", "array", "struct", "int64"} => out.tree.t = type
           /\ type = "num" => out.tree.t \in {"num", "int64", "struct"}

(* What an expression is worth in another context and registry. *)
Worth(ast, r, c) == Report(EvalAst(ast, r, StartCall(c, prep)))

(* The parameter each argument of a call binds. *)
Slots(ast, params) ==
    LET names == ArgNames(ast)
    IN  [i \in DOMAIN ast.a |->
            IF names = <<>> \/ names[i] = "" THEN i
            ELSE IF names[i] \notin ToSet(params) THEN 0
            ELSE CHOOSE p \in DOMAIN params : params[p] = names[i]]

BoundTo(params, slot, arg) ==
    [k \in {<<"vars", <<p>>>> : p \in ToSet(params)} |->
        arg[CHOOSE i \in DOMAIN slot : k[2] = <<params[slot[i]]>>]]

ByValue(f, slot, arg) ==
    (ToSet(slot) = DOMAIN f.params /\ Len(slot) = Len(f.params) /\ \A i \in DOMAIN arg : arg[i].t = "num")
    => out.tree = Worth(f.body, reg, <<BoundTo(f.params, slot, arg)>> \o ctx)

(* A call of a defined function is by value: it is worth what its body is worth
   with every parameter bound to what its argument is worth, whether the
   evaluator substitutes the arguments or binds them in an overlay, and in
   whatever order named arguments are written. *)
CallsByValue ==
    (out.tree # Missing /\ case.ast \in DefinedCalls(case.ast) /\ Untyped(ctx) /\ WithinLimits(case.ast))
    => ByValue(FnOf(reg, case.ast.s), Slots(case.ast, FnOf(reg, case.ast.s).params),
               [i \in DOMAIN case.ast.a |-> Worth(case.ast.a[i], reg, ctx)])

(* The registry and the context of n samples ago. *)
RegAgo(n) == [reg EXCEPT !.past = [x \in DOMAIN @ |-> @[x] + n]]
CtxAgo(n) ==
    <<[k \in DOMAIN ctx[1] |-> IF k[1] = "vars" /\ k[2][1] \in DOMAIN reg.past
                               THEN Num(reg.past[k[2][1]] + n) ELSE ctx[1][k]]>>

RECURSIVE HistoryOnly(_)

(* Names with a past, whole-number lookbacks of them, and operators. *)
HistoryOnly(ast) ==
    \/ ast.k \in {"num", "int", "bool", "par"}
    \/ ast.k = "id" /\ ast.s \in DOMAIN reg.past
    \/ ast.k = "idx" /\ ast.a[1].k = "id" /\ ast.a[1].s \in DOMAIN reg.past /\ ast.a[2].k = "num"
    \/ ast.k \in {"bin", "un", "ter", "call"} /\ \A i \in DOMAIN ast.a : HistoryOnly(ast.a[i])

(* An evaluation n samples back gives what an evaluation gave n samples ago:
   cxpr_eval_ast_at_offset moves every name, and adds to every lookback. *)
OffsetIsThePast ==
    LET n == out.past[1]
    IN  (/\ out.past # <<>>
         /\ HistoryOnly(case.ast) /\ case.ast.k # "call"
         /\ \A x \in DOMAIN reg.past : GetTyped(ctx, <<x>>) = Num(reg.past[x]))
        => out.past[2] = Worth(case.ast, RegAgo(n), CtxAgo(n))

-----------------------------------------------------------------------------
(* The program a fast executor runs, as FastStack sees it. *)
FastProgram ==
    IF prog.at = <<>> \/ "prog" \in old THEN <<>>
    ELSE [ip \in DOMAIN prog.code |->
            LET e == IF prog.kind = "bool" THEN BoolEffect(prog.code[ip], reg)
                     ELSE ScalarEffect(prog.code[ip], reg)
            IN  [take |-> e.take, give |-> e.give, next |-> ToSet(Successors(prog.code, ip))]]

Fast == mach.mode \in {"scalar", "bool"} /\ "prog" \notin old /\ (mach.done => mach.ub)

FS == INSTANCE FastStack
          WITH code <- FastProgram,
               at <- IF "prog" \in old THEN <<>> ELSE prog.at,
               ip <- IF ~Fast THEN 0 ELSE IF mach.ub THEN Len(prog.code) + 1 ELSE mach.ip,
               depth <- IF Fast THEN <<Len(mach.st), Len(mach.bs)>> ELSE <<0, 0>>

(* A fast executor has, at every instruction, the operands the validator counted
   there, and never leaves its stack arrays. *)
StacksAsValidated == FS!StacksAsValidated

(* Compiling and running a program is what FastStack promises: a program is run
   fast only when it is valid, every instruction takes and gives what the
   validator assumed, and control goes only where the validator looked
   (cxpr_ir_infer_scalar_fast_program, cxpr_ir_infer_bool_fast_program). *)
ImplementsFastStack == FS!Spec
=============================================================================
