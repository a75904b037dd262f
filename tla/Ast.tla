-------------------------------- MODULE Ast --------------------------------
(***************************************************************************)
(* The syntax tree of an expression (src/ast/construct.c, inspect.c).      *)
(*                                                                         *)
(* A node is [k, s, n, p, a]: its kind, its name or operator, its literal, *)
(* its path (or the names of its fields, or of its arguments, "" for an    *)
(* argument without one), and its children.  Source positions are left     *)
(* out.                                                                    *)
(***************************************************************************)
EXTENDS Integers, Sequences

AstNode(k, s, n, p, a) == [k |-> k, s |-> s, n |-> n, p |-> p, a |-> a]

NoAst == AstNode("none", "", 0, <<>>, <<>>)
NumLit(n) == AstNode("num", "", n, <<>>, <<>>)
IntLit(n) == AstNode("int", "", n, <<>>, <<>>)
BoolLit(b) == AstNode("bool", "", IF b THEN 1 ELSE 0, <<>>, <<>>)
StrLit(s) == AstNode("str", s, 0, <<>>, <<>>)
ArrLit(a) == AstNode("arr", "", 0, <<>>, a)
RecLit(names, a) == AstNode("rec", "", 0, names, a)
Id(s) == AstNode("id", s, 0, <<s>>, <<>>)
Par(s) == AstNode("par", s, 0, <<s>>, <<>>)
Fld(o, f) == AstNode("fld", f, 0, <<o, f>>, <<>>)
FieldExpr(base, f) == AstNode("fof", f, 0, <<>>, <<base>>)
Chain(path) == AstNode("chn", "", 0, path, <<>>)
Prod(f, a, field) == AstNode("prd", f, 0, <<field>>, a)
Idx(t, i) == AstNode("idx", "", 0, <<>>, <<t, i>>)
Call(f, a) == AstNode("call", f, 0, <<>>, a)
CallNamed(f, a, names) == AstNode("call", f, 0, names, a)
Bin(op, l, r) == AstNode("bin", op, 0, <<>>, <<l, r>>)
Un(op, x) == AstNode("un", op, 0, <<>>, <<x>>)
Ter(c, x, y) == AstNode("ter", "", 0, <<>>, <<c, x, y>>)

(* The argument names of a call, or of a producer access behind its field;
   cxpr_expr_ast_call_uses_named_args. *)
ArgNames(ast) == IF ast.k = "prd" THEN Tail(ast.p) ELSE ast.p
NamedArgs(ast) == \E i \in DOMAIN ArgNames(ast) : ArgNames(ast)[i] # ""

-----------------------------------------------------------------------------
(* Rewriting trees *)

(* cxpr_eval_defined_arg_for_name *)
ArgForName(f, args, name) ==
    LET at == {i \in DOMAIN f.params : f.params[i] = name}
    IN  IF at = {} THEN NoAst ELSE args[CHOOSE i \in at : \A j \in at : i <= j]

(* cxpr_eval_clone_chain_with_replaced_root *)
ChainWithRoot(ast, root) ==
    IF root.k = "id" THEN [ast EXCEPT !.p[1] = root.s]
    ELSE IF Len(ast.p) = 2 THEN FieldExpr(root, ast.p[2])
    ELSE ast

RECURSIVE Substitute(_, _, _)

(* cxpr_eval_substitute_defined_args *)
Substitute(ast, f, args) ==
    LET mapped == IF ast.k \in {"id", "fld", "chn"} THEN ArgForName(f, args, ast.p[1]) ELSE NoAst
    IN  IF mapped # NoAst
        THEN CASE ast.k = "id" -> mapped
               [] ast.k = "chn" -> ChainWithRoot(ast, mapped)
               [] ast.k = "fld" -> IF mapped.k = "id" THEN Fld(mapped.s, ast.s)
                                   ELSE FieldExpr(mapped, ast.s)
        ELSE [ast EXCEPT !.a = [i \in DOMAIN @ |-> Substitute(@[i], f, args)]]

RECURSIVE Flatten(_, _)

(* Nested literal offsets x[1][2] added up, to the first index that is not one. *)
Flatten(target, offset) ==
    IF target.k = "idx" /\ target.a[2].k = "num" THEN Flatten(target.a[1], offset + target.a[2].n)
    ELSE [t |-> target, i |-> NumLit(offset)]

RECURSIVE References(_)

(* cxpr_collect_references: the full names an expression refers to.  The base
   of a field of an expression is not looked into. *)
References(ast) ==
    IF ast.k \in {"id", "fld", "chn"} THEN {ast.p}
    ELSE IF ast.k = "fof" THEN {}
    ELSE UNION {References(ast.a[i]) : i \in DOMAIN ast.a}

(* cxpr_eval_simple_lookback_target *)
SimpleTarget(ast) == ast.k \in {"id", "fld", "chn", "prd"}

RECURSIVE ApplyOffset(_, _)

(* Mutant: an index is replaced by the offset instead of added to it. *)
RECURSIVE ApplyOffsetReplaces(_, _)
ApplyOffsetReplaces(ast, offset) ==
    IF offset = 0 \/ ast.k \in {"num", "int", "bool", "str", "par"} THEN ast
    ELSE IF SimpleTarget(ast) THEN Idx(ast, NumLit(offset))
    ELSE IF ast.k = "idx" THEN Idx(ast.a[1], NumLit(offset))
    ELSE [ast EXCEPT !.a = [i \in DOMAIN @ |-> ApplyOffsetReplaces(@[i], offset)]]

(* cxpr_eval_apply_literal_offset: every name is read offset samples back; an
   index moves by the offset, its target is left alone. *)
ApplyOffset(ast, offset) ==
    IF offset = 0 \/ ast.k \in {"num", "int", "bool", "str", "par"} THEN ast
    ELSE IF SimpleTarget(ast) THEN Idx(ast, NumLit(offset))
    ELSE IF ast.k = "idx" THEN Idx(ast.a[1], Bin("+", ast.a[2], NumLit(offset)))
    ELSE [ast EXCEPT !.a = [i \in DOMAIN @ |-> ApplyOffset(@[i], offset)]]
=============================================================================
