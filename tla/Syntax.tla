------------------------------- MODULE Syntax -------------------------------
(***************************************************************************)
(* The expression language as its users write it, against the lexer, the   *)
(* parser and the printer.                                                 *)
(*                                                                         *)
(* An author writes an expression by the grammar of the language: each     *)
(* action applies one of its productions to the expression written so far. *)
(* What is written is [level, lexemes, tree]: the level of the grammar it  *)
(* belongs to, the pieces of each of its tokens, and the tree it means.    *)
(* The levels are those of the language's precedence table, 0 for the      *)
(* pipeline to 11 for a primary.                                           *)
(***************************************************************************)
EXTENDS Integers, Parser

CONSTANTS
    Uses,       \* parts of the language: "arith", "logic", "compare", "postfix", "call"
    MaxSteps,   \* productions applied
    DeepUses    \* the parts for which it is one more

VARIABLES
    use,        \* the part of the language this expression uses
    written,    \* what is written so far
    steps       \* productions applied so far

vars == <<use, written, steps>>

Item(level, lexemes, tree) == [level |-> level, lexemes |-> lexemes, tree |-> tree]
Word(w) == <<<<w>>>>

A == Item(11, Word("a"), Id("a"))
B == Item(11, Word("b"), Id("b"))
One == Item(11, Word("1"), NumLit(1))
Whole == Item(11, <<<<"1", "i64">>>>, IntLit(1))
True == Item(11, Word("TRUE"), BoolLit(TRUE))
Null == Item(11, Word("null"), AstNode("num", "nan", 0, <<>>, <<>>))
Param == Item(11, <<<<"$", "a", ".", "b">>>>, Par("a.b"))
Field == Item(11, Word("a") \o Word(".") \o Word("b"), Fld("a", "b"))
Path == Item(11, Word("a") \o Word(".") \o Word("b") \o Word(".") \o Word("a"),
             Chain(<<"a", "b", "a">>))
(* A string with this quote; the characters between the quotes are kept. *)
Quoted(quote, chars) ==
    Item(11, <<<<quote>> \o chars \o <<quote>>>>, AstNode("str", "", 0, chars, <<>>))
Text == Quoted("\"", <<"a", "\\", "\"">>)
Single == Quoted("'", <<"a", "\"">>)
Minus == Item(9, Word("-") \o Word("b"), Un("-", Id("b")))
Difference == Item(7, Word("a") \o Word("-") \o Word("b"), Bin("-", Id("a"), Id("b")))
Negation == Item(4, Word("not") \o Word("b"), Un("not", Id("b")))
Stage == Item(11, Word("f") \o Word("(") \o Word("b") \o Word(")"),
              CallNamed("f", <<Id("b")>>, <<"">>))

Operands ==
    [arith |-> {A, Minus, Difference},
     logic |-> {A, True, Negation},
     compare |-> {A, One, Param, Difference},
     postfix |-> {A, Text, Single, Field, Path, Whole, Null},
     call |-> {A, Stage, One}]

BinaryOps ==
    [arith |-> {"-", "*", "^"}, logic |-> {"or", "and", "=="}, compare |-> {"!=", "+"},
     postfix |-> {"-"}, call |-> {"+"}]

Applies(uses) == use \in uses /\ (steps < MaxSteps \/ (use \in DeepUses /\ steps = MaxSteps))

Write(item) == written' = item /\ steps' = steps + 1 /\ UNCHANGED use

-----------------------------------------------------------------------------
(* The productions *)

Paren(x) == Item(11, Word("(") \o x.lexemes \o Word(")"), x.tree)

(* The levels an operator's operands and result have: left associative, but
   one equality per level and ^ to the right. *)
Levels(op) ==
    CASE op = "or" -> <<2, 3, 2>>
      [] op = "and" -> <<3, 4, 3>>
      [] op \in {"==", "!="} -> <<6, 6, 5>>
      [] op \in {"+", "-"} -> <<7, 8, 7>>
      [] op \in {"*", "/", "%"} -> <<8, 9, 8>>
      [] op = "^" -> <<11, 9, 10>>

BinaryItem(op, l, r) ==
    Item(Levels(op)[3], l.lexemes \o <<OpText(op)>> \o r.lexemes, Bin(op, l.tree, r.tree))

WriteParen ==
    /\ Applies(Uses)
    /\ Write(Paren(written))

WriteBinary ==
    /\ Applies(Uses)
    /\ \E op \in BinaryOps[use], x \in Operands[use], first \in BOOLEAN :
          LET l == IF first THEN written ELSE x
              r == IF first THEN x ELSE written
          IN  /\ l.level >= Levels(op)[1]
              /\ r.level >= Levels(op)[2]
              /\ Write(BinaryItem(op, l, r))

WriteUnary ==
    /\ Applies({"arith", "logic"})
    /\ \/ /\ written.level >= 9
          /\ \E sign \in {"-", "+"} :
                Write(Item(9, Word(sign) \o written.lexemes,
                           IF sign = "-" THEN Un("-", written.tree) ELSE written.tree))
       \/ /\ written.level >= 4
          /\ Write(Item(4, Word("not") \o written.lexemes, Un("not", written.tree)))

WriteTernary ==
    /\ Applies({"logic", "call"})
    /\ \E x \in Operands[use], y \in {A}, place \in 1 .. 3 :
          LET part(i) == IF i = place THEN written ELSE IF i = 1 THEN y ELSE x
          IN  /\ part(1).level >= 2
              /\ Write(Item(1, part(1).lexemes \o Word("?") \o part(2).lexemes
                               \o Word(":") \o part(3).lexemes,
                            Ter(part(1).tree, part(2).tree, part(3).tree)))

(* What a chain of comparisons means: each operand is compared with the next,
   but when a name is first compared with a number or parameter, an operator
   in the other direction is a second bound of that name. *)
ChainMeaning(operands, ops) ==
    LET first == operands[1].tree
        bounded == /\ first.k \in {"id", "par", "fld", "chn", "fof", "idx", "prd"}
                   /\ operands[2].tree.k \in {"num", "par"}
        up(op) == op \in {"<", "<="}
        left(i) == IF i > 1 /\ bounded /\ up(ops[i]) # up(ops[1]) THEN first
                   ELSE operands[i].tree
        compare(i) == Bin(ops[i], left(i), operands[i + 1].tree)
    IN  FoldLeft(LAMBDA all, i : Bin("and", all, compare(i)), compare(1),
                 [i \in 1 .. Len(ops) - 1 |-> i + 1])

ChainItem(operands, ops) ==
    Item(6, FoldLeft(LAMBDA all, i : all \o <<OpText(ops[i])>> \o operands[i + 1].lexemes,
                     operands[1].lexemes, [i \in DOMAIN ops |-> i]),
         ChainMeaning(operands, ops))

WriteComparison ==
    /\ Applies({"logic", "compare"})
    /\ \E n \in 1 .. IF use = "compare" THEN 3 ELSE 1, place \in 1 .. 4, x \in Operands[use] :
       \E ops \in [1 .. n -> {"<", ">="}] :
          LET others == <<A, One, A, One>>
              operands == [i \in 1 .. n + 1 |-> IF i = place THEN written
                                               ELSE IF i = 1 + (place % (n + 1)) THEN x
                                               ELSE others[i]]
          IN  /\ place <= n + 1
              /\ \A i \in DOMAIN operands : operands[i].level >= 7
              /\ Write(ChainItem(operands, ops))

MembershipCall(x, list) == CallNamed("contains", <<x, ArrLit(list)>>, <<"", "">>)

WriteMembership ==
    /\ Applies({"compare"})
    /\ written.level >= 7
    /\ \E negated \in BOOLEAN :
          Write(Item(6, written.lexemes \o (IF negated THEN Word("not") ELSE <<>>) \o Word("in")
                        \o Word("[") \o One.lexemes \o Word(",") \o A.lexemes \o Word("]"),
                     LET call == MembershipCall(written.tree, <<One.tree, A.tree>>)
                     IN  IF negated THEN Un("not", call) ELSE call))

WriteArray ==
    /\ Applies({"postfix"})
    /\ \E list \in {<<>>, <<written>>, <<One, written>>} :
          Write(Item(11, Word("[") \o (IF list = <<>> THEN <<>>
                           ELSE FoldLeft(LAMBDA all, x : all \o Word(",") \o x.lexemes,
                                         list[1].lexemes, Tail(list))) \o Word("]"),
                     ArrLit([i \in DOMAIN list |-> list[i].tree])))

(* { a, b = value } *)
WriteRecord ==
    /\ Applies({"postfix"})
    /\ \E mark \in {"=", ":"} :
          Write(Item(11, Word("{") \o Word("a") \o Word(",") \o Word("b") \o Word(mark)
                         \o written.lexemes \o Word("}"),
                     RecLit(<<"a", "b">>, <<Id("a"), written.tree>>)))

WriteIndex ==
    /\ Applies({"postfix", "call"})
    /\ \/ /\ written.level = 11
          /\ Write(Item(11, written.lexemes \o Word("[") \o One.lexemes \o Word("]"),
                        Idx(written.tree, One.tree)))
       \/ Write(Item(11, A.lexemes \o Word("[") \o written.lexemes \o Word("]"),
                     Idx(A.tree, written.tree)))

WriteField ==
    /\ Applies({"postfix"})
    /\ Write(Item(11, Word("(") \o written.lexemes \o Word(")") \o Word(".") \o Word("b"),
                  FieldExpr(written.tree, "b")))

(* f(x), f(x, b = a), a.f(x): a call, or a producer's field. *)
CallItem(name, x, named, field) ==
    LET args == IF named THEN <<x.tree, A.tree>> ELSE <<x.tree>>
        names == IF named THEN <<"", "b">> ELSE <<"">>
    IN  Item(11, name.lexemes \o Word("(") \o x.lexemes
                 \o (IF named THEN Word(",") \o Word("b") \o Word("=") \o A.lexemes ELSE <<>>)
                 \o Word(")") \o (IF field THEN Word(".") \o Word("b") ELSE <<>>),
             IF field THEN AstNode("prd", name.tree, 0, <<"b">> \o names, args)
             ELSE CallNamed(name.tree, args, names))

CallNames == {Item(11, Word("f"), "f"), Item(11, Word("a") \o Word(".") \o Word("f"), "a.f"),
              Item(11, Word("max"), "max")}

WriteCall ==
    /\ Applies({"postfix", "call"})
    /\ \E name \in CallNames, named, field \in BOOLEAN :
          Write(CallItem(name, written, named, field))

(* max(window(x, 1)), roc(x, 1): reductions of the last values of x. *)
WriteReduction ==
    /\ Applies({"call"})
    /\ \/ Write(Item(11, Word("max") \o Word("(") \o Word("window") \o Word("(")
                         \o written.lexemes \o Word(",") \o One.lexemes \o Word(")") \o Word(")"),
                     CallNamed("__cxpr_window_highest", <<written.tree, One.tree>>, <<"", "">>)))
       \/ Write(Item(11, Word("roc") \o Word("(") \o written.lexemes \o Word(",")
                         \o One.lexemes \o Word(")"),
                     CallNamed("__cxpr_window_roc", <<written.tree, One.tree>>, <<"", "">>)))

(* x |> stage, the stage a name, a call or a producer's field: the call with x
   before its arguments.  A conditional ends in a full expression, which would
   take the pipe to itself. *)
Callable(tree) == tree.k \in {"id", "call", "prd"}

PipeItem(x, stage) ==
    LET names == IF stage.tree.k = "prd" THEN Tail(stage.tree.p) ELSE stage.tree.p
        call == CallNamed(stage.tree.s, <<x.tree>> \o stage.tree.a,
                          IF stage.tree.k = "id" THEN <<"">> ELSE <<"">> \o names)
    IN  Item(0, x.lexemes \o <<<<"|", ">">>>> \o stage.lexemes,
             IF stage.tree.k = "prd" THEN [call EXCEPT !.k = "prd", !.p = <<stage.tree.p[1]>> \o @]
             ELSE call)

WritePipe ==
    /\ Applies({"call"})
    /\ \E x \in Operands[use], first \in BOOLEAN :
          LET l == IF first THEN written ELSE x
              stage == IF first THEN x ELSE written
          IN  /\ l.level # 1
              /\ stage.level = 11
              /\ Callable(stage.tree)
              /\ Write(PipeItem(l, stage))

Init ==
    /\ use \in Uses
    /\ written \in Operands[use]
    /\ steps = 0

Next ==
    \/ WriteParen
    \/ WriteBinary
    \/ WriteUnary
    \/ WriteTernary
    \/ WriteComparison
    \/ WriteMembership
    \/ WriteArray
    \/ WriteRecord
    \/ WriteIndex
    \/ WriteField
    \/ WriteCall
    \/ WriteReduction
    \/ WritePipe

Spec == Init /\ [][Next]_vars
-----------------------------------------------------------------------------
(* Properties *)

(* What may stand between two tokens: a blank, a comment to the end of the
   line, a comment in brackets, or nothing. *)
Separators == {<<" ">>, <<"#", "a", "\n">>, <<"/", "*", "*", "/">>, <<>>}

RunsOn(c) == IsWord(c) \/ IsNumeral(c) \/ c = "i64"

TextOf(lexemes, sep) ==
    FoldLeft(LAMBDA text, lexeme :
                text \o (IF sep = <<>> /\ RunsOn(Last(text)) /\ RunsOn(lexeme[1])
                         THEN <<" ">> ELSE sep) \o lexeme,
             lexemes[1], Tail(lexemes))

(* The recursive descent of src/parser/expression.c and primary.c accepts every
   expression the grammar of the language derives, whatever separates its
   tokens, and gives it the tree the grammar does: precedence, associativity,
   chained comparisons, membership, named arguments, window reductions and
   pipes included. *)
ParserIsGrammar ==
    \A sep \in Separators : ParseText(TextOf(written.lexemes, sep)) = written.tree

(* Trees whose text is read back as another tree or not at all: an operand not
   of an operator that binds more tightly, a comparison to the left of another
   of its precedence, a reduction of a window that came through a pipe, NaN,
   and a double quote in a single-quoted string. *)
RECURSIVE Reprintable(_)
Reprintable(ast) ==
    /\ \A i \in DOMAIN ast.a : Reprintable(ast.a[i])
    /\ ast.k = "bin" => /\ OpPrecedence(ast.s) \in 5 .. 8 =>
                              \A i \in 1 .. 2 : ~(ast.a[i].k = "un" /\ ast.a[i].s = "not")
                        /\ OpPrecedence(ast.s) \in 5 .. 6 =>
                              AstPrecedence(ast.a[1]) # OpPrecedence(ast.s)
    /\ ast.k = "un" /\ ast.s = "-" => ~(ast.a[1].k = "un" /\ ast.a[1].s = "not")
    /\ ast.k = "call" => LowerWindowReduction(ast) = ast
    /\ ast.s # "nan"
    /\ ast.k = "str" => \A i \in DOMAIN ast.p : ast.p[i] = "\"" => i > 1 /\ ast.p[i - 1] = "\\"

(* The text src/ast/printer.c writes for a tree is read back as that tree:
   the parentheses it leaves out are not needed. *)
PrintReparses == Reprintable(written.tree) => ParseText(PrintText(written.tree)) = written.tree

(* The same for every tree, as the declaration of cxpr_expr_ast_to_string says. *)
OutputParsesBack == ParseText(PrintText(written.tree)) = written.tree
=============================================================================
