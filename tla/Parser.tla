------------------------------- MODULE Parser -------------------------------
(***************************************************************************)
(* The expression lexer (src/lexer/lexer.c) and parser (src/parser/):      *)
(* recursive descent over the tokens of a text.                            *)
(*                                                                         *)
(* A source text is a sequence of pieces: a word (a maximal run of         *)
(* identifier characters that starts with a letter), a numeral (a run of   *)
(* digits), or one other character.  A number is the integer a numeral     *)
(* stands for: fractions and exponents are left out, and so are the line   *)
(* and column of a token.                                                  *)
(*                                                                         *)
(* A rule returns a parse [ok, at, e]: whether it succeeded, the position  *)
(* of the token it stopped at, and the tree.  had_error is the parse that  *)
(* is not ok; which message it carries is left out.                        *)
(*                                                                         *)
(* Every rule of expression.c begins with the rule that binds next more    *)
(* tightly, so a primary or a prefix operator is parsed first and the      *)
(* rules apply to it from the tightest outwards: Climb.                    *)
(***************************************************************************)
EXTENDS Ast, SequencesExt

CONSTANT Names    \* words that are no keyword

Numerals == <<"1", "2", "3">>

(* cxpr_keywords: both spellings of each. *)
Keywords ==
    [w \in {"and", "AND"} |-> "and"] @@ [w \in {"or", "OR"} |-> "or"]
    @@ [w \in {"not", "NOT"} |-> "not"] @@ [w \in {"in", "IN"} |-> "in"]
    @@ [w \in {"true", "TRUE"} |-> "true"] @@ [w \in {"false", "FALSE"} |-> "false"]
    @@ [w \in {"eq", "EQ"} |-> "=="] @@ [w \in {"ne", "NE", "neq", "NEQ"} |-> "!="]
    @@ [w \in {"lt", "LT"} |-> "<"] @@ [w \in {"gt", "GT"} |-> ">"]
    @@ [w \in {"le", "LE", "lte", "LTE"} |-> "<="]
    @@ [w \in {"ge", "GE", "gte", "GTE"} |-> ">="]

Nulls == {"null", "Null", "NULL"}

IsWord(c) == c \in Names \cup DOMAIN Keywords \cup Nulls
IsNumeral(c) == c \in ToSet(Numerals)
NumeralValue(c) == CHOOSE n \in DOMAIN Numerals : Numerals[n] = c

(* A token: its type, its name, its number, the characters of its string. *)
Token(t, s, n, p) == [t |-> t, s |-> s, n |-> n, p |-> p]
Plain(t) == Token(t, "", 0, <<>>)

(* A token, and where the text goes on behind it. *)
Lexed(token, at) == [token |-> token, at |-> at]
LexError == Lexed(Plain("error"), 0)

(* The piece at i; "" for the terminator. *)
At(text, i) == IF i <= Len(text) THEN text[i] ELSE ""

EndOfLine(text, i) == Min({j \in i .. Len(text) : text[j] = "\n"} \cup {Len(text) + 1})

EndOfComment(text, i) ==
    Min({j + 2 : j \in {j \in i .. Len(text) : text[j] = "*" /\ At(text, j + 1) = "/"}}
        \cup {Len(text) + 1})

(* cxpr_lexer_skip_whitespace *)
RECURSIVE SkipWhitespace(_, _)
SkipWhitespace(text, i) ==
    LET c == At(text, i)
        next == At(text, i + 1)
    IN  IF c \in {" ", "\n"} THEN SkipWhitespace(text, i + 1)
        ELSE IF c = "#" \/ (c = "/" /\ next = "/") THEN SkipWhitespace(text, EndOfLine(text, i))
        ELSE IF c = "/" /\ next = "*" THEN SkipWhitespace(text, EndOfComment(text, i + 2))
        ELSE i

(* cxpr_lexer_number: the suffix i64 makes it an integer. *)
LexNumber(text, i) ==
    LET n == NumeralValue(text[i])
    IN  IF At(text, i + 1) = "i64" THEN Lexed(Token("int", "", n, <<>>), i + 2)
        ELSE Lexed(Token("num", "", n, <<>>), i + 1)

(* cxpr_lexer_identifier, cxpr_check_keyword: null is the number NaN. *)
LexIdentifier(text, i) ==
    Lexed(IF text[i] \in Nulls THEN Token("num", "nan", 0, <<>>)
          ELSE IF text[i] \in DOMAIN Keywords THEN Plain(Keywords[text[i]])
          ELSE Token("id", text[i], 0, <<>>), i + 1)

(* cxpr_lexer_variable: $name and the dotted names that follow without a
   blank; i is behind the part read so far. *)
RECURSIVE LexVariable(_, _, _)
LexVariable(text, name, i) ==
    IF At(text, i) # "." THEN Lexed(Token("var", name, 0, <<>>), i)
    ELSE IF ~IsWord(At(text, i + 1)) THEN LexError
    ELSE LexVariable(text, name \o "." \o text[i + 1], i + 2)

(* cxpr_lexer_string: where the closing quote is; 0 if there is none.  A
   backslash hides the character behind it and stays in the string. *)
RECURSIVE StringEnd(_, _, _)
StringEnd(text, i, quote) ==
    IF i > Len(text) THEN 0
    ELSE IF text[i] = quote THEN i
    ELSE StringEnd(text, IF text[i] = "\\" /\ i < Len(text) THEN i + 2 ELSE i + 1, quote)

LexString(text, i) ==
    LET end == StringEnd(text, i + 1, text[i])
    IN  IF end = 0 THEN LexError
        ELSE Lexed(Token("str", "", 0, SubSeq(text, i + 1, end - 1)), end + 1)

OnePiece == {"+", "-", "*", "/", "%", "^", "(", ")", "[", "]", "{", "}", ",", ".", ":",
             "?", "=", "<", ">"}

TwoPieces ==
    [pair \in {<<"*", "*">>, <<"!", "=">>, <<"=", "=">>, <<"<", "=">>, <<">", "=">>,
               <<"&", "&">>, <<"|", "|">>, <<"|", ">">>} |->
        CASE pair = <<"*", "*">> -> "^"
          [] pair = <<"&", "&">> -> "and"
          [] pair = <<"|", "|">> -> "or"
          [] OTHER -> pair[1] \o pair[2]]

(* The switch of cxpr_lexer_next. *)
LexOperator(text, i) ==
    LET pair == <<text[i], At(text, i + 1)>>
    IN  IF pair \in DOMAIN TwoPieces THEN Lexed(Plain(TwoPieces[pair]), i + 2)
        ELSE IF text[i] \in OnePiece THEN Lexed(Plain(text[i]), i + 1)
        ELSE IF text[i] = "!" THEN Lexed(Plain("not"), i + 1)
        ELSE LexError

(* cxpr_lexer_next *)
LexNext(text, from) ==
    LET i == SkipWhitespace(text, from)
        c == At(text, i)
    IN  IF c = "" THEN Lexed(Plain("eof"), i)
        ELSE IF IsNumeral(c) THEN LexNumber(text, i)
        ELSE IF IsWord(c) THEN LexIdentifier(text, i)
        ELSE IF c = "$"
             THEN IF IsWord(At(text, i + 1)) THEN LexVariable(text, text[i + 1], i + 2)
                  ELSE LexError
        ELSE IF c \in {"\"", "'"} THEN LexString(text, i)
        ELSE LexOperator(text, i)

(* All the tokens the parser will be given; it stops at the last one. *)
RECURSIVE LexFrom(_, _)
LexFrom(text, i) ==
    LET next == LexNext(text, i)
    IN  IF next.token.t \in {"eof", "error"} THEN <<next.token>>
        ELSE <<next.token>> \o LexFrom(text, next.at)

Lex(text) == LexFrom(text, 1)

-----------------------------------------------------------------------------
(* Parsing *)

Done(e, at) == [ok |-> TRUE, at |-> at, e |-> e]
NoParse == [ok |-> FALSE, at |-> 0, e |-> NoAst]

(* The rules, from the loosest to the tightest. *)
Rules == <<"expression", "ternary", "or", "and", "not", "equality", "relational",
           "arithmetic", "term", "unary", "power", "primary">>

RuleNumber(rule) == CHOOSE n \in DOMAIN Rules : Rules[n] = rule

(* Parse(rule, tokens, i) *)
RECURSIVE Parse(_, _, _)

(* cxpr_expr_parser_clone_ast *)
RECURSIVE CloneAst(_)
CloneAst(ast) ==
    AstNode(ast.k, ast.s, ast.n, ast.p, [i \in DOMAIN ast.a |-> CloneAst(ast.a[i])])

-----------------------------------------------------------------------------
(* Operators *)

(* Mutant: the piped value becomes the last argument. *)
PipeInjectLast(stage, piped) ==
    CASE stage.k = "id" -> CallNamed(stage.s, <<piped>>, <<"">>)
      [] stage.k \in {"call", "prd"} ->
            [stage EXCEPT !.a = Append(@, piped), !.p = Append(@, "")]
      [] OTHER -> NoAst

(* cxpr_expr_parser_pipe_inject_argument; NoAst if the stage is not callable. *)
PipeInject(stage, piped) ==
    CASE stage.k = "id" -> CallNamed(stage.s, <<piped>>, <<"">>)
      [] stage.k = "call" -> [stage EXCEPT !.a = <<piped>> \o @, !.p = <<"">> \o @]
      [] stage.k = "prd" ->
            [stage EXCEPT !.a = <<piped>> \o @, !.p = <<Head(@), "">> \o Tail(@)]
      [] OTHER -> NoAst

(* cxpr_parse_pipe behind its first operand *)
RECURSIVE ParsePipe(_, _)
ParsePipe(ts, left) ==
    LET stage == Parse("ternary", ts, left.at + 1)
        call == PipeInject(stage.e, left.e)
    IN  IF ~left.ok \/ ts[left.at].t # "|>" THEN left
        ELSE IF ~stage.ok \/ call = NoAst THEN NoParse
        ELSE ParsePipe(ts, Done(call, stage.at))

(* cxpr_parse_ternary *)
ParseBranches(ts, condition, yes) ==
    LET no == Parse("expression", ts, yes.at + 1)
    IN  IF ~yes.ok \/ ts[yes.at].t # ":" \/ ~no.ok THEN NoParse
        ELSE Done(Ter(condition, yes.e, no.e), no.at)

ParseTernary(ts, condition) ==
    IF ~condition.ok \/ ts[condition.at].t # "?" THEN condition
    ELSE ParseBranches(ts, condition.e, Parse("expression", ts, condition.at + 1))

(* The loops of cxpr_parse_or, _and, _arithmetic and _term. *)
RECURSIVE ParseLeft(_, _, _, _)
ParseLeft(ts, left, ops, operand) ==
    LET right == Parse(operand, ts, left.at + 1)
    IN  IF ~left.ok \/ ts[left.at].t \notin ops THEN left
        ELSE IF ~right.ok THEN right
        ELSE ParseLeft(ts, Done(Bin(ts[left.at].t, left.e, right.e), right.at), ops, operand)

(* A prefix operator of cxpr_parse_not or cxpr_parse_unary, in front of an
   operand of its own rule; a plus is skipped. *)
ParsePrefix(op, operand) ==
    IF ~operand.ok \/ op = "+" THEN operand ELSE Done(Un(op, operand.e), operand.at)

(* One operator and its right operand: cxpr_parse_equality, cxpr_parse_power. *)
ParseOnce(ts, left, ops, operand) ==
    LET right == Parse(operand, ts, left.at + 1)
    IN  IF ~left.ok \/ ts[left.at].t \notin ops THEN left
        ELSE IF ~right.ok THEN right
        ELSE Done(Bin(ts[left.at].t, left.e, right.e), right.at)

RelationalOps == {"<", ">", "<=", ">="}
IsSubject(ast) == ast.k \in {"id", "par", "fld", "fof", "chn", "idx", "prd"}
IsThreshold(ast) == ast.k \in {"num", "par"}
CrossBounds(first, next) == (first \in {">", ">="}) # (next \in {">", ">="})

(* The loop of cxpr_parse_relational: each further operator is a comparison
   of its own, with the previous operand or with the chain's subject. *)
RECURSIVE ParseChain(_, _, _, _, _)
ParseChain(ts, first, subject, right, joined) ==
    LET op == ts[joined.at].t
        next == Parse("arithmetic", ts, joined.at + 1)
        left == IF subject # NoAst /\ CrossBounds(first, op) THEN subject ELSE right
    IN  IF op \notin RelationalOps THEN joined
        ELSE IF ~next.ok THEN next
        ELSE ParseChain(ts, first, subject, next.e,
                        Done(Bin("and", joined.e, Bin(op, CloneAst(left), next.e)), next.at))

ParseComparison(ts, left, right) ==
    LET op == ts[left.at].t
        subject == IF IsSubject(left.e) /\ IsThreshold(right.e) THEN CloneAst(left.e) ELSE NoAst
    IN  IF ~right.ok THEN right
        ELSE ParseChain(ts, op, subject, right.e, Done(Bin(op, left.e, right.e), right.at))

(* cxpr_parse_set_membership: i is at the bracket. *)
ParseSetMembership(ts, left, i, negated) ==
    LET array == Parse("arithmetic", ts, i)
        call == CallNamed("contains", <<left, array.e>>, <<"", "">>)
    IN  IF ts[i].t # "[" THEN NoParse
        ELSE IF ts[i + 1].t = "]" THEN NoParse
        ELSE IF ~array.ok THEN array
        ELSE Done(IF negated THEN Un("not", call) ELSE call, array.at)

(* cxpr_parse_relational behind its first operand *)
ParseRelational(ts, left) ==
    LET t == ts[left.at].t
    IN  IF ~left.ok THEN left
        ELSE IF t \in RelationalOps
             THEN ParseComparison(ts, left, Parse("arithmetic", ts, left.at + 1))
        ELSE IF t = "in" THEN ParseSetMembership(ts, left.e, left.at + 1, FALSE)
        ELSE IF t = "not" /\ ts[left.at + 1].t = "in"
             THEN ParseSetMembership(ts, left.e, left.at + 2, TRUE)
        ELSE left

-----------------------------------------------------------------------------
(* Primary expressions *)

(* cxpr_window_reduction_name *)
WindowReductionName ==
    [max |-> "__cxpr_window_highest", min |-> "__cxpr_window_lowest",
     sum |-> "__cxpr_window_sum", mean |-> "__cxpr_window_mean",
     stddev |-> "__cxpr_window_stddev", wma |-> "__cxpr_window_wma",
     roc |-> "__cxpr_window_roc"]

IsWindow(ast) == ast.k = "call" /\ ast.s = "window" /\ Len(ast.a) = 2

(* cxpr_parse_lower_window_reduction *)
LowerWindowReduction(node) ==
    LET argc == Len(node.a)
        lowered == IF node.s = "mean_absdev" /\ argc = 2 THEN "__cxpr_window_mean_absdev"
                   ELSE IF argc = 1 /\ node.s \in DOMAIN WindowReductionName
                        THEN WindowReductionName[node.s]
                   ELSE ""
        window == node.a[1]
        names == window.p \o Tail(node.p)
    IN  IF node.s = "roc" /\ argc = 2 THEN [node EXCEPT !.s = "__cxpr_window_roc"]
        ELSE IF lowered = "" THEN node
        ELSE IF ~IsWindow(window) THEN node
        ELSE CallNamed(lowered, window.a \o Tail(node.a),
                       IF names[1] = "expr" THEN [names EXCEPT ![1] = "value"] ELSE names)

(* An element of an array literal, an argument of a call (which may be named,
   cxpr_parse_call_argument), or a field of a record literal (which must be,
   and stands for its own value when none follows). *)
ParseItem(ts, i, form) ==
    LET named == form # "element" /\ ts[i].t = "id"
                 /\ (ts[i + 1].t = "=" \/ (form = "field" /\ ts[i + 1].t = ":"))
        value == Parse("expression", ts, IF named THEN i + 2 ELSE i)
    IN  IF form = "field" /\ ts[i].t # "id" THEN NoParse @@ [name |-> ""]
        ELSE IF form = "field" /\ ~named THEN Done(Id(ts[i].s), i + 1) @@ [name |-> ts[i].s]
        ELSE value @@ [name |-> IF named THEN ts[i].s ELSE ""]

NoList == [ok |-> FALSE, at |-> 0, a |-> <<>>, p |-> <<>>]

(* The items up to the closing token; a comma must be followed by an item. *)
RECURSIVE ParseItems(_, _, _, _, _)
ParseItems(ts, item, form, close, list) ==
    LET more == [ok |-> TRUE, at |-> item.at + 1, a |-> Append(list.a, item.e),
                 p |-> Append(list.p, item.name)]
    IN  IF ~item.ok THEN NoList
        ELSE IF ts[item.at].t = ","
             THEN ParseItems(ts, ParseItem(ts, item.at + 1, form), form, close, more)
        ELSE IF ts[item.at].t = close THEN more
        ELSE NoList

(* cxpr_parse_array_literal, cxpr_parse_record_literal,
   cxpr_expr_parser_parse_arg_list: i is behind the opening token. *)
ParseList(ts, i, form, close) ==
    IF ts[i].t = close THEN [NoList EXCEPT !.ok = TRUE, !.at = i + 1]
    ELSE ParseItems(ts, ParseItem(ts, i, form), form, close, NoList)

ParseArray(list) == IF list.ok THEN Done(ArrLit(list.a), list.at) ELSE NoParse
ParseRecord(list) == IF list.ok THEN Done(RecLit(list.p, list.a), list.at) ELSE NoParse

(* A call, or the field of what a producer returns. *)
ParseCall(ts, name, args, lowers) ==
    LET call == CallNamed(name, args.a, args.p)
    IN  IF ~args.ok THEN NoParse
        ELSE IF ts[args.at].t # "."
             THEN Done(IF lowers THEN LowerWindowReduction(call) ELSE call, args.at)
        ELSE IF ts[args.at + 1].t # "id" THEN NoParse
        ELSE Done(AstNode("prd", name, 0, <<ts[args.at + 1].s>> \o args.p, args.a), args.at + 2)

(* The names behind a name, each after a dot. *)
RECURSIVE ParseSegments(_, _, _)
ParseSegments(ts, path, i) ==
    IF ts[i].t # "." THEN [ok |-> TRUE, at |-> i, path |-> path]
    ELSE IF ts[i + 1].t # "id" THEN [ok |-> FALSE, at |-> 0, path |-> <<>>]
    ELSE ParseSegments(ts, Append(path, ts[i + 1].s), i + 2)

(* cxpr_expr_parser_join_segments *)
JoinSegments(path) == FoldLeft(LAMBDA name, part : name \o "." \o part, path[1], Tail(path))

(* A name: a call, a dotted call, a field, a chain of fields or an identifier. *)
ParseName(ts, segments) ==
    LET path == segments.path
        at == segments.at
    IN  IF ~segments.ok THEN NoParse
        ELSE IF ts[at].t = "("
             THEN ParseCall(ts, JoinSegments(path), ParseList(ts, at + 1, "argument", ")"),
                            Len(path) = 1)
        ELSE Done(CASE Len(path) = 1 -> Id(path[1])
                    [] Len(path) = 2 -> Fld(path[1], path[2])
                    [] OTHER -> Chain(path), at)

(* $name, and the dotted names behind it *)
ParseParameter(segments) ==
    IF segments.ok THEN Done(Par(JoinSegments(segments.path)), segments.at) ELSE NoParse

(* A parenthesised expression, and one field of it *)
ParseGroup(ts, inner) ==
    LET at == inner.at + 1
    IN  IF ~inner.ok THEN inner
        ELSE IF ts[inner.at].t # ")" THEN NoParse
        ELSE IF ts[at].t # "." THEN Done(inner.e, at)
        ELSE IF ts[at + 1].t # "id" THEN NoParse
        ELSE Done(FieldExpr(inner.e, ts[at + 1].s), at + 2)

(* The index suffixes of a primary *)
RECURSIVE ParseSuffixes(_, _)
ParseSuffixes(ts, node) ==
    LET index == Parse("expression", ts, node.at + 1)
    IN  IF ~node.ok \/ ts[node.at].t # "[" THEN node
        ELSE IF ~index.ok \/ ts[index.at].t # "]" THEN NoParse
        ELSE ParseSuffixes(ts, Done(Idx(node.e, index.e), index.at + 1))

(* cxpr_parse_primary before the suffixes *)
ParsePrimary(ts, i) ==
    LET token == ts[i]
    IN  CASE token.t = "num" -> Done(AstNode("num", token.s, token.n, <<>>, <<>>), i + 1)
          [] token.t = "int" -> Done(IntLit(token.n), i + 1)
          [] token.t \in {"true", "false"} -> Done(BoolLit(token.t = "true"), i + 1)
          [] token.t = "str" -> Done(AstNode("str", "", 0, token.p, <<>>), i + 1)
          [] token.t = "var" -> ParseParameter(ParseSegments(ts, <<token.s>>, i + 1))
          [] token.t = "id" ->
                ParseName(ts, IF ts[i + 1].t = "("
                              THEN [ok |-> TRUE, at |-> i + 1, path |-> <<token.s>>]
                              ELSE ParseSegments(ts, <<token.s>>, i + 1))
          [] token.t = "(" -> ParseGroup(ts, Parse("expression", ts, i + 1))
          [] token.t = "[" -> ParseArray(ParseList(ts, i + 1, "element", "]"))
          [] token.t = "{" -> ParseRecord(ParseList(ts, i + 1, "field", "}"))
          [] OTHER -> NoParse

(* A rule, given the parse of its first operand *)
ApplyRule(rule, ts, left) ==
    CASE rule = "expression" -> ParsePipe(ts, left)
      [] rule = "ternary" -> ParseTernary(ts, left)
      [] rule = "or" -> ParseLeft(ts, left, {"or"}, "and")
      [] rule = "and" -> ParseLeft(ts, left, {"and"}, "not")
      [] rule = "equality" -> ParseOnce(ts, left, {"==", "!="}, "relational")
      [] rule = "relational" -> ParseRelational(ts, left)
      [] rule = "arithmetic" -> ParseLeft(ts, left, {"+", "-"}, "term")
      [] rule = "term" -> ParseLeft(ts, left, {"*", "/", "%"}, "unary")
      [] rule = "power" -> ParseOnce(ts, left, {"^"}, "unary")
      [] OTHER -> left

(* The rules number n and below, down to this one *)
RECURSIVE Climb(_, _, _, _)
Climb(rule, n, ts, left) ==
    IF ~left.ok \/ n < RuleNumber(rule) THEN left
    ELSE Climb(rule, n - 1, ts, ApplyRule(Rules[n], ts, left))

Parse(rule, ts, i) ==
    LET op == ts[i].t
        prefixed == IF op = "not" THEN "not" ELSE "unary"
    IN  IF op \in {"not", "-", "+"} /\ RuleNumber(rule) <= RuleNumber(prefixed)
        THEN Climb(rule, RuleNumber(prefixed) - 1, ts, ParsePrefix(op, Parse(prefixed, ts, i + 1)))
        ELSE Climb(rule, RuleNumber("power"), ts, ParseSuffixes(ts, ParsePrimary(ts, i)))

(* cxpr_expr_ast_parse: NoAst if the text is no expression. *)
ParseText(text) ==
    LET ts == Lex(text)
        parse == Parse("expression", ts, 1)
    IN  IF Last(ts).t = "error" THEN NoAst
        ELSE IF ~parse.ok \/ ts[parse.at].t # "eof" THEN NoAst
        ELSE parse.e

-----------------------------------------------------------------------------
(***************************************************************************)
(* The text of a syntax tree (src/ast/printer.c): a sequence of the pieces *)
(* the lexer reads.                                                        *)
(***************************************************************************)

(* cxpr_op_precedence *)
OpPrecedence(op) ==
    CASE op = "or" -> 2
      [] op = "and" -> 3
      [] op \in {"==", "!="} -> 5
      [] op \in {"<", ">", "<=", ">="} -> 6
      [] op \in {"+", "-"} -> 7
      [] op \in {"*", "/", "%"} -> 8
      [] op = "^" -> 10

(* cxpr_expr_ast_precedence *)
AstPrecedence(ast) ==
    CASE ast.k = "ter" -> 1
      [] ast.k = "bin" -> OpPrecedence(ast.s)
      [] ast.k = "un" -> 9
      [] OTHER -> 11

(* Mutant: an operand of the same precedence never has parentheses. *)
BinaryChildTight(child, op, right) ==
    child.k = "ter" \/ AstPrecedence(child) < OpPrecedence(op)

(* cxpr_binary_child_needs_parens: operators associate to the left, ^ to the
   right. *)
BinaryChildNeedsParens(child, op, right) ==
    \/ child.k = "ter"
    \/ AstPrecedence(child) < OpPrecedence(op)
    \/ child.k = "bin" /\ AstPrecedence(child) = OpPrecedence(op) /\ right = (op # "^")

(* cxpr_binary_op_text, as the pieces it is made of *)
OpText(op) ==
    CASE op = "==" -> <<"=", "=">>
      [] op = "!=" -> <<"!", "=">>
      [] op = "<=" -> <<"<", "=">>
      [] op = ">=" -> <<">", "=">>
      [] OTHER -> <<op>>

(* The pieces of a name: a joined name is dotted again. *)
NameText(name) ==
    LET parts == {pair \in Names \X Names : pair[1] \o "." \o pair[2] = name}
    IN  IF parts = {} THEN <<name>>
        ELSE LET pair == CHOOSE p \in parts : TRUE IN <<pair[1], ".", pair[2]>>

Commas(parts) ==
    FlattenSeq([i \in DOMAIN parts |-> IF i = 1 THEN parts[i] ELSE <<",", " ">> \o parts[i]])

Dots(path) ==
    FlattenSeq([i \in DOMAIN path |-> IF i = 1 THEN <<path[i]>> ELSE <<".", path[i]>>])

(* cxpr_print_number *)
PrintNumber(ast) == IF ast.s = "nan" THEN <<"nan", "(", ")">> ELSE <<Numerals[ast.n]>>

(* cxpr_print_string: a quote is escaped unless an odd run of backslashes
   stands before it. *)
RECURSIVE BackslashRun(_, _)
BackslashRun(chars, i) ==
    IF i > 0 /\ chars[i] = "\\" THEN 1 + BackslashRun(chars, i - 1) ELSE 0

PrintString(chars) ==
    <<"\"">> \o FlattenSeq([i \in DOMAIN chars |->
                   IF chars[i] = "\"" /\ BackslashRun(chars, i - 1) % 2 = 0
                   THEN <<"\\", chars[i]>> ELSE <<chars[i]>>]) \o <<"\"">>

Parens(text, needed) == IF needed THEN <<"(">> \o text \o <<")">> ELSE text

(* PrintNode(ast, precedence of the parent) *)
RECURSIVE PrintNode(_, _)

(* cxpr_print_with_parens *)
PrintOperand(ast, needed) == Parens(PrintNode(ast, 0), needed)

(* cxpr_print_binary, _unary, _ternary *)
PrintBinary(ast) ==
    PrintOperand(ast.a[1], BinaryChildNeedsParens(ast.a[1], ast.s, FALSE))
    \o <<" ">> \o OpText(ast.s) \o <<" ">>
    \o PrintOperand(ast.a[2], BinaryChildNeedsParens(ast.a[2], ast.s, TRUE))

PrintUnary(ast) ==
    (IF ast.s = "not" THEN <<"not", " ">> ELSE <<"-">>)
    \o PrintOperand(ast.a[1], AstPrecedence(ast.a[1]) < 9)

PrintTernary(ast) ==
    LET branch(i) == PrintOperand(ast.a[i], ast.a[i].k = "ter")
    IN  branch(1) \o <<" ", "?", " ">> \o branch(2) \o <<" ", ":", " ">> \o branch(3)

(* cxpr_print_call_args *)
PrintArgs(args, names) ==
    <<"(">> \o Commas([i \in DOMAIN args |->
                 (IF names[i] = "" THEN <<>> ELSE <<names[i], "=">>) \o PrintNode(args[i], 0)])
    \o <<")">>

PrintRecord(ast) ==
    <<"{">> \o Commas([i \in DOMAIN ast.a |->
                 <<ast.p[i], " ", "=", " ">> \o PrintNode(ast.a[i], 0)]) \o <<"}">>

(* cxpr_print_node *)
PrintNode(ast, parent) ==
    CASE ast.k = "num" -> PrintNumber(ast)
      [] ast.k = "int" -> <<Numerals[ast.n], "i64">>
      [] ast.k = "bool" -> <<IF ast.n = 1 THEN "true" ELSE "false">>
      [] ast.k = "str" -> PrintString(ast.p)
      [] ast.k = "arr" ->
            <<"[">> \o Commas([i \in DOMAIN ast.a |-> PrintNode(ast.a[i], 0)]) \o <<"]">>
      [] ast.k = "rec" -> PrintRecord(ast)
      [] ast.k = "id" -> <<ast.s>>
      [] ast.k = "par" -> <<"$">> \o NameText(ast.s)
      [] ast.k \in {"fld", "chn"} -> Dots(ast.p)
      [] ast.k = "fof" -> Parens(PrintNode(ast.a[1], 0), TRUE) \o <<".", ast.s>>
      [] ast.k = "prd" -> NameText(ast.s) \o PrintArgs(ast.a, Tail(ast.p)) \o <<".", ast.p[1]>>
      [] ast.k = "call" -> NameText(ast.s) \o PrintArgs(ast.a, ast.p)
      [] ast.k = "idx" ->
            PrintNode(ast.a[1], AstPrecedence(ast)) \o <<"[">> \o PrintNode(ast.a[2], 0) \o <<"]">>
      [] ast.k = "bin" -> Parens(PrintBinary(ast), OpPrecedence(ast.s) < parent)
      [] ast.k = "un" -> Parens(PrintUnary(ast), 9 < parent)
      [] ast.k = "ter" -> Parens(PrintTernary(ast), 1 < parent)

(* cxpr_expr_ast_to_string *)
PrintText(ast) == PrintNode(ast, 0)
=============================================================================
