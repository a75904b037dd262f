------------------------------- MODULE MCExpr -------------------------------
(***************************************************************************)
(* Expressions, in two parts that share no state: a host that compiles and *)
(* evaluates them through every entry point (ExprMachine), and an author   *)
(* who writes them (Syntax).  A behaviour exercises the part chosen at the *)
(* start.                                                                  *)
(***************************************************************************)
EXTENDS ExprMachine

VARIABLES part, use, written, steps

xvars == <<use, written, steps>>

N(n) == NumLit(n)
x == Id("x")
y == Id("y")

BaseFns ==
    [g |-> Entry("sync", 1, 2), g0 |-> Entry("sync", 0, 0), nu |-> Entry("native", 1, 1),
     nb |-> Entry("native", 2, 2), abs |-> Builtin("abs", 1), clamp |-> Builtin("clamp", 3),
     vf |-> Entry("value", 1, 1),
     pr |-> [Entry("producer", 1, 1) EXCEPT !.rfields = <<"u", "w">>],
     rf |-> RecordFn(<<"x">>, <<"s", "d">>, <<Bin("+", x, N(1)), Bin("*", x, N(2))>>),
     f1 |-> Defined(<<"x">>, Call("g", <<x>>)),
     f2 |-> Defined(<<"x", "y">>, Bin("-", x, y)),
     f3 |-> Defined(<<"x", "y">>, Bin("+", Call("f1", <<x>>), y)),
     f5 |-> Defined(<<"x">>, N(1)),
     fc |-> Defined(<<"x">>, Ter(Bin("<", x, N(2)), N(1), Call("f1", <<x>>))),
     fb |-> Defined(<<"x">>, Bin(">", x, N(1))),
     fs |-> [Defined(<<"z">>, Bin("+", Fld("z", "f"), N(1))) EXCEPT !.pfields = <<<<"f">>>>],
     d0 |-> Defined(<<>>, N(5))]

BaseReg == [fns |-> BaseFns, resolver |-> TRUE, caps |-> <<>>, past |-> [a |-> 2]]

S(f, n, v) == SetValue(f, <<n>>, v)
BaseCtx ==
    << Bind(S(S(S(S(EmptyFrame, "a", Num(2)), "b", Num(3)), "x", Num(4)), "o", StructV(<<<<"f", Num(5)>>>>)),
            "params", <<"p">>, Num(1)) >>

Leaves == {N(0), N(2), Id("a"), Id("zz"), Par("p"), Fld("o", "f")}
Ops == {"+", "-", "*", "/", "<", "==", "and", "or"}
Conds == {Bin("<", Id("a"), N(2)), Bin(">", Id("b"), N(2)), BoolLit(TRUE)}

Flat == {Bin(op, l, r) : op \in Ops, l \in Leaves, r \in Leaves}
Mixed ==
    {Call(f, <<l>>) : f \in {"g", "nu", "abs", "vf", "f1", "f5", "fc", "fb"}, l \in Leaves}
    \cup {Call(f, <<l, r>>) : f \in {"g", "nb", "f2", "f3"}, l \in {Id("a"), Id("zz"), N(2)}, r \in Leaves}
    \cup {CallNamed("f2", <<l, r>>, ns) : l \in {Id("a"), N(2)}, r \in Leaves, ns \in {<<"y", "x">>, <<"", "y">>}}
    \cup {Prod("pr", <<l>>, "u") : l \in Leaves} \cup {Prod("rf", <<l>>, "d") : l \in Leaves}
    \cup {Ter(c, l, r) : c \in Conds, l \in Leaves, r \in {N(2), Id("zz")}}
    \cup {Bin(op, c, d) : op \in {"and", "or"}, c \in Conds, d \in Conds \cup {Bin("<", Id("zz"), N(1))}}
    \cup {Bin("+", Call("f1", <<l>>), Call("f1", <<r>>)) : l \in {Id("a"), N(2)}, r \in {Id("b"), N(2)}}
    \cup {Call(f, <<l, Bin("+", r, N(1))>>) : f \in {"f2", "f3"}, l \in {x, Id("a")}, r \in {x, y}}
    \cup {Idx(Id("a"), N(1)), Idx(ArrLit(<<N(4), Id("a")>>), Id("a")), Idx(ArrLit(<<N(4), Id("a")>>), N(1)),
          FieldExpr(RecLit(<<"u", "w">>, <<Id("a"), N(3)>>), "u"), Call("fs", <<Id("o")>>),
          Bin("*", Bin("+", Id("a"), N(1)), Bin("+", Id("a"), N(1))),
          Bin("+", Call("fc", <<Bin("*", Id("a"), Id("b"))>>), Un("-", Ter(Call("fb", <<Id("a")>>), N(1), N(7)))),
          Un("not", Call("fb", <<Par("p")>>)), Call("clamp", <<Id("a"), N(0), N(1)>>)}

Case(ast, sets, defs) == [ast |-> ast, reg |-> BaseReg, ctx |-> BaseCtx, sets |-> sets, defs |-> defs]

Pasts == {Bin("+", Id("a"), Idx(Id("a"), N(1))), Ter(Bin("<", Idx(Id("a"), N(2)), N(5)), Par("p"), Id("a")),
          Bin("*", Call("f1", <<Id("a")>>), Call("nu", <<Idx(Id("a"), N(1))>>))}

RECURSIVE Deep(_)
Deep(n) == IF n = 0 THEN Id("a") ELSE Bin("+", N(n), Deep(n - 1))

Still == {Case(t, {}, {}) : t \in Flat \cup Mixed \cup Pasts \cup {Deep(StackCapacity)}}

NewValues == {<<"a", Num(0)>>, <<"zz", Num(1)>>, <<"a", BoolV(TRUE)>>}
NewDefs == {<<"f1", Defined(<<"x">>, Bin("+", x, N(3)))>>,
            <<"f2", Defined(<<"y", "x">>, Bin("*", x, y))>>}
Changing ==
    {Case(t, NewValues, NewDefs) :
        t \in {Call("f3", <<Id("a"), Id("zz")>>), Bin("+", Call("f2", <<Id("a"), N(1)>>), Fld("o", "f"))}}

MCCases == Still \cup Changing

-----------------------------------------------------------------------------
(* Two productions, in arithmetic three; the names include the words a window
   reduction is written with and the functions it is lowered to. *)
X == INSTANCE Syntax WITH
    Names <- {"a", "b", "f", "max", "window", "roc", "contains", "nan",
              "__cxpr_window_highest", "__cxpr_window_roc"},
    Uses <- {"arith", "logic", "compare", "postfix", "call"},
    MaxSteps <- 2, DeepUses <- {"arith"}

MCInit ==
    /\ part \in {"machine", "syntax"}
    /\ Init
    /\ part # "machine" => case = CHOOSE c \in MCCases : TRUE
    /\ X!Init
    /\ part # "syntax" => use = "arith" /\ written = X!A

MCNext ==
    /\ UNCHANGED part
    /\ \/ part = "machine" /\ Next /\ UNCHANGED xvars
       \/ part = "syntax" /\ X!Next /\ UNCHANGED vars

MCSpec == MCInit /\ [][MCNext]_<<part, vars, xvars>>

(* The recursive descent of src/parser/expression.c and primary.c accepts every
   expression the grammar of the language derives, whatever separates its
   tokens, and gives it the tree the grammar does. *)
ParserIsGrammar == X!ParserIsGrammar

(* The text src/ast/printer.c writes for a tree is read back as that tree. *)
PrintReparses == X!PrintReparses
=============================================================================
