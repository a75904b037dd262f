------------------------------ MODULE MCSeries ------------------------------
(***************************************************************************)
(* SeriesMachine over the expressions a model session and the history      *)
(* adapter evaluate faithfully, by the shape of their series, and over the *)
(* indexes of docs/api/language.md.                                        *)
(***************************************************************************)
EXTENDS SeriesMachine

x == Id("x")
y == Id("y")
s == Id("s")
N(n) == NumLit(n)
n == Par("n")
Window(op, series, period) == Call("window_" \o op, <<series, period>>)
Midpoint(high, low, period) ==
    Un("half", Bin("+", Window("highest", high, period), Window("lowest", low, period)))

(* One parameter, from 1 to 3, or from 1 and 2 by default; s is x + y; k is an
   index below n. *)
Param == [n |-> [expr |-> N(1), call |-> TRUE, min |-> 1, max |-> 3]]
Open == [n |-> [expr |-> N(2), call |-> TRUE, min |-> 1, max |-> -1]]
NoParam == <<>>
Fns == [up |-> [params |-> <<"p">>, body |-> Bin("+", Idx(Id("p"), N(1)), Id("p"))],
        avg |-> [params |-> <<"p", "q">>, body |-> Window("mean", Id("p"), Id("q"))],
        both |-> [params |-> <<"p">>,
                  body |-> Bin("-", Call("up", <<Id("p")>>), Call("avg", <<Id("p"), N(2)>>))],
        twice |-> [params |-> <<"p">>, body |-> Bin("+", Id("p"), Id("p"))]]

SessionModel(consts, ast) ==
    [consts |-> consts, fns |-> Fns,
     binds |-> <<<<"s", Bin("+", x, y)>>,
                 <<"k", IF consts = NoParam THEN N(1) ELSE Bin("-", n, N(1))>>,
                 <<"r", ast>>>>]

(* Series a window can be taken of: names, indexed names, and operators on them. *)
WindowSeries ==
    {x, s, Idx(x, N(1)), Bin("-", Idx(x, N(1)), y), Un("-", x),
     Ter(Bin(">", x, y), x, Idx(y, N(1))), Bin("+", Call("abs", <<Un("-", x)>>), y)}

(* Series of rising, falling and repeat: names and operators on them. *)
TrendSeries == {x, s, Bin("+", x, y), Un("-", x)}

WindowNames == {"roc", "sum", "mean", "wma", "stddev", "highest", "lowest"}

SessionPlain ==
    {Window(op, a, N(2)) : op \in WindowNames, a \in {x, Bin("-", Idx(x, N(1)), y)}}
      \cup {Window(op, a, N(3)) : op \in {"sum", "roc"}, a \in WindowSeries}
      \cup {Call("bars_since_extreme", <<a, N(3), N(mode)>>) : a \in {x, s}, mode \in {1}}
      \cup {Call("bars_since_extreme", <<x, N(3), Un("-", N(1))>>),
            Call("window_mean_absdev", <<x, N(2), N(1)>>),
            Call("window_mean_absdev", <<s, N(3), Idx(y, N(1))>>)}
      \cup {Call(op, <<a, N(c)>>) : op \in Trends, a \in TrendSeries, c \in {3}}
      \cup {Call("repeat", <<Bin(">", a, y), N(c)>>) : a \in {x, s}, c \in {1, 2}}
      \cup {Call(op, <<x, y>>) : op \in Crosses}
      \cup {Window("sum", Window("highest", x, N(2)), N(2)), Window("roc", Window("sum", s, N(2)), N(1))}
      \cup {Idx(Idx(x, N(1)), N(2)), Idx(s, N(1)), Bin("/", N(9), Idx(y, N(1)))}
      \cup {Call("both", <<x>>), Bin("+", Call("up", <<s>>), Call("avg", <<Idx(x, N(1)), N(2)>>)),
            Window("sum", Bin("+", Call("up", <<x>>), y), N(2))}
      \cup {Bin("and", Call("rising", <<x, N(2)>>), Bin(">", Idx(x, N(1)), y)),
            Bin("-", Call("delta", <<x, N(2)>>), Idx(x, N(2))),
            Bin("+", Call("highest", <<x, N(2)>>), Window("lowest", x, N(2))),
            Idx(x, y),
            Window("sum", x, Id("k")), Call("mean", <<x, Idx(y, N(1))>>),
            Call("within", <<Idx(x, N(1)), N(2), y, BoolLit(FALSE)>>)}

SessionParam ==
    {Idx(x, n), Idx(s, Bin("+", n, N(1))), Idx(x, Bin("-", Bin("*", N(2), n), N(1))),
     Idx(x, Call("min", <<n, N(2)>>)), Idx(x, Bin("/", n, N(2))), Idx(x, Id("k")),
     Window("sum", x, n), Window("roc", Idx(x, n), n),
     Call("avg", <<x, n>>), Call("rising", <<x, Bin("+", n, N(1))>>)}

(* Bindings of a generated function before its last one. *)
GeneratedModel(consts, guard, before, ast) ==
    [consts |-> consts, fns |-> Fns, guard |-> guard, binds |-> Append(before, <<"r", ast>>)]

Ok == <<<<"ok", Bin(">", y, N(0))>>>>
Sum == <<<<"s", Bin("+", x, y)>>>>
Plain == {<<"", Sum, Window("mean", x, N(3))>>, <<"", Sum, Window("sum", s, N(2))>>,
          <<"", <<>>, Window("mean", x, N(4))>>, <<"", <<>>, Window("wma", Bin("+", x, y), N(2))>>,
          <<"", Sum, Window("sum", Window("roc", Bin("+", x, y), N(1)), N(2))>>,
          <<"", Sum, Bin("+", Window("sum", x, N(4)), Idx(s, N(3)))>>,
          <<"", <<<<"q", Window("sum", x, N(2))>>>>, Window("sum", x, N(2))>>,
          <<"", <<<<"q", Window("mean", x, N(2))>>>>, Window("stddev", x, N(2))>>,
          <<"", <<>>, Bin("and", Call("rising", <<x, N(3)>>), Call("cross_above", <<x, y>>))>>,
          <<"", <<>>, Call("repeat", <<Bin(">", x, y), N(2)>>)>>,
          <<"", <<>>, Bin("-", Call("both", <<x>>), Call("twice", <<y>>))>>,
          <<"", <<>>, Call("delta", <<x, N(2)>>)>>,
          <<"", <<<<"k", N(2)>>>>, Window("sum", x, Id("k"))>>,
          <<"", <<>>, Midpoint(x, x, N(3))>>,
          <<"", <<>>, Call("if", <<Call("within", <<x, Idx(y, N(1)), N(3), BoolLit(FALSE)>>),
                                   Call("mean", <<x, Idx(x, N(1))>>), Call("max", <<y, N(1)>>)>>)>>,
          <<"ok", Ok, Window("sum", x, N(2))>>,
          <<"ok", Ok, Ter(Id("ok"), Idx(x, N(1)), N(0))>>}
Periods == {<<"", Sum, Window("sum", x, n)>>, <<"", <<>>, Window("mean", Bin("-", x, y), n)>>,
            <<"", <<>>, Window("sum", Window("roc", x, n), N(2))>>,
            <<"", <<>>, Window("mean", Window("roc", Bin("+", x, y), n), N(2))>>,
            <<"", <<>>, Window("sum", Bin("*", x, n), N(2))>>,
            <<"", Sum, Midpoint(s, x, n)>>,
            <<"", Sum, Bin("+", Idx(x, n), Call("bars_since_extreme", <<s, n, N(1)>>))>>}

AdapterSeries ==
    {x, Idx(x, N(1)), Bin("+", x, y), Bin("-", Idx(x, N(1)), y), Ter(Bin(">", x, y), x, y)}

(* Calls the adapter rewrites to read their arguments earlier. *)
AdapterCalls == {Call("abs", <<x>>), Call("max", <<x, y>>), Call("delta", <<x, N(1)>>), Call("highest", <<y, N(2)>>)}

AdapterExprs ==
    {Idx(a, N(2)) : a \in {x, Idx(x, N(1)), Bin("+", x, y), Call("abs", <<x>>)}}
      \cup {Call(op, <<a, N(2)>>) : op \in {"rising", "delta"}, a \in AdapterSeries \cup AdapterCalls}
      \cup {Call(op, <<x, N(2)>>) : op \in Counted \ {"repeat", "roc"}}
      \cup {Call("roc", <<x, N(1)>>), Call("repeat", <<Bin(">", x, y), N(2)>>)}
      \cup {Call("cross_above", <<x, y>>), Call("cross_below", <<Bin("+", x, y), Idx(y, N(1))>>)}
      \cup {Call("overlaps", <<Bin(">", x, y), Bin("<", x, y), N(b)>>) : b \in {0, 2}}
      \cup {Call("signal_overlaps", <<Bin(">", x, y), Bin("<", y, x)>>),
            Window("wma", x, N(3)), Window("stddev", Idx(x, N(1)), N(2))}

Sample(a, b) == [x |-> Num(a), y |-> Num(b)]
Rows == {Sample(1, 2), Sample(3, 2), Sample(2, 0)}

Session(consts, asts) ==
    {[host |-> "session", policy |-> "nan", model |-> SessionModel(consts, ast), rows |-> Rows] : ast \in asts}

Generating(consts, cases) ==
    {[host |-> "generated", policy |-> "nan", model |-> GeneratedModel(consts, c[1], c[2], c[3]),
      rows |-> Rows \cup {[x |-> NaN, y |-> Num(1)]}] : c \in cases}

MCCases ==
    Session(NoParam, SessionPlain)
      \cup Session(Param, SessionParam)
      \cup Generating(NoParam, Plain)
      \cup Generating(Param, Periods)
      \cup Session(Open, {Window("sum", x, n), Idx(x, N(1))})
      \cup Generating(Open, {<<"", <<>>, Window("mean", x, n)>>, <<"", <<>>, Window("highest", Bin("+", x, y), n)>>})
      \cup {[host |-> "adapter", policy |-> policy,
             model |-> [consts |-> NoParam, fns |-> Fns, binds |-> <<<<"r", ast>>>>], rows |-> Rows] :
              policy \in {"error", "clamp", "nan"}, ast \in AdapterExprs}

(* The lookbacks of docs/api/language.md, with close and high for x and y. *)
MCDocumented == Session(NoParam, {Idx(x, N(0)), Idx(x, N(1)), Idx(Bin("+", x, y), N(2))})

(* Every lookback of the language document is answered with the earlier value:
   close[0] is the current sample, close[1] the previous one, and
   (close + high)[2] a historical compound expression. *)
DocumentedLookbacks == out # Missing => Same(out, want)
=============================================================================
