----------------------------- MODULE ExprValues -----------------------------
(***************************************************************************)
(* Typed values (src/value_ops.c, the operators of src/eval/tree.c) and    *)
(* the part of a context an evaluation reads (src/context/structs.c,       *)
(* values.c).                                                              *)
(*                                                                         *)
(* A value is a record [t, v, s, f]: its type, its number (0 or 1 for a    *)
(* bool), its string or error code, and its parts: <<name, value>> pairs   *)
(* of a struct, <<"", value>> pairs of an array.  A failed evaluation is   *)
(* the value Err(code): the code returns NaN and sets err.                 *)
(*                                                                         *)
(* A double is a small integer: + - * and the comparisons are exact on     *)
(* them.  What libm does for / fmod pow sqrt is external.  An int64 has    *)
(* the width Int64Bits, so that overflow is reached.                       *)
(*                                                                         *)
(* Names are paths, sequences of strings: <<"x">> for x, <<"o", "f">> for  *)
(* o.f, <<"_", "o", "f">> for o_f.  A context is a sequence of frames,     *)
(* innermost first; a frame is a function from <<map, path>> to the value  *)
(* bound there.  A frame with an expression scope has the key              *)
(* <<"scope", <<>>>>.                                                      *)
(***************************************************************************)
EXTENDS Integers, Sequences, FiniteSets, Ast, SequencesExt

CONSTANT Int64Bits    \* width of an int64

ASSUME Int64Assumption == Int64Bits \in Nat \ {0}

Val(t, v, s, f) == [t |-> t, v |-> v, s |-> s, f |-> f]

Num(n) == Val("num", n, "", <<>>)
Int64(n) == Val("int64", n, "", <<>>)
BoolV(b) == Val("bool", IF b THEN 1 ELSE 0, "", <<>>)
Str(s) == Val("string", 0, s, <<>>)
Ts(n) == Val("ts", n, "", <<>>)
Dur(n) == Val("dur", n, "", <<>>)
StructV(f) == Val("struct", 0, "", f)
ArrayV(elements) == Val("array", 0, "", [i \in DOMAIN elements |-> <<"", elements[i]>>])
Err(code) == Val("err", 0, code, <<>>)

(* Not a number: what a failed evaluation returns beside the error. *)
NaN == Val("num", 0, "nan", <<>>)

(* A lookup that found nothing, and an operation cxpr_value_binary_op leaves
   to its caller (its result 0). *)
Missing == Val("none", 0, "", <<>>)
Unhandled == Val("unhandled", 0, "", <<>>)

IsErr(x) == x.t = "err"
Found(x) == x # Missing

(* Require a value of type t: cxpr_require_type, cxpr_ir_require_type. *)
Require(x, t, then) == IF IsErr(x) THEN x ELSE IF x.t = t THEN then ELSE Err("type")

-----------------------------------------------------------------------------
(* libm on the integers that stand for doubles. *)

TruncDiv(a, b) ==
    LET abs(n) == IF n < 0 THEN -n ELSE n
        q == abs(a) \div abs(b)
    IN  IF (a < 0) # (b < 0) THEN -q ELSE q

FMod(a, b) == a - b * TruncDiv(a, b)

FPow(b, e) == IF e >= 0 THEN b ^ e ELSE IF b \in {1, -1} THEN b ^ (-e) ELSE 0

FSqrt(a) == IF a <= 0 THEN 0 ELSE CHOOSE r \in 0 .. a : r * r <= a /\ a < (r + 1) * (r + 1)

-----------------------------------------------------------------------------
(* Operators on values *)

ArithOps == {"+", "-", "*", "/"}
CmpOps == {"<", "<=", ">", ">="}

Compare(op, a, b) ==
    CASE op = "<" -> a < b
      [] op = "<=" -> a <= b
      [] op = ">" -> a > b
      [] op = ">=" -> a >= b

(* cxpr_value_numeric_binary_op *)
NumericBinaryOp(op, a, b) ==
    IF op = "/" /\ b = Num(0) THEN Err("div0")
    ELSE IF NaN \in {a, b} THEN IF op \in CmpOps THEN BoolV(FALSE) ELSE NaN
    ELSE CASE op = "+" -> Num(a.v + b.v)
           [] op = "-" -> Num(a.v - b.v)
           [] op = "*" -> Num(a.v * b.v)
           [] op = "/" -> Num(TruncDiv(a.v, b.v))
           [] op \in CmpOps -> BoolV(Compare(op, a.v, b.v))

Int64Min == -(2 ^ (Int64Bits - 1))
Int64Max == 2 ^ (Int64Bits - 1) - 1

(* A result outside the width is an error, not a wrapped value. *)
Checked(n) == IF n \in Int64Min .. Int64Max THEN Int64(n) ELSE Err("type")

Int64BinaryOp(op, a, b) ==
    CASE op = "+" -> Checked(a + b)
      [] op = "-" -> Checked(a - b)
      [] op = "*" -> Checked(a * b)
      [] op = "/" -> IF b = 0 THEN Err("div0") ELSE Checked(TruncDiv(a, b))
      [] op \in CmpOps -> BoolV(Compare(op, a, b))

(* The temporal cases of cxpr_value_binary_op. *)
TemporalBinaryOp(op, a, b) ==
    LET types == <<a.t, b.t>>
    IN  CASE op = "+" /\ types \in {<<"ts", "dur">>, <<"dur", "ts">>} -> Ts(a.v + b.v)
          [] op = "+" /\ types = <<"dur", "dur">> -> Dur(a.v + b.v)
          [] op = "-" /\ types = <<"ts", "dur">> -> Ts(a.v - b.v)
          [] op = "-" /\ types \in {<<"ts", "ts">>, <<"dur", "dur">>} -> Dur(a.v - b.v)
          [] op = "*" /\ types \in {<<"dur", "num">>, <<"num", "dur">>} -> Dur(a.v * b.v)
          [] op = "/" /\ types \in {<<"dur", "num">>, <<"dur", "dur">>} ->
                IF b.v = 0 THEN Err("div0")
                ELSE IF b.t = "num" THEN Dur(TruncDiv(a.v, b.v)) ELSE Num(TruncDiv(a.v, b.v))
          [] op \in CmpOps /\ types \in {<<"ts", "ts">>, <<"dur", "dur">>} ->
                BoolV(Compare(op, a.v, b.v))
          [] OTHER -> Err("type")

(* The first field of a struct with this name; Missing if none has it. *)
FieldOf(record, name) ==
    LET at == {i \in DOMAIN record.f : record.f[i][1] = name}
    IN  IF at = {} THEN Missing
        ELSE record.f[CHOOSE i \in at : \A j \in at : i <= j][2]

Temporal(x) == x.t \in {"ts", "dur"}

(* What a caller makes of the result 0 of cxpr_value_binary_op. *)
HandledOrType(x) == IF x = Unhandled THEN Err("type") ELSE x

RECURSIVE BinaryOpImpl(_, _, _)

(* cxpr_value_struct_binary_op: field by field, in the shape of the left
   struct, or of the right one when the left operand is a scalar. *)
StructBinaryOp(op, a, b) ==
    LET shape == IF a.t = "struct" THEN a ELSE b
        part(x, i) == IF x.t = "struct" THEN FieldOf(x, shape.f[i][1]) ELSE x
        left(i) == IF a.t = "struct" THEN a.f[i][2] ELSE a
        value == [i \in DOMAIN shape.f |->
                    IF part(b, i) = Missing THEN Err("type")
                    ELSE HandledOrType(BinaryOpImpl(op, left(i), part(b, i)))]
        bad == SelectSeq(value, IsErr)
    IN  IF op \in CmpOps THEN Err("type")
        ELSE IF {a.t, b.t} \ {"struct", "num", "int64", "ts", "dur"} # {} THEN Err("type")
        ELSE IF bad # <<>> THEN Head(bad)
        ELSE IF b.t = "struct" /\ Len(b.f) # Len(shape.f) THEN Err("type")
        ELSE StructV([i \in DOMAIN shape.f |-> <<shape.f[i][1], value[i]>>])

(* cxpr_value_binary_op_impl; its calls of cxpr_value_binary_op have a temporal
   operand and no struct. *)
BinaryOpImpl(op, a, b) ==
    IF "struct" \in {a.t, b.t} THEN StructBinaryOp(op, a, b)
    ELSE IF a.t = "int64" /\ b.t = "int64" THEN Int64BinaryOp(op, a.v, b.v)
    ELSE IF a.t = "num" /\ b.t = "num" THEN NumericBinaryOp(op, a, b)
    ELSE IF ~Temporal(a) /\ ~Temporal(b) THEN Unhandled
    ELSE IF "int64" \in {a.t, b.t} THEN Err("type")
    ELSE TemporalBinaryOp(op, a, b)

(* cxpr_value_binary_op *)
ValueBinaryOp(op, a, b) ==
    IF {a.t, b.t} \cap {"ts", "dur", "struct", "int64"} = {} THEN Unhandled
    ELSE IF "int64" \in {a.t, b.t} /\ a.t # b.t THEN Err("type")
    ELSE IF "struct" \in {a.t, b.t} THEN StructBinaryOp(op, a, b)
    ELSE IF a.t = "int64" THEN Int64BinaryOp(op, a.v, b.v)
    ELSE TemporalBinaryOp(op, a, b)

-----------------------------------------------------------------------------
(* The tree evaluator's binary and unary operators *)

(* cxpr_eval_arithmetic_op, cxpr_eval_comparison_op on two numbers *)
NumberOp(op, a, b) ==
    IF op \notin {"%", "^"} THEN NumericBinaryOp(op, a, b)
    ELSE IF op = "%" /\ b = Num(0) THEN Err("div0")
    ELSE IF NaN \in {a, b} THEN NaN
    ELSE IF op = "%" THEN Num(FMod(a.v, b.v))
    ELSE Num(FPow(a.v, b.v))

(* cxpr_eval_arithmetic_op, cxpr_eval_comparison_op *)
ArithmeticOp(op, a, b) ==
    IF a.t = "num" /\ b.t = "num" THEN NumberOp(op, a, b)
    ELSE IF op \in ArithOps \cup CmpOps THEN HandledOrType(ValueBinaryOp(op, a, b))
    ELSE Err("type")

(* cxpr_eval_values_equal, cxpr_eval_equality_op: arrays and structs have no
   equality. *)
EqualityOp(op, a, b) ==
    IF a.t # b.t \/ a.t \in {"array", "struct"} THEN Err("type")
    ELSE BoolV((op = "==") = (a.v = b.v /\ a.s = b.s /\ a # NaN))

(* cxpr_eval_binary_values *)
BinaryValues(op, a, b) ==
    IF op \in {"==", "!="} THEN EqualityOp(op, a, b)
    ELSE ArithmeticOp(op, a, b)

(* cxpr_eval_unary_op after its operand *)
UnaryValue(op, a) ==
    IF IsErr(a) THEN a
    ELSE IF op = "not" THEN Require(a, "bool", BoolV(a.v = 0))
    ELSE IF a.t = "int64" THEN IF a.v = Int64Min THEN Err("type") ELSE Int64(-a.v)
    ELSE Require(a, "num", [a EXCEPT !.v = -@])

(* cxpr_eval_array_index: the element an evaluated index selects. *)
ElementAt(array, index) ==
    IF IsErr(index) THEN index
    ELSE IF index.t # "num" \/ index = NaN \/ index.v < 0 THEN Err("index")
    ELSE IF index.v >= Len(array.f) THEN Err("range")
    ELSE array.f[index.v + 1][2]

-----------------------------------------------------------------------------
(* Registry entries.  An entry has one kind of implementation; what a host
   function computes is external. *)

(* The return type an entry declares; "" if it has none. *)
ReturnType(kind) ==
    CASE kind \in {"sync", "native", "fields"} -> "num"
      [] kind \in {"producer", "record"} -> "struct"
      [] OTHER -> ""

Entry(kind, min, max) ==
    [kind |-> kind, impl |-> "host", handler |-> FALSE, min |-> min, max |-> max,
     ret |-> ReturnType(kind),
     argt |-> <<>>, params |-> <<>>, pfields |-> <<>>, body |-> NoAst, rfields |-> <<>>,
     rbodies |-> <<>>]

(* A built-in implemented by a C function of this name (native_kind). *)
Builtin(impl, argc) == [Entry("native", argc, argc) EXCEPT !.impl = impl]

Defined(params, body) ==
    [Entry("defined", Len(params), Len(params))
     EXCEPT !.params = params, !.pfields = [i \in DOMAIN params |-> <<>>], !.body = body]

RecordFn(params, fields, bodies) ==
    [Entry("record", Len(params), Len(params))
     EXCEPT !.params = params, !.pfields = [i \in DOMAIN params |-> <<>>],
            !.rfields = fields, !.rbodies = bodies]

HasFn(reg, name) == name \in DOMAIN reg.fns
FnOf(reg, name) == reg.fns[name]

HostResult(args) ==
    IF \E i \in DOMAIN args : args[i] = NaN THEN NaN
    ELSE Num(10 * FoldSeq(LAMBDA x, y : x.v + y, 0, args) + Len(args))

(* cxpr_clamp of the registry: bounds given in the wrong order are swapped. *)
Clamped(x, lo, hi) ==
    LET low == IF lo > hi THEN hi ELSE lo
        high == IF lo > hi THEN lo ELSE hi
    IN  IF x < low THEN low ELSE IF x > high THEN high ELSE x

(* The built-in numeric functions on the integers that stand for doubles. *)
Libm(impl, args) ==
    LET x(i) == args[i].v
    IN  IF \E i \in DOMAIN args : args[i] = NaN THEN NaN
        ELSE CASE impl = "abs" -> Num(IF x(1) < 0 THEN -x(1) ELSE x(1))
               [] impl = "sign" -> Num(IF x(1) < 0 THEN -1 ELSE IF x(1) > 0 THEN 1 ELSE 0)
               [] impl = "sqrt" -> IF x(1) < 0 THEN NaN ELSE Num(FSqrt(x(1)))
               [] impl \in {"floor", "ceil", "round"} -> args[1]
               [] impl = "pow" -> Num(FPow(x(1), x(2)))
               [] impl = "clamp" -> Num(Clamped(x(1), x(2), x(3)))
               [] impl = "if" -> IF x(1) # 0 THEN args[2] ELSE args[3]
               [] impl = "max" -> Num(CHOOSE m \in {x(i) : i \in DOMAIN args} :
                                        \A i \in DOMAIN args : m >= x(i))

(* What the function of an entry returns for these arguments. *)
Apply(f, args) == IF f.impl = "host" THEN HostResult(args) ELSE Libm(f.impl, args)

HostFields(names, args) ==
    StructV([i \in DOMAIN names |-> <<names[i], Num(HostResult(args).v + i)>>])

-----------------------------------------------------------------------------
(* Reading and writing a context *)

Lookup(frame, map, path) ==
    IF <<map, path>> \in DOMAIN frame THEN frame[<<map, path>>] ELSE Missing

(* The first of these maps that binds the path. *)
FirstOf(frame, maps, path) ==
    LET at == {i \in DOMAIN maps : <<maps[i], path>> \in DOMAIN frame}
    IN  IF at = {} THEN Missing
        ELSE frame[<<maps[CHOOSE i \in at : \A j \in at : i <= j], path>>]

(* The first answer that is not Missing. *)
FirstFound(xs) ==
    LET found == SelectSeq(xs, Found)
    IN  IF found = <<>> THEN Missing ELSE Head(found)

(* The innermost frame that has an answer. *)
Through(ctx, Find(_)) ==
    FirstFound([i \in DOMAIN ctx |-> Find(ctx[i])])

VariableMaps == <<"scope", "bools", "ints", "strs", "arrs", "vars", "structs", "cached">>

(* cxpr_context_get_typed *)
GetTyped(ctx, path) == Through(ctx, LAMBDA f : FirstOf(f, VariableMaps, path))

(* cxpr_context_get: numbers, and bools as 0 and 1. *)
GetNumber(ctx, path) ==
    LET x == GetTyped(ctx, path)
    IN  IF x.t = "num" THEN x ELSE IF x.t = "bool" THEN Num(x.v) ELSE Missing

(* cxpr_ir_context_get_prehashed: the numbers and bools, whatever else is bound. *)
GetPrehashed(ctx, path) ==
    LET x == Through(ctx, LAMBDA f : FirstOf(f, <<"bools", "vars">>, path))
    IN  IF x.t = "bool" THEN Num(x.v) ELSE x

GetStruct(ctx, path) == Through(ctx, LAMBDA f : Lookup(f, "structs", path))
GetCached(ctx, path) == Through(ctx, LAMBDA f : Lookup(f, "cached", path))

(* cxpr_context_get_param *)
GetParam(ctx, path) == Through(ctx, LAMBDA f : Lookup(f, "params", path))

(* cxpr_context_get_param_typed; the number is looked up through the parents
   before the parent's typed maps are. *)
GetParamTyped(ctx, path) ==
    LET typed(f) == FirstOf(f, <<"pbools", "pints", "pstrs", "parrs", "structs">>, path)
        field(f) == IF Len(path) = 2 THEN FieldOf(Lookup(f, "structs", <<path[1]>>), path[2])
                    ELSE Missing
        tries == [i \in DOMAIN ctx |-> <<typed(ctx[i]), field(ctx[i]),
                                        GetParam(SubSeq(ctx, i, Len(ctx)), path)>>]
    IN  FirstFound(FlattenSeq(tries))

(* cxpr_context_get_field *)
GetField(ctx, root, field) ==
    LET s == GetStruct(ctx, root)
        typed == GetTyped(ctx, root)
        record == IF Found(s) THEN s ELSE IF typed.t = "struct" THEN typed ELSE Missing
    IN  FieldOf(record, field)

(* cxpr_context_set and cxpr_context_set_value on one frame: the maps the name
   is removed from, and the one it is bound in.  Timestamps, durations and null
   are not stored. *)
SetRemoves(t) ==
    CASE t = "num" -> {"bools", "ints", "strs", "arrs", "structs"}
      [] t = "bool" -> {"strs", "ints", "arrs", "structs"}
      [] t = "int64" -> {"bools", "strs", "arrs", "structs"}
      [] t = "string" -> {"bools", "arrs", "structs"}
      [] t = "struct" -> {"bools", "strs", "arrs"}
      [] t = "array" -> {"bools", "strs", "structs"}
      [] OTHER -> {}

MapOf(t) ==
    CASE t = "num" -> "vars" [] t = "bool" -> "bools" [] t = "int64" -> "ints"
      [] t = "string" -> "strs" [] t = "array" -> "arrs" [] t = "struct" -> "structs"

Bind(frame, map, path, value) ==
    [k \in DOMAIN frame \cup {<<map, path>>} |-> IF k = <<map, path>> THEN value ELSE frame[k]]

SetValue(frame, path, value) ==
    IF value.t \notin {"num", "bool", "int64", "string", "array", "struct"} THEN frame
    ELSE LET gone == {<<m, path>> : m \in SetRemoves(value.t)}
         IN  Bind([k \in DOMAIN frame \ gone |-> frame[k]], MapOf(value.t), path, value)

EmptyFrame == [k \in {} |-> Missing]
HasScope(ctx) == <<"scope", <<>>>> \in DOMAIN ctx[1]
=============================================================================
