-------------------------- MODULE ContextBindings --------------------------
(***************************************************************************)
(* The typed bindings of a chain of contexts (src/context/values.c,        *)
(* structs.c, lifecycle.c): each context keeps one map per type for its    *)
(* variables and one per type for its $params, except that both share the  *)
(* struct map.  A setter removes the name from some of the other maps; a   *)
(* typed read takes the first map, in a fixed order, that has the name,    *)
(* and falls back to the parent.                                           *)
(***************************************************************************)
EXTENDS Naturals, FiniteSets

CONSTANTS Contexts, Parent,  \* the contexts and their parent, or NoParent
          NoParent,
          BoundNames,
          Uses,              \* how the host may use the contexts: a set of
                             \* [types, values], each a function of the context
          Unset

Types == {"number", "bool", "int64", "string", "array", "struct"}

ASSUME BindingsAssumption ==
  /\ NoParent \notin Contexts /\ Parent \in [Contexts -> Contexts \cup {NoParent}]
  /\ \A c \in Contexts : Parent[c] # NoParent => Parent[Parent[c]] = NoParent
  /\ \A u \in Uses, c \in Contexts : u.types[c] \subseteq Types /\ Unset \notin u.values[c]

VARIABLES use,     \* how this host uses them
          var,     \* ctx -> type -> name -> value: variables, bools, ...
          param,   \* the same for $params; the struct map is var's
          scope,   \* ctx -> name -> value: results of the expression scope
          last,    \* ctx -> name -> the type and value set last as variable
          lastp    \* the same for $params

bindVars == <<use, var, param, scope, last, lastp>>

Nothing == [t |-> "none", v |-> Unset]

Unbound == [n \in BoundNames |-> Unset]

NoBindings == [t \in Types |-> Unbound]

BindingsInit ==
  /\ use \in Uses
  /\ var = [c \in Contexts |-> NoBindings]
  /\ param = [c \in Contexts |-> NoBindings]
  /\ scope = [c \in Contexts |-> Unbound]
  /\ last = [c \in Contexts |-> [n \in BoundNames |-> Nothing]]
  /\ lastp = [c \in Contexts |-> [n \in BoundNames |-> Nothing]]

\* Which of the other maps a variable setter removes the name from:
\* cxpr_context_set_prehashed, _set_bool, _set_int64, _set_string, and the
\* struct and array cases of cxpr_context_set_value.
VariableRemoves(t) ==
  CASE t = "number" -> {"bool", "int64", "string", "array", "struct"}
    [] t = "bool"   -> {"string", "int64", "array", "struct"}
    [] t = "int64"  -> {"bool", "string", "array", "struct"}
    [] t = "string" -> {"bool", "array", "struct"}
    [] t = "struct" -> {"bool", "string", "array"}
    [] t = "array"  -> {"bool", "string", "struct"}

\* $param setters that leave int64 and bool bindings behind.
ParamRemovesForgetful(t) ==
  CASE t = "number" -> {"bool", "string", "array", "struct"}
    [] t = "bool"   -> {"string", "array", "struct"}
    [] t = "int64"  -> {"string"}
    [] t = "string" -> {"bool", "array", "struct"}
    [] t = "struct" -> {"bool", "string", "array"}
    [] t = "array"  -> {"bool", "string", "struct"}

\* The same for the $param setters; "struct" is the map the variables share.
ParamRemoves(t) ==
  CASE t = "number" -> {"bool", "int64", "string", "array", "struct"}
    [] t = "bool"   -> {"string", "int64", "array", "struct"}
    [] t = "int64"  -> {"bool", "string"}
    [] t = "string" -> {"bool", "array", "struct"}
    [] t = "struct" -> {"bool", "string", "array"}
    [] t = "array"  -> {"bool", "string", "struct"}

Stored(maps, t, n, v, removed) ==
  [s \in Types |-> IF s = t THEN [maps[s] EXCEPT ![n] = v]
                   ELSE IF s \in removed THEN [maps[s] EXCEPT ![n] = Unset]
                   ELSE maps[s]]

\* cxpr_context_set, _set_bool, _set_int64, _set_string, _set_value.
SetVariable(c, t, n, v) ==
  /\ var' = [var EXCEPT ![c] = Stored(@, t, n, v, VariableRemoves(t))]
  /\ last' = [last EXCEPT ![c][n] = [t |-> t, v |-> v]]
  /\ UNCHANGED <<use, param, scope, lastp>>

\* cxpr_context_set_param and its typed variants: the struct map is var's.
SetParam(c, t, n, v) ==
  LET stored == Stored([param[c] EXCEPT !["struct"] = var[c]["struct"]],
                       t, n, v, ParamRemoves(t))
  IN  /\ param' = [param EXCEPT ![c] = [stored EXCEPT !["struct"] = Unbound]]
      /\ var' = [var EXCEPT ![c]["struct"] = stored["struct"]]
      /\ lastp' = [lastp EXCEPT ![c][n] = [t |-> t, v |-> v]]
      /\ UNCHANGED <<use, scope, last>>

\* cxpr_context_set_struct called directly removes nothing.
SetStruct(c, n, v) ==
  /\ "struct" \in use.types[c]
  /\ var' = [var EXCEPT ![c]["struct"][n] = v]
  /\ last' = [last EXCEPT ![c][n] = [t |-> "struct", v |-> v]]
  /\ UNCHANGED <<use, param, scope, lastp>>

\* cxpr_context_set_expression_scope, cxpr_context_clear_expression_scope:
\* an evaluator run exposes its results and takes them away again.
SetScope(c, n, v) ==
  /\ scope' = [scope EXCEPT ![c] = [Unbound EXCEPT ![n] = v]]
  /\ UNCHANGED <<use, var, param, last, lastp>>

\* cxpr_context_clear.
ClearBindings(c) ==
  /\ var' = [var EXCEPT ![c] = NoBindings]
  /\ param' = [param EXCEPT ![c] = NoBindings]
  /\ last' = [last EXCEPT ![c] = [n \in BoundNames |-> Nothing]]
  /\ lastp' = [lastp EXCEPT ![c] = [n \in BoundNames |-> Nothing]]
  /\ UNCHANGED <<use, scope>>

BindingsNext ==
  \E c \in Contexts, n \in BoundNames :
     \/ \E t \in use.types[c], v \in use.values[c] : SetVariable(c, t, n, v)
     \/ \E t \in use.types[c], v \in use.values[c] : SetParam(c, t, n, v)
     \/ \E v \in use.values[c] : SetStruct(c, n, v)
     \/ \E v \in use.values[c] \cup {Unset} : SetScope(c, n, v)
     \/ ClearBindings(c)

BindingsSpec == BindingsInit /\ [][BindingsNext]_bindVars

----------------------------------------------------------------------------
\* The first of the types, in order, under which maps binds n.
FirstOf(order, maps, n) ==
  LET hit(i) == maps[order[i]][n] # Unset
      hits == {i \in DOMAIN order : hit(i)}
  IN  IF hits = {} THEN Nothing
      ELSE LET i == CHOOSE j \in hits : \A k \in hits : j <= k
           IN  [t |-> order[i], v |-> maps[order[i]][n]]

\* A typed read that tries the number first.
LocalTypedNumberFirst(c, n) ==
  FirstOf(<<"number", "bool", "int64", "string", "array", "struct">>, var[c], n)

\* The local part of cxpr_context_get_typed, in its order.
LocalTyped(c, n) ==
  FirstOf(<<"bool", "int64", "string", "array", "number", "struct">>, var[c], n)

\* The local part of cxpr_context_get_param_typed, in its order, up to the
\* number, which cxpr_context_get_param looks up along the whole chain.
LocalParamTyped(c, n) ==
  FirstOf(<<"bool", "int64", "string", "array", "struct">>,
          [param[c] EXCEPT !["struct"] = var[c]["struct"]], n)

\* The chain of a context, itself first (chains are at most two long here).
Chain(c) == IF Parent[c] = NoParent THEN <<c>> ELSE <<c, Parent[c]>>

\* cxpr_context_get_param: the nearest numeric $param of the chain.
ParamNumber(c, n) ==
  LET hits == {i \in DOMAIN Chain(c) : param[Chain(c)[i]]["number"][n] # Unset}
  IN  IF hits = {} THEN Nothing
      ELSE LET i == CHOOSE j \in hits : \A k \in hits : j <= k
           IN  [t |-> "number", v |-> param[Chain(c)[i]]["number"][n]]

\* A typed read without the fallback to the parent.
GetTypedLocal(c, n) ==
  IF scope[c][n] # Unset THEN [t |-> "number", v |-> scope[c][n]] ELSE LocalTyped(c, n)

\* cxpr_context_get_typed.
GetTyped(c, n) ==
  LET at(d) == IF scope[d][n] # Unset THEN [t |-> "number", v |-> scope[d][n]]
               ELSE LocalTyped(d, n)
  IN  IF at(c) # Nothing \/ Parent[c] = NoParent THEN at(c) ELSE at(Parent[c])

\* cxpr_context_get_param_typed.
GetParamTyped(c, n) ==
  LET at(d) == IF LocalParamTyped(d, n) # Nothing THEN LocalParamTyped(d, n)
               ELSE ParamNumber(d, n)
  IN  IF at(c) # Nothing \/ Parent[c] = NoParent THEN at(c) ELSE at(Parent[c])

----------------------------------------------------------------------------
Bound(c, n) == scope[c][n] # Unset \/ \E t \in Types : var[c][t][n] # Unset

Scalars == {"number", "bool", "int64"}

\* After a number, bool or int64 is set, a typed read of the variable returns
\* it, whatever was bound before (values.c:240-273, structs.c:61-107), and so
\* for a $param unless a struct of that name is bound (values.c:406-452,
\* structs.c:128-205).  A context without a binding of its own reads what its
\* parent reads (structs.c:122; context.h: "Parent context used for misses").
ScalarWritesWin ==
  \A c \in Contexts, n \in BoundNames :
     /\ last[c][n].t \in Scalars /\ scope[c][n] = Unset => GetTyped(c, n) = last[c][n]
     /\ lastp[c][n].t \in Scalars /\ var[c]["struct"][n] = Unset
          => GetParamTyped(c, n) = lastp[c][n]
     /\ Parent[c] # NoParent /\ ~Bound(c, n) => GetTyped(c, n) = GetTyped(Parent[c], n)
=============================================================================
