---------------------------- MODULE EngineParams ----------------------------
(***************************************************************************)
(* The `$param` values of a session and the fallback ticks that let a host *)
(* context supply them (src/engine/session.c): before a fallback tick every *)
(* parameter the program mentions is copied from the parent into the       *)
(* session's own context, then the parent is linked for the tick only.     *)
(* The link also answers for parameters that no expression mentions (a      *)
(* callback may ask for them), the copies stay in the session.             *)
(***************************************************************************)
EXTENDS Integers, FiniteSets

CONSTANTS
    Params,     \* parameter names
    External,   \* those the program's expressions mention (external_params)
    Values,     \* parameter values
    None,       \* no value
    MaxSteps    \* bound on the calls of one run

Maybe == Values \cup {None}

VARIABLES
    own,       \* [Params -> Maybe]: the session context's parameters
    parent,    \* [Params -> Maybe]: the host context's parameters
    linked,    \* the session context's parent is the host context
    seen,      \* [Params -> Maybe]: values the last tick could read
    given,     \* ghost: parameters given to the session so far
    calls      \* calls made

vars == <<own, parent, linked, seen, given, calls>>

Init ==
    /\ own = [p \in Params |-> None]
    /\ parent \in [Params -> Maybe]
    /\ linked = FALSE
    /\ seen = [p \in Params |-> None]
    /\ given = {}
    /\ calls = 0

(* cxpr_context_get_param_typed: own value, else the parent's. *)
Lookup(mine, above, p) == IF mine[p] # None \/ ~above THEN mine[p] ELSE parent[p]

Step == calls < MaxSteps /\ calls' = calls + 1

(* cxpr_engine_set_param, cxpr_engine_set_param_value *)
SetParam(p, v) ==
    /\ Step
    /\ own' = [own EXCEPT ![p] = v]
    /\ given' = given \cup {p}
    /\ UNCHANGED <<parent, linked, seen>>

(* The host changes its own context. *)
HostSets(p, v) ==
    /\ Step
    /\ parent' = [parent EXCEPT ![p] = v]
    /\ UNCHANGED <<own, linked, seen, given>>

(* cxpr_engine_tick, which may fail half way. *)
Tick ==
    /\ Step
    /\ seen' = [p \in Params |-> Lookup(own, linked, p)]
    /\ UNCHANGED <<own, parent, linked, given>>

(* The parameters the copy loop finds in the parent. *)
Supplied == {p \in External : parent[p] # None}

(* The copy loop of cxpr_engine_tick_fallback. *)
Copied == [p \in Params |-> IF p \in Supplied THEN parent[p] ELSE own[p]]

(* Mutant: a tick that fails returns before the parent is unlinked. *)
TickFallbackReturnsEarly(ok) ==
    /\ Step
    /\ own' = Copied
    /\ seen' = [p \in Params |-> Lookup(Copied, TRUE, p)]
    /\ linked' = (linked \/ ~ok)
    /\ given' = given \cup Supplied
    /\ UNCHANGED parent

(* cxpr_engine_tick_fallback with a parent context, whose tick succeeds or
   fails.  previous_parent is restored after either. *)
TickFallback(ok) ==
    /\ Step
    /\ own' = Copied
    /\ seen' = [p \in Params |-> Lookup(Copied, TRUE, p)]
    /\ linked' = linked
    /\ given' = given \cup Supplied
    /\ UNCHANGED parent

Next ==
    \/ \E p \in Params, v \in Values : SetParam(p, v) \/ HostSets(p, v)
    \/ Tick
    \/ \E ok \in BOOLEAN : TickFallback(ok)

Spec == Init /\ [][Next]_vars

-----------------------------------------------------------------------------

(* The host context answers for a session only during fallback ticks: a plain
   tick, even after a fallback tick that failed, reads no parameter but those
   set by cxpr_engine_set_param and those that a fallback tick copied because
   the program mentions them. *)
PlainTicksAreClosed ==
    [][Tick => \A p \in Params : seen'[p] # None => p \in given]_vars

(* "Params are fixed for the life of a session unless changed by an explicit
   call to this setter; they are never re-hydrated per tick", as the declaration
   of cxpr_engine_set_param says. *)
ParamsAreFixed ==
    [][\A p \in Params : own'[p] # own[p] => \E v \in Values : SetParam(p, v)]_vars
=============================================================================
