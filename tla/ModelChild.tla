----------------------------- MODULE ModelChild -----------------------------
(***************************************************************************)
(* Imported models called as producers (cxpr_model_eval_child_producer in  *)
(* src/model/session.c).  A parent tick evaluates bindings in order; a     *)
(* call finds or makes a child session according to the child's lifetime,  *)
(* passes arguments, ticks the child and caches the record under the text  *)
(* of the call until the parent's next tick.                               *)
(*                                                                         *)
(* The child is any model with a state; it is abstracted to what ModelTick *)
(* promises of it: a number of completed ticks, and the parameter its      *)
(* outputs depend on.                                                      *)
(***************************************************************************)
EXTENDS Integers, Sequences, FiniteSets

LOCAL INSTANCE SequencesExt

CONSTANTS
    Steps,       \* parent bindings in order: [kind, key, arg]
    Lifetimes,   \* lifecycles considered
    Unset,       \* the call passes no argument for the parameter
    DefaultArg,  \* the child's own default for it
    MaxTicks     \* bound on the ticks of a behaviour

VARIABLES
    lifetime,    \* child->lifetime
    single,      \* parent->child_sessions: the shared session
    instances,   \* parent->child_instances: call text -> session, partial
    own,         \* the parent's state: its own completed ticks
    outs,        \* what each call of the last successful tick returned
    ok,          \* what the last tick returned
    ticks,       \* number of ticks
    failures     \* history variable: ticks that failed

vars == <<lifetime, single, instances, own, outs, ok, ticks, failures>>

Calls == {i \in DOMAIN Steps : Steps[i].kind = "call"}
Keys == {Steps[i].key : i \in Calls}
Situations == {"fine", "guard_faults", "child_faults"}

NewChild == [count |-> 0, param |-> DefaultArg]
NoRecord == [count |-> -1, param |-> DefaultArg]

(* A call without the argument leaves the session's parameter as it is. *)
Pass(child, arg) == IF arg = Unset THEN child ELSE [child EXCEPT !.param = arg]

-----------------------------------------------------------------------------
(* cxpr_model_child_cache_key: the printed call, arguments included. *)
CacheKey(step) == step.key

(* Mutant: the instance is found by the child alone. *)
AnyInstance(s, key) ==
    IF s.instances = <<>> THEN NewChild
    ELSE s.instances[CHOOSE k \in DOMAIN s.instances : TRUE]

(* cxpr_model_session_child_instance *)
Instance(s, key) == IF key \in DOMAIN s.instances THEN s.instances[key] ELSE NewChild

(* Which session a call uses. *)
Session(s, key) ==
    CASE lifetime = "singleton" -> s.single
      [] lifetime = "transient" -> NewChild
      [] lifetime = "scoped" -> Instance(s, key)

(* The sessions after the call; a transient one is freed. *)
Store(s, key, child) ==
    CASE lifetime = "singleton" -> [s EXCEPT !.single = child]
      [] lifetime = "transient" -> s
      [] lifetime = "scoped" ->
           [s EXCEPT !.instances =
               [k \in DOMAIN @ \cup {key} |-> IF k = key THEN child ELSE @[k]]]

(* Mutant: the record cached for this tick is not looked up. *)
CallUncached(s, i, situation) ==
    LET key == CacheKey(Steps[i])
        child == Pass(Session(s, key), Steps[i].arg)
        record == [count |-> child.count, param |-> child.param]
    IN  IF situation = "child_faults"
        THEN [Store(s, key, child) EXCEPT !.failed = TRUE]
        ELSE [Store(s, key, [child EXCEPT !.count = @ + 1]) EXCEPT !.outs[i] = record]

(* cxpr_model_eval_child_producer.  A failing child keeps the argument it was
   given and its state. *)
Call(s, i, situation) ==
    LET key == CacheKey(Steps[i])
        child == Pass(Session(s, key), Steps[i].arg)
        record == [count |-> child.count, param |-> child.param]
    IN  IF key \in DOMAIN s.cached THEN [s EXCEPT !.outs[i] = s.cached[key]]
        ELSE IF situation = "child_faults"
        THEN [Store(s, key, child) EXCEPT !.failed = TRUE]
        ELSE [Store(s, key, [child EXCEPT !.count = @ + 1]) EXCEPT
                 !.outs[i] = record,
                 !.cached = [k \in DOMAIN @ \cup {key} |-> IF k = key THEN record ELSE @[k]]]

(* The parent's binding loop; a guard is a binding of its own that may fail. *)
Run(situation) ==
    FoldLeft(LAMBDA s, i :
                IF s.failed THEN s
                ELSE IF Steps[i].kind = "call" THEN Call(s, i, situation)
                ELSE [s EXCEPT !.failed = (situation = "guard_faults")],
             [single |-> single, instances |-> instances, cached |-> <<>>,
              outs |-> [i \in Calls |-> NoRecord], failed |-> FALSE],
             [i \in DOMAIN Steps |-> i])

Init ==
    /\ lifetime \in Lifetimes
    /\ single = NewChild
    /\ instances = <<>>
    /\ own = 0
    /\ outs = [i \in Calls |-> NoRecord]
    /\ ok = TRUE
    /\ ticks = 0
    /\ failures = 0

(* cxpr_model_session_tick of the parent, on inputs that decide what fails. *)
Tick(situation) ==
    LET run == Run(situation)
    IN  /\ ticks < MaxTicks
        /\ ticks' = ticks + 1
        /\ single' = run.single
        /\ instances' = run.instances
        /\ own' = IF run.failed THEN own ELSE own + 1
        /\ outs' = IF run.failed THEN outs ELSE run.outs
        /\ ok' = ~run.failed
        /\ failures' = IF run.failed THEN failures + 1 ELSE failures
        /\ UNCHANGED lifetime

Next == \E situation \in Situations : Tick(situation)

Spec == Init /\ [][Next]_vars

-----------------------------------------------------------------------------
(* Properties *)

(* A child session advances once per parent tick for every distinct call that
   reaches it, however often the call's fields are read: a scoped instance once,
   the shared session once per distinct call. *)
OncePerTick ==
    failures = 0 =>
        /\ lifetime = "scoped" => \A k \in DOMAIN instances : instances[k].count = ticks
        /\ lifetime = "singleton" => single.count = ticks * Cardinality(Keys)

(* Calls of a scoped or transient child do not see each other: each returns
   what a child of its own would, with its own argument or the default. *)
CallsIndependent ==
    lifetime # "singleton" =>
        \A i \in Calls : outs[i] # NoRecord =>
            /\ outs[i].param = IF Steps[i].arg = Unset THEN DefaultArg ELSE Steps[i].arg
            /\ lifetime = "transient" => outs[i].count = 0
=============================================================================
