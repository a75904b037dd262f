---------------------------- MODULE ModelSession ----------------------------
(***************************************************************************)
(* The reference session of a compiled model (src/model/session.c, without *)
(* the fused program): a context, staged state updates, history rings,     *)
(* state buffers and output records.                                       *)
(*                                                                         *)
(* The clamp of `min`/`max` parameters at the start of a tick writes a     *)
(* variable that no expression of the model may name, and is left out.     *)
(***************************************************************************)
EXTENDS ModelProgram

CONSTANT CaptureOrder    \* history_specs, in the order they were collected

VARIABLES
    order,     \* program->bindings: the bindings in evaluation order
    ctx,       \* the session context: name -> value, partial
    pending,   \* staged updates, in the order they were evaluated
    rings,     \* session->histories
    buffers,   \* session->state_buffers
    outputs,   \* session->outputs
    ok         \* what the last tick returned

sessionVars == <<order, ctx, pending, rings, buffers, outputs, ok>>

(* What a captured target itself looks back at is captured with it or later.
   cxpr_model_collect_lookbacks adds a target before the lookbacks in its
   arguments, so this holds unless an earlier expression has added one of them. *)
CapturesReadAhead ==
    \A i \in DOMAIN CaptureOrder : CaptureOrder[i] \in Captured =>
        \A r \in Lookbacks \cap Reads[CaptureOrder[i]] : \A j \in 1..i-1 : CaptureOrder[j] # r[1]

(* Every history is captured once. *)
CaptureAssumption ==
    /\ CaptureOrder \in Seq(Histories)
    /\ \A n \in Histories : \E i \in DOMAIN CaptureOrder : CaptureOrder[i] = n
    /\ \A i, j \in DOMAIN CaptureOrder : i # j => CaptureOrder[i] # CaptureOrder[j]
    /\ CapturesReadAhead

(* The capture that ends a tick cannot fail: what it samples is there whenever
   the bindings could be computed, and a captured target has a value. *)
CapturesSucceed ==
    /\ \A i \in Inputs :
          (i \in Histories \/ \E c \in Captured : <<i, 0>> \in Reads[c]) => Needed(i)
    /\ \A c \in Captured : \A got \in [Reads[c] -> Results] :
          (\A r \in Reads[c] : got[r] # Fault) => Value[c][got] # Fault

-----------------------------------------------------------------------------
(* Rings: next is the cell written next, count saturates at the capacity. *)

NewRing(n) == [values |-> [i \in 0..n-1 |-> NaN], next |-> 0, count |-> 0]
RingSize(r) == Cardinality(DOMAIN r.values)

(* cxpr_model_session_history_push *)
Push(r, v) ==
    [values |-> [r.values EXCEPT ![r.next] = v],
     next |-> (r.next + 1) % RingSize(r),
     count |-> Min({r.count + 1, RingSize(r)})]

(* The history branch of cxpr_model_lookback_resolver, for offset >= 1. *)
HistoryRead(r, offset) ==
    IF r.count < offset THEN NaN
    ELSE r.values[(r.next + RingSize(r) - offset) % RingSize(r)]

(* The state-buffer branch: offset 0 is the newest committed sample. *)
BufferRead(r, offset) ==
    IF r.count <= offset THEN NaN
    ELSE r.values[(r.next + RingSize(r) - 1 - offset) % RingSize(r)]

-----------------------------------------------------------------------------
(* cxpr_model_lookback_resolver over the rings rs, and plain identifiers as
   offset 0. *)
ResolveIn(rs, c, b, r) ==
    IF r[1] \in Buffers THEN BufferRead(b[r[1]], r[2])
    ELSE IF r[2] = 0 THEN Lookup(c, r[1])
    ELSE HistoryRead(rs[r[1]], r[2])

EvalIn(rs, b, c, bufs) == Value[b][[r \in Reads[b] |-> ResolveIn(rs, c, bufs, r)]]

Resolve(c, b, r) == ResolveIn(rings, c, b, r)

Eval(b, c, bufs) == EvalIn(rings, b, c, bufs)

(* One staged update becomes the state: a turn of the commit loop. *)
CommitStep(s, p) ==
    IF p.name \in Buffers
    THEN [s EXCEPT !.buffers[p.name] = Push(@, p.value)]
    ELSE [s EXCEPT !.ctx = Assign(@, p.name, p.value)]

(* cxpr_model_session_commit_pending *)
Commits ==
    LET s[k \in 0..Len(pending)] ==
            IF k = 0 THEN [ctx |-> ctx, buffers |-> buffers]
            ELSE CommitStep(s[k - 1], pending[k])
    IN  s

Commit == Commits[Len(pending)]

(* Mutant: an update is written at once, so later bindings of the tick see it. *)
EvalStepEager(s, b, bufs) ==
    LET v == Eval(b, s.ctx, bufs)
    IN  IF s.err = "failed" THEN s
        ELSE IF v = Fault THEN [s EXCEPT !.err = "failed"]
        ELSE IF b \in Updated
        THEN [s EXCEPT !.pending = Append(@, [name |-> b, value |-> v]),
                       !.ctx = IF b \in Buffers THEN @ ELSE Assign(@, b, v)]
        ELSE [s EXCEPT !.ctx = Assign(@, b, v)]

(* A turn of the binding loop of cxpr_model_session_tick: an update is staged, a
   let is written to the context, the first error ends the loop. *)
EvalStep(s, b, bufs) ==
    LET v == Eval(b, s.ctx, bufs)
    IN  IF s.err = "failed" THEN s
        ELSE IF v = Fault THEN [s EXCEPT !.err = "failed"]
        ELSE IF b \in Updated
        THEN [s EXCEPT !.pending = Append(@, [name |-> b, value |-> v])]
        ELSE [s EXCEPT !.ctx = Assign(@, b, v)]

(* The loop, turn by turn. *)
Evals(start) ==
    LET s[k \in 0..Len(order)] ==
            IF k = 0 THEN [ctx |-> start.ctx, pending |-> <<>>, err |-> "ok"]
            ELSE EvalStep(s[k - 1], order[k], start.buffers)
    IN  s

EvalAll(start) == Evals(start)[Len(order)]

Staged(p, n) == {i \in DOMAIN p : p[i].name = n}

(* cxpr_model_session_refresh_outputs: a staged update wins over the context. *)
Refresh(c, p) ==
    [o \in Outputs |->
        Shown(outputs[o],
              IF Staged(p, o) # {} THEN p[Min(Staged(p, o))].value
              ELSE IF o \in DOMAIN c THEN c[o] ELSE None)]

(* Mutant: only the names the context holds are captured. *)
CaptureStepKnown(s, n, c, bufs) ==
    IF n \in DOMAIN c THEN [s EXCEPT !.rings[n] = Push(@, c[n])] ELSE s

(* A turn of cxpr_model_session_capture_history: a name the context does not
   hold is evaluated, over the rings as the earlier turns left them, and an error
   there ends the loop. *)
CaptureStep(s, n, c, bufs) ==
    LET v == IF n \in DOMAIN c THEN c[n]
             ELSE IF n \in Captured THEN EvalIn(s.rings, n, c, bufs) ELSE Fault
    IN  IF s.err = "failed" THEN s
        ELSE IF v = Fault THEN [s EXCEPT !.err = "failed"]
        ELSE [s EXCEPT !.rings[n] = Push(@, v)]

Captures(c, bufs) ==
    LET s[k \in 0..Len(CaptureOrder)] ==
            IF k = 0 THEN [rings |-> rings, err |-> "ok"]
            ELSE CaptureStep(s[k - 1], CaptureOrder[k], c, bufs)
    IN  s

Capture(c, bufs) == Captures(c, bufs)[Len(CaptureOrder)]

-----------------------------------------------------------------------------
(* cxpr_model_session_new *)
SessionInit ==
    /\ order \in Orders
    /\ ctx = Default
    /\ pending = <<>>
    /\ rings = [n \in Histories |-> NewRing(Depth[n])]
    /\ buffers = [b \in Buffers |-> NewRing(Capacity)]
    /\ outputs = [o \in Outputs |-> NoOutput]
    /\ ok = TRUE

(* The host writes an input into the borrowed context. *)
SessionSetInput(i, v) ==
    /\ ctx' = Assign(ctx, i, v)
    /\ UNCHANGED <<order, pending, rings, buffers, outputs, ok>>

(* Mutant: the staged updates of a tick that fails are kept. *)
SessionTickKeepsStaged ==
    LET start == Commit
        run == EvalAll(start)
        captured == Capture(run.ctx, start.buffers)
    IN  /\ ctx' = run.ctx
        /\ buffers' = start.buffers
        /\ pending' = run.pending
        /\ outputs' = IF run.err = "failed" THEN outputs ELSE Refresh(run.ctx, run.pending)
        /\ rings' = IF run.err = "failed" THEN rings ELSE captured.rings
        /\ ok' = (run.err = "ok" /\ captured.err = "ok")
        /\ UNCHANGED order

(* cxpr_model_session_tick on the reference path.  The pending updates of the
   previous tick are committed first, and stay committed if this tick fails. *)
SessionTick ==
    LET start == Commit
        run == EvalAll(start)
        captured == Capture(run.ctx, start.buffers)
    IN  /\ ctx' = run.ctx
        /\ buffers' = start.buffers
        /\ pending' = IF run.err = "failed" THEN <<>> ELSE run.pending
        /\ outputs' = IF run.err = "failed" THEN outputs ELSE Refresh(run.ctx, run.pending)
        /\ rings' = IF run.err = "failed" THEN rings ELSE captured.rings
        /\ ok' = (run.err = "ok" /\ captured.err = "ok")
        /\ UNCHANGED order

SessionNext == (\E i \in Inputs, v \in Numbers : SessionSetInput(i, v)) \/ SessionTick

SessionSpec == SessionInit /\ [][SessionNext]_sessionVars

-----------------------------------------------------------------------------
(* Properties *)

(* The state of the session as ModelTick describes it: the context overlaid by
   what is staged, the samples newest first. *)
Committed(s) ==
    IF Staged(pending, s) # {} THEN pending[Min(Staged(pending, s))].value ELSE ctx[s]

Samples(r) == [k \in 1..r.count |-> HistoryRead(r, k)]

Held(b) ==
    LET held == Samples(buffers[b])
    IN  IF Staged(pending, b) = {} THEN held
        ELSE SubSeq(<<pending[Min(Staged(pending, b))].value>> \o held, 1,
                    Min({Capacity, Len(held) + 1}))

Promise == INSTANCE ModelTick WITH
    in <- [i \in Inputs |-> Lookup(ctx, i)],
    st <- [s \in Scalars |-> Committed(s)],
    bufs <- [b \in Buffers |-> Held(b)],
    past <- [n \in Histories |-> Samples(rings[n])],
    out <- outputs

(* A session behaves as ModelTick says: whatever dependency order was compiled,
   every tick reads the states of its start and the samples of earlier ticks,
   commits all updates together, and leaves nothing behind when a binding
   fails. *)
SessionKeepsPromise == Promise!Spec

(* The histories of a session advance together: name[k] is the same tick for
   every name (the capture loop pushes one sample per history per tick). *)
HistoriesAligned ==
    \A m, n \in Histories :
        LET d == Min({Depth[m], Depth[n]})
        IN  Min({rings[m].count, d}) = Min({rings[n].count, d})
=============================================================================
