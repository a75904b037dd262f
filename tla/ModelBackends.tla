--------------------------- MODULE ModelBackends ---------------------------
(***************************************************************************)
(* The fused scalar backend of a model session (src/model/fused.c and      *)
(* cxpr_model_session_tick_fused), and both backends side by side.  Every  *)
(* name and every update has a slot, one program evaluates all bindings    *)
(* over the slots, and the context is only written when a tick             *)
(* materializes.  A model that needs a history, a state buffer or a        *)
(* producer is never fused.                                                *)
(***************************************************************************)
EXTENDS ModelSession

CONSTANT Source     \* model->bindings: the bindings in the order they are written

(* cxpr_model_fused_ast_supported and the opcodes of the scalar program. *)
Fusible == Histories = {} /\ Buffers = {} /\ Captured = {}

FusedAssumption == Fusible /\ Source \in Listings

(* The fused tick copies every declared input, so each must be read by a binding. *)
InputsNeeded == \A i \in Inputs : Needed(i)

VARIABLES
    fctx,      \* the session context: name -> value, partial
    slots,     \* fused_slots: a slot per name
    updates,   \* fused_slots of the hidden __state_update_ names
    staged,    \* fused_pending_values: updated state -> value, None when unbound
    foutputs,  \* session->outputs
    fok        \* what the last tick returned

fusedVars == <<fctx, slots, updates, staged, foutputs, fok>>

Overlay(f, g) == [m \in DOMAIN f \cup DOMAIN g |-> IF m \in DOMAIN g THEN g[m] ELSE f[m]]

-----------------------------------------------------------------------------
(* The slots of a new session: defaults where the context has one. *)
Zero == CHOOSE v \in Numbers : TRUE
NewSlots == [n \in Names |-> IF n \in DOMAIN Default THEN Default[n] ELSE Zero]

(* fused_exports: the outputs that are not committed states. *)
Exports == Outputs \ Updated

(* The commit loop: what the previous tick staged becomes the state. *)
CommittedSlots ==
    [n \in DOMAIN slots |->
        IF n \in Updated /\ staged[n] # None THEN staged[n] ELSE slots[n]]

(* Inputs are copied from the context; one that is missing fails the tick (the
   slots of those copied before it are written again by every tick). *)
InputsMissing == \E i \in Inputs : Lookup(fctx, i) = Fault
LoadInputs(s) == [n \in DOMAIN s |-> IF n \in Inputs THEN fctx[n] ELSE s[n]]

(* Mutant: an update is stored into the slot of its state. *)
ExecuteStepInPlace(s, b) ==
    LET v == Value[b][[r \in Reads[b] |-> s.slots[r[1]]]]
    IN  IF s.err = "failed" THEN s
        ELSE IF v = Fault THEN [s EXCEPT !.err = "failed"]
        ELSE IF b \in Updated
        THEN [s EXCEPT !.updates[b] = v, !.slots[b] = v]
        ELSE [s EXCEPT !.slots[b] = v]

(* The instructions of one binding in the program of
   cxpr_model_try_compile_fused_ir: it is stored into its slot. *)
ExecuteStep(s, b) ==
    LET v == Value[b][[r \in Reads[b] |-> s.slots[r[1]]]]
    IN  IF s.err = "failed" THEN s
        ELSE IF v = Fault THEN [s EXCEPT !.err = "failed"]
        ELSE IF b \in Updated THEN [s EXCEPT !.updates[b] = v]
        ELSE [s EXCEPT !.slots[b] = v]

(* cxpr_ir_exec_scalar_fast over the program: the bindings in source order. *)
Executes(s0) ==
    LET s[k \in 0..Len(Source)] ==
            IF k = 0 THEN [slots |-> s0, updates |-> updates, err |-> "ok"]
            ELSE ExecuteStep(s[k - 1], Source[k])
    IN  s

Execute(s0) == Executes(s0)[Len(Source)]

(* cxpr_model_session_refresh_outputs_fused.  Outputs are numbers: of one that
   is a bool, this leaves no numeric value behind, while the refresh of a session
   without fusion reads whatever number the context has under its name. *)
RefreshFused(s, p) ==
    [o \in Outputs |-> Shown(foutputs[o], IF o \in Updated THEN p[o] ELSE s[o])]

(* Context writes of a materializing tick: committed states, and exports. *)
WriteCommits(c) == Overlay(c, [n \in {s \in Updated : staged[s] # None} |-> staged[n]])

(* cxpr_model_session_tick_fused, the export loop *)
WriteExports(c, s) == Overlay(c, [o \in Exports |-> s[o]])

-----------------------------------------------------------------------------
(* cxpr_model_session_new *)
FusedInit ==
    /\ fctx = Default
    /\ slots = NewSlots
    /\ updates = [s \in Updated |-> Zero]
    /\ staged = [s \in Updated |-> None]
    /\ foutputs = [o \in Outputs |-> NoOutput]
    /\ fok = TRUE

(* The host writes an input into the borrowed context. *)
FusedSetInput(i, v) ==
    /\ fctx' = Assign(fctx, i, v)
    /\ UNCHANGED <<slots, updates, staged, foutputs, fok>>

(* Mutant: the staged updates are not marked unbound when they are committed. *)
TickFusedRestages(materialize) ==
    LET loaded == LoadInputs(CommittedSlots)
        run == Execute(loaded)
        commits == IF materialize THEN WriteCommits(fctx) ELSE fctx
    IN  IF InputsMissing \/ run.err = "failed"
        THEN /\ slots' = IF InputsMissing THEN CommittedSlots ELSE run.slots
             /\ updates' = IF InputsMissing THEN updates ELSE run.updates
             /\ staged' = updates'
             /\ fctx' = commits
             /\ fok' = FALSE
             /\ UNCHANGED foutputs
        ELSE /\ slots' = run.slots
             /\ updates' = run.updates
             /\ staged' = run.updates
             /\ fctx' = IF materialize THEN WriteExports(commits, run.slots) ELSE commits
             /\ foutputs' = RefreshFused(run.slots, run.updates)
             /\ fok' = TRUE

(* cxpr_model_session_tick_fused.  The host passes an error record; without one,
   a failed evaluation is not noticed and its tick is accepted. *)
TickFused(materialize) ==
    LET loaded == LoadInputs(CommittedSlots)
        run == Execute(loaded)
        commits == IF materialize THEN WriteCommits(fctx) ELSE fctx
    IN  IF InputsMissing \/ run.err = "failed"
        THEN /\ slots' = IF InputsMissing THEN CommittedSlots ELSE run.slots
             /\ updates' = IF InputsMissing THEN updates ELSE run.updates
             /\ staged' = [s \in Updated |-> None]
             /\ fctx' = commits
             /\ fok' = FALSE
             /\ UNCHANGED foutputs
        ELSE /\ slots' = run.slots
             /\ updates' = run.updates
             /\ staged' = run.updates
             /\ fctx' = IF materialize THEN WriteExports(commits, run.slots) ELSE commits
             /\ foutputs' = RefreshFused(run.slots, run.updates)
             /\ fok' = TRUE

FusedTick == TickFused(TRUE)        \* cxpr_model_session_tick
FusedTickFast == TickFused(FALSE)   \* cxpr_model_session_tick_fast

FusedNext ==
    \/ \E i \in Inputs, v \in Numbers : FusedSetInput(i, v)
    \/ FusedTick
    \/ FusedTickFast

FusedSpec == FusedInit /\ [][FusedNext]_fusedVars

-----------------------------------------------------------------------------
(* Properties *)

(* The state of the session as ModelTick describes it. *)
FusedState(s) == IF s \in Updated /\ staged[s] # None THEN staged[s] ELSE slots[s]

FusedPromise == INSTANCE ModelTick WITH
    in <- [i \in Inputs |-> Lookup(fctx, i)],
    st <- [s \in Scalars |-> FusedState(s)],
    bufs <- [b \in Buffers |-> <<>>],
    past <- [n \in Histories |-> <<>>],
    out <- foutputs,
    ok <- fok

(* The fused session behaves as ModelTick says when the bindings are written in
   dependency order, however ticks that materialize and fast ticks mix. *)
FusedKeepsPromise == FusedPromise!Spec

-----------------------------------------------------------------------------
(* A session compiled without fusion and one compiled with it, given the same
   inputs and the same ticks.  A host uses the first as the parity oracle of the
   second. *)
vars == <<sessionVars, fusedVars>>

Init == SessionInit /\ FusedInit

(* The host writes one input into both contexts. *)
SetInput(i, v) == SessionSetInput(i, v) /\ FusedSetInput(i, v)

Tick == SessionTick /\ FusedTick
TickFast == SessionTick /\ FusedTickFast

Next == (\E i \in Inputs, v \in Numbers : SetInput(i, v)) \/ Tick \/ TickFast

Spec == Init /\ [][Next]_vars

(* Both backends return the same verdict and hold the same current and previous
   outputs, hence report the same edges, after every tick of the same inputs. *)
BackendsAgree == ok = fok /\ outputs = foutputs

=============================================================================
