--------------------------- MODULE EngineSession ---------------------------
(***************************************************************************)
(* A session of the engine (src/engine/session.c): its cursor, the rings   *)
(* behind source and expression lookback, the evaluator's results and the  *)
(* transition state of its watches.                                        *)
(*                                                                         *)
(* A tick is one action, as it is one call: it hydrates every referenced   *)
(* source, reserves a slot in every expression ring, evaluates, fills the  *)
(* slots and detects edges.  Evaluation is abstracted to its outcome: the  *)
(* expressions are evaluated in order and either all succeed or the k-th   *)
(* fails and the rest stay unevaluated.                                    *)
(***************************************************************************)
EXTENDS EngineRing, FiniteSets

CONSTANTS
    Values,       \* samples of a source
    Sources,      \* pull sources with a ring
    MaxLookback,  \* [Sources -> Nat]: deepest lookback found by the scan
    Exprs,        \* sequence of expression names in evaluation order
    MaxDepth,     \* [tracked expressions -> Nat]; its domain is prog->tracked
    True, False,  \* the two bool results
    Watches,      \* sequence of [expr, edge]
    ResultsOf,    \* [expression names -> set of results it may produce]
    Indices,      \* cursor positions the host passes to tick_at
    MaxTicks      \* bound on the ticks between two resets

ASSUME SessionAssumption ==
    /\ MaxLookback \in [Sources -> Nat]
    /\ Len(Exprs) \in Nat /\ DOMAIN Exprs = 1..Len(Exprs)
    /\ DOMAIN MaxDepth \subseteq {Exprs[i] : i \in DOMAIN Exprs}
    /\ MaxDepth \in [DOMAIN MaxDepth -> Nat]
    /\ Indices \subseteq Nat
    /\ \A i \in DOMAIN Watches :
           /\ Watches[i].expr \in {Exprs[j] : j \in DOMAIN Exprs}
           /\ Watches[i].edge \in {"rising", "falling", "level", "changed"}

Tracked == DOMAIN MaxDepth
Names == {Exprs[i] : i \in DOMAIN Exprs}
WatchIds == DOMAIN Watches
Truths == {True, False}
Samples == Values \cup {NaN}
Results == UNION {ResultsOf[n] : n \in Names}
Outcomes == {f \in [Names -> Results] :
                \A n \in Names : f[n] \in ResultsOf[n]}

VARIABLES
    cursor,     \* index of the last tick, -1 before the first
    srcRing,    \* [Sources -> ring]
    current,    \* [Sources -> sample]: bare values written to the context
    exprRing,   \* [Tracked -> ring]
    result,     \* evaluated results: a function from the evaluated names
    prev,       \* [WatchIds -> [truthy, value, valid]]
    events,     \* watches returned by the last successful tick
    ok,         \* what the last tick returned
    pulled,     \* history variable: source samples of every tick since reset
    produced,   \* history variable: tracked results of every tick since reset
    told        \* history variable: truth of each watch at the last successful tick

vars == <<cursor, srcRing, current, exprRing, result, prev, events, ok,
          pulled, produced, told>>

NoPrev == [truthy |-> FALSE, value |-> NaN, valid |-> FALSE]

Init ==
    /\ cursor = -1
    /\ srcRing = [s \in Sources |-> NewRing(MaxLookback[s] + 1)]
    /\ current = [s \in Sources |-> NaN]
    /\ exprRing = [e \in Tracked |-> NewRing(MaxDepth[e] + 1)]
    /\ result = [n \in {} |-> NaN]
    /\ prev = [w \in WatchIds |-> NoPrev]
    /\ events = {}
    /\ ok = TRUE
    /\ pulled = <<>>
    /\ produced = <<>>
    /\ told = [w \in WatchIds |-> FALSE]

(* engine_value_to_double *)
ValueToDouble(v) ==
    IF v = True THEN 1 ELSE IF v = False THEN 0 ELSE IF v \in Values THEN v ELSE NaN

(* The edge switch of cxpr_engine_tick. *)
Fires(edge, p, v) ==
    CASE edge = "rising"  -> v = True /\ ~p.truthy
      [] edge = "falling" -> v # True /\ p.truthy
      [] edge = "level"   -> v = True
      [] edge = "changed" -> p.valid /\ ValueToDouble(v) # p.value

(* First watch whose expression did not produce a bool; the loop returns an
   error there, after the watches before it were updated. *)
Mismatch(res) == {w \in WatchIds : res[Watches[w].expr] \notin Truths}
Reached(res) == {w \in WatchIds : \A m \in Mismatch(res) : w < m}

(* Mutant: transition state is kept only for watches that fired. *)
DetectFiredOnly(res) ==
    /\ prev' = [w \in WatchIds |->
          IF w \in Reached(res) /\ Fires(Watches[w].edge, prev[w], res[Watches[w].expr])
          THEN [truthy |-> res[Watches[w].expr] = True,
                value |-> ValueToDouble(res[Watches[w].expr]), valid |-> TRUE]
          ELSE prev[w]]
    /\ events' = IF Mismatch(res) # {} THEN {}
                 ELSE {w \in WatchIds : Fires(Watches[w].edge, prev[w], res[Watches[w].expr])}
    /\ ok' = (Mismatch(res) = {})

(* Edge detection over watches. *)
Detect(res) ==
    /\ prev' = [w \in WatchIds |->
          IF w \in Reached(res)
          THEN [truthy |-> res[Watches[w].expr] = True,
                value |-> ValueToDouble(res[Watches[w].expr]), valid |-> TRUE]
          ELSE prev[w]]
    /\ events' = IF Mismatch(res) # {} THEN {}
                 ELSE {w \in WatchIds : Fires(Watches[w].edge, prev[w], res[Watches[w].expr])}
    /\ ok' = (Mismatch(res) = {})

(* Hydration: each source is sampled, fed to its ring and written bare. *)
Hydrate(sample) ==
    /\ srcRing' = [s \in Sources |-> RingAppend(srcRing[s], sample[s])]
    /\ current' = sample
    /\ pulled' = Append(pulled, sample)

(* Mutant: no slot is reserved; the fill overwrites the previous result. *)
ReservedSkipped(e) == exprRing[e]

(* The expression rings after the slot of this tick was reserved. *)
Reserved(e) == RingAppend(exprRing[e], NaN)

(* cxpr_engine_tick at cursor c, every expression evaluates. *)
TickEvaluates(c, sample, res) ==
    /\ cursor' = c
    /\ Hydrate(sample)
    /\ result' = res
    /\ exprRing' = [e \in Tracked |-> RingFill(Reserved(e), res[e])]
    /\ Detect(res)
    /\ produced' = Append(produced, [e \in Tracked |-> res[e]])
    /\ told' = IF Mismatch(res) = {}
               THEN [w \in WatchIds |-> res[Watches[w].expr] = True] ELSE told

(* cxpr_engine_tick at cursor c, the expression after the first k fails: the
   reserved slots keep NaN and no watch is looked at. *)
TickFails(c, sample, k, res) ==
    /\ cursor' = c
    /\ Hydrate(sample)
    /\ result' = [n \in {Exprs[i] : i \in 1..k} |-> res[n]]
    /\ exprRing' = [e \in Tracked |-> Reserved(e)]
    /\ ok' = FALSE
    /\ events' = {}
    /\ produced' = Append(produced, [e \in Tracked |-> NaN])
    /\ UNCHANGED <<prev, told>>

TickTo(c) ==
    /\ Len(pulled) < MaxTicks
    /\ \E sample \in [Sources -> Samples], res \in Outcomes :
           \/ TickEvaluates(c, sample, res)
           \/ \E k \in 0..(Len(Exprs) - 1) : TickFails(c, sample, k, res)

Tick == TickTo(cursor + 1)

(* cxpr_engine_tick_at: reposition, then tick; neither rings nor watches move
   with the cursor. *)
TickAt(index) == TickTo(index)

(* Mutant: the reset leaves the watches' transition state behind. *)
ResetKeepingWatches ==
    /\ cursor' = -1
    /\ srcRing' = [s \in Sources |-> RingReset(srcRing[s])]
    /\ exprRing' = [e \in Tracked |-> RingReset(exprRing[e])]
    /\ pulled' = <<>> /\ produced' = <<>>
    /\ told' = [w \in WatchIds |-> FALSE]
    /\ UNCHANGED <<current, result, prev, events, ok>>

(* cxpr_engine_session_reset: results, bare values and the last event batch
   stay readable. *)
Reset ==
    /\ cursor' = -1
    /\ srcRing' = [s \in Sources |-> RingReset(srcRing[s])]
    /\ exprRing' = [e \in Tracked |-> RingReset(exprRing[e])]
    /\ prev' = [w \in WatchIds |-> NoPrev]
    /\ pulled' = <<>> /\ produced' = <<>>
    /\ told' = [w \in WatchIds |-> FALSE]
    /\ UNCHANGED <<current, result, events, ok>>

Next ==
    \/ Tick
    \/ \E index \in Indices : TickAt(index)
    \/ Reset

Spec == Init /\ [][Next]_vars

-----------------------------------------------------------------------------

(* The session's state keeps its shape. *)
TypeOK ==
    /\ cursor \in Nat \cup {-1}
    /\ \A s \in Sources : srcRing[s] \in RingType(MaxLookback[s] + 1, Values)
    /\ \A e \in Tracked : exprRing[e] \in RingType(MaxDepth[e] + 1, Results)
    /\ current \in [Sources -> Samples]
    /\ DOMAIN result \subseteq Names
    /\ events \subseteq WatchIds
    /\ ok \in BOOLEAN

Column(hist, x) == [i \in 1..Len(hist) |-> hist[i][x]]

(* `source[n]` returns the sample of n ticks ago, across failed ticks,
   repositioning and resets, and NaN when there is none. *)
SourceLookback ==
    \A s \in Sources : \A d \in 0..(MaxLookback[s] + 1) :
        RingRead(srcRing[s], d) = Sample(Column(pulled, s), MaxLookback[s] + 1, d)

(* `expr[n]` returns what the expression evaluated to n ticks ago; a tick whose
   evaluation failed left NaN, so later ticks stay aligned with the sources. *)
ExprLookback ==
    \A e \in Tracked : \A d \in 0..(MaxDepth[e] + 1) :
        RingRead(exprRing[e], d) = Sample(Column(produced, e), MaxDepth[e] + 1, d)

(* Every successful tick reports exactly the transitions since the previous
   successful tick: rising, falling and changed compare with what the caller
   was told last, level with nothing (the edge switch of cxpr_engine_tick). *)
EventsAreTransitions ==
    [][ok' /\ Len(pulled') > Len(pulled) =>
        \A w \in WatchIds :
            w \in events' <=>
                CASE Watches[w].edge = "rising"  -> told'[w] /\ ~told[w]
                  [] Watches[w].edge = "falling" -> ~told'[w] /\ told[w]
                  [] Watches[w].edge = "level"   -> told'[w]
                  [] Watches[w].edge = "changed" -> prev[w].valid /\ told'[w] # told[w]]_vars

(* The abstract session: targets are the sources and the tracked expressions,
   a window is the ring read from depth 0 on. *)
WindowOf(r) == [i \in 1..r.count |-> RingRead(r, i - 1)]

History == INSTANCE EngineHistory WITH
    Targets <- Sources \cup Tracked,
    Depth <- [t \in Sources \cup Tracked |->
                 IF t \in Sources THEN MaxLookback[t] ELSE MaxDepth[t]],
    Samples <- Samples \cup Results,
    Watches <- WatchIds,
    window <- [t \in Sources \cup Tracked |->
                  WindowOf(IF t \in Sources THEN srcRing[t] ELSE exprRing[t])],
    seen <- [w \in WatchIds |->
                IF ~prev[w].valid THEN "never" ELSE IF prev[w].truthy THEN "true" ELSE "false"]

(* Ring arithmetic, reserved slots and failed ticks implement the sliding
   windows of EngineHistory: all targets advance together by one sample. *)
ImplementsHistory == History!Spec
=============================================================================
