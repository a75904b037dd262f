---------------------------- MODULE MCModelBackends ----------------------------
(***************************************************************************)
(* Models, in five parts that share no state; a behaviour exercises the    *)
(* one chosen at the start.                                                *)
(*                                                                         *)
(* "backends" runs small scalar programs on the reference and on the fused *)
(* backend: two states that read each other and two lets, one of which     *)
(* divides and reads the other.  Forward writes the reader before what it  *)
(* reads.  "session" runs the reference session on a program with one      *)
(* input, two states that read each other, a state buffer, a chain of lets *)
(* with a division, lookbacks on a let, a state and the buffer, and a      *)
(* history of a producer field that looks back at a state.  "children" has *)
(* a parent with two distinct calls of one child, one of them made twice   *)
(* and one without its argument, and a binding that may fail in between.   *)
(* "series" evaluates the expressions of MCSeries, "bulk" runs a           *)
(* population of generated models on two workers.                          *)
(***************************************************************************)
EXTENDS Integers, Sequences, Functions, TLC

CONSTANTS Parts, Source, MaxTicks, Workers, Nothing

VARIABLES part,
          order, rctx, pending, rings, buffers, routputs, rok, fctx, slots, updates, staged, foutputs, fok,
          at, ctx, stagedUpdates, histories, stateBuffers, outputs, ok,
          lifetime, single, instances, own, outs, parentOk, ticks, failures,
          setup, stage, plan, now, par, past, gen, feed, cursor, out, want, sets,
          ids, states, count, view, columns, undone, worker, snap, launches, changes

bvars == <<order, rctx, pending, rings, buffers, routputs, rok, fctx, slots, updates, staged, foutputs, fok>>
svars == <<at, ctx, stagedUpdates, histories, stateBuffers, outputs, ok>>
cvars == <<lifetime, single, instances, own, outs, parentOk, ticks, failures>>
wvars == <<setup, stage, plan, now, par, past, gen, feed, cursor, out, want, sets>>
kvars == <<ids, states, count, view, columns, undone, worker, snap, launches, changes>>

Inputs == {"x"}
Lets == {"a", "b"}
Outputs == {"s", "a"}
Numbers == 0..2
Default == [s \in {"s", "u"} |-> 0]

(* An expression adds what it reads; one that divides fails on a sum of 0.
   Unknown values make it fail, missing samples make it NaN. *)
Sums(reads, divides) ==
    [b \in DOMAIN reads |->
        [got \in [reads[b] -> Numbers \cup {-1, -2}] |->
            LET total == FoldFunction(+, 0, got)
            IN  IF \E r \in reads[b] : got[r] = -2 THEN -2
                ELSE IF \E r \in reads[b] : got[r] = -1 THEN -1
                ELSE IF b \in divides /\ total % 3 = 0 THEN -2
                ELSE (total + 1) % 3]]

ScalarReads ==
    [n \in {"s", "u", "a", "b"} |->
        CASE n = "s" -> {<<"u", 0>>}
          [] n = "u" -> {<<"s", 0>>, <<"x", 0>>}
          [] n = "a" -> {<<"b", 0>>, <<"u", 0>>}
          [] n = "b" -> {<<"x", 0>>, <<"s", 0>>}]
ScalarValue == Sums(ScalarReads, {"a"})
InOrder == <<"u", "b", "a", "s">>
Forward == <<"u", "a", "b", "s">>

B == INSTANCE ModelBackends WITH
    States <- {"s", "u"}, Updated <- {"s", "u"}, Buffers <- {}, Capacity <- 1, Captured <- {},
    Reads <- ScalarReads, Value <- ScalarValue, CaptureOrder <- <<>>,
    ctx <- rctx, outputs <- routputs, ok <- rok

SessionReads ==
    [n \in {"s", "u", "w", "a", "b", "f"} |->
        CASE n = "s" -> {<<"u", 0>>}
          [] n = "u" -> {<<"s", 0>>, <<"x", 0>>, <<"f", 1>>}
          [] n = "w" -> {<<"a", 0>>}
          [] n = "a" -> {<<"b", 0>>, <<"w", 1>>}
          [] n = "b" -> {<<"x", 0>>, <<"s", 2>>}
          [] n = "f" -> {<<"x", 0>>, <<"s", 1>>}]
SessionValue == Sums(SessionReads, {"b"})

S == INSTANCE ModelSession WITH
    States <- {"s", "u", "w"}, Updated <- {"s", "u", "w"}, Buffers <- {"w"}, Capacity <- 2,
    Captured <- {"f"}, Reads <- SessionReads, Value <- SessionValue, CaptureOrder <- <<"f", "s">>,
    order <- at, pending <- stagedUpdates, rings <- histories, buffers <- stateBuffers

ASSUME BackendsAssumption ==
    B!ProgramAssumption /\ B!CaptureAssumption /\ B!FusedAssumption /\ B!InputsNeeded
ASSUME SessionAssumption == S!ProgramAssumption /\ S!CaptureAssumption /\ S!CapturesSucceed

Steps ==
    <<[kind |-> "call", key |-> "c(2)", arg |-> 2],
      [kind |-> "call", key |-> "c()", arg |-> 0],
      [kind |-> "guard", key |-> "", arg |-> 0],
      [kind |-> "call", key |-> "c(2)", arg |-> 2],
      [kind |-> "call", key |-> "c(3)", arg |-> 3]>>

C == INSTANCE ModelChild WITH
    Lifetimes <- {"singleton", "scoped", "transient"}, Unset <- 0, DefaultArg <- 1, ok <- parentOk

(* The limits of the code, small enough to be met. *)
Int64Bits == 8
MaxDynamicOffset == 8
FunctionDepth == 4
BoundDepth == 4
DefaultPeriod == 6
ShiftDepth == 1
NarrowMax == 3

(* Bounds on the samples and on the parameters set. *)
MaxSamples == 4
MaxGenerated == 5
MaxRows == 3
MaxSets == 1

Written == INSTANCE MCSeries WITH Cases <- {}

W == INSTANCE SeriesMachine WITH Cases <- Written!MCCases

ASSUME SeriesAssumption == W!DynamicOffsetAssumption /\ W!PlanAssumption /\ W!GeneratedAssumption

K == INSTANCE Bulk WITH
    Ids <- {2, 5, 7}, Capacity0 <- 1, Layouts <- {1, 2},
    MaxLaunches <- 2, MaxChanges <- 4, outputs <- columns

(* The workers are only compared for equality. *)
Symmetry == Permutations(Workers)

MCInit ==
    /\ part \in Parts
    /\ B!Init
    /\ S!SessionInit
    /\ C!Init
    /\ part # "backends" => order = CHOOSE o \in B!Orders : TRUE
    /\ part # "session" => at = CHOOSE o \in S!Orders : TRUE
    /\ part # "children" => lifetime = "scoped"
    /\ W!Init
    /\ part # "series" => setup = CHOOSE c \in Written!MCCases : TRUE
    /\ K!Init

MCNext ==
    /\ UNCHANGED part
    /\ \/ part = "backends" /\ B!Next /\ UNCHANGED <<svars, cvars, wvars, kvars>>
       \/ part = "session" /\ S!SessionNext /\ UNCHANGED <<bvars, cvars, wvars, kvars>>
       \/ part = "children" /\ C!Next /\ UNCHANGED <<bvars, svars, wvars, kvars>>
       \/ part = "series" /\ W!Next /\ UNCHANGED <<bvars, svars, cvars, kvars>>
       \/ part = "bulk" /\ K!Next /\ UNCHANGED <<bvars, svars, cvars, wvars>>

MCSpec == MCInit /\ [][MCNext]_<<part, bvars, svars, cvars, wvars, kvars>>

(* The reference session, with buffers, histories and captured fields, and both
   backends on scalar programs keep what ModelTick promises: a tick reads the
   states of its start, commits all updates together and leaves nothing behind
   when a binding fails. *)
PromisesKept == S!SessionKeepsPromise /\ B!FusedKeepsPromise

(* Both backends return the same verdict and hold the same current and previous
   outputs, hence report the same edges, after every tick of the same inputs. *)
BackendsAgree == B!BackendsAgree

(* name[k] is the same tick for every name: the capture loop pushes one sample
   per history per tick, or none. *)
HistoriesAligned == S!HistoriesAligned

(* However often a child's fields are read in a tick, the child advances once
   for every distinct call. *)
OncePerTick == C!OncePerTick

(* Calls of a scoped or transient child never see each other's argument or
   state. *)
CallsIndependent == C!CallsIndependent

(* The last binding of a session is what its expression means over the samples
   of the accepted ticks: the history the compiler planned is deep enough for
   every offset it is evaluated at, and a failed tick leaves no sample behind. *)
SessionMeansPast == W!SessionMeansPast

(* The generated function gives what the last binding means over the samples of
   the calls its guard let through, for every period the parameters take. *)
GeneratedMeansPast == W!GeneratedMeansPast

(* The history adapter gives what the expression means at the cursor, with the
   policy's value before the first row. *)
AdapterMeansPast == W!AdapterMeansPast

(* Every agent keeps a state of its own while others come and go, a launch ticks
   each agent once with its own input however the workers are interleaved, and a
   snapshot is restored to all agents or to none. *)
ImplementsPopulation == K!ImplementsPopulation
=============================================================================
