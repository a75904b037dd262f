------------------------ MODULE ModelSessionProofs ------------------------
(***************************************************************************)
(* That the reference session of a compiled model implements ModelTick and *)
(* keeps its histories aligned, for every program.                         *)
(***************************************************************************)
EXTENDS ModelProofs

-----------------------------------------------------------------------------
(* The commit loop *)

CommitState == [ctx : Contexts, buffers : BufferSets]

\* One staged update becomes the state.
LEMMA CommitStepIs ==
    ASSUME ProgramAssumption, NEW s \in CommitState, NEW p \in Update
    PROVE  /\ CommitStep(s, p) \in CommitState
           /\ p.name \in Buffers =>
                /\ CommitStep(s, p).ctx = s.ctx
                /\ CommitStep(s, p).buffers = [s.buffers EXCEPT ![p.name] = Push(@, p.value)]
           /\ p.name \notin Buffers =>
                /\ CommitStep(s, p).ctx = Assign(s.ctx, p.name, p.value)
                /\ CommitStep(s, p).buffers = s.buffers
<1>1. s.ctx \in Contexts /\ s.buffers \in BufferSets /\ p.name \in Updated /\ p.value \in Good
    BY Zenon DEF CommitState, Update
<1>2. CASE p.name \in Buffers
    <2>1. s.buffers[p.name] \in Ring(Capacity) /\ Capacity \in Nat \ {0}
        BY <1>1, <1>2, Zenon DEF BufferSets, ProgramAssumption
    <2>2. Push(s.buffers[p.name], p.value) \in Ring(Capacity)
        BY <1>1, <2>1, PushIs, Zenon
    <2>3. [s.buffers EXCEPT ![p.name] = Push(@, p.value)] \in BufferSets
        BY <1>1, <2>2, Zenon DEF BufferSets
    <2> DEFINE q == [s.buffers EXCEPT ![p.name] = Push(@, p.value)]
    <2>4. CommitStep(s, p) = [s EXCEPT !.buffers = q]
        BY <1>2, Zenon DEF CommitStep
    <2> HIDE DEF q
    <2>6. /\ [s EXCEPT !.buffers = q] \in [ctx : Contexts, buffers : {s.buffers, q}]
          /\ [s EXCEPT !.buffers = q].ctx = s.ctx /\ [s EXCEPT !.buffers = q].buffers = q
        BY Zenon DEF CommitState
    <2>7. q \in BufferSets
        BY <2>3, Zenon DEF q
    <2>8. CommitStep(s, p) \in CommitState
        BY <1>1, <2>4, <2>6, <2>7, Zenon DEF CommitState
    <2> QED BY <1>2, <2>4, <2>6, <2>8, Zenon DEF q
<1>3. CASE p.name \notin Buffers
    <2>1. p.name \in Known
        BY <1>1, <1>3, NamesApart, Zenon DEF Known
    <2>2. Assign(s.ctx, p.name, p.value) \in Contexts
        BY <1>1, <2>1, AssignIs, Zenon
    <2>3. CommitStep(s, p) = [s EXCEPT !.ctx = Assign(@, p.name, p.value)]
        BY <1>3, Zenon DEF CommitStep
    <2> QED BY <1>3, <2>2, <2>3, Zenon DEF CommitState
<1> QED BY <1>2, <1>3, Zenon

\* The loop, turn by turn.
LEMMA Committing ==
    ASSUME ProgramAssumption, ctx \in Contexts, buffers \in BufferSets, pending \in Seq(Update)
    PROVE  /\ Commits[0] = [ctx |-> ctx, buffers |-> buffers]
           /\ \A k \in 0..Len(pending) : Commits[k] \in CommitState
           /\ \A k \in 1..Len(pending) : Commits[k] = CommitStep(Commits[k - 1], pending[k])
<1> DEFINE N == Len(pending)
           S == CommitState
           s0 == [ctx |-> ctx, buffers |-> buffers]
           Step(s, k) == CommitStep(s, pending[k])
           step == [k \in 1..N |-> [s \in S |-> Step(s, k)]]
           Is(f) == f = [k \in 0..N |-> IF k = 0 THEN s0 ELSE CommitStep(f[k - 1], pending[k])]
<1>1. N \in Nat /\ \A k \in 1..N : pending[k] \in Update
    OBVIOUS
<1>2. s0 \in S
    BY Zenon DEF CommitState
<1>3. ASSUME NEW k \in 1..N, NEW s \in S PROVE Step(s, k) \in S
    BY <1>1, CommitStepIs, Zenon
<1> HIDE DEF N, S, s0, Step
<1>4. step \in [1..N -> [S -> S]]
    BY <1>3, Zenon
<1> HIDE DEF step
<1>5. PICK f \in [0..N -> S] : Runs(f, N, s0, step)
    BY <1>1, <1>2, <1>4, LoopRuns, Zenon
<1>6. ASSUME NEW k \in 0..N
      PROVE  f[k] = IF k = 0 THEN s0 ELSE Step(f[k - 1], k)
    <2>1. f[k] = IF k = 0 THEN s0 ELSE step[k][f[k - 1]]
        BY <1>5, Zenon DEF Runs
    <2>2. CASE k = 0
        BY <2>1, <2>2, Zenon
    <2>3. CASE k # 0
        <3>1. k \in 1..N /\ k - 1 \in 0..N
            BY <1>1, <2>3
        <3>2. f[k - 1] \in S
            BY <3>1, Zenon
        <3>3. step[k][f[k - 1]] = Step(f[k - 1], k)
            BY <3>1, <3>2, Zenon DEF step
        <3> QED BY <2>1, <2>3, <3>3, Zenon
    <2> QED BY <2>2, <2>3, Zenon
<1>7. Is(f)
    <2>1. f = [k \in 0..N |-> f[k]]
        OBVIOUS
    <2> QED BY <1>6, <2>1, Zenon DEF Step
<1>8. Commits = CHOOSE g : Is(g)
    BY Zenon DEF Commits, s0, N
<1>9. ASSUME NEW g, Is(g) PROVE g \in [0..N -> S] /\ g[0] = s0 /\ \A k \in 1..N : g[k] = Step(g[k - 1], k)
    <2> DEFINE K == {k \in 0..N : g[k] \in S}
    <2>1. ASSUME NEW k \in 0..N PROVE g[k] = IF k = 0 THEN s0 ELSE Step(g[k - 1], k)
        BY <1>9, Zenon DEF Step
    <2>2. g = [k \in 0..N |-> g[k]]
        BY <1>9, Zenon
    <2> HIDE DEF Is
    <2>3. 0 \in K
        BY <1>1, <1>2, <2>1
    <2>4. ASSUME NEW k \in 1..N, k - 1 \in K PROVE k \in K
        BY <1>1, <1>3, <2>1, <2>4
    <2>5. \A k \in 0..N : k \in K
        <3> HIDE DEF K
        <3> QED BY <1>1, <2>3, <2>4, UpTo, Zenon
    <2>6. g \in [0..N -> S]
        BY <2>2, <2>5, Zenon
    <2>7. g[0] = s0 /\ \A k \in 1..N : g[k] = Step(g[k - 1], k)
        BY <1>1, <2>1
    <2> QED BY <2>6, <2>7, Zenon
<1> HIDE DEF Is
<1>10. Is(Commits)
    BY <1>7, <1>8, Zenon
<1>11. Commits \in [0..N -> S] /\ Commits[0] = s0
       /\ \A k \in 1..N : Commits[k] = Step(Commits[k - 1], k)
    BY <1>9, <1>10, Zenon
<1> QED BY <1>1, <1>11, Zenon DEF s0, N, S, Step

Distinct(p) == \A i, j \in 1..Len(p) : i # j => p[i].name # p[j].name

\* The staged update of a name is found.
LEMMA StagedIs ==
    ASSUME NEW p \in Seq(Update), Distinct(p)
    PROVE  /\ \A i \in 1..Len(p) : Staged(p, p[i].name) # {} /\ Min(Staged(p, p[i].name)) = i
           /\ \A n : Staged(p, n) # {} => \E i \in 1..Len(p) : p[i].name = n
           /\ \A n : Staged(p, n) = {} => \A i \in 1..Len(p) : p[i].name # n
<1>1. DOMAIN p = 1..Len(p)
    OBVIOUS
<1>2. ASSUME NEW i \in 1..Len(p)
      PROVE  Staged(p, p[i].name) # {} /\ Min(Staged(p, p[i].name)) = i
    <2>1. Staged(p, p[i].name) = {i}
        BY <1>1, Zenon DEF Staged, Distinct
    <2>2. i \in Int
        OBVIOUS
    <2> QED BY <2>1, <2>2, MinOfOne, Zenon
<1>3. ASSUME NEW n, Staged(p, n) # {} PROVE \E i \in 1..Len(p) : p[i].name = n
    BY <1>1, <1>3, Zenon DEF Staged
<1>4. ASSUME NEW n, Staged(p, n) = {} PROVE \A i \in 1..Len(p) : p[i].name # n
    BY <1>1, <1>4, Zenon DEF Staged
<1> QED BY <1>2, <1>3, <1>4, Zenon

(* What k turns of the commit loop have done. *)
Applied(s, k) ==
    /\ \A n : (\A j \in 1..k : pending[j].name # n) =>
                 Lookup(s.ctx, n) = Lookup(ctx, n) /\ (n \in Buffers => s.buffers[n] = buffers[n])
    /\ \A j \in 1..k : pending[j].name \notin Buffers =>
          Lookup(s.ctx, pending[j].name) = pending[j].value
    /\ \A j \in 1..k : pending[j].name \in Buffers =>
          s.buffers[pending[j].name] = Push(buffers[pending[j].name], pending[j].value)

\* A turn of the commit loop leaves the names of the other updates alone.
LEMMA AppliedStep ==
    ASSUME ProgramAssumption, pending \in Seq(Update), Distinct(pending),
           NEW k \in 1..Len(pending), NEW s \in CommitState, Applied(s, k - 1)
    PROVE  Applied(CommitStep(s, pending[k]), k)
<1> DEFINE p == pending[k]
           t == CommitStep(s, p)
<1>1. p \in Update /\ Len(pending) \in Nat
    OBVIOUS
<1>2. p.name \in Updated /\ p.value \in Good /\ s.ctx \in Contexts /\ s.buffers \in BufferSets
    BY <1>1, Zenon DEF Update, CommitState
<1>3. /\ p.name \in Buffers =>
           t.ctx = s.ctx /\ t.buffers = [s.buffers EXCEPT ![p.name] = Push(@, p.value)]
      /\ p.name \notin Buffers => t.ctx = Assign(s.ctx, p.name, p.value) /\ t.buffers = s.buffers
    BY <1>1, CommitStepIs, Zenon
<1>4. \A n : n # p.name => Lookup(t.ctx, n) = Lookup(s.ctx, n)
    BY <1>3, Zenon DEF Assign, Lookup
<1>5. \A n \in Buffers : n # p.name => t.buffers[n] = s.buffers[n]
    BY <1>2, <1>3, Zenon DEF BufferSets
<1>6. p.name \notin Buffers => Lookup(t.ctx, p.name) = p.value
    BY <1>3, Zenon DEF Assign, Lookup
<1>7. p.name \in Buffers => t.buffers[p.name] = Push(s.buffers[p.name], p.value)
    BY <1>2, <1>3, Zenon DEF BufferSets
<1> HIDE DEF t
<1>8. /\ \A j \in 1..k : j = k \/ j \in 1..k-1
      /\ \A j \in 1..k-1 : j \in 1..k /\ pending[j].name # p.name
    BY <1>1 DEF Distinct
<1>9. p.name \in Buffers => s.buffers[p.name] = buffers[p.name]
    BY <1>8, Zenon DEF Applied
<1>10. ASSUME NEW n, \A j \in 1..k : pending[j].name # n
       PROVE  Lookup(t.ctx, n) = Lookup(ctx, n) /\ (n \in Buffers => t.buffers[n] = buffers[n])
    <2>1. n # p.name
        BY <1>10
    <2>2. Lookup(s.ctx, n) = Lookup(ctx, n) /\ (n \in Buffers => s.buffers[n] = buffers[n])
        BY <1>8, <1>10, Zenon DEF Applied
    <2> QED BY <1>4, <1>5, <2>1, <2>2, Zenon
<1>11. ASSUME NEW j \in 1..k, pending[j].name \notin Buffers
       PROVE  Lookup(t.ctx, pending[j].name) = pending[j].value
    <2>1. CASE j = k
        BY <1>6, <1>11, <2>1, Zenon
    <2>2. CASE j \in 1..k-1
        BY <1>4, <1>8, <1>11, <2>2, Zenon DEF Applied
    <2> QED BY <1>8, <2>1, <2>2, Zenon
<1>12. ASSUME NEW j \in 1..k, pending[j].name \in Buffers
       PROVE  t.buffers[pending[j].name] = Push(buffers[pending[j].name], pending[j].value)
    <2>1. CASE j = k
        BY <1>7, <1>9, <1>12, <2>1, Zenon
    <2>2. CASE j \in 1..k-1
        BY <1>5, <1>8, <1>12, <2>2, Zenon DEF Applied
    <2> QED BY <1>8, <2>1, <2>2, Zenon
<1>13. Applied(t, k)
    BY <1>10, <1>11, <1>12, Zenon DEF Applied
<1> QED BY <1>13, Zenon DEF t

\* What was staged becomes the state, the rest stays.
LEMMA CommitIs ==
    ASSUME ProgramAssumption, ctx \in Contexts, buffers \in BufferSets,
           pending \in Seq(Update), Distinct(pending)
    PROVE  /\ Commit \in CommitState
           /\ \A n \in Inputs : Lookup(Commit.ctx, n) = Lookup(ctx, n)
           /\ \A s \in Scalars : Lookup(Commit.ctx, s) = Committed(s)
           /\ \A b \in Buffers : Samples(Commit.buffers[b]) = Held(b)
<1> DEFINE N == Len(pending)
           K == {k \in 0..N : Applied(Commits[k], k)}
<1>1. N \in Nat /\ \A k \in 1..N : pending[k] \in Update
    OBVIOUS
<1>2. /\ Commits[0] = [ctx |-> ctx, buffers |-> buffers]
      /\ \A k \in 0..N : Commits[k] \in CommitState
      /\ \A k \in 1..N : Commits[k] = CommitStep(Commits[k - 1], pending[k])
    BY Committing, Zenon
<1>3. 0 \in K
    <2>1. Commits[0].ctx = ctx /\ Commits[0].buffers = buffers
        BY <1>2
    <2>2. Applied(Commits[0], 0)
        BY <2>1 DEF Applied
    <2> QED BY <1>1, <2>2
<1>4. ASSUME NEW k \in 1..N, k - 1 \in K PROVE k \in K
    <2>1. Commits[k - 1] \in CommitState /\ Applied(Commits[k - 1], k - 1)
        BY <1>2, <1>4, Zenon
    <2>2. Applied(CommitStep(Commits[k - 1], pending[k]), k)
        BY <2>1, AppliedStep, Zenon
    <2> QED BY <1>1, <1>2, <2>2
<1>5. \A k \in 0..N : k \in K
    <2> HIDE DEF K
    <2> QED BY <1>1, <1>3, <1>4, UpTo, Zenon
<1> DEFINE t == Commits[N]
<1>6. Applied(t, N) /\ t \in CommitState /\ t = Commit
    BY <1>1, <1>2, <1>5 DEF Commit
<1> HIDE DEF t, K
<1>7. /\ \A i \in 1..N : Staged(pending, pending[i].name) # {} /\ Min(Staged(pending, pending[i].name)) = i
      /\ \A n : Staged(pending, n) # {} => \E i \in 1..N : pending[i].name = n
      /\ \A n : Staged(pending, n) = {} => \A i \in 1..N : pending[i].name # n
    BY StagedIs, Zenon
<1>8. ASSUME NEW n \in Inputs PROVE Lookup(t.ctx, n) = Lookup(ctx, n)
    <2>1. \A j \in 1..N : pending[j].name # n
        BY <1>1, NamesApart, Zenon DEF Update
    <2> QED BY <1>6, <2>1, Zenon DEF Applied
<1>9. ASSUME NEW s \in Scalars PROVE Lookup(t.ctx, s) = Committed(s)
    <2>1. CASE Staged(pending, s) = {}
        <3>1. Lookup(t.ctx, s) = Lookup(ctx, s)
            BY <1>6, <1>7, <2>1, Zenon DEF Applied
        <3>2. Lookup(ctx, s) = ctx[s]
            BY ContextIs, Zenon
        <3> QED BY <2>1, <3>1, <3>2, Zenon DEF Committed
    <2>2. CASE Staged(pending, s) # {}
        <3>1. PICK i \in 1..N : pending[i].name = s
            BY <1>7, <2>2, Zenon
        <3>2. Min(Staged(pending, s)) = i /\ s \notin Buffers
            BY <1>7, <3>1, NamesApart, Zenon
        <3>3. Lookup(t.ctx, s) = pending[i].value
            BY <1>6, <3>1, <3>2, Zenon DEF Applied
        <3> QED BY <2>2, <3>2, <3>3, Zenon DEF Committed
    <2> QED BY <2>1, <2>2, Zenon
<1>10. ASSUME NEW b \in Buffers PROVE Samples(t.buffers[b]) = Held(b)
    <2>1. CASE Staged(pending, b) = {}
        <3>1. t.buffers[b] = buffers[b]
            BY <1>6, <1>7, <2>1, Zenon DEF Applied
        <3> QED BY <2>1, <3>1, Zenon DEF Held
    <2>2. CASE Staged(pending, b) # {}
        <3>1. PICK i \in 1..N : pending[i].name = b
            BY <1>7, <2>2, Zenon
        <3>2. Min(Staged(pending, b)) = i
            BY <1>7, <3>1, Zenon
        <3>3. t.buffers[b] = Push(buffers[b], pending[i].value)
            BY <1>6, <3>1, Zenon DEF Applied
        <3>4. buffers[b] \in Ring(Capacity) /\ Capacity \in Nat \ {0} /\ pending[i].value \in Good
            BY <1>1, Zenon DEF BufferSets, ProgramAssumption, Update
        <3>5. Samples(Push(buffers[b], pending[i].value)) =
                SubSeq(<<pending[i].value>> \o Samples(buffers[b]), 1,
                       Min({Capacity, Len(Samples(buffers[b])) + 1}))
            BY <3>4, PushShifts, Zenon
        <3> QED BY <2>2, <3>2, <3>3, <3>5, Zenon DEF Held
    <2> QED BY <2>1, <2>2, Zenon
<1> QED BY <1>6, <1>8, <1>9, <1>10, Zenon

-----------------------------------------------------------------------------
(* The capture loop *)

CaptureState == [rings : RingSets, err : {"ok", "failed"}]

(* What a turn of the capture loop samples. *)
Sampling(n, c, bufs) ==
    IF n \in DOMAIN c THEN c[n] ELSE IF n \in Captured THEN Eval(n, c, bufs) ELSE Fault

(* The rings that target n looks back at have not been pushed in this loop. *)
Fresh(rs, n) == n \in Captured => \A r \in Lookbacks \cap Reads[n] : rs[r[1]] = rings[r[1]]

\* Over such rings the target has the value it has at the end of the tick.
LEMMA EvalFresh ==
    ASSUME ProgramAssumption, rings \in RingSets, NEW n \in Captured, NEW rs \in RingSets, Fresh(rs, n),
           NEW c, NEW bufs \in BufferSets
    PROVE  EvalIn(rs, n, c, bufs) = Eval(n, c, bufs)
<1>1. ASSUME NEW r \in Reads[n] PROVE ResolveIn(rs, c, bufs, r) = ResolveIn(rings, c, bufs, r)
    <2>1. CASE r \in Lookbacks
        <3>1. rs[r[1]] = rings[r[1]]
            BY <2>1, Zenon DEF Fresh
        <3> QED BY <3>1, Zenon DEF ResolveIn
    <2>2. CASE r \in Sampled /\ r[1] \in Buffers
        BY <2>2, Zenon DEF ResolveIn
    <2>3. CASE r \notin Sampled
        <3>1. n \in Bindings \cup Captured
            BY Zenon
        <3> QED BY <2>3, <3>1, ResolveNow, Zenon
    <2> QED BY <2>1, <2>2, <2>3, Zenon DEF Lookbacks
<1>2. [r \in Reads[n] |-> ResolveIn(rs, c, bufs, r)] = [r \in Reads[n] |-> ResolveIn(rings, c, bufs, r)]
    BY <1>1, Zenon
<1> QED BY <1>2, Zenon DEF Eval, EvalIn

\* A turn of the capture loop pushes one sample, or fails.
LEMMA CaptureStepIs ==
    ASSUME ProgramAssumption, rings \in RingSets, NEW c \in Contexts, NEW bufs \in BufferSets,
           NEW s \in CaptureState, NEW n \in Histories
    PROVE  /\ CaptureStep(s, n, c, bufs) \in CaptureState
           /\ s.err = "ok" /\ Sampling(n, c, bufs) # Fault /\ Fresh(s.rings, n) =>
                /\ CaptureStep(s, n, c, bufs).err = "ok"
                /\ CaptureStep(s, n, c, bufs).rings =
                      [s.rings EXCEPT ![n] = Push(s.rings[n], Sampling(n, c, bufs))]
<1> DEFINE v == IF n \in DOMAIN c THEN c[n]
                ELSE IF n \in Captured THEN EvalIn(s.rings, n, c, bufs) ELSE Fault
<1>1. s.rings \in RingSets /\ s.err \in {"ok", "failed"}
    BY Zenon DEF CaptureState
<1>2. v \in Results
    <2>1. n \in DOMAIN c => c[n] \in Results
        BY ContextIs, SpecialValues, Zenon
    <2>2. n \in Captured => EvalIn(s.rings, n, c, bufs) \in Results
        BY <1>1, EvalInIs, Zenon
    <2>3. Fault \in Results
        BY Zenon DEF Results
    <2> QED BY <2>1, <2>2, <2>3, Zenon
<1>7. Fresh(s.rings, n) => v = Sampling(n, c, bufs)
    <2>1. Fresh(s.rings, n) /\ n \in Captured => EvalIn(s.rings, n, c, bufs) = Eval(n, c, bufs)
        BY <1>1, EvalFresh, Zenon
    <2> QED BY <2>1, Zenon DEF Sampling
<1> DEFINE q == [s.rings EXCEPT ![n] = Push(s.rings[n], v)]
<1>3. CaptureStep(s, n, c, bufs) =
        IF s.err = "failed" THEN s
        ELSE IF v = Fault THEN [s EXCEPT !.err = "failed"]
        ELSE [s EXCEPT !.rings = q]
    BY Zenon DEF CaptureStep
<1> HIDE DEF v
<1>4. ASSUME v # Fault PROVE q \in RingSets
    <2>1. s.rings[n] \in Ring(Depth[n]) /\ Depth[n] \in Nat \ {0} /\ v \in Good
        BY <1>1, <1>2, <1>4, DepthIs, SpecialValues, Zenon DEF RingSets
    <2>2. Push(s.rings[n], v) \in Ring(Depth[n])
        BY <2>1, PushIs, Zenon
    <2> DEFINE w == Push(s.rings[n], v)
               U == UNION {Ring(Depth[x]) : x \in Histories}
    <2>3. w \in U /\ w \in Ring(Depth[n])
        BY <2>2, Zenon
    <2>4. s.rings \in [Histories -> U] /\ \A x \in Histories : s.rings[x] \in Ring(Depth[x])
        BY <1>1, Zenon DEF RingSets
    <2> HIDE DEF w, U
    <2>5. q = [s.rings EXCEPT ![n] = w]
        BY Zenon DEF w
    <2>6. q \in [Histories -> U] /\ \A x \in Histories : q[x] = IF x = n THEN w ELSE s.rings[x]
        BY <2>3, <2>4, <2>5, Zenon
    <2>7. \A x \in Histories : q[x] \in Ring(Depth[x])
        BY <2>3, <2>4, <2>6, Zenon
    <2> HIDE DEF q
    <2> QED BY <2>6, <2>7, Zenon DEF RingSets, U
<1> HIDE DEF q
<1>5. s.err = "ok" /\ v # Fault =>
        /\ CaptureStep(s, n, c, bufs).err = "ok" /\ CaptureStep(s, n, c, bufs).rings = q
    BY <1>3, Zenon DEF CaptureState
<1>6. CaptureStep(s, n, c, bufs) \in CaptureState
    BY <1>1, <1>3, <1>4, Zenon DEF CaptureState
<1> QED BY <1>5, <1>6, <1>7, Zenon DEF q

\* The loop, turn by turn.
LEMMA Capturing ==
    ASSUME ProgramAssumption, CaptureAssumption, rings \in RingSets,
           NEW c \in Contexts, NEW bufs \in BufferSets
    PROVE  /\ Captures(c, bufs)[0] = [rings |-> rings, err |-> "ok"]
           /\ \A k \in 0..Len(CaptureOrder) : Captures(c, bufs)[k] \in CaptureState
           /\ \A k \in 1..Len(CaptureOrder) :
                 Captures(c, bufs)[k] = CaptureStep(Captures(c, bufs)[k - 1], CaptureOrder[k], c, bufs)
<1> DEFINE N == Len(CaptureOrder)
           S == CaptureState
           s0 == [rings |-> rings, err |-> "ok"]
           Step(s, k) == CaptureStep(s, CaptureOrder[k], c, bufs)
           step == [k \in 1..N |-> [s \in S |-> Step(s, k)]]
           Is(f) == f = [k \in 0..N |-> IF k = 0 THEN s0
                                        ELSE CaptureStep(f[k - 1], CaptureOrder[k], c, bufs)]
<1>1. N \in Nat /\ \A k \in 1..N : CaptureOrder[k] \in Histories
    BY DEF CaptureAssumption
<1>2. s0 \in S
    BY Zenon DEF CaptureState
<1>3. ASSUME NEW k \in 1..N, NEW s \in S PROVE Step(s, k) \in S
    BY <1>1, CaptureStepIs, Zenon
<1> HIDE DEF N, S, s0, Step
<1>4. step \in [1..N -> [S -> S]]
    BY <1>3, Zenon
<1> HIDE DEF step
<1>5. PICK f \in [0..N -> S] : Runs(f, N, s0, step)
    BY <1>1, <1>2, <1>4, LoopRuns, Zenon
<1>6. ASSUME NEW k \in 0..N
      PROVE  f[k] = IF k = 0 THEN s0 ELSE Step(f[k - 1], k)
    <2>1. f[k] = IF k = 0 THEN s0 ELSE step[k][f[k - 1]]
        BY <1>5, Zenon DEF Runs
    <2>2. CASE k = 0
        BY <2>1, <2>2, Zenon
    <2>3. CASE k # 0
        <3>1. k \in 1..N /\ k - 1 \in 0..N
            BY <1>1, <2>3
        <3>2. f[k - 1] \in S
            BY <3>1, Zenon
        <3>3. step[k][f[k - 1]] = Step(f[k - 1], k)
            BY <3>1, <3>2, Zenon DEF step
        <3> QED BY <2>1, <2>3, <3>3, Zenon
    <2> QED BY <2>2, <2>3, Zenon
<1>7. Is(f)
    <2>1. f = [k \in 0..N |-> f[k]]
        OBVIOUS
    <2> QED BY <1>6, <2>1, Zenon DEF Step
<1>8. Captures(c, bufs) = CHOOSE g : Is(g)
    BY Zenon DEF Captures, s0, N
<1>9. ASSUME NEW g, Is(g) PROVE g \in [0..N -> S] /\ g[0] = s0 /\ \A k \in 1..N : g[k] = Step(g[k - 1], k)
    <2> DEFINE K == {k \in 0..N : g[k] \in S}
    <2>1. ASSUME NEW k \in 0..N PROVE g[k] = IF k = 0 THEN s0 ELSE Step(g[k - 1], k)
        BY <1>9, Zenon DEF Step
    <2>2. g = [k \in 0..N |-> g[k]]
        BY <1>9, Zenon
    <2> HIDE DEF Is
    <2>3. 0 \in K
        BY <1>1, <1>2, <2>1
    <2>4. ASSUME NEW k \in 1..N, k - 1 \in K PROVE k \in K
        BY <1>1, <1>3, <2>1, <2>4
    <2>5. \A k \in 0..N : k \in K
        <3> HIDE DEF K
        <3> QED BY <1>1, <2>3, <2>4, UpTo, Zenon
    <2>6. g \in [0..N -> S]
        BY <2>2, <2>5, Zenon
    <2>7. g[0] = s0 /\ \A k \in 1..N : g[k] = Step(g[k - 1], k)
        BY <1>1, <2>1
    <2> QED BY <2>6, <2>7, Zenon
<1> HIDE DEF Is
<1>10. Is(Captures(c, bufs))
    BY <1>7, <1>8, Zenon
<1>11. Captures(c, bufs) \in [0..N -> S] /\ Captures(c, bufs)[0] = s0
       /\ \A k \in 1..N : Captures(c, bufs)[k] = Step(Captures(c, bufs)[k - 1], k)
    BY <1>9, <1>10, Zenon
<1> QED BY <1>1, <1>11, Zenon DEF s0, N, S, Step

\* When every history has a sample, each is pushed once.
LEMMA CaptureIs ==
    ASSUME ProgramAssumption, CaptureAssumption, rings \in RingSets,
           NEW c \in Contexts, NEW bufs \in BufferSets,
           \A n \in Histories : Sampling(n, c, bufs) # Fault
    PROVE  /\ Capture(c, bufs) \in CaptureState /\ Capture(c, bufs).err = "ok"
           /\ \A n \in Histories :
                 Capture(c, bufs).rings[n] = Push(rings[n], Sampling(n, c, bufs))
<1> DEFINE N == Len(CaptureOrder)
           f == Captures(c, bufs)
           h(k) == CaptureOrder[k]
           V(n) == Sampling(n, c, bufs)
           P(k) == /\ f[k].err = "ok"
                   /\ \A j \in 1..k : f[k].rings[h(j)] = Push(rings[h(j)], V(h(j)))
                   /\ \A n \in Histories : (\A j \in 1..k : h(j) # n) => f[k].rings[n] = rings[n]
           K == {k \in 0..N : P(k)}
<1>1. /\ N \in Nat /\ \A k \in 1..N : h(k) \in Histories
      /\ \A n \in Histories : \E k \in 1..N : h(k) = n
      /\ \A i, j \in 1..N : i # j => h(i) # h(j)
    BY DEF CaptureAssumption
<1>2. /\ f[0] = [rings |-> rings, err |-> "ok"]
      /\ \A k \in 0..N : f[k] \in CaptureState
      /\ \A k \in 1..N : f[k] = CaptureStep(f[k - 1], h(k), c, bufs)
    BY Capturing, Zenon
<1>8. \A k \in 1..N : h(k) \in Captured =>
         \A r \in Lookbacks \cap Reads[h(k)] : \A j \in 1..k-1 : h(j) # r[1]
    BY DEF CaptureAssumption, CapturesReadAhead
<1> HIDE DEF f, h, V
<1>3. 0 \in K
    <2>1. f[0].err = "ok" /\ f[0].rings = rings
        BY <1>2
    <2> QED BY <1>1, <2>1
<1>4. ASSUME NEW k \in 1..N, k - 1 \in K PROVE k \in K
    <2> DEFINE s == f[k - 1]
               t == f[k]
    <2>1. P(k - 1) /\ s \in CaptureState /\ h(k) \in Histories /\ V(h(k)) # Fault
        BY <1>1, <1>2, <1>4, Zenon DEF V
    <2>2. t.err = "ok" /\ t.rings = [s.rings EXCEPT ![h(k)] = Push(s.rings[h(k)], V(h(k)))]
        <3>1. t = CaptureStep(s, h(k), c, bufs) /\ s.err = "ok"
            BY <1>2, <2>1, Zenon
        <3>2. Sampling(h(k), c, bufs) # Fault /\ V(h(k)) = Sampling(h(k), c, bufs)
            BY <2>1, Zenon DEF V
        <3>3. ASSUME h(k) \in Captured, NEW r \in Lookbacks \cap Reads[h(k)]
              PROVE  s.rings[r[1]] = rings[r[1]]
            <4>1. \A j \in 1..k-1 : h(j) # r[1]
                BY <1>8, <3>3, Zenon
            <4>2. r[1] \in Histories
                BY <3>3, Zenon DEF Histories
            <4> QED BY <2>1, <4>1, <4>2, Zenon
        <3> HIDE DEF s, t
        <3>4. Fresh(s.rings, h(k))
            BY <3>3, Zenon DEF Fresh
        <3> QED BY <2>1, <3>1, <3>2, <3>4, CaptureStepIs
    <2>3. s.rings \in [Histories -> UNION {Ring(Depth[x]) : x \in Histories}]
        BY <2>1, Zenon DEF CaptureState, RingSets
    <2>4. \A n \in Histories : t.rings[n] = IF n = h(k) THEN Push(s.rings[h(k)], V(h(k))) ELSE s.rings[n]
        BY <2>1, <2>2, <2>3, Zenon
    <2>5. /\ \A j \in 1..k : j = k \/ j \in 1..k-1
          /\ \A j \in 1..k-1 : j \in 1..k /\ j \in 1..N /\ h(j) # h(k) /\ h(j) \in Histories
        BY <1>1
    <2>6. s.rings[h(k)] = rings[h(k)]
        BY <2>1, <2>5, Zenon
    <2> HIDE DEF s, t
    <2>7. ASSUME NEW j \in 1..k PROVE t.rings[h(j)] = Push(rings[h(j)], V(h(j)))
        <3>1. CASE j = k
            BY <2>1, <2>4, <2>6, <3>1, Zenon
        <3>2. CASE j \in 1..k-1
            BY <2>1, <2>4, <2>5, <3>2, Zenon DEF s
        <3> QED BY <2>5, <3>1, <3>2, Zenon
    <2>8. ASSUME NEW n \in Histories, \A j \in 1..k : h(j) # n PROVE t.rings[n] = rings[n]
        <3>1. n # h(k) /\ \A j \in 1..k-1 : h(j) # n
            BY <2>5, <2>8
        <3> QED BY <2>1, <2>4, <3>1, Zenon DEF s
    <2>9. P(k)
        BY <2>2, <2>7, <2>8, Zenon DEF t
    <2> QED BY <1>1, <2>9
<1>5. \A k \in 0..N : k \in K
    <2> HIDE DEF K
    <2> QED BY <1>1, <1>3, <1>4, UpTo, Zenon
<1>6. P(N) /\ f[N] \in CaptureState /\ f[N] = Capture(c, bufs)
    BY <1>1, <1>2, <1>5 DEF Capture, f
<1>7. ASSUME NEW n \in Histories PROVE f[N].rings[n] = Push(rings[n], V(n))
    BY <1>1, <1>6, Zenon
<1> QED BY <1>6, <1>7, Zenon DEF V

-----------------------------------------------------------------------------
(* The reference session implements ModelTick *)

SessionInv ==
    /\ order \in Orders
    /\ ctx \in Contexts
    /\ pending \in Seq(Update) /\ Distinct(pending)
    /\ rings \in RingSets
    /\ buffers \in BufferSets

(* The state of the session as ModelTick sees it. *)
TheInputs == [i \in Inputs |-> Lookup(ctx, i)]
TheStates == [s \in Scalars |-> Committed(s)]
TheBuffers == [b \in Buffers |-> Held(b)]
ThePast == [n \in Histories |-> Samples(rings[n])]

\* The definitions of the abstract tick are those of the program.
LEMMA PromiseIs ==
    /\ Promise!Seen = [r \in Sampled |->
                          IF r[1] \in Buffers THEN Promise!Sample(TheBuffers[r[1]], r[2] + 1)
                          ELSE Promise!Sample(ThePast[r[1]], r[2])]
    /\ Promise!Now = Meaning(TheInputs, TheStates, Promise!Seen)
    /\ \A s : Promise!Update(s) = Outcome(s, Promise!Now, Promise!Seen)
    /\ Promise!Succeeds <=> /\ \A n \in Lets \cup Captured : Promise!Now[n] # Fault
                            /\ \A s \in Updated : Promise!Update(s) # Fault
<1>1. Promise!Seen = [r \in Sampled |->
                          IF r[1] \in Buffers THEN Promise!Sample(TheBuffers[r[1]], r[2] + 1)
                          ELSE Promise!Sample(ThePast[r[1]], r[2])]
    BY Zenon DEF Promise!Seen, Promise!Sampled, Sampled, TheBuffers, ThePast,
                 Promise!Histories, Histories, Promise!Lookbacks, Lookbacks
<1>2. Promise!Now = Meaning(TheInputs, TheStates, Promise!Seen)
    BY Zenon DEF Promise!Now, Promise!Meaning, Meaning, TheInputs, TheStates, Promise!Names, Names,
           Promise!Scalars, Scalars, Promise!Fault, Fault, Promise!Got, Got, Promise!Sampled, Sampled
<1>3. ASSUME NEW s PROVE Promise!Update(s) = Outcome(s, Promise!Now, Promise!Seen)
    BY Zenon DEF Promise!Update, Outcome, Promise!Got, Got, Promise!Sampled, Sampled
<1>4. Promise!Succeeds <=> /\ \A n \in Lets \cup Captured : Promise!Now[n] # Fault
                           /\ \A s \in Updated : Promise!Update(s) # Fault
    BY Zenon DEF Promise!Succeeds, Promise!Fault, Fault
<1> QED BY <1>1, <1>2, <1>3, <1>4, Zenon

\* A sample beyond the samples a ring holds is NaN in both.
LEMMA SampleOf ==
    ASSUME NEW n \in Nat \ {0}, NEW r \in Ring(n), NEW k \in Nat \ {0}
    PROVE  Promise!Sample(Samples(r), k) = HistoryRead(r, k)
<1>1. /\ DOMAIN Samples(r) = 1..r.count
      /\ \A j \in 1..r.count : Samples(r)[j] = HistoryRead(r, j)
    BY SamplesAre, Zenon
<1>2. r.count \in Nat
    BY RingSizeIs
<1>3. CASE k \in 1..r.count
    BY <1>1, <1>3, Zenon DEF Promise!Sample
<1>4. CASE k \notin 1..r.count
    <2>1. r.count < k
        BY <1>2, <1>4
    <2>2. HistoryRead(r, k) = NaN
        BY <2>1, ReadIsGood, Zenon
    <2> QED BY <1>1, <1>4, <2>2, Zenon DEF Promise!Sample, Promise!NaN, NaN
<1> QED BY <1>3, <1>4, Zenon

\* The lookbacks of a tick read the committed buffers and the rings.
LEMMA SeenIs ==
    ASSUME ProgramAssumption, SessionInv
    PROVE  /\ Promise!Seen \in [Sampled -> Good]
           /\ \A d, r : r \in Sampled => Promise!Seen[r] = Resolve(d, Commit.buffers, r)
<1>1. /\ Commit \in CommitState
      /\ \A b \in Buffers : Samples(Commit.buffers[b]) = Held(b)
    BY CommitIs, Zenon DEF SessionInv
<1> DEFINE bs == Commit.buffers
<1>2. bs \in BufferSets /\ rings \in RingSets
    BY <1>1, Zenon DEF CommitState, SessionInv
<1>3. \A b \in Buffers : Samples(bs[b]) = Held(b)
    BY <1>1, Zenon
<1> HIDE DEF bs
<1>4. ASSUME NEW r \in Sampled
      PROVE  Promise!Seen[r] = IF r[1] \in Buffers THEN HistoryRead(bs[r[1]], r[2] + 1)
                               ELSE HistoryRead(rings[r[1]], r[2])
    <2>1. r[2] \in Nat
        BY DEF Sampled, ProgramAssumption
    <2>2. Promise!Seen[r] = IF r[1] \in Buffers THEN Promise!Sample(TheBuffers[r[1]], r[2] + 1)
                            ELSE Promise!Sample(ThePast[r[1]], r[2])
        BY PromiseIs, Zenon
    <2>3. CASE r[1] \in Buffers
        <3>1. bs[r[1]] \in Ring(Capacity) /\ Capacity \in Nat \ {0} /\ r[2] + 1 \in Nat \ {0}
            BY <1>2, <2>1, <2>3 DEF BufferSets, ProgramAssumption
        <3>2. TheBuffers[r[1]] = Samples(bs[r[1]])
            BY <1>3, <2>3, Zenon DEF TheBuffers
        <3>3. Promise!Sample(Samples(bs[r[1]]), r[2] + 1) = HistoryRead(bs[r[1]], r[2] + 1)
            BY <3>1, SampleOf, Zenon
        <3> QED BY <2>2, <2>3, <3>2, <3>3, Zenon
    <2>4. CASE r[1] \notin Buffers
        <3>1. r \in Lookbacks /\ r[2] > 0 /\ r[1] \in Histories
            BY <2>4, Zenon DEF Lookbacks, Histories, Sampled
        <3>2. rings[r[1]] \in Ring(Depth[r[1]]) /\ Depth[r[1]] \in Nat \ {0} /\ r[2] \in Nat \ {0}
            BY <1>2, <2>1, <3>1, DepthIs DEF RingSets
        <3>3. ThePast[r[1]] = Samples(rings[r[1]])
            BY <3>1, Zenon DEF ThePast
        <3>4. Promise!Sample(Samples(rings[r[1]]), r[2]) = HistoryRead(rings[r[1]], r[2])
            BY <3>2, SampleOf, Zenon
        <3> QED BY <2>2, <2>4, <3>3, <3>4, Zenon
    <2> QED BY <2>3, <2>4, Zenon
<1>5. ASSUME NEW d, NEW r \in Sampled
      PROVE  Promise!Seen[r] = Resolve(d, bs, r) /\ Promise!Seen[r] \in Good
    <2>1. /\ Resolve(d, bs, r) \in Good
          /\ Resolve(d, bs, r) = IF r[1] \in Buffers THEN HistoryRead(bs[r[1]], r[2] + 1)
                                 ELSE HistoryRead(rings[r[1]], r[2])
        BY <1>2, SampleIsGood, Zenon
    <2> QED BY <1>4, <2>1, Zenon
<1>6. Promise!Seen = [r \in Sampled |-> Promise!Seen[r]]
    BY PromiseIs, Zenon
<1>7. Promise!Seen \in [Sampled -> Good]
    BY <1>5, <1>6, Zenon
<1> QED BY <1>5, <1>7, Zenon DEF bs

\* What the names of a tick mean: inputs and states are as the tick finds them.
LEMMA NowIs ==
    ASSUME ProgramAssumption, SessionInv
    PROVE  /\ Promise!Now \in [Names -> Results] /\ Solves(Promise!Now, Promise!Seen)
           /\ \A n \in Inputs : Promise!Now[n] = Lookup(ctx, n)
           /\ \A n \in Scalars : Promise!Now[n] = Committed(n)
           /\ \A n \in Inputs \cup Scalars : Promise!Now[n] = Lookup(Commit.ctx, n)
<1>1. /\ Commit \in CommitState
      /\ \A n \in Inputs : Lookup(Commit.ctx, n) = Lookup(ctx, n)
      /\ \A s \in Scalars : Lookup(Commit.ctx, s) = Committed(s)
    BY CommitIs, Zenon DEF SessionInv
<1>2. Commit.ctx \in Contexts /\ order \in Orders /\ ctx \in Contexts
    BY <1>1, Zenon DEF CommitState, SessionInv
<1>3. TheInputs \in [Inputs -> Results] /\ TheStates \in [Scalars -> Results]
    BY <1>1, <1>2, ContextIs, Zenon DEF TheInputs, TheStates
<1>4. Promise!Seen \in [Sampled -> Results]
    BY SeenIs, SpecialValues, Zenon
<1>5. Means(Meaning(TheInputs, TheStates, Promise!Seen), TheInputs, TheStates, Promise!Seen)
    BY <1>2, <1>3, <1>4, MeaningIs, Zenon
<1>6. Means(Promise!Now, TheInputs, TheStates, Promise!Seen)
    BY <1>5, PromiseIs, Zenon
<1> QED BY <1>1, <1>6, Zenon DEF Means, TheInputs, TheStates

\* A tick cannot succeed without an input that is needed.
LEMMA NeededIs ==
    ASSUME ProgramAssumption, NEW m \in [Names -> Results], NEW seen \in [Sampled -> Results],
           NEW i \in Inputs, Needed(i), m[i] = Fault
    PROVE  \E b \in Bindings : Outcome(b, m, seen) = Fault
<1>1. PICK b \in Bindings :
         /\ <<i, 0>> \in Reads[b]
         /\ \A got \in [Reads[b] -> Results] : got[<<i, 0>>] = Fault => Value[b][got] = Fault
    BY Zenon DEF Needed
<1>2. <<i, 0>> \notin Sampled
    BY NamesApart DEF Sampled
<1>3. Got(b, m, seen)[<<i, 0>>] = Fault
    BY <1>1, <1>2, Zenon DEF Got
<1>4. Got(b, m, seen) \in [Reads[b] -> Results]
    BY GotIs, Zenon
<1> QED BY <1>1, <1>3, <1>4, Zenon DEF Outcome

(* Everything a tick computes has a value. *)
AllComputed == \A b \in Bindings : Outcome(b, Promise!Now, Promise!Seen) # Fault

\* If the bindings have values, so has everything the histories sample.
LEMMA CapturesMean ==
    ASSUME ProgramAssumption, CapturesSucceed, SessionInv, AllComputed
    PROVE  /\ \A n \in Histories : Promise!Now[n] \in Good
           /\ \A n \in Captured : Promise!Now[n] \in Good
           /\ \A n \in Lets : Promise!Now[n] \in Good
<1> DEFINE m == Promise!Now
           seen == Promise!Seen
<1>1. /\ m \in [Names -> Results] /\ Solves(m, seen)
      /\ \A n \in Scalars : m[n] = Lookup(Commit.ctx, n)
    BY NowIs, Zenon
<1>2. seen \in [Sampled -> Good] /\ seen \in [Sampled -> Results]
    BY SeenIs, SpecialValues, Zenon
<1>3. Commit.ctx \in Contexts
    BY CommitIs, Zenon DEF SessionInv, CommitState
<1>4. \A b \in Bindings : Outcome(b, m, seen) # Fault
    BY Zenon DEF AllComputed
<1> HIDE DEF m, seen
<1>5. ASSUME NEW i \in Inputs, Needed(i) PROVE m[i] \in Good
    <2>1. m[i] # Fault
        BY <1>1, <1>2, <1>4, <1>5, NeededIs, Zenon
    <2> QED BY <1>1, <2>1, SpecialValues, NamesApart, Zenon
<1>6. \A n \in Scalars : m[n] \in Good
    BY <1>1, <1>3, ContextIs, Zenon
<1>7. ASSUME NEW n \in Lets PROVE m[n] \in Good
    <2>1. m[n] = Outcome(n, m, seen) /\ n \in Bindings /\ n \in Names
        BY <1>1, NamesApart, Zenon DEF Solves, Outcome, Bindings
    <2> QED BY <1>1, <1>4, <2>1, SpecialValues, Zenon
<1>8. ASSUME NEW c \in Captured PROVE m[c] \in Good
    <2>1. ASSUME NEW r \in Reads[c] PROVE Got(c, m, seen)[r] # Fault
        <3>1. CASE r \in Sampled
            BY <1>2, <3>1, SpecialValues, Zenon DEF Got
        <3>2. CASE r \notin Sampled
            <4>1. r = <<r[1], 0>> /\ r[1] \in Inputs \cup Scalars \cup Lets
                BY <3>2, ReadsNow, Zenon
            <4>2. r[1] \in Inputs => Needed(r[1])
                BY <4>1, Zenon DEF CapturesSucceed
            <4>3. m[r[1]] \in Good
                BY <1>5, <1>6, <1>7, <4>1, <4>2, Zenon
            <4> QED BY <3>2, <4>3, SpecialValues, Zenon DEF Got
        <3> QED BY <3>1, <3>2, Zenon
    <2>2. Got(c, m, seen) \in [Reads[c] -> Results]
        BY <1>1, <1>2, GotIs, Zenon
    <2>3. Value[c][Got(c, m, seen)] # Fault
        BY <2>1, <2>2, Zenon DEF CapturesSucceed
    <2>4. m[c] = Value[c][Got(c, m, seen)] /\ c \in Names
        BY <1>1, NamesApart, Zenon DEF Solves
    <2> QED BY <1>1, <2>3, <2>4, SpecialValues, Zenon
<1>9. ASSUME NEW n \in Histories PROVE m[n] \in Good
    <2>1. n \in Names /\ n \notin Buffers
        BY DEF Histories, Lookbacks, Sampled, ProgramAssumption
    <2>2. n \in Inputs => Needed(n)
        BY Zenon DEF CapturesSucceed
    <2> QED BY <1>5, <1>6, <1>7, <1>8, <2>1, <2>2, NamesApart, Zenon
<1> QED BY <1>7, <1>8, <1>9, Zenon DEF m

\* The reference tick succeeds exactly when the abstract one does.
LEMMA SucceedsIs ==
    ASSUME ProgramAssumption, CapturesSucceed, SessionInv
    PROVE  Promise!Succeeds <=> AllComputed
<1>1. Solves(Promise!Now, Promise!Seen)
    BY NowIs, Zenon
<1>2. \A n \in Lets : Promise!Now[n] = Outcome(n, Promise!Now, Promise!Seen)
    BY <1>1, Zenon DEF Solves, Outcome
<1>3. \A s : Promise!Update(s) = Outcome(s, Promise!Now, Promise!Seen)
    BY PromiseIs, Zenon
<1>4. Promise!Succeeds <=> /\ \A n \in Lets \cup Captured : Promise!Now[n] # Fault
                           /\ \A s \in Updated : Promise!Update(s) # Fault
    BY PromiseIs, Zenon
<1>5. AllComputed => \A n \in Captured : Promise!Now[n] # Fault
    BY CapturesMean, SpecialValues, Zenon
<1> QED BY <1>2, <1>3, <1>4, <1>5, Zenon DEF AllComputed, Bindings

\* The capture loop samples what the histories mean.
LEMMA SamplingIs ==
    ASSUME ProgramAssumption, CapturesSucceed, SessionInv, AllComputed,
           NEW c \in Contexts, \A n \in Known : Lookup(c, n) = Promise!Now[n],
           NEW n \in Histories
    PROVE  Sampling(n, c, Commit.buffers) = Promise!Now[n] /\ Promise!Now[n] \in Good
<1>1. Promise!Now[n] \in Good
    BY CapturesMean, Zenon
<1>2. n \in Names /\ n \notin Buffers
    BY DEF Histories, Lookbacks, Sampled, ProgramAssumption
<1>3. CASE n \in Known
    <2>1. Lookup(c, n) # Fault
        BY <1>1, <1>3, SpecialValues, Zenon
    <2>2. n \in DOMAIN c /\ c[n] = Lookup(c, n)
        BY <2>1, ContextIs, Zenon
    <2> QED BY <1>1, <1>3, <2>2, Zenon DEF Sampling
<1>4. CASE n \in Captured
    <2>1. n \notin DOMAIN c
        BY <1>4, ContextIs, NamesApart, Zenon DEF Known
    <2>2. \A r \in Sampled : Promise!Seen[r] = Resolve(c, Commit.buffers, r)
        BY SeenIs, Zenon
    <2>3. n \in Bindings \cup Captured
        BY <1>4, Zenon
    <2>4. Eval(n, c, Commit.buffers) = Value[n][Got(n, Promise!Now, Promise!Seen)]
        BY <2>2, <2>3, EvalMeans
    <2>5. Solves(Promise!Now, Promise!Seen)
        BY NowIs, Zenon
    <2>6. Promise!Now[n] = Value[n][Got(n, Promise!Now, Promise!Seen)]
        BY <1>4, <2>5, Zenon DEF Solves
    <2> QED BY <1>1, <1>4, <2>1, <2>4, <2>6, Zenon DEF Sampling
<1> QED BY <1>2, <1>3, <1>4, NamesApart, Zenon DEF Known

\* The binding loop of a tick, in terms of what the tick means.
LEMMA TickRuns ==
    ASSUME ProgramAssumption, SessionInv
    PROVE  /\ EvalAll(Commit) \in EvalState
           /\ EvalAll(Commit).err = "ok" <=> AllComputed
           /\ \A n \in Inputs : Lookup(EvalAll(Commit).ctx, n) = Lookup(ctx, n)
           /\ \A n \in Scalars : Lookup(EvalAll(Commit).ctx, n) = Committed(n)
           /\ AllComputed => \A n \in Known : Lookup(EvalAll(Commit).ctx, n) = Promise!Now[n]
           /\ AllComputed => StagesAll(EvalAll(Commit).pending, Promise!Now, Promise!Seen)
<1> DEFINE c == Commit
           m == Promise!Now
           seen == Promise!Seen
<1>1. /\ c \in CommitState
      /\ \A n \in Inputs : Lookup(c.ctx, n) = Lookup(ctx, n)
      /\ \A s \in Scalars : Lookup(c.ctx, s) = Committed(s)
    BY CommitIs, Zenon DEF SessionInv
<1>2. c.ctx \in Contexts /\ c.buffers \in BufferSets /\ order \in Orders /\ rings \in RingSets
    BY <1>1, Zenon DEF CommitState, SessionInv
<1>3. /\ m \in [Names -> Results] /\ Solves(m, seen)
      /\ \A n \in Inputs \cup Scalars : m[n] = Lookup(c.ctx, n)
    BY NowIs, Zenon
<1>4. \A d, r : r \in Sampled => seen[r] = Resolve(d, c.buffers, r)
    BY SeenIs, Zenon
<1>5. AllComputed <=> \A b \in Bindings : Outcome(b, m, seen) # Fault
    BY Zenon DEF AllComputed
<1> HIDE DEF c, m, seen
<1>8. Begins(m, c.ctx) /\ Recalls(seen, c.buffers)
    BY <1>3, <1>4, Zenon DEF Begins, Recalls
<1>6. /\ EvalAll(c) \in EvalState
      /\ EvalAll(c).err = "ok" <=> \A b \in Bindings : Outcome(b, m, seen) # Fault
      /\ \A n \in Inputs \cup Scalars : Lookup(EvalAll(c).ctx, n) = Lookup(c.ctx, n)
      /\ EvalAll(c).err = "ok" => \A n \in Lets : Lookup(EvalAll(c).ctx, n) = m[n]
      /\ EvalAll(c).err = "ok" => StagesAll(EvalAll(c).pending, m, seen)
    BY <1>2, <1>3, <1>8, RunIs, Zenon
<1>7. AllComputed => \A n \in Known : Lookup(EvalAll(c).ctx, n) = m[n]
    BY <1>3, <1>5, <1>6, Zenon DEF Known
<1> QED BY <1>1, <1>5, <1>6, <1>7, Zenon DEF c, m, seen

\* A tick keeps the shape of the session.
LEMMA TickKeeps ==
    ASSUME ProgramAssumption, CaptureAssumption, CapturesSucceed, SessionInv, SessionTick
    PROVE  SessionInv'
<1> DEFINE r == EvalAll(Commit)
           c == Capture(r.ctx, Commit.buffers)
<1>1. /\ ctx' = r.ctx /\ buffers' = Commit.buffers /\ order' = order
      /\ pending' = IF r.err = "failed" THEN <<>> ELSE r.pending
      /\ rings' = IF r.err = "failed" THEN rings ELSE c.rings
    BY Zenon DEF SessionTick
<1>2. Commit \in CommitState
    BY CommitIs, Zenon DEF SessionInv
<1>3. r.ctx \in Contexts /\ r.pending \in Seq(Update) /\ r.err \in {"ok", "failed"}
    BY TickRuns, Zenon DEF EvalState
<1>4. r.err = "ok" <=> AllComputed
    BY TickRuns, Zenon
<1>5. Commit.buffers \in BufferSets
    BY <1>2, Zenon DEF CommitState
<1>6. ASSUME AllComputed PROVE Distinct(r.pending) /\ c.rings \in RingSets
    <2>1. \A n \in Known : Lookup(r.ctx, n) = Promise!Now[n]
        BY <1>6, TickRuns, Zenon
    <2>2. StagesAll(r.pending, Promise!Now, Promise!Seen)
        BY <1>6, TickRuns, Zenon
    <2>3. \A n \in Histories : Sampling(n, r.ctx, Commit.buffers) # Fault
        BY <1>3, <1>6, <2>1, SamplingIs, SpecialValues, Zenon
    <2>4. rings \in RingSets
        BY Zenon DEF SessionInv
    <2>5. c \in CaptureState
        BY <1>3, <1>5, <2>3, <2>4, CaptureIs, Zenon
    <2> QED BY <2>2, <2>5, Zenon DEF StagesAll, Distinct, CaptureState
<1> HIDE DEF r, c
<1>7. pending' \in Seq(Update) /\ Distinct(pending')
    <2>1. <<>> \in Seq(Update) /\ Distinct(<<>>)
        BY DEF Distinct
    <2> QED BY <1>1, <1>3, <1>4, <1>6, <2>1, Zenon
<1>8. rings' \in RingSets
    BY <1>1, <1>3, <1>4, <1>6, Zenon DEF SessionInv
<1>9. order' \in Orders /\ ctx' \in Contexts /\ buffers' \in BufferSets
    BY <1>1, <1>3, <1>5, Zenon DEF SessionInv
<1> QED BY <1>7, <1>8, <1>9, Zenon DEF SessionInv, Orders, Listings, Topological, DependsOnLet, Contexts,
         Known, Good, BufferSets, RingSets, Ring, Distinct, Update, Histories, Lookbacks, Sampled, Depth, Offsets

\* A tick whose bindings all have values is a tick of ModelTick.
LEMMA TickSucceeds ==
    ASSUME ProgramAssumption, CaptureAssumption, CapturesSucceed, SessionInv, SessionTick, AllComputed
    PROVE  Promise!Tick
<1> DEFINE r == EvalAll(Commit)
           bs == Commit.buffers
           c == Capture(r.ctx, bs)
           now == Promise!Now
           U(s) == Outcome(s, Promise!Now, Promise!Seen)
<1>1. /\ r \in EvalState /\ r.err = "ok"
      /\ \A n \in Inputs : Lookup(r.ctx, n) = Lookup(ctx, n)
      /\ \A n \in Scalars : Lookup(r.ctx, n) = Committed(n)
      /\ \A n \in Known : Lookup(r.ctx, n) = now[n]
      /\ StagesAll(r.pending, Promise!Now, Promise!Seen)
    BY TickRuns, Zenon
<1>2. r.ctx \in Contexts /\ r.pending \in Seq(Update)
    BY <1>1, Zenon DEF EvalState
<1>3. /\ Commit \in CommitState
      /\ \A b \in Buffers : Samples(bs[b]) = Held(b)
    BY CommitIs, Zenon DEF SessionInv
<1>4. bs \in BufferSets /\ rings \in RingSets
    BY <1>3, Zenon DEF CommitState, SessionInv
<1>5. \A n \in Histories : Sampling(n, r.ctx, bs) = now[n] /\ now[n] \in Good
    BY <1>1, <1>2, SamplingIs, Zenon
<1>6. \A n \in Histories : Sampling(n, r.ctx, bs) # Fault
    BY <1>5, SpecialValues, Zenon
<1>7. /\ c.err = "ok"
      /\ \A n \in Histories : c.rings[n] = Push(rings[n], Sampling(n, r.ctx, bs))
    BY <1>2, <1>4, <1>6, CaptureIs, Zenon
<1>8. /\ ctx' = r.ctx /\ buffers' = bs /\ pending' = r.pending /\ rings' = c.rings
      /\ outputs' = Refresh(r.ctx, r.pending)
      /\ ok' = TRUE
    BY <1>1, <1>7, Zenon DEF SessionTick
<1>9. /\ Distinct(r.pending)
      /\ \A i \in 1..Len(r.pending) : r.pending[i].value = U(r.pending[i].name)
      /\ \A u \in Updated : \E i \in 1..Len(r.pending) : r.pending[i].name = u
      /\ \A i \in 1..Len(r.pending) : r.pending[i].name \in Updated
    <2>1. \A i \in 1..Len(r.pending) : r.pending[i] \in Update
        BY <1>2
    <2> QED BY <1>1, <2>1, Zenon DEF StagesAll, Distinct, Update
<1> HIDE DEF r, bs, c, now, U
<1>10. ASSUME NEW u \in Updated
       PROVE  Staged(r.pending, u) # {} /\ r.pending[Min(Staged(r.pending, u))].value = U(u)
    <2>1. PICK i \in 1..Len(r.pending) : r.pending[i].name = u
        BY <1>9, Zenon
    <2>2. Staged(r.pending, u) # {} /\ Min(Staged(r.pending, u)) = i
        BY <1>2, <1>9, <2>1, StagedIs, Zenon
    <2> QED BY <1>9, <2>1, <2>2, Zenon
<1>11. ASSUME NEW n, n \notin Updated PROVE Staged(r.pending, n) = {}
    BY <1>2, <1>9, <1>11, StagedIs
<1>12. [i \in Inputs |-> Lookup(ctx, i)]' = [i \in Inputs |-> Lookup(ctx, i)]
    BY <1>1, <1>8, Zenon
<1>13. [s \in Scalars |-> Committed(s)]' =
         [s \in Scalars |-> IF s \in Updated THEN U(s) ELSE Committed(s)]
    <2>1. ASSUME NEW s \in Scalars
          PROVE  Committed(s)' = IF s \in Updated THEN U(s) ELSE Committed(s)
        <3>1. Committed(s)' = IF Staged(r.pending, s) # {} THEN r.pending[Min(Staged(r.pending, s))].value
                              ELSE r.ctx[s]
            BY <1>8, Zenon DEF Committed
        <3>2. Lookup(r.ctx, s) = r.ctx[s]
            BY <1>2, ContextIs, Zenon
        <3> QED BY <1>1, <1>10, <1>11, <3>1, <3>2, Zenon
    <2> QED BY <2>1, Zenon
<1>14. [b \in Buffers |-> Held(b)]' =
         [b \in Buffers |-> SubSeq(<<U(b)>> \o Held(b), 1, Min({Capacity, Len(Held(b)) + 1}))]
    <2>1. ASSUME NEW b \in Buffers
          PROVE  Held(b)' = SubSeq(<<U(b)>> \o Held(b), 1, Min({Capacity, Len(Held(b)) + 1}))
        <3>1. b \in Updated
            BY NamesApart, Zenon
        <3>2. Held(b)' = IF Staged(r.pending, b) = {} THEN Samples(bs[b])
                         ELSE SubSeq(<<r.pending[Min(Staged(r.pending, b))].value>> \o Samples(bs[b]), 1,
                                     Min({Capacity, Len(Samples(bs[b])) + 1}))
            BY <1>8, Zenon DEF Held
        <3> QED BY <1>3, <1>10, <3>1, <3>2, Zenon
    <2> QED BY <2>1, Zenon
<1>15. [n \in Histories |-> Samples(rings[n])]' =
         [n \in Histories |-> SubSeq(<<now[n]>> \o Samples(rings[n]), 1,
                                     Min({Depth[n], Len(Samples(rings[n])) + 1}))]
    <2>1. ASSUME NEW n \in Histories
          PROVE  Samples(rings'[n]) = SubSeq(<<now[n]>> \o Samples(rings[n]), 1,
                                             Min({Depth[n], Len(Samples(rings[n])) + 1}))
        <3>1. rings'[n] = Push(rings[n], now[n]) /\ now[n] \in Good
            BY <1>5, <1>7, <1>8, Zenon
        <3>2. rings[n] \in Ring(Depth[n]) /\ Depth[n] \in Nat \ {0}
            BY <1>4, DepthIs, Zenon DEF RingSets
        <3> QED BY <3>1, <3>2, PushShifts, Zenon
    <2> QED BY <2>1, Zenon
<1>16. outputs' = [o \in Outputs |-> Shown(outputs[o], IF o \in Updated THEN U(o) ELSE now[o])]
    <2>1. ASSUME NEW o \in Outputs
          PROVE  (IF Staged(r.pending, o) # {} THEN r.pending[Min(Staged(r.pending, o))].value
                  ELSE IF o \in DOMAIN r.ctx THEN r.ctx[o] ELSE None) =
                 IF o \in Updated THEN U(o) ELSE now[o]
        <3>1. CASE o \in Updated
            BY <1>10, <3>1, Zenon
        <3>2. CASE o \notin Updated
            <4>1. o \in Scalars \cup Lets /\ o \in Known
                BY Zenon DEF ProgramAssumption, Known
            <4>2. now[o] # Fault
                <5>1. CASE o \in Lets
                    <6>1. now[o] \in Good
                        BY <5>1, CapturesMean, Zenon DEF now
                    <6> QED BY <6>1, SpecialValues, Zenon
                <5>2. CASE o \in Scalars
                    <6>1. Lookup(r.ctx, o) \in Good
                        BY <1>2, <5>2, ContextIs, Zenon
                    <6> QED BY <1>1, <4>1, <6>1, SpecialValues, Zenon
                <5> QED BY <4>1, <5>1, <5>2, Zenon
            <4>3. Lookup(r.ctx, o) = now[o]
                BY <1>1, <4>1, Zenon
            <4>4. o \in DOMAIN r.ctx /\ r.ctx[o] = now[o]
                BY <1>2, <4>2, <4>3, ContextIs, Zenon
            <4> QED BY <1>11, <3>2, <4>4, Zenon
        <3> QED BY <3>1, <3>2, Zenon
    <2> QED BY <1>8, <2>1, Zenon DEF Refresh
<1>17. Promise!Succeeds
    BY SucceedsIs, Zenon
<1>18. \A s : Promise!Update(s) = U(s)
    BY PromiseIs, Zenon DEF U
<1>19. Promise!Scalars = Scalars /\ Promise!Histories = Histories /\ Promise!Depth = Depth
    BY Zenon DEF Promise!Scalars, Scalars, Promise!Histories, Histories, Promise!Lookbacks, Lookbacks,
                 Promise!Sampled, Sampled, Promise!Depth, Depth, Promise!Offsets, Offsets, Promise!Max, Max
<1>20. [s \in Scalars |-> Committed(s)]' =
         [s \in Promise!Scalars |-> IF s \in Updated THEN Promise!Update(s) ELSE TheStates[s]]
    BY <1>13, <1>18, <1>19, Zenon DEF TheStates
<1>21. [b \in Buffers |-> Held(b)]' =
         [b \in Buffers |-> Promise!Newest(TheBuffers[b], Promise!Update(b), Capacity)]
    BY <1>14, <1>18, Zenon DEF TheBuffers, Promise!Newest, Promise!Min, Min
<1>22. [n \in Histories |-> Samples(rings[n])]' =
         [n \in Promise!Histories |-> Promise!Newest(ThePast[n], Promise!Now[n], Promise!Depth[n])]
    BY <1>15, <1>19, Zenon DEF ThePast, Promise!Newest, Promise!Min, Min, now
<1>23. outputs' = [o \in Outputs |->
                     Promise!Shown(outputs[o], IF o \in Updated THEN Promise!Update(o) ELSE Promise!Now[o])]
    BY <1>16, <1>18, Zenon DEF Shown, Promise!Shown, now
<1> QED BY <1>8, <1>12, <1>17, <1>20, <1>21, <1>22, <1>23, Zenon
        DEF Promise!Tick, TheStates, TheBuffers, ThePast

\* A tick with a binding that fails leaves nothing behind.
LEMMA TickFails ==
    ASSUME ProgramAssumption, CapturesSucceed, SessionInv, SessionTick, ~AllComputed
    PROVE  Promise!FailedTick
<1> DEFINE r == EvalAll(Commit)
           bs == Commit.buffers
<1>1. /\ r \in EvalState /\ r.err # "ok"
      /\ \A n \in Inputs : Lookup(r.ctx, n) = Lookup(ctx, n)
      /\ \A n \in Scalars : Lookup(r.ctx, n) = Committed(n)
    BY TickRuns, Zenon
<1>2. r.ctx \in Contexts /\ r.err = "failed"
    BY <1>1, Zenon DEF EvalState
<1>3. \A b \in Buffers : Samples(bs[b]) = Held(b)
    BY CommitIs, Zenon DEF SessionInv
<1>4. /\ ctx' = r.ctx /\ buffers' = bs /\ pending' = <<>> /\ rings' = rings
      /\ outputs' = outputs
      /\ ok' = FALSE
    BY <1>2, Zenon DEF SessionTick
<1> HIDE DEF r, bs
<1>5. \A n : Staged(<<>>, n) = {}
    BY DEF Staged
<1>6. [i \in Inputs |-> Lookup(ctx, i)]' = [i \in Inputs |-> Lookup(ctx, i)]
    BY <1>1, <1>4, Zenon
<1>7. [s \in Scalars |-> Committed(s)]' = [s \in Scalars |-> Committed(s)]
    <2>1. ASSUME NEW s \in Scalars PROVE Committed(s)' = Committed(s)
        <3>1. Committed(s)' = r.ctx[s]
            BY <1>4, <1>5, Zenon DEF Committed
        <3>2. Lookup(r.ctx, s) = r.ctx[s]
            BY <1>2, ContextIs, Zenon
        <3> QED BY <1>1, <3>1, <3>2, Zenon
    <2> QED BY <2>1, Zenon
<1>8. [b \in Buffers |-> Held(b)]' = [b \in Buffers |-> Held(b)]
    <2>1. ASSUME NEW b \in Buffers PROVE Held(b)' = Held(b)
        <3>1. Held(b)' = Samples(bs[b])
            BY <1>4, <1>5, Zenon DEF Held
        <3> QED BY <1>3, <3>1, Zenon
    <2> QED BY <2>1, Zenon
<1>9. [n \in Histories |-> Samples(rings[n])]' = [n \in Histories |-> Samples(rings[n])]
    BY <1>4, Zenon
<1>10. ~Promise!Succeeds
    BY SucceedsIs, Zenon
<1> QED BY <1>4, <1>6, <1>7, <1>8, <1>9, <1>10, Zenon
        DEF Promise!FailedTick

\* A new session is an initial state of ModelTick.
LEMMA SessionStarts ==
    ASSUME ProgramAssumption, SessionInit
    PROVE  SessionInv /\ Promise!Init
<1>1. /\ order \in Orders /\ ctx = Default /\ pending = <<>>
      /\ rings = [n \in Histories |-> NewRing(Depth[n])]
      /\ buffers = [b \in Buffers |-> NewRing(Capacity)]
      /\ outputs = [o \in Outputs |-> NoOutput] /\ ok = TRUE
    BY Zenon DEF SessionInit
<1>2. Default \in [Scalars -> Numbers] /\ Capacity \in Nat \ {0}
    BY Zenon DEF ProgramAssumption
<1>3. ctx \in Contexts
    <2>1. Default \in [Scalars -> Good] /\ Scalars \in SUBSET Known
        BY <1>2, SpecialValues, Zenon DEF Known
    <2> QED BY <1>1, <2>1, Zenon DEF Contexts
<1>4. pending \in Seq(Update) /\ Distinct(pending)
    BY <1>1 DEF Distinct
<1>5. ASSUME NEW d \in Nat \ {0} PROVE NewRing(d) \in Ring(d) /\ Samples(NewRing(d)) = <<>>
    <2>1. [i \in 0..d-1 |-> NaN] \in [0..d-1 -> Good]
        BY Zenon DEF Good
    <2>2. NewRing(d) \in Ring(d)
        BY <2>1 DEF NewRing, Ring
    <2>3. NewRing(d).count = 0
        BY Zenon DEF NewRing
    <2>4. Samples(NewRing(d)) \in Seq(Good) /\ Len(Samples(NewRing(d))) = 0
        BY <2>2, <2>3, SamplesAre, Zenon
    <2> QED BY <2>2, <2>4
<1>6. rings \in RingSets
    <2>1. \A n \in Histories : NewRing(Depth[n]) \in Ring(Depth[n])
        BY <1>5, DepthIs, Zenon
    <2> QED BY <1>1, <2>1, Zenon DEF RingSets
<1>7. buffers \in BufferSets
    BY <1>1, <1>2, <1>5, Zenon DEF BufferSets
<1>8. SessionInv
    BY <1>1, <1>3, <1>4, <1>6, <1>7, Zenon DEF SessionInv
<1>9. \A n : Staged(pending, n) = {}
    BY <1>1 DEF Staged
<1>10. TheInputs = [i \in Inputs |-> Fault]
    <2>1. \A i \in Inputs : i \notin DOMAIN ctx
        BY <1>1, <1>2, NamesApart, Zenon
    <2> QED BY <2>1, Zenon DEF TheInputs, Lookup
<1>11. TheStates = Default
    BY <1>1, <1>2, <1>9, Zenon DEF TheStates, Committed
<1>12. TheBuffers = [b \in Buffers |-> <<>>]
    BY <1>1, <1>2, <1>5, <1>9, Zenon DEF TheBuffers, Held
<1>13. ThePast = [n \in Histories |-> <<>>]
    BY <1>1, <1>5, DepthIs, Zenon DEF ThePast
<1>14. Promise!Init
    BY <1>1, <1>10, <1>11, <1>12, <1>13, Zenon
       DEF Promise!Init, TheInputs, TheStates, TheBuffers, ThePast, Promise!Fault, Fault,
           Promise!Histories, Histories, Promise!Lookbacks, Lookbacks, Promise!Sampled, Sampled,
           Promise!NoOutput, NoOutput, Promise!None, None
<1> QED BY <1>8, <1>14, Zenon

\* Writing an input is the abstract write.
LEMMA SetInputImplements ==
    ASSUME ProgramAssumption, SessionInv, NEW i \in Inputs, NEW v \in Numbers, SessionSetInput(i, v)
    PROVE  /\ SessionInv' /\ Promise!SetInput
           /\ TheInputs' = [TheInputs EXCEPT ![i] = v] /\ TheStates' = TheStates
<1>1. /\ ctx' = Assign(ctx, i, v)
      /\ UNCHANGED <<order, pending, rings, buffers, outputs, ok>>
    BY Zenon DEF SessionSetInput
<1>2. ctx \in Contexts /\ i \in Known /\ v \in Good
    BY SpecialValues, Zenon DEF SessionInv, Known
<1>3. /\ ctx' \in Contexts
      /\ \A x : Lookup(ctx', x) = IF x = i THEN v ELSE Lookup(ctx, x)
    BY <1>1, <1>2, AssignIs
<1>4. SessionInv'
    BY <1>1, <1>3, Zenon DEF SessionInv, Distinct
<1>5. TheInputs' = [TheInputs EXCEPT ![i] = v]
    BY <1>3, Zenon DEF TheInputs
<1>6. TheStates' = TheStates
    <2>1. ASSUME NEW s \in Scalars PROVE ctx'[s] = ctx[s]
        <3>1. s # i
            BY NamesApart, Zenon
        <3>2. Lookup(ctx', s) = ctx'[s] /\ Lookup(ctx, s) = ctx[s]
            BY <1>2, <1>3, ContextIs, Zenon
        <3> QED BY <1>3, <3>1, <3>2, Zenon
    <2> QED BY <1>1, <2>1, Zenon DEF TheStates, Committed
<1>7. TheBuffers' = TheBuffers /\ ThePast' = ThePast
    BY <1>1, Zenon DEF TheBuffers, ThePast, Held
<1>8. Promise!SetInput
    BY <1>1, <1>5, <1>6, <1>7, Zenon
       DEF Promise!SetInput, TheInputs, TheStates, TheBuffers, ThePast
<1> QED BY <1>4, <1>5, <1>6, <1>8, Zenon

\* Every step of a session is a step of ModelTick.
LEMMA SessionStep ==
    ASSUME ProgramAssumption, CaptureAssumption, CapturesSucceed
    PROVE  SessionInv /\ [SessionNext]_sessionVars => SessionInv' /\ [Promise!Next]_Promise!vars
<1> SUFFICES ASSUME SessionInv, [SessionNext]_sessionVars
             PROVE  SessionInv' /\ [Promise!Next]_Promise!vars
    OBVIOUS
<1>1. ASSUME NEW i \in Inputs, NEW v \in Numbers, SessionSetInput(i, v)
      PROVE  SessionInv' /\ Promise!Next
    BY <1>1, SetInputImplements, Zenon DEF Promise!Next
<1>2. CASE SessionTick
    <2>1. SessionInv'
        BY <1>2, TickKeeps, Zenon
    <2>2. CASE AllComputed
        BY <1>2, <2>1, <2>2, TickSucceeds, Zenon DEF Promise!Next
    <2>3. CASE ~AllComputed
        BY <1>2, <2>1, <2>3, TickFails, Zenon DEF Promise!Next
    <2> QED BY <2>2, <2>3, Zenon
<1>3. CASE UNCHANGED sessionVars
    <2>1. UNCHANGED <<order, ctx, pending, rings, buffers, outputs, ok>>
        BY <1>3, Zenon DEF sessionVars
    <2>2. SessionInv'
        BY <2>1, Zenon DEF SessionInv, Distinct
    <2>3. UNCHANGED Promise!vars
        BY <2>1, Zenon DEF Promise!vars, Committed, Held
    <2> QED BY <2>2, <2>3, Zenon
<1> QED BY <1>1, <1>2, <1>3, Zenon DEF SessionNext

(* For every program and every order its dependency sort may produce, a session of
   the reference backend (cxpr_model_session_tick) implements ModelTick: a tick reads
   the states of its start and the samples of earlier ticks, commits all updates
   together, and leaves nothing behind when a binding fails.  The capture that ends a
   tick must not fail by itself (CapturesSucceed), and a captured target must be
   captured before the histories it looks back at (CapturesReadAhead), because
   cxpr_model_session_capture_history evaluates it over the rings it is pushing. *)
THEOREM SessionImplementsTick ==
    ASSUME ProgramAssumption, CaptureAssumption, CapturesSucceed
    PROVE  SessionSpec => SessionKeepsPromise
<1>1. SessionInit => SessionInv /\ Promise!Init
    BY SessionStarts, Zenon
<1>2. SessionInv /\ [SessionNext]_sessionVars => SessionInv' /\ [Promise!Next]_Promise!vars
    BY SessionStep, Zenon
<1> QED BY <1>1, <1>2, PTL DEF SessionSpec, SessionKeepsPromise, Promise!Spec

\* A tick pushes one sample onto every history, or onto none.
LEMMA TickPushes ==
    ASSUME ProgramAssumption, CaptureAssumption, CapturesSucceed, SessionInv, SessionTick
    PROVE  \/ rings' = rings
           \/ \A n \in Histories : \E v \in Good : rings'[n] = Push(rings[n], v)
<1> DEFINE r == EvalAll(Commit)
           c == Capture(r.ctx, Commit.buffers)
<1>1. /\ r \in EvalState
      /\ r.err = "ok" <=> AllComputed
      /\ AllComputed => \A n \in Known : Lookup(r.ctx, n) = Promise!Now[n]
    BY TickRuns, Zenon
<1>2. r.ctx \in Contexts /\ r.err \in {"ok", "failed"}
    BY <1>1, Zenon DEF EvalState
<1>3. Commit.buffers \in BufferSets /\ rings \in RingSets
    BY CommitIs, Zenon DEF SessionInv, CommitState
<1>4. CASE ~AllComputed
    BY <1>1, <1>2, <1>4, Zenon DEF SessionTick
<1>5. CASE AllComputed
    <2>1. \A n \in Histories : Sampling(n, r.ctx, Commit.buffers) = Promise!Now[n] /\ Promise!Now[n] \in Good
        BY <1>1, <1>2, <1>5, SamplingIs, Zenon
    <2>2. \A n \in Histories : Sampling(n, r.ctx, Commit.buffers) # Fault
        BY <2>1, SpecialValues, Zenon
    <2>3. /\ c.err = "ok"
          /\ \A n \in Histories : c.rings[n] = Push(rings[n], Sampling(n, r.ctx, Commit.buffers))
        BY <1>2, <1>3, <2>2, CaptureIs, Zenon
    <2>4. rings' = c.rings
        BY <1>1, <1>5, <2>3, Zenon DEF SessionTick
    <2> HIDE DEF c, r
    <2> QED BY <2>1, <2>3, <2>4, Zenon
<1> QED BY <1>4, <1>5, Zenon

\* A new session has no samples.
LEMMA AlignedStart ==
    ASSUME ProgramAssumption
    PROVE  SessionInit => SessionInv /\ HistoriesAligned
<1> SUFFICES ASSUME SessionInit PROVE SessionInv /\ HistoriesAligned
    OBVIOUS
<1>1. SessionInv
    BY SessionStarts, Zenon
<1>2. \A n \in Histories : rings[n].count = 0
    BY Zenon DEF SessionInit, NewRing
<1> QED BY <1>1, <1>2, Zenon DEF HistoriesAligned

\* Every step keeps the histories in step.
LEMMA AlignedStep ==
    ASSUME ProgramAssumption, CaptureAssumption, CapturesSucceed
    PROVE  SessionInv /\ HistoriesAligned /\ [SessionNext]_sessionVars => SessionInv' /\ HistoriesAligned'
<1> SUFFICES ASSUME SessionInv, HistoriesAligned, [SessionNext]_sessionVars
             PROVE  SessionInv' /\ HistoriesAligned'
    OBVIOUS
<1>1. SessionInv'
    BY SessionStep, Zenon
<1>2. \/ rings' = rings
      \/ \A n \in Histories : \E v \in Good : rings'[n] = Push(rings[n], v)
    BY TickPushes, Zenon DEF SessionNext, SessionSetInput, sessionVars
<1>3. CASE rings' = rings
    BY <1>1, <1>3, Zenon DEF HistoriesAligned
<1>4. CASE \A n \in Histories : \E v \in Good : rings'[n] = Push(rings[n], v)
    <2>1. ASSUME NEW n \in Histories
          PROVE  /\ rings[n].count \in Nat /\ Depth[n] \in Nat
                 /\ rings'[n].count = IF rings[n].count + 1 <= Depth[n] THEN rings[n].count + 1
                                      ELSE Depth[n]
        <3> DEFINE r == rings[n]
                   k == Depth[n]
        <3>1. k \in Nat \ {0} /\ r \in Ring(k)
            BY DepthIs, Zenon DEF SessionInv, RingSets
        <3>2. PICK v \in Good : rings'[n] = Push(r, v)
            BY <1>4, Zenon
        <3> HIDE DEF r, k
        <3>3. /\ Push(r, v) \in Ring(k)
              /\ Push(r, v).values = [r.values EXCEPT ![r.next] = v]
              /\ Push(r, v).next = IF r.next + 1 = k THEN 0 ELSE r.next + 1
              /\ Push(r, v).count = IF r.count + 1 <= k THEN r.count + 1 ELSE k
            BY <3>1, PushIs
        <3>4. r.count \in Nat
            BY <3>1, RingSizeIs
        <3> QED BY <3>1, <3>2, <3>3, <3>4, Zenon DEF r, k
    <2>2. ASSUME NEW m \in Histories, NEW n \in Histories
          PROVE  LET d == Min({Depth[m], Depth[n]})
                 IN  Min({rings'[m].count, d}) = Min({rings'[n].count, d})
        <3> DEFINE d == Min({Depth[m], Depth[n]})
                   x == rings[m].count
                   y == rings[n].count
                   p == rings'[m].count
                   q == rings'[n].count
        <3>1. /\ x \in Nat /\ Depth[m] \in Nat /\ p = IF x + 1 <= Depth[m] THEN x + 1 ELSE Depth[m]
              /\ y \in Nat /\ Depth[n] \in Nat /\ q = IF y + 1 <= Depth[n] THEN y + 1 ELSE Depth[n]
            BY <2>1, Zenon
        <3>2. Min({x, d}) = Min({y, d})
            BY Zenon DEF HistoriesAligned
        <3>3. d = IF Depth[m] <= Depth[n] THEN Depth[m] ELSE Depth[n]
            BY <3>1, MinOfTwo
        <3> HIDE DEF d, x, y, p, q
        <3>4. d \in Nat /\ p \in Nat /\ q \in Nat
            BY <3>1, <3>3
        <3>5. (IF x <= d THEN x ELSE d) = (IF y <= d THEN y ELSE d)
            BY <3>1, <3>2, <3>4, MinOfTwo
        <3>6. (IF p <= d THEN p ELSE d) = (IF q <= d THEN q ELSE d)
            BY <3>1, <3>3, <3>4, <3>5
        <3>7. Min({p, d}) = Min({q, d})
            BY <3>4, <3>6, MinOfTwo
        <3> QED BY <3>7, Zenon DEF p, q, d
    <2>3. HistoriesAligned'
        BY <2>2, Zenon DEF HistoriesAligned
    <2> QED BY <1>1, <2>3, Zenon
<1> QED BY <1>2, <1>3, <1>4, Zenon

(* For every program, the histories of a session hold samples of the same ticks:
   name[k] is the same tick for every name, whatever ticks failed in between (the
   capture loop of cxpr_model_session_tick pushes onto all rings or is not reached). *)
THEOREM HistoriesStayAligned ==
    ASSUME ProgramAssumption, CaptureAssumption, CapturesSucceed
    PROVE  SessionSpec => []HistoriesAligned
<1>1. SessionInit => SessionInv /\ HistoriesAligned
    BY AlignedStart, Zenon
<1>2. SessionInv /\ HistoriesAligned /\ [SessionNext]_sessionVars => SessionInv' /\ HistoriesAligned'
    BY AlignedStep, Zenon
<1> QED BY <1>1, <1>2, PTL DEF SessionSpec
=============================================================================
