------------------------- MODULE ModelFusedProofs -------------------------
(***************************************************************************)
(* That the fused backend of a compiled model implements ModelTick as the  *)
(* reference session does, and that the two agree, for every program.      *)
(***************************************************************************)
EXTENDS ModelBackends, ModelSessionProofs

-----------------------------------------------------------------------------
(* The fused backend *)

SlotSets == [Names -> Good]
ExecState == [slots : SlotSets, updates : [Updated -> Good], err : {"ok", "failed"}]

\* A model that is fused samples nothing and its states are scalars.
LEMMA FusedNames ==
    ASSUME ProgramAssumption, FusedAssumption
    PROVE  /\ Sampled = {} /\ Histories = {} /\ Buffers = {} /\ Captured = {}
           /\ Updated \subseteq Scalars /\ Names = Known
<1>1. Histories = {} /\ Buffers = {} /\ Captured = {}
    BY Zenon DEF FusedAssumption, Fusible
<1>2. Lookbacks = {}
    BY <1>1, Zenon DEF Histories
<1>3. Sampled = {}
    BY <1>1, <1>2, Zenon DEF Lookbacks
<1> QED BY <1>1, <1>3, Zenon DEF ProgramAssumption, Scalars, Names, Known

\* What a binding reads from slots that hold the values of the names.
LEMMA SlotsMean ==
    ASSUME ProgramAssumption, FusedAssumption, NEW b \in Bindings, NEW z, NEW m, NEW seen,
           \A n \in Names : <<n, 0>> \in Reads[b] => z[n] = m[n]
    PROVE  [r \in Reads[b] |-> z[r[1]]] = Got(b, m, seen)
<1>1. ASSUME NEW r \in Reads[b] PROVE r \notin Sampled /\ z[r[1]] = m[r[1]]
    <2>1. r \notin Sampled
        BY FusedNames, Zenon
    <2>2. r = <<r[1], 0>> /\ r[1] \in Inputs \cup Scalars \cup Lets
        BY <2>1, ReadsNow, Zenon
    <2>3. r[1] \in Names
        BY <2>2, FusedNames, Zenon DEF Known
    <2> QED BY <2>1, <2>2, <2>3, Zenon
<1> QED BY <1>1, Zenon DEF Got

\* The slots an expression reads hold numbers or NaN, so it yields a result.
LEMMA SlotValueIs ==
    ASSUME ProgramAssumption, FusedAssumption, NEW b \in Bindings, NEW z \in SlotSets
    PROVE  Value[b][[r \in Reads[b] |-> z[r[1]]]] \in Results
<1>1. \A r \in Reads[b] : r[1] \in Names
    BY DEF ProgramAssumption
<1>2. [r \in Reads[b] |-> z[r[1]]] \in [Reads[b] -> Results]
    BY <1>1, SpecialValues, Zenon DEF SlotSets
<1> QED BY <1>2, ValueIs, Zenon

\* The instructions of one binding keep the slots filled.
LEMMA ExecuteStepIs ==
    ASSUME ProgramAssumption, FusedAssumption, NEW s \in ExecState, NEW b \in Bindings
    PROVE  ExecuteStep(s, b) \in ExecState
<1> DEFINE v == Value[b][[r \in Reads[b] |-> s.slots[r[1]]]]
<1>1. s.slots \in SlotSets /\ s.updates \in [Updated -> Good] /\ s.err \in {"ok", "failed"}
    BY Zenon DEF ExecState
<1>2. v \in Results
    BY <1>1, SlotValueIs, Zenon
<1>3. ExecuteStep(s, b) =
        IF s.err = "failed" THEN s
        ELSE IF v = Fault THEN [s EXCEPT !.err = "failed"]
        ELSE IF b \in Updated THEN [s EXCEPT !.updates[b] = v]
        ELSE [s EXCEPT !.slots[b] = v]
    BY Zenon DEF ExecuteStep
<1> HIDE DEF v
<1>4. CASE v # Fault
    <2>1. v \in Good
        BY <1>2, <1>4, SpecialValues, Zenon
    <2>2. [s.updates EXCEPT ![b] = v] \in [Updated -> Good] /\ [s.slots EXCEPT ![b] = v] \in SlotSets
        BY <1>1, <2>1, Zenon DEF SlotSets
    <2> QED BY <1>3, <1>4, <2>2, Zenon DEF ExecState
<1>5. CASE v = Fault
    BY <1>3, <1>5, Zenon DEF ExecState
<1> QED BY <1>4, <1>5, Zenon

\* The program, binding by binding.
LEMMA Executing ==
    ASSUME ProgramAssumption, FusedAssumption, NEW z \in SlotSets, updates \in [Updated -> Good]
    PROVE  /\ Executes(z)[0] = [slots |-> z, updates |-> updates, err |-> "ok"]
           /\ \A k \in 0..Len(Source) : Executes(z)[k] \in ExecState
           /\ \A k \in 1..Len(Source) : Executes(z)[k] = ExecuteStep(Executes(z)[k - 1], Source[k])
<1> DEFINE N == Len(Source)
           S == ExecState
           s0 == [slots |-> z, updates |-> updates, err |-> "ok"]
           Step(s, k) == ExecuteStep(s, Source[k])
           step == [k \in 1..N |-> [s \in S |-> Step(s, k)]]
           Is(f) == f = [k \in 0..N |-> IF k = 0 THEN s0 ELSE ExecuteStep(f[k - 1], Source[k])]
<1>1. N \in Nat /\ Source \in [1..N -> Bindings]
    BY ListingIs, Zenon DEF FusedAssumption
<1>2. s0 \in S
    BY Zenon DEF ExecState
<1>3. ASSUME NEW k \in 1..N, NEW s \in S PROVE Step(s, k) \in S
    BY <1>1, ExecuteStepIs, Zenon
<1> HIDE DEF N, S, s0, Step
<1>4. step \in [1..N -> [S -> S]]
    BY <1>3, Zenon
<1> HIDE DEF step
<1>5. PICK f \in [0..N -> S] : Runs(f, N, s0, step)
    BY <1>1, <1>2, <1>4, LoopRuns, Zenon
<1>6. ASSUME NEW k \in 0..N
      PROVE  f[k] = IF k = 0 THEN s0 ELSE Step(f[k - 1], k)
    <2>1. f[k] = IF k = 0 THEN s0 ELSE step[k][f[k - 1]]
        BY <1>5, Zenon DEF Runs
    <2>2. CASE k = 0
        BY <2>1, <2>2, Zenon
    <2>3. CASE k # 0
        <3>1. k \in 1..N /\ k - 1 \in 0..N
            BY <1>1, <2>3
        <3>2. f[k - 1] \in S
            BY <3>1, Zenon
        <3>3. step[k][f[k - 1]] = Step(f[k - 1], k)
            BY <3>1, <3>2, Zenon DEF step
        <3> QED BY <2>1, <2>3, <3>3, Zenon
    <2> QED BY <2>2, <2>3, Zenon
<1>7. Is(f)
    <2>1. f = [k \in 0..N |-> f[k]]
        OBVIOUS
    <2> QED BY <1>6, <2>1, Zenon DEF Step
<1>8. Executes(z) = CHOOSE g : Is(g)
    BY Zenon DEF Executes, s0, N
<1>9. ASSUME NEW g, Is(g) PROVE g \in [0..N -> S] /\ g[0] = s0 /\ \A k \in 1..N : g[k] = Step(g[k - 1], k)
    <2> DEFINE K == {k \in 0..N : g[k] \in S}
    <2>1. ASSUME NEW k \in 0..N PROVE g[k] = IF k = 0 THEN s0 ELSE Step(g[k - 1], k)
        BY <1>9, Zenon DEF Step
    <2>2. g = [k \in 0..N |-> g[k]]
        BY <1>9, Zenon
    <2> HIDE DEF Is
    <2>3. 0 \in K
        BY <1>1, <1>2, <2>1
    <2>4. ASSUME NEW k \in 1..N, k - 1 \in K PROVE k \in K
        BY <1>1, <1>3, <2>1, <2>4
    <2>5. \A k \in 0..N : k \in K
        <3> HIDE DEF K
        <3> QED BY <1>1, <2>3, <2>4, UpTo, Zenon
    <2>6. g \in [0..N -> S]
        BY <2>2, <2>5, Zenon
    <2>7. g[0] = s0 /\ \A k \in 1..N : g[k] = Step(g[k - 1], k)
        BY <1>1, <2>1
    <2> QED BY <2>6, <2>7, Zenon
<1> HIDE DEF Is
<1>10. Is(Executes(z))
    BY <1>7, <1>8, Zenon
<1>11. Executes(z) \in [0..N -> S] /\ Executes(z)[0] = s0
       /\ \A k \in 1..N : Executes(z)[k] = Step(Executes(z)[k - 1], k)
    BY <1>9, <1>10, Zenon
<1> QED BY <1>1, <1>11, Zenon DEF s0, N, S, Step

(* What the instructions of the first k bindings have done to the slots z. *)
FollowsFused(s, k, z, m, seen) ==
    /\ s.err = "failed" => \E j \in 1..k : Outcome(Source[j], m, seen) = Fault
    /\ \A n \in Inputs \cup Scalars : s.slots[n] = z[n]
    /\ s.err = "ok" => \A j \in 1..k : Outcome(Source[j], m, seen) # Fault
    /\ s.err = "ok" => \A j \in 1..k : Source[j] \in Lets => s.slots[Source[j]] = m[Source[j]]
    /\ s.err = "ok" => \A j \in 1..k :
          Source[j] \in Updated => s.updates[Source[j]] = Outcome(Source[j], m, seen)

\* The instructions of one binding compute what the binding means.
LEMMA FollowsFusedStep ==
    ASSUME ProgramAssumption, FusedAssumption, Topological(Source),
           NEW z, NEW m, NEW seen, Solves(m, seen),
           \A n \in Inputs \cup Scalars : m[n] = z[n],
           NEW k \in 1..Len(Source), NEW s \in ExecState, FollowsFused(s, k - 1, z, m, seen)
    PROVE  FollowsFused(ExecuteStep(s, Source[k]), k, z, m, seen)
<1> DEFINE b == Source[k]
           v == Value[b][[r \in Reads[b] |-> s.slots[r[1]]]]
           t == ExecuteStep(s, b)
<1>1. /\ Len(Source) \in Nat /\ Source \in [1..Len(Source) -> Bindings]
      /\ \A x \in Bindings : \E i \in 1..Len(Source) : Source[i] = x
      /\ \A i, j \in 1..Len(Source) : i # j => Source[i] # Source[j]
    BY ListingIs, Zenon DEF FusedAssumption
<1>2. \A i, j \in 1..Len(Source) : DependsOnLet(Source[j], Source[i]) => i < j
    BY <1>1, Zenon DEF Topological
<1>3. s.slots \in SlotSets /\ s.updates \in [Updated -> Good] /\ s.err \in {"ok", "failed"}
    BY Zenon DEF ExecState
<1>4. b \in Bindings /\ \A j \in 1..k : j = k \/ j \in 1..k-1
    BY <1>1
<1>5. /\ \A j \in 1..k-1 : j \in 1..k /\ j \in 1..Len(Source) /\ j # k
      /\ k \in 1..k
    BY <1>1
<1>6. t = IF s.err = "failed" THEN s
          ELSE IF v = Fault THEN [s EXCEPT !.err = "failed"]
          ELSE IF b \in Updated THEN [s EXCEPT !.updates[b] = v]
          ELSE [s EXCEPT !.slots[b] = v]
    BY Zenon DEF ExecuteStep
<1>7. ASSUME s.err = "ok" PROVE v = Outcome(b, m, seen)
    <2>1. ASSUME NEW n \in Names, <<n, 0>> \in Reads[b] PROVE s.slots[n] = m[n]
        <3>1. CASE n \in Inputs \cup Scalars
            BY <3>1, Zenon DEF FollowsFused
        <3>2. CASE n \in Lets
            <4>1. DependsOnLet(b, n)
                BY <2>1, <3>2, Zenon DEF DependsOnLet
            <4>2. PICK i \in 1..Len(Source) : Source[i] = n
                BY <1>1, <3>2, Zenon DEF Bindings
            <4>3. i \in 1..k-1
                BY <1>2, <4>1, <4>2
            <4> QED BY <1>7, <3>2, <4>2, <4>3, Zenon DEF FollowsFused
        <3> QED BY <3>1, <3>2, FusedNames, Zenon DEF Known
    <2> DEFINE slotsOf == s.slots
    <2>2. \A n \in Names : <<n, 0>> \in Reads[b] => slotsOf[n] = m[n]
        BY <2>1, Zenon
    <2> HIDE DEF b, slotsOf
    <2>3. [r \in Reads[b] |-> slotsOf[r[1]]] = Got(b, m, seen)
        BY <1>4, <2>2, SlotsMean
    <2> QED BY <2>3, Zenon DEF Outcome, slotsOf
<1>8. v \in Results
    BY <1>3, <1>4, SlotValueIs, Zenon
<1>9. \A j \in 1..k-1 : Source[j] # b
    BY <1>1, <1>5, Zenon
<1> HIDE DEF v, t
<1>10. CASE s.err = "failed"
    <2>1. t = s
        BY <1>6, <1>10, Zenon
    <2>2. FollowsFused(s, k, z, m, seen)
        BY <1>5, <1>10, Zenon DEF FollowsFused
    <2> QED BY <2>1, <2>2, Zenon DEF t
<1>11. CASE s.err = "ok" /\ v = Fault
    <2>1. t.err = "failed" /\ t.slots = s.slots
        BY <1>6, <1>11, Zenon DEF ExecState
    <2>2. Outcome(Source[k], m, seen) = Fault
        BY <1>7, <1>11, Zenon
    <2>3. FollowsFused(t, k, z, m, seen)
        BY <1>5, <2>1, <2>2, Zenon DEF FollowsFused
    <2> QED BY <2>3, Zenon DEF t
<1>12. CASE s.err = "ok" /\ v # Fault /\ b \in Updated
    <2>1. t.err = "ok" /\ t.slots = s.slots /\ t.updates = [s.updates EXCEPT ![b] = v]
        BY <1>6, <1>12, Zenon DEF ExecState
    <2>2. Outcome(b, m, seen) = v /\ b \notin Lets
        BY <1>7, <1>12, NamesApart, Zenon
    <2>3. t.updates[b] = v /\ \A x \in Updated : x # b => t.updates[x] = s.updates[x]
        BY <1>3, <1>12, <2>1, Zenon
    <2>4. \A j \in 1..k : Source[j] \in Updated => t.updates[Source[j]] = Outcome(Source[j], m, seen)
        BY <1>4, <1>9, <1>12, <2>2, <2>3, Zenon DEF FollowsFused
    <2>5. /\ \A j \in 1..k : Outcome(Source[j], m, seen) # Fault
          /\ \A j \in 1..k : Source[j] \in Lets => t.slots[Source[j]] = m[Source[j]]
          /\ \A n \in Inputs \cup Scalars : t.slots[n] = z[n]
        BY <1>4, <1>12, <2>1, <2>2, Zenon DEF FollowsFused
    <2>6. FollowsFused(t, k, z, m, seen)
        BY <2>1, <2>4, <2>5, Zenon DEF FollowsFused
    <2> QED BY <2>6, Zenon DEF t
<1>13. CASE s.err = "ok" /\ v # Fault /\ b \notin Updated
    <2>1. t.err = "ok" /\ t.slots = [s.slots EXCEPT ![b] = v] /\ t.updates = s.updates
        BY <1>6, <1>13, Zenon DEF ExecState
    <2>2. b \in Lets /\ b \in Names
        BY <1>4, <1>13, NamesApart, Zenon DEF Bindings
    <2>3. t.slots[b] = v /\ \A x \in Names : x # b => t.slots[x] = s.slots[x]
        BY <1>3, <2>1, <2>2, Zenon DEF SlotSets
    <2>4. Outcome(b, m, seen) = v /\ m[b] = v
        BY <1>7, <1>13, <2>2, Zenon DEF Solves, Outcome
    <2>5. \A n \in Inputs \cup Scalars : t.slots[n] = z[n]
        BY <2>2, <2>3, NamesApart, Zenon DEF FollowsFused
    <2>6. \A j \in 1..k : Outcome(Source[j], m, seen) # Fault
        BY <1>4, <1>13, <2>4, Zenon DEF FollowsFused
    <2>7. \A j \in 1..k : Source[j] \in Lets => t.slots[Source[j]] = m[Source[j]]
        <3>1. \A j \in 1..k-1 : Source[j] \in Lets => s.slots[Source[j]] = m[Source[j]]
            BY <1>13, Zenon DEF FollowsFused
        <3> QED BY <1>4, <1>9, <2>3, <2>4, <3>1, NamesApart, Zenon
    <2>8. \A j \in 1..k : Source[j] \in Updated => t.updates[Source[j]] = Outcome(Source[j], m, seen)
        BY <1>4, <1>13, <2>1, Zenon DEF FollowsFused
    <2>9. FollowsFused(t, k, z, m, seen)
        BY <2>1, <2>5, <2>6, <2>7, <2>8, Zenon DEF FollowsFused
    <2> QED BY <2>9, Zenon DEF t
<1> QED BY <1>3, <1>10, <1>11, <1>12, <1>13, Zenon

\* The program fails when some binding does, and else computes what all of them
\* mean; the slots of inputs and states keep what they held.
LEMMA ExecuteIs ==
    ASSUME ProgramAssumption, FusedAssumption, Topological(Source),
           NEW z \in SlotSets, updates \in [Updated -> Good],
           NEW m, NEW seen, Solves(m, seen), \A n \in Inputs \cup Scalars : m[n] = z[n]
    PROVE  /\ Execute(z) \in ExecState
           /\ Execute(z).err = "ok" <=> \A b \in Bindings : Outcome(b, m, seen) # Fault
           /\ \A n \in Inputs \cup Scalars : Execute(z).slots[n] = z[n]
           /\ Execute(z).err = "ok" => \A n \in Lets : Execute(z).slots[n] = m[n]
           /\ Execute(z).err = "ok" => \A u \in Updated : Execute(z).updates[u] = Outcome(u, m, seen)
<1> DEFINE N == Len(Source)
           f == Executes(z)
           K == {k \in 0..N : FollowsFused(f[k], k, z, m, seen)}
<1>1. /\ N \in Nat /\ Source \in [1..N -> Bindings]
      /\ \A b \in Bindings : \E i \in 1..N : Source[i] = b
    BY ListingIs, Zenon DEF FusedAssumption
<1>2. /\ f[0] = [slots |-> z, updates |-> updates, err |-> "ok"]
      /\ \A k \in 0..N : f[k] \in ExecState
      /\ \A k \in 1..N : f[k] = ExecuteStep(f[k - 1], Source[k])
    BY Executing, Zenon
<1> HIDE DEF f
<1>3. 0 \in K
    <2>1. f[0].slots = z /\ f[0].err = "ok"
        BY <1>2
    <2>2. FollowsFused(f[0], 0, z, m, seen)
        BY <2>1 DEF FollowsFused
    <2> QED BY <1>1, <2>2
<1>4. ASSUME NEW k \in 1..N, k - 1 \in K PROVE k \in K
    <2>1. f[k - 1] \in ExecState /\ FollowsFused(f[k - 1], k - 1, z, m, seen)
        BY <1>2, <1>4, Zenon
    <2>2. FollowsFused(ExecuteStep(f[k - 1], Source[k]), k, z, m, seen)
        BY <2>1, FollowsFusedStep, Zenon
    <2> QED BY <1>1, <1>2, <2>2
<1>5. \A k \in 0..N : k \in K
    <2> HIDE DEF K
    <2> QED BY <1>1, <1>3, <1>4, UpTo, Zenon
<1> DEFINE r == f[N]
<1>6. FollowsFused(r, N, z, m, seen) /\ r \in ExecState
    BY <1>1, <1>2, <1>5
<1>7. Execute(z) = r
    BY Zenon DEF Execute, f
<1> HIDE DEF r, K
<1>8. r.err \in {"ok", "failed"}
    BY <1>6, Zenon DEF ExecState
<1>9. r.err = "ok" <=> \A b \in Bindings : Outcome(b, m, seen) # Fault
    BY <1>1, <1>6, <1>8 DEF FollowsFused
<1>10. ASSUME r.err = "ok", NEW n \in Lets PROVE r.slots[n] = m[n]
    <2>1. PICK i \in 1..N : Source[i] = n
        BY <1>1, Zenon DEF Bindings
    <2> QED BY <1>6, <1>10, <2>1, Zenon DEF FollowsFused
<1>11. ASSUME r.err = "ok", NEW u \in Updated PROVE r.updates[u] = Outcome(u, m, seen)
    <2>1. PICK i \in 1..N : Source[i] = u
        BY <1>1, Zenon DEF Bindings
    <2> QED BY <1>6, <1>11, <2>1, Zenon DEF FollowsFused
<1>12. \A n \in Inputs \cup Scalars : r.slots[n] = z[n]
    BY <1>6, Zenon DEF FollowsFused
<1> QED BY <1>6, <1>7, <1>9, <1>10, <1>11, <1>12, Zenon

(* What holds of a fused session between any two steps. *)
FusedInv ==
    /\ fctx \in Contexts
    /\ slots \in SlotSets
    /\ updates \in [Updated -> Good]
    /\ staged \in [Updated -> Good \cup {None}]

TheFusedInputs == [i \in Inputs |-> Lookup(fctx, i)]
TheFusedStates == [s \in Scalars |-> FusedState(s)]

\* ModelTick's operators, as the fused session instantiates them.
LEMMA FusedPromiseIs ==
    ASSUME ProgramAssumption, FusedAssumption
    PROVE  /\ FusedPromise!Seen \in [Sampled -> Results]
           /\ FusedPromise!Now = Meaning(TheFusedInputs, TheFusedStates, FusedPromise!Seen)
           /\ \A s : FusedPromise!Update(s) = Outcome(s, FusedPromise!Now, FusedPromise!Seen)
           /\ FusedPromise!Succeeds <=> /\ \A n \in Lets \cup Captured : FusedPromise!Now[n] # Fault
                                        /\ \A s \in Updated : FusedPromise!Update(s) # Fault
<1>1. FusedPromise!Seen = [r \in Sampled |->
                             IF r[1] \in Buffers
                             THEN FusedPromise!Sample([b \in Buffers |-> <<>>][r[1]], r[2] + 1)
                             ELSE FusedPromise!Sample([n \in Histories |-> <<>>][r[1]], r[2])]
    BY Zenon DEF FusedPromise!Seen, FusedPromise!Sampled, Sampled,
                 FusedPromise!Histories, Histories, FusedPromise!Lookbacks, Lookbacks
<1>2. FusedPromise!Seen \in [Sampled -> Results]
    BY <1>1, FusedNames, Zenon
<1>3. FusedPromise!Now = Meaning(TheFusedInputs, TheFusedStates, FusedPromise!Seen)
    BY Zenon DEF FusedPromise!Now, FusedPromise!Meaning, Meaning, TheFusedInputs, TheFusedStates,
           FusedPromise!Names, Names, FusedPromise!Scalars, Scalars, FusedPromise!Fault, Fault,
           FusedPromise!Got, Got, FusedPromise!Sampled, Sampled
<1>4. ASSUME NEW s PROVE FusedPromise!Update(s) = Outcome(s, FusedPromise!Now, FusedPromise!Seen)
    BY Zenon DEF FusedPromise!Update, Outcome, FusedPromise!Got, Got, FusedPromise!Sampled, Sampled
<1>5. FusedPromise!Succeeds <=> /\ \A n \in Lets \cup Captured : FusedPromise!Now[n] # Fault
                                /\ \A s \in Updated : FusedPromise!Update(s) # Fault
    BY Zenon DEF FusedPromise!Succeeds, FusedPromise!Fault, Fault
<1> QED BY <1>2, <1>3, <1>4, <1>5, Zenon

\* The slots after the commit loop hold the states of ModelTick.
LEMMA CommittedSlotsAre ==
    ASSUME ProgramAssumption, FusedAssumption, FusedInv
    PROVE  /\ CommittedSlots \in SlotSets
           /\ \A s \in Scalars : CommittedSlots[s] = FusedState(s) /\ FusedState(s) \in Good
<1>1. slots \in [Names -> Good] /\ staged \in [Updated -> Good \cup {None}]
    BY Zenon DEF FusedInv, SlotSets
<1>2. CommittedSlots = [n \in Names |-> IF n \in Updated /\ staged[n] # None THEN staged[n] ELSE slots[n]]
    BY <1>1, Zenon DEF CommittedSlots
<1>3. CommittedSlots \in SlotSets
    BY <1>1, <1>2, Zenon DEF SlotSets
<1>4. \A s \in Scalars : CommittedSlots[s] = FusedState(s)
    BY <1>2, NamesApart, Zenon DEF FusedState
<1> QED BY <1>3, <1>4, NamesApart DEF SlotSets

\* What the names mean in a tick of the fused session.
LEMMA FusedNowIs ==
    ASSUME ProgramAssumption, FusedAssumption, Topological(Source), FusedInv
    PROVE  /\ FusedPromise!Now \in [Names -> Results] /\ Solves(FusedPromise!Now, FusedPromise!Seen)
           /\ \A n \in Inputs : FusedPromise!Now[n] = Lookup(fctx, n)
           /\ \A n \in Scalars : FusedPromise!Now[n] = FusedState(n)
<1>1. Source \in Orders
    BY Zenon DEF FusedAssumption, Orders
<1>2. TheFusedInputs \in [Inputs -> Results]
    BY ContextIs, Zenon DEF FusedInv, TheFusedInputs
<1>3. TheFusedStates \in [Scalars -> Results]
    BY CommittedSlotsAre, SpecialValues, Zenon DEF TheFusedStates
<1>4. FusedPromise!Seen \in [Sampled -> Results]
    BY FusedPromiseIs, Zenon
<1>5. Means(Meaning(TheFusedInputs, TheFusedStates, FusedPromise!Seen),
            TheFusedInputs, TheFusedStates, FusedPromise!Seen)
    BY <1>1, <1>2, <1>3, <1>4, MeaningIs, Zenon
<1>6. Means(FusedPromise!Now, TheFusedInputs, TheFusedStates, FusedPromise!Seen)
    BY <1>5, FusedPromiseIs, Zenon
<1> QED BY <1>6, Zenon DEF Means, TheFusedInputs, TheFusedStates

(* Everything a fused tick computes has a value. *)
AllExecuted == \A b \in Bindings : Outcome(b, FusedPromise!Now, FusedPromise!Seen) # Fault

\* The abstract tick succeeds exactly then.
LEMMA FusedSucceedsIs ==
    ASSUME ProgramAssumption, FusedAssumption, Topological(Source), FusedInv
    PROVE  FusedPromise!Succeeds <=> AllExecuted
<1>1. Solves(FusedPromise!Now, FusedPromise!Seen)
    BY FusedNowIs, Zenon
<1>2. \A n \in Lets : FusedPromise!Now[n] = Outcome(n, FusedPromise!Now, FusedPromise!Seen)
    BY <1>1, Zenon DEF Solves, Outcome
<1>3. \A s : FusedPromise!Update(s) = Outcome(s, FusedPromise!Now, FusedPromise!Seen)
    BY FusedPromiseIs, Zenon
<1>4. FusedPromise!Succeeds <=> /\ \A n \in Lets \cup Captured : FusedPromise!Now[n] # Fault
                                /\ \A s \in Updated : FusedPromise!Update(s) # Fault
    BY FusedPromiseIs, Zenon
<1> QED BY <1>2, <1>3, <1>4, FusedNames, Zenon DEF AllExecuted, Bindings

\* A tick without all its inputs cannot succeed, when each of them is needed.
LEMMA MissingFails ==
    ASSUME ProgramAssumption, FusedAssumption, Topological(Source), InputsNeeded, FusedInv, InputsMissing
    PROVE  ~AllExecuted
<1>1. PICK i \in Inputs : Lookup(fctx, i) = Fault
    BY Zenon DEF InputsMissing
<1>2. FusedPromise!Now[i] = Fault /\ FusedPromise!Now \in [Names -> Results]
    BY <1>1, FusedNowIs, Zenon
<1>3. FusedPromise!Seen \in [Sampled -> Results]
    BY FusedPromiseIs, Zenon
<1>4. \E b \in Bindings : Outcome(b, FusedPromise!Now, FusedPromise!Seen) = Fault
    BY <1>2, <1>3, NeededIs, Zenon DEF InputsNeeded
<1> QED BY <1>4, Zenon DEF AllExecuted

\* The program of a tick, in terms of what the tick means.
LEMMA FusedRuns ==
    ASSUME ProgramAssumption, FusedAssumption, Topological(Source), FusedInv, ~InputsMissing,
           NEW r, r = Execute(LoadInputs(CommittedSlots))
    PROVE  /\ r \in ExecState
           /\ r.err = "ok" <=> AllExecuted
           /\ \A s \in Scalars : r.slots[s] = FusedState(s)
           /\ AllExecuted => \A n \in Names : r.slots[n] = FusedPromise!Now[n]
           /\ AllExecuted => \A u \in Updated :
                 r.updates[u] = Outcome(u, FusedPromise!Now, FusedPromise!Seen)
<1> DEFINE z == LoadInputs(CommittedSlots)
           m == FusedPromise!Now
           seen == FusedPromise!Seen
<1>1. /\ CommittedSlots \in [Names -> Good]
      /\ \A s \in Scalars : CommittedSlots[s] = FusedState(s)
    BY CommittedSlotsAre, Zenon DEF SlotSets
<1>2. \A i \in Inputs : fctx[i] = Lookup(fctx, i) /\ fctx[i] \in Good
    BY ContextIs, Zenon DEF FusedInv, InputsMissing
<1>3. z = [n \in Names |-> IF n \in Inputs THEN fctx[n] ELSE CommittedSlots[n]]
    BY <1>1, Zenon DEF LoadInputs
<1>4. z \in SlotSets
    BY <1>1, <1>2, <1>3, Zenon DEF SlotSets
<1>5. /\ m \in [Names -> Results] /\ Solves(m, seen)
      /\ \A n \in Inputs : m[n] = Lookup(fctx, n)
      /\ \A n \in Scalars : m[n] = FusedState(n)
    BY FusedNowIs, Zenon
<1>6. \A n \in Inputs \cup Scalars : m[n] = z[n]
    BY <1>1, <1>2, <1>3, <1>5, NamesApart, Zenon
<1>7. AllExecuted <=> \A b \in Bindings : Outcome(b, m, seen) # Fault
    BY Zenon DEF AllExecuted
<1>8. updates \in [Updated -> Good]
    BY Zenon DEF FusedInv
<1> HIDE DEF z, m, seen
<1>9. /\ Execute(z) \in ExecState
      /\ Execute(z).err = "ok" <=> \A b \in Bindings : Outcome(b, m, seen) # Fault
      /\ \A n \in Inputs \cup Scalars : Execute(z).slots[n] = z[n]
      /\ Execute(z).err = "ok" => \A n \in Lets : Execute(z).slots[n] = m[n]
      /\ Execute(z).err = "ok" => \A u \in Updated : Execute(z).updates[u] = Outcome(u, m, seen)
    BY <1>4, <1>5, <1>6, <1>8, ExecuteIs
<1>10. r = Execute(z)
    BY Zenon DEF z
<1>11. \A s \in Scalars : r.slots[s] = FusedState(s)
    BY <1>5, <1>6, <1>9, <1>10, Zenon
<1>12. AllExecuted => \A n \in Names : r.slots[n] = m[n]
    BY <1>6, <1>7, <1>9, <1>10, FusedNames, Zenon DEF Known
<1> QED BY <1>7, <1>9, <1>10, <1>11, <1>12, Zenon DEF m, seen

\* Context writes of states and lets leave the inputs as they are.
LEMMA OverlayIs ==
    ASSUME ProgramAssumption, NEW c \in Contexts, NEW D, D \subseteq Scalars \cup Lets, NEW g \in [D -> Good]
    PROVE  /\ Overlay(c, g) \in Contexts
           /\ \A i \in Inputs : Lookup(Overlay(c, g), i) = Lookup(c, i)
<1>1. DOMAIN c \subseteq Known /\ Scalars \subseteq DOMAIN c /\ c \in [DOMAIN c -> Good]
    BY ContextIs, Zenon
<1> DEFINE E == DOMAIN c \cup D
<1>2. Overlay(c, g) = [x \in E |-> IF x \in D THEN g[x] ELSE c[x]]
    BY Zenon DEF Overlay
<1>3. Overlay(c, g) \in [E -> Good]
    BY <1>1, <1>2, Zenon
<1>4. E \subseteq Known /\ Scalars \subseteq E
    BY <1>1, Zenon DEF Known
<1>5. Overlay(c, g) \in Contexts
    BY <1>3, <1>4, Zenon DEF Contexts
<1>6. ASSUME NEW i \in Inputs PROVE Lookup(Overlay(c, g), i) = Lookup(c, i)
    <2>1. i \notin D
        BY NamesApart, Zenon
    <2> QED BY <1>2, <2>1, Zenon DEF Lookup
<1> QED BY <1>5, <1>6, Zenon

\* A tick of either kind keeps the shape of the session and is a tick of ModelTick.
LEMMA FusedTickImplements ==
    ASSUME ProgramAssumption, FusedAssumption, Topological(Source), InputsNeeded, FusedInv,
           NEW materialize \in BOOLEAN, TickFused(materialize)
    PROVE  /\ FusedInv'
           /\ FusedPromise!Tick \/ FusedPromise!FailedTick
           /\ AllExecuted => FusedPromise!Tick
           /\ ~AllExecuted => FusedPromise!FailedTick
<1> DEFINE run == Execute(LoadInputs(CommittedSlots))
           commits == IF materialize THEN WriteCommits(fctx) ELSE fctx
           U(s) == Outcome(s, FusedPromise!Now, FusedPromise!Seen)
<1>1. IF InputsMissing \/ run.err = "failed"
      THEN /\ slots' = IF InputsMissing THEN CommittedSlots ELSE run.slots
           /\ updates' = IF InputsMissing THEN updates ELSE run.updates
           /\ staged' = [s \in Updated |-> None]
           /\ fctx' = commits
           /\ fok' = FALSE
           /\ UNCHANGED foutputs
      ELSE /\ slots' = run.slots
           /\ updates' = run.updates
           /\ staged' = run.updates
           /\ fctx' = IF materialize THEN WriteExports(commits, run.slots) ELSE commits
           /\ foutputs' = RefreshFused(run.slots, run.updates)
           /\ fok' = TRUE
    BY Zenon DEF TickFused
<1>2. /\ ~InputsMissing => run \in ExecState
      /\ ~InputsMissing => (run.err = "ok" <=> AllExecuted)
      /\ ~InputsMissing => \A s \in Scalars : run.slots[s] = FusedState(s)
      /\ AllExecuted => ~InputsMissing
      /\ AllExecuted => \A n \in Names : run.slots[n] = FusedPromise!Now[n]
      /\ AllExecuted => \A u \in Updated : run.updates[u] = U(u)
    BY FusedRuns, MissingFails, Zenon
<1>3. /\ CommittedSlots \in SlotSets
      /\ \A s \in Scalars : CommittedSlots[s] = FusedState(s)
    BY CommittedSlotsAre, Zenon
<1>4. /\ commits \in Contexts
      /\ \A i \in Inputs : Lookup(commits, i) = Lookup(fctx, i)
    <2> DEFINE D == {s \in Updated : staged[s] # None}
               g == [n \in D |-> staged[n]]
    <2>1. D \subseteq Scalars \cup Lets
        BY FusedNames, Zenon
    <2>2. g \in [D -> Good]
        BY Zenon DEF FusedInv
    <2>3. WriteCommits(fctx) = Overlay(fctx, g) /\ fctx \in Contexts
        BY Zenon DEF WriteCommits, FusedInv
    <2> HIDE DEF D, g
    <2>4. /\ Overlay(fctx, g) \in Contexts
          /\ \A i \in Inputs : Lookup(Overlay(fctx, g), i) = Lookup(fctx, i)
        BY <2>1, <2>2, <2>3, OverlayIs, Zenon
    <2> QED BY <2>3, <2>4, Zenon
<1> HIDE DEF commits, run, U
<1>5. run \in ExecState => run.slots \in SlotSets /\ run.updates \in [Updated -> Good]
                           /\ run.err \in {"ok", "failed"}
    BY Zenon DEF ExecState
<1>6. FusedPromise!Succeeds <=> AllExecuted
    BY FusedSucceedsIs, Zenon
<1>7. FusedPromise!Scalars = Scalars /\ FusedPromise!Histories = Histories
    BY Zenon DEF FusedPromise!Scalars, Scalars, FusedPromise!Histories, Histories,
                 FusedPromise!Lookbacks, Lookbacks, FusedPromise!Sampled, Sampled
<1>8. Buffers = {} /\ Histories = {}
    BY FusedNames, Zenon
<1>9. CASE AllExecuted
    <2>1. ~InputsMissing /\ run \in ExecState /\ run.err = "ok"
        BY <1>2, <1>9, Zenon
    <2>2. /\ slots' = run.slots /\ updates' = run.updates /\ staged' = run.updates
          /\ fctx' = IF materialize THEN WriteExports(commits, run.slots) ELSE commits
          /\ foutputs' = RefreshFused(run.slots, run.updates)
          /\ fok' = TRUE
        BY <1>1, <2>1, Zenon
    <2>3. /\ fctx' \in Contexts
          /\ \A i \in Inputs : Lookup(fctx', i) = Lookup(fctx, i)
        <3> DEFINE g == [o \in Exports |-> run.slots[o]]
        <3>1. Exports \subseteq Scalars \cup Lets
            BY Zenon DEF Exports, ProgramAssumption
        <3>2. g \in [Exports -> Good]
            BY <1>5, <2>1, <3>1, NamesApart, Zenon DEF SlotSets
        <3>3. WriteExports(commits, run.slots) = Overlay(commits, g)
            BY Zenon DEF WriteExports
        <3> HIDE DEF g
        <3>4. /\ Overlay(commits, g) \in Contexts
              /\ \A i \in Inputs : Lookup(Overlay(commits, g), i) = Lookup(commits, i)
            BY <1>4, <3>1, <3>2, OverlayIs, Zenon
        <3> QED BY <1>4, <2>2, <3>3, <3>4, Zenon
    <2>4. FusedInv'
        BY <1>5, <2>1, <2>2, <2>3, Zenon DEF FusedInv, Contexts, Known, Good, SlotSets
    <2>5. [i \in Inputs |-> Lookup(fctx, i)]' = [i \in Inputs |-> Lookup(fctx, i)]
        BY <2>3, Zenon
    <2>6. [s \in Scalars |-> FusedState(s)]' =
            [s \in Scalars |-> IF s \in Updated THEN U(s) ELSE FusedState(s)]
        <3>1. ASSUME NEW s \in Scalars
              PROVE  FusedState(s)' = IF s \in Updated THEN U(s) ELSE FusedState(s)
            <4>1. s \in Updated => run.updates[s] # None
                BY <1>5, <2>1, SpecialValues, Zenon
            <4> QED BY <1>2, <1>9, <2>1, <2>2, <4>1, Zenon DEF FusedState
        <3> QED BY <3>1, Zenon
    <2>7. foutputs' = [o \in Outputs |->
                         Shown(foutputs[o], IF o \in Updated THEN U(o) ELSE FusedPromise!Now[o])]
        <3>1. \A o \in Outputs : o \in Names
            BY NamesApart, Zenon DEF ProgramAssumption
        <3> QED BY <1>2, <1>9, <2>2, <3>1, Zenon DEF RefreshFused
    <2>8. \A s : FusedPromise!Update(s) = U(s)
        BY FusedPromiseIs, Zenon DEF U
    <2>9. [s \in Scalars |-> FusedState(s)]' =
            [s \in FusedPromise!Scalars |->
               IF s \in Updated THEN FusedPromise!Update(s) ELSE [x \in Scalars |-> FusedState(x)][s]]
        BY <1>7, <2>6, <2>8, Zenon
    <2>10. foutputs' = [o \in Outputs |-> FusedPromise!Shown(foutputs[o],
                          IF o \in Updated THEN FusedPromise!Update(o) ELSE FusedPromise!Now[o])]
        BY <2>7, <2>8, Zenon DEF Shown, FusedPromise!Shown
    <2>11. [b \in Buffers |-> <<>>] = [b \in Buffers |->
             FusedPromise!Newest([x \in Buffers |-> <<>>][b], FusedPromise!Update(b), Capacity)]
        BY <1>8, Zenon
    <2>12. [n \in Histories |-> <<>>] = [n \in FusedPromise!Histories |->
             FusedPromise!Newest([x \in Histories |-> <<>>][n], FusedPromise!Now[n], FusedPromise!Depth[n])]
        BY <1>7, <1>8, Zenon
    <2>13. FusedPromise!Tick
        BY <1>6, <1>9, <2>2, <2>5, <2>9, <2>10, <2>11, <2>12, Zenon DEF FusedPromise!Tick
    <2> QED BY <1>9, <2>4, <2>13, Zenon
<1>10. CASE ~AllExecuted
    <2>1. InputsMissing \/ run.err = "failed"
        BY <1>2, <1>5, <1>10, Zenon
    <2>2. /\ slots' = IF InputsMissing THEN CommittedSlots ELSE run.slots
          /\ updates' = IF InputsMissing THEN updates ELSE run.updates
          /\ staged' = [s \in Updated |-> None]
          /\ fctx' = commits /\ fok' = FALSE /\ foutputs' = foutputs
        BY <1>1, <2>1, Zenon
    <2>3. slots' \in SlotSets /\ updates' \in [Updated -> Good]
        BY <1>2, <1>3, <1>5, <2>2, Zenon DEF FusedInv
    <2>4. FusedInv'
        BY <1>4, <2>2, <2>3, Zenon DEF FusedInv, Contexts, Known, Good, SlotSets
    <2>5. [i \in Inputs |-> Lookup(fctx, i)]' = [i \in Inputs |-> Lookup(fctx, i)]
        BY <1>4, <2>2, Zenon
    <2>6. [s \in Scalars |-> FusedState(s)]' = [s \in Scalars |-> FusedState(s)]
        <3>1. ASSUME NEW s \in Scalars PROVE FusedState(s)' = FusedState(s)
            BY <1>2, <1>3, <2>2, Zenon DEF FusedState
        <3> QED BY <3>1, Zenon
    <2>7. FusedPromise!FailedTick
        BY <1>6, <1>10, <2>2, <2>5, <2>6, Zenon DEF FusedPromise!FailedTick
    <2> QED BY <1>10, <2>4, <2>7, Zenon
<1> QED BY <1>9, <1>10, Zenon

\* A new fused session is an initial state of ModelTick.
LEMMA FusedStarts ==
    ASSUME ProgramAssumption, FusedAssumption, FusedInit
    PROVE  FusedInv /\ FusedPromise!Init
<1>1. /\ fctx = Default /\ slots = NewSlots
      /\ updates = [s \in Updated |-> Zero] /\ staged = [s \in Updated |-> None]
      /\ foutputs = [o \in Outputs |-> NoOutput] /\ fok = TRUE
    BY Zenon DEF FusedInit
<1>2. Default \in [Scalars -> Numbers] /\ Numbers # {} /\ Numbers \subseteq Good
    BY SpecialValues, Zenon DEF ProgramAssumption
<1>3. Zero \in Good
    BY <1>2, Zenon DEF Zero
<1>4. fctx \in Contexts
    <2>1. Default \in [Scalars -> Good] /\ Scalars \in SUBSET Known
        BY <1>2, Zenon DEF Known
    <2> QED BY <1>1, <2>1, Zenon DEF Contexts
<1>5. slots \in SlotSets
    BY <1>1, <1>2, <1>3, Zenon DEF NewSlots, SlotSets
<1>6. FusedInv
    BY <1>1, <1>3, <1>4, <1>5, Zenon DEF FusedInv
<1>7. [i \in Inputs |-> Lookup(fctx, i)] = [i \in Inputs |-> Fault]
    <2>1. \A i \in Inputs : i \notin DOMAIN fctx
        BY <1>1, <1>2, NamesApart, Zenon
    <2> QED BY <2>1, Zenon DEF Lookup
<1>8. [s \in Scalars |-> FusedState(s)] = Default
    <2>1. ASSUME NEW s \in Scalars PROVE FusedState(s) = Default[s]
        BY <1>1, <1>2, NamesApart, Zenon DEF FusedState, NewSlots
    <2> QED BY <1>2, <2>1, Zenon
<1>9. FusedPromise!Init
    BY <1>1, <1>7, <1>8, Zenon
       DEF FusedPromise!Init, FusedPromise!Fault, Fault, FusedPromise!Histories, Histories,
           FusedPromise!Lookbacks, Lookbacks, FusedPromise!Sampled, Sampled,
           FusedPromise!NoOutput, NoOutput, FusedPromise!None, None
<1> QED BY <1>6, <1>9, Zenon

\* Writing an input is the abstract write.
LEMMA FusedSetInputImplements ==
    ASSUME ProgramAssumption, FusedInv, NEW i \in Inputs, NEW v \in Numbers, FusedSetInput(i, v)
    PROVE  /\ FusedInv' /\ FusedPromise!SetInput
           /\ TheFusedInputs' = [TheFusedInputs EXCEPT ![i] = v]
           /\ TheFusedStates' = TheFusedStates
<1>1. /\ fctx' = Assign(fctx, i, v)
      /\ UNCHANGED <<slots, updates, staged, foutputs, fok>>
    BY Zenon DEF FusedSetInput
<1>2. fctx \in Contexts /\ i \in Known /\ v \in Good
    BY SpecialValues, Zenon DEF FusedInv, Known
<1>3. /\ fctx' \in Contexts
      /\ \A x : Lookup(fctx', x) = IF x = i THEN v ELSE Lookup(fctx, x)
    BY <1>1, <1>2, AssignIs
<1>4. FusedInv'
    BY <1>1, <1>3, Zenon DEF FusedInv
<1>5. TheFusedInputs' = [TheFusedInputs EXCEPT ![i] = v]
    BY <1>3, Zenon DEF TheFusedInputs
<1>6. TheFusedStates' = TheFusedStates
    BY <1>1, Zenon DEF TheFusedStates, FusedState
<1>7. FusedPromise!SetInput
    BY <1>1, <1>5, <1>6, Zenon DEF FusedPromise!SetInput, TheFusedInputs, TheFusedStates
<1> QED BY <1>4, <1>5, <1>6, <1>7, Zenon

\* Every step of a fused session is a step of ModelTick.
LEMMA FusedStep ==
    ASSUME ProgramAssumption, FusedAssumption, Topological(Source), InputsNeeded
    PROVE  FusedInv /\ [FusedNext]_fusedVars => FusedInv' /\ [FusedPromise!Next]_FusedPromise!vars
<1> SUFFICES ASSUME FusedInv, [FusedNext]_fusedVars
             PROVE  FusedInv' /\ [FusedPromise!Next]_FusedPromise!vars
    OBVIOUS
<1>1. ASSUME NEW i \in Inputs, NEW v \in Numbers, FusedSetInput(i, v)
      PROVE  FusedInv' /\ FusedPromise!Next
    BY <1>1, FusedSetInputImplements, Zenon DEF FusedPromise!Next
<1>2. ASSUME NEW materialize \in BOOLEAN, TickFused(materialize)
      PROVE  FusedInv' /\ FusedPromise!Next
    BY <1>2, FusedTickImplements, Zenon DEF FusedPromise!Next
<1>3. CASE UNCHANGED fusedVars
    <2>1. UNCHANGED <<fctx, slots, updates, staged, foutputs, fok>>
        BY <1>3, Zenon DEF fusedVars
    <2>2. FusedInv'
        BY <2>1, Zenon DEF FusedInv
    <2>3. UNCHANGED FusedPromise!vars
        BY <2>1, Zenon DEF FusedPromise!vars, FusedState
    <2> QED BY <2>2, <2>3, Zenon
<1> QED BY <1>1, <1>2, <1>3, Zenon DEF FusedNext, FusedTick, FusedTickFast

(* For every program that can be fused and is written in dependency order, with
   every declared input read by a binding that cannot do without it, a session of
   the fused backend (cxpr_model_session_tick_fused) implements ModelTick, however
   ticks that materialize and fast ticks mix. *)
THEOREM FusedImplementsTick ==
    ASSUME ProgramAssumption, FusedAssumption, Topological(Source), InputsNeeded
    PROVE  FusedSpec => FusedKeepsPromise
<1>1. FusedInit => FusedInv /\ FusedPromise!Init
    BY FusedStarts, Zenon
<1>2. FusedInv /\ [FusedNext]_fusedVars => FusedInv' /\ [FusedPromise!Next]_FusedPromise!vars
    BY FusedStep, Zenon
<1> QED BY <1>1, <1>2, PTL DEF FusedSpec, FusedKeepsPromise, FusedPromise!Spec

-----------------------------------------------------------------------------
(* The two backends side by side *)

(* What the two sessions have in common. *)
SameSession ==
    /\ ok = fok /\ outputs = foutputs
    /\ TheInputs = TheFusedInputs /\ TheStates = TheFusedStates

BackendsInv == SessionInv /\ FusedInv /\ SameSession

\* A model that can be fused has nothing to capture.
LEMMA NothingCaptured ==
    ASSUME ProgramAssumption, FusedAssumption
    PROVE  CapturesSucceed
  BY FusedNames, Zenon DEF CapturesSucceed

\* Sessions that hold the same give the names of a tick the same meaning.
LEMMA SameMeaning ==
    ASSUME ProgramAssumption, FusedAssumption, BackendsInv
    PROVE  /\ Promise!Now = FusedPromise!Now
           /\ \A b : Outcome(b, Promise!Now, Promise!Seen) = Outcome(b, FusedPromise!Now, FusedPromise!Seen)
           /\ AllComputed <=> AllExecuted
<1>1. Promise!Seen \in [Sampled -> Good] /\ FusedPromise!Seen \in [Sampled -> Results]
    BY SeenIs, FusedPromiseIs, Zenon DEF BackendsInv
<1>2. Promise!Seen = FusedPromise!Seen
    BY <1>1, FusedNames
<1>3. Promise!Now = FusedPromise!Now
    BY <1>2, PromiseIs, FusedPromiseIs, Zenon DEF BackendsInv, SameSession
<1> QED BY <1>2, <1>3, Zenon DEF AllComputed, AllExecuted

\* What a tick of ModelTick does to each of the two sessions.
LEMMA TickOf ==
    /\ Promise!Tick =>
         /\ TheInputs' = TheInputs
         /\ TheStates' = [s \in Scalars |-> IF s \in Updated THEN Outcome(s, Promise!Now, Promise!Seen)
                                            ELSE TheStates[s]]
         /\ outputs' = [o \in Outputs |->
              Shown(outputs[o], IF o \in Updated THEN Outcome(o, Promise!Now, Promise!Seen)
                                ELSE Promise!Now[o])]
         /\ ok' = TRUE
    /\ Promise!FailedTick =>
         TheInputs' = TheInputs /\ TheStates' = TheStates /\ outputs' = outputs /\ ok' = FALSE
<1>1. \A s : Promise!Update(s) = Outcome(s, Promise!Now, Promise!Seen)
    BY PromiseIs, Zenon
<1>2. Promise!Scalars = Scalars
    BY Zenon DEF Promise!Scalars, Scalars
<1>3. ASSUME Promise!Tick
      PROVE  /\ TheInputs' = TheInputs
             /\ TheStates' = [s \in Promise!Scalars |-> IF s \in Updated THEN Promise!Update(s)
                                                        ELSE TheStates[s]]
             /\ outputs' = [o \in Outputs |->
                  Promise!Shown(outputs[o], IF o \in Updated THEN Promise!Update(o) ELSE Promise!Now[o])]
             /\ ok' = TRUE
    BY <1>3, Zenon DEF Promise!Tick, TheInputs, TheStates
<1>4. ASSUME Promise!FailedTick
      PROVE  TheInputs' = TheInputs /\ TheStates' = TheStates /\ outputs' = outputs /\ ok' = FALSE
    BY <1>4, Zenon DEF Promise!FailedTick, TheInputs, TheStates
<1> QED BY <1>1, <1>2, <1>3, <1>4, Zenon DEF Shown, Promise!Shown

\* The same of the fused session.
LEMMA FusedTickOf ==
    ASSUME ProgramAssumption, FusedAssumption
    PROVE
    /\ FusedPromise!Tick =>
         /\ TheFusedInputs' = TheFusedInputs
         /\ TheFusedStates' =
              [s \in Scalars |-> IF s \in Updated THEN Outcome(s, FusedPromise!Now, FusedPromise!Seen)
                                 ELSE TheFusedStates[s]]
         /\ foutputs' = [o \in Outputs |->
              Shown(foutputs[o], IF o \in Updated THEN Outcome(o, FusedPromise!Now, FusedPromise!Seen)
                                 ELSE FusedPromise!Now[o])]
         /\ fok' = TRUE
    /\ FusedPromise!FailedTick =>
         /\ TheFusedInputs' = TheFusedInputs /\ TheFusedStates' = TheFusedStates
         /\ foutputs' = foutputs /\ fok' = FALSE
<1>1. \A s : FusedPromise!Update(s) = Outcome(s, FusedPromise!Now, FusedPromise!Seen)
    BY FusedPromiseIs, Zenon
<1>2. FusedPromise!Scalars = Scalars
    BY Zenon DEF FusedPromise!Scalars, Scalars
<1>3. ASSUME FusedPromise!Tick
      PROVE  /\ TheFusedInputs' = TheFusedInputs
             /\ TheFusedStates' = [s \in FusedPromise!Scalars |->
                  IF s \in Updated THEN FusedPromise!Update(s) ELSE TheFusedStates[s]]
             /\ foutputs' = [o \in Outputs |-> FusedPromise!Shown(foutputs[o],
                  IF o \in Updated THEN FusedPromise!Update(o) ELSE FusedPromise!Now[o])]
             /\ fok' = TRUE
    BY <1>3, Zenon DEF FusedPromise!Tick, TheFusedInputs, TheFusedStates
<1>4. ASSUME FusedPromise!FailedTick
      PROVE  /\ TheFusedInputs' = TheFusedInputs /\ TheFusedStates' = TheFusedStates
             /\ foutputs' = foutputs /\ fok' = FALSE
    BY <1>4, Zenon DEF FusedPromise!FailedTick, TheFusedInputs, TheFusedStates
<1> QED BY <1>1, <1>2, <1>3, <1>4, Zenon DEF Shown, FusedPromise!Shown

\* New sessions hold the same.
LEMMA BackendsStart ==
    ASSUME ProgramAssumption, FusedAssumption, Init
    PROVE  BackendsInv
<1>1. SessionInit /\ FusedInit
    BY Zenon DEF Init
<1>2. SessionInv /\ FusedInv /\ Promise!Init /\ FusedPromise!Init
    BY <1>1, SessionStarts, FusedStarts, Zenon
<1>3. /\ TheInputs = [i \in Inputs |-> Promise!Fault] /\ TheStates = Default
      /\ TheFusedInputs = [i \in Inputs |-> FusedPromise!Fault] /\ TheFusedStates = Default
    BY <1>2, Zenon DEF Promise!Init, FusedPromise!Init, TheInputs, TheStates, TheFusedInputs, TheFusedStates
<1>4. Promise!Fault = FusedPromise!Fault
    BY Zenon DEF Promise!Fault, FusedPromise!Fault
<1>5. ok = fok /\ outputs = foutputs
    BY <1>1, Zenon DEF SessionInit, FusedInit
<1> QED BY <1>2, <1>3, <1>4, <1>5, Zenon DEF BackendsInv, SameSession

\* One tick of both sessions, the fused one of either kind.
LEMMA BackendsTick ==
    ASSUME ProgramAssumption, CaptureAssumption, FusedAssumption, Topological(Source), InputsNeeded,
           BackendsInv, SessionTick, NEW materialize \in BOOLEAN, TickFused(materialize)
    PROVE  BackendsInv'
<1>1. SessionInv /\ FusedInv /\ SameSession /\ CapturesSucceed
    BY NothingCaptured, Zenon DEF BackendsInv
<1>2. SessionInv' /\ FusedInv'
    BY <1>1, TickKeeps, FusedTickImplements, Zenon
<1>3. /\ AllComputed => Promise!Tick
      /\ ~AllComputed => Promise!FailedTick
      /\ AllExecuted => FusedPromise!Tick
      /\ ~AllExecuted => FusedPromise!FailedTick
    BY <1>1, TickSucceeds, TickFails, FusedTickImplements, Zenon
<1>4. /\ Promise!Now = FusedPromise!Now
      /\ \A b : Outcome(b, Promise!Now, Promise!Seen) = Outcome(b, FusedPromise!Now, FusedPromise!Seen)
      /\ AllComputed <=> AllExecuted
    BY SameMeaning, Zenon
<1>5. CASE AllComputed
    BY <1>1, <1>2, <1>3, <1>4, <1>5, TickOf, FusedTickOf, Zenon DEF BackendsInv, SameSession
<1>6. CASE ~AllComputed
    BY <1>1, <1>2, <1>3, <1>4, <1>6, TickOf, FusedTickOf, Zenon DEF BackendsInv, SameSession
<1> QED BY <1>5, <1>6, Zenon

\* Every step of the pair keeps them alike.
LEMMA BackendsStep ==
    ASSUME ProgramAssumption, CaptureAssumption, FusedAssumption, Topological(Source), InputsNeeded
    PROVE  BackendsInv /\ [Next]_vars => BackendsInv'
<1> SUFFICES ASSUME BackendsInv, [Next]_vars PROVE BackendsInv'
    OBVIOUS
<1>1. ASSUME NEW i \in Inputs, NEW v \in Numbers, SetInput(i, v) PROVE BackendsInv'
    <2>1. SessionSetInput(i, v) /\ FusedSetInput(i, v) /\ SessionInv /\ FusedInv /\ SameSession
        BY <1>1, Zenon DEF SetInput, BackendsInv
    <2>2. /\ SessionInv'
          /\ TheInputs' = [TheInputs EXCEPT ![i] = v] /\ TheStates' = TheStates
        BY <2>1, SetInputImplements, Zenon
    <2>3. /\ FusedInv'
          /\ TheFusedInputs' = [TheFusedInputs EXCEPT ![i] = v] /\ TheFusedStates' = TheFusedStates
        BY <2>1, FusedSetInputImplements, Zenon
    <2>4. outputs' = outputs /\ foutputs' = foutputs /\ ok' = ok /\ fok' = fok
        BY <2>1, Zenon DEF SessionSetInput, FusedSetInput
    <2> QED BY <2>1, <2>2, <2>3, <2>4, Zenon DEF BackendsInv, SameSession
<1>2. CASE Tick
    BY <1>2, BackendsTick, Zenon DEF Tick, FusedTick
<1>3. CASE TickFast
    BY <1>3, BackendsTick, Zenon DEF TickFast, FusedTickFast
<1>4. CASE UNCHANGED vars
    BY <1>4, Zenon DEF vars, sessionVars, fusedVars, BackendsInv, SessionInv, FusedInv, SameSession, Distinct,
                TheInputs, TheStates, TheFusedInputs, TheFusedStates, Committed, FusedState
<1> QED BY <1>1, <1>2, <1>3, <1>4, Zenon DEF Next

(* For every program that can be fused and is written in dependency order, with
   every declared input needed, the reference and the fused session, given the same
   inputs and ticks, return the same verdicts and hold the same current and previous
   outputs: the parity that hosts use the reference backend for
   (cxpr_model_compiled_select_backend). *)
THEOREM BackendsInParity ==
    ASSUME ProgramAssumption, CaptureAssumption, FusedAssumption, Topological(Source), InputsNeeded
    PROVE  Spec => []BackendsAgree
<1>1. Init => BackendsInv
    BY BackendsStart, Zenon
<1>2. BackendsInv /\ [Next]_vars => BackendsInv'
    BY BackendsStep, Zenon
<1>3. BackendsInv => BackendsAgree
    BY Zenon DEF BackendsInv, SameSession, BackendsAgree
<1> QED BY <1>1, <1>2, <1>3, PTL DEF Spec
=============================================================================
