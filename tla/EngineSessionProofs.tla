------------------------ MODULE EngineSessionProofs ------------------------
(***************************************************************************)
(* Lookback of an engine session is right for every program, every depth   *)
(* and every number of ticks: the invariant relates each ring to the       *)
(* history of all samples since the last reset (Serves), which the lookback *)
(* properties follow from, and not the other way round: a read says nothing *)
(* about where the next append will write.                                 *)
(*                                                                         *)
(* First come lemmas about the engine's circular buffers, for every        *)
(* capacity, every set of samples and every history.  Serves says where    *)
(* each remembered sample lives: the sample of depth d sits at             *)
(* Cell(cap, head, d).  An append moves head so that depth d + 1           *)
(* afterwards is the cell of depth d before.                               *)
(***************************************************************************)
EXTENDS EngineSession, TLAPS

Cell(cap, h, d) == (h + cap - d) % cap
Held(cap, n) == IF n < cap THEN n ELSE cap

(* The ring holds component x of the most recent entries of a history. *)
Serves(r, cap, hist, x) ==
    /\ r.count = Held(cap, Len(hist))
    /\ \A d \in 0..(r.count - 1) : r.buf[Cell(cap, r.head, d)] = hist[Len(hist) - d][x]

(* An index inside the buffer needs no wrap. *)
LEMMA ModSmall == ASSUME NEW cap \in Nat \ {0}, NEW n \in Nat, n < cap PROVE n % cap = n
  OBVIOUS

(* An index less than one lap past the end wraps by subtracting the capacity. *)
LEMMA ModWrap ==
    ASSUME NEW cap \in Nat \ {0}, NEW n \in Nat, cap <= n, n < 2 * cap PROVE n % cap = n - cap
  OBVIOUS

(* Closed form of the index computation of a read (engine_ring_read). *)
LEMMA CellValue ==
    ASSUME NEW cap \in Nat \ {0}, NEW h \in 0..(cap - 1), NEW d \in 0..(cap - 1)
    PROVE  /\ Cell(cap, h, d) = IF d <= h THEN h - d ELSE h + cap - d
           /\ Cell(cap, h, d) \in 0..(cap - 1)
  <1>1. CASE d <= h
    <2>1. h + cap - d \in Nat /\ cap <= h + cap - d /\ h + cap - d < 2 * cap
      BY <1>1
    <2>2. (h + cap - d) % cap = (h + cap - d) - cap
      BY <2>1, ModWrap, Zenon
    <2> QED BY <1>1, <2>2 DEF Cell
  <1>2. CASE d > h
    <2>1. h + cap - d \in Nat /\ h + cap - d < cap
      BY <1>2
    <2>2. (h + cap - d) % cap = h + cap - d
      BY <2>1, ModSmall, Zenon
    <2> QED BY <1>2, <2>2 DEF Cell
  <1> QED BY <1>1, <1>2

(* Closed form of the head update of an append (engine_ring_append). *)
LEMMA NextHead ==
    ASSUME NEW cap \in Nat \ {0}, NEW h \in 0..(cap - 1)
    PROVE  /\ (h + 1) % cap = IF h + 1 < cap THEN h + 1 ELSE 0
           /\ (h + 1) % cap \in 0..(cap - 1)
  <1>1. CASE h + 1 < cap
    BY <1>1, ModSmall
  <1>2. CASE h + 1 = cap
    <2>1. (h + 1) % cap = (h + 1) - cap
      BY <1>2, ModWrap
    <2> QED BY <1>2, <2>1
  <1> QED BY <1>1, <1>2

(* Depth d + 1 after an append reads the cell of depth d before it, and that
   cell is not the one being overwritten. *)
LEMMA CellShift ==
    ASSUME NEW cap \in Nat \ {0}, NEW h \in 0..(cap - 1), NEW d \in Nat, d + 1 <= cap - 1
    PROVE  /\ Cell(cap, (h + 1) % cap, d + 1) = Cell(cap, h, d)
           /\ Cell(cap, h, d) # (h + 1) % cap
  <1> DEFINE g == (h + 1) % cap
  <1>1. g = (IF h + 1 < cap THEN h + 1 ELSE 0) /\ g \in 0..(cap - 1)
    BY NextHead, Zenon
  <1>2. d \in 0..(cap - 1) /\ d + 1 \in 0..(cap - 1)
    OBVIOUS
  <1> HIDE DEF g
  <1>3. /\ Cell(cap, g, d + 1) = IF d + 1 <= g THEN g - (d + 1) ELSE g + cap - (d + 1)
        /\ Cell(cap, h, d) = IF d <= h THEN h - d ELSE h + cap - d
    BY <1>1, <1>2, CellValue, Zenon
  <1>4. Cell(cap, g, d + 1) = Cell(cap, h, d) /\ Cell(cap, h, d) # g
    BY <1>1, <1>2, <1>3
  <1> QED BY <1>4, Zenon DEF g

(* Counting back from the end of a longer history. *)
LEMMA FromTheEnd ==
    ASSUME NEW n \in Nat, NEW e \in Nat, e < n
    PROVE  n + 1 - (e + 1) = n - e /\ n - e \in 1..n
  OBVIOUS

(* Depth 0 reads the cell under the head. *)
LEMMA CellZero ==
    ASSUME NEW cap \in Nat \ {0}, NEW h \in 0..(cap - 1) PROVE Cell(cap, h, 0) = h
  BY CellValue

(* A freshly allocated ring has recorded nothing. *)
LEMMA NewRingServes ==
    ASSUME NEW cap \in Nat \ {0}, NEW V, NEW x
    PROVE  NewRing(cap) \in RingType(cap, V) /\ Serves(NewRing(cap), cap, <<>>, x)
  BY DEF NewRing, RingType, Serves, Held

(* A reset forgets the samples and leaves the cells (cxpr_engine_session_reset). *)
LEMMA ResetServes ==
    ASSUME NEW cap \in Nat \ {0}, NEW V, NEW x, NEW r \in RingType(cap, V)
    PROVE  RingReset(r) \in RingType(cap, V) /\ Serves(RingReset(r), cap, <<>>, x)
  <1>0. 0 \in 0..(cap - 1) /\ 0 \in 0..cap
    OBVIOUS
  <1>1. RingReset(r) \in RingType(cap, V) /\ RingReset(r).count = 0
    BY <1>0, Zenon DEF RingReset, RingType
  <1> QED BY <1>1 DEF Serves, Held

(* The fields of a ring after an append. *)
LEMMA AppendFields ==
    ASSUME NEW cap \in Nat \ {0}, NEW V, NEW r \in RingType(cap, V), NEW v \in V \cup {NaN}
    PROVE  /\ RingAppend(r, v) \in RingType(cap, V)
           /\ RingAppend(r, v).head = (r.head + 1) % cap
           /\ RingAppend(r, v).buf = [r.buf EXCEPT ![(r.head + 1) % cap] = v]
           /\ RingAppend(r, v).count = IF r.count < cap THEN r.count + 1 ELSE r.count
  <1> DEFINE g == (r.head + 1) % cap
             b == [r.buf EXCEPT ![g] = v]
             c == IF r.count < cap THEN r.count + 1 ELSE r.count
  <1>0. /\ r.cap = cap /\ r.head \in 0..(cap - 1) /\ r.count \in 0..cap
        /\ r.buf \in [0..(cap - 1) -> V \cup {NaN, Garbage}]
    BY Zenon DEF RingType
  <1>1. g \in 0..(cap - 1)
    BY <1>0, NextHead, Zenon
  <1>2. b \in [0..(cap - 1) -> V \cup {NaN, Garbage}] /\ c \in 0..cap
    BY <1>0, <1>1
  <1>3. RingAppend(r, v) = [r EXCEPT !.head = g, !.buf = b, !.count = c]
    BY <1>0, Zenon DEF RingAppend
  <1>4. /\ RingAppend(r, v) \in RingType(cap, V) /\ RingAppend(r, v).head = g
        /\ RingAppend(r, v).buf = b /\ RingAppend(r, v).count = c
    <2> HIDE DEF b, c, g
    <2> DEFINE s == [r EXCEPT !.head = g, !.buf = b, !.count = c]
    <2>1. s \in RingType(cap, V) /\ s.head = g /\ s.buf = b /\ s.count = c
      BY <1>1, <1>2, Zenon DEF RingType
    <2> QED BY <1>3, <2>1, Zenon
  <1> QED BY <1>4, Zenon

(* Filling the slot that was reserved this tick is the same as appending the
   result in the first place: the reservation leaves no trace. *)
LEMMA FillReserved ==
    ASSUME NEW cap \in Nat \ {0}, NEW V, NEW r \in RingType(cap, V),
           NEW v \in V \cup {NaN}, NEW w \in V \cup {NaN}
    PROVE  RingFill(RingAppend(r, w), v) = RingAppend(r, v)
  <1> DEFINE g == (r.head + 1) % cap
  <1>1. r.cap = cap /\ g \in 0..(cap - 1) /\ r.buf \in [0..(cap - 1) -> V \cup {NaN, Garbage}]
    BY NextHead, Zenon DEF RingType
  <1>2. RingAppend(r, w) \in RingType(cap, V) /\ RingAppend(r, w).head = g
        /\ RingAppend(r, w).buf = [r.buf EXCEPT ![g] = w]
    BY AppendFields
  <1> HIDE DEF g
  <1>3. [[r.buf EXCEPT ![g] = w] EXCEPT ![g] = v] = [r.buf EXCEPT ![g] = v]
    BY <1>1, Zenon
  <1> QED BY <1>1, <1>2, <1>3, Zenon DEF RingFill, RingAppend, RingType, g

(* Appending component x of a history's new entry keeps the ring equal to the
   end of the history, also when it overwrites the oldest sample. *)
LEMMA AppendServes ==
    ASSUME NEW cap \in Nat \ {0}, NEW V, NEW r \in RingType(cap, V), NEW S,
           NEW hist \in Seq(S), NEW f \in S, NEW x, f[x] \in V \cup {NaN},
           Serves(r, cap, hist, x)
    PROVE  Serves(RingAppend(r, f[x]), cap, Append(hist, f), x)
  <1> DEFINE g == (r.head + 1) % cap
             a == RingAppend(r, f[x])
             later == Append(hist, f)
  <1>0. /\ r.head \in 0..(cap - 1) /\ r.count \in 0..cap /\ g \in 0..(cap - 1)
        /\ r.buf \in [0..(cap - 1) -> V \cup {NaN, Garbage}]
        /\ r.count = Held(cap, Len(hist)) /\ Len(hist) \in Nat
    BY NextHead DEF RingType, Serves
  <1>1. /\ a.head = g /\ a.buf = [r.buf EXCEPT ![g] = f[x]]
        /\ a.count = IF r.count < cap THEN r.count + 1 ELSE r.count
    BY AppendFields
  <1>2. /\ Len(later) = Len(hist) + 1 /\ later[Len(hist) + 1] = f
        /\ \A i \in 1..Len(hist) : later[i] = hist[i]
    OBVIOUS
  <1> HIDE DEF a, later
  <1>3. a.count = Held(cap, Len(later)) /\ a.count \in 0..cap
    BY <1>0, <1>1, <1>2 DEF Held
  <1>4. ASSUME NEW d \in 0..(a.count - 1)
        PROVE  a.buf[Cell(cap, a.head, d)] = later[Len(later) - d][x]
    <2>0. d \in 0..(cap - 1)
      BY <1>3
    <2>1. CASE d = 0
      <3>1. Cell(cap, a.head, d) = g
        BY <1>0, <1>1, <2>1, CellZero, Zenon
      <3>2. Len(later) - d = Len(hist) + 1
        BY <1>0, <1>2, <2>1
      <3> HIDE DEF g
      <3>3. a.buf[g] = f[x]
        BY <1>0, <1>1, Zenon
      <3> QED BY <1>2, <3>1, <3>2, <3>3, Zenon
    <2>2. CASE d > 0
      <3> DEFINE e == d - 1
      <3>1. e \in Nat /\ e + 1 = d /\ e + 1 <= cap - 1 /\ e \in 0..(cap - 1)
        BY <2>0, <2>2
      <3>2. e \in 0..(r.count - 1) /\ e < Len(hist)
        BY <1>0, <1>1, <1>3, <3>1 DEF Held
      <3> HIDE DEF e
      <3>3. Cell(cap, g, d) = Cell(cap, r.head, e) /\ Cell(cap, r.head, e) # g
        BY <1>0, <3>1, CellShift, Zenon
      <3>4. Cell(cap, r.head, e) \in 0..(cap - 1)
        BY <1>0, <3>1, CellValue, Zenon
      <3> HIDE DEF g
      <3>5. a.buf[Cell(cap, r.head, e)] = r.buf[Cell(cap, r.head, e)]
        BY <1>0, <1>1, <3>3, <3>4, Zenon
      <3>6. r.buf[Cell(cap, r.head, e)] = hist[Len(hist) - e][x]
        BY <3>2, Zenon DEF Serves
      <3>7. Len(later) - d = Len(hist) - e /\ Len(hist) - e \in 1..Len(hist)
        <4>1. Len(later) - d = Len(hist) + 1 - (e + 1)
          BY <1>2, <3>1
        <4>2. Len(hist) \in Nat /\ e \in Nat /\ e < Len(hist)
          BY <1>0, <3>1, <3>2, Zenon
        <4> QED BY <4>1, <4>2, FromTheEnd, Zenon
      <3> QED BY <1>1, <1>2, <3>3, <3>5, <3>6, <3>7, Zenon
    <2> QED BY <2>0, <2>1, <2>2
  <1> QED BY <1>3, <1>4, Zenon DEF Serves, a, later

(* A lookback of any depth returns the sample of that many ticks ago, and NaN
   when there is none: never a cell from before a reset, never unset memory. *)
LEMMA ReadServes ==
    ASSUME NEW cap \in Nat \ {0}, NEW V, NEW r \in RingType(cap, V), NEW hist, NEW x,
           Len(hist) \in Nat, Serves(r, cap, hist, x), NEW d \in Nat
    PROVE  RingRead(r, d) = IF d < Len(hist) /\ d < cap THEN hist[Len(hist) - d][x] ELSE NaN
  <1>1. r.cap = cap /\ r.count = Held(cap, Len(hist))
    BY Zenon DEF RingType, Serves
  <1>2. CASE d < r.count
    <2>1. r.buf[Cell(cap, r.head, d)] = hist[Len(hist) - d][x]
      BY <1>1, <1>2 DEF Serves, Held
    <2> QED BY <1>1, <1>2, <2>1 DEF RingRead, Held, Cell
  <1>3. CASE d >= r.count
    BY <1>1, <1>3 DEF RingRead, Held
  <1> QED BY <1>1, <1>2, <1>3 DEF Held

-----------------------------------------------------------------------------

Filled == Results \cup {NaN}

SourcesServe ==
    /\ pulled \in Seq([Sources -> Samples])
    /\ \A s \in Sources :
           /\ srcRing[s] \in RingType(MaxLookback[s] + 1, Values)
           /\ Serves(srcRing[s], MaxLookback[s] + 1, pulled, s)

ExprsServe ==
    /\ produced \in Seq([Tracked -> Filled])
    /\ \A e \in Tracked :
           /\ exprRing[e] \in RingType(MaxDepth[e] + 1, Results)
           /\ Serves(exprRing[e], MaxDepth[e] + 1, produced, e)

Shape ==
    /\ cursor \in Nat \cup {-1}
    /\ current \in [Sources -> Samples]
    /\ DOMAIN result \subseteq Names
    /\ events \subseteq WatchIds
    /\ ok \in BOOLEAN

IInv == Shape /\ SourcesServe /\ ExprsServe /\ Len(pulled) = Len(produced)

(* Ring capacities are positive, and a tracked expression is an expression. *)
LEMMA Capacities ==
    /\ \A s \in Sources : MaxLookback[s] + 1 \in Nat \ {0}
    /\ \A e \in Tracked : MaxDepth[e] + 1 \in Nat \ {0} /\ e \in Names
  BY SessionAssumption DEF Tracked, Names

(* A fresh session satisfies the invariant. *)
LEMMA InitInv == Init => IInv
  <1> SUFFICES ASSUME Init PROVE IInv
    OBVIOUS
  <1>1. Shape
    BY Zenon DEF Init, Shape, Samples
  <1>2. SourcesServe
    <2>1. ASSUME NEW s \in Sources
          PROVE  /\ NewRing(MaxLookback[s] + 1) \in RingType(MaxLookback[s] + 1, Values)
                 /\ Serves(NewRing(MaxLookback[s] + 1), MaxLookback[s] + 1, <<>>, s)
      BY Capacities, NewRingServes, Zenon
    <2> QED BY <2>1 DEF Init, SourcesServe
  <1>3. ExprsServe
    <2>1. ASSUME NEW e \in Tracked
          PROVE  /\ NewRing(MaxDepth[e] + 1) \in RingType(MaxDepth[e] + 1, Results)
                 /\ Serves(NewRing(MaxDepth[e] + 1), MaxDepth[e] + 1, <<>>, e)
      BY Capacities, NewRingServes, Zenon
    <2> QED BY <2>1 DEF Init, ExprsServe
  <1> QED BY <1>1, <1>2, <1>3, Zenon DEF IInv, Init

(* Hydration appends one sample per source to ring and history alike. *)
LEMMA HydrateServes ==
    ASSUME SourcesServe, NEW sample \in [Sources -> Samples], Hydrate(sample)
    PROVE  SourcesServe' /\ current' \in [Sources -> Samples] /\ Len(pulled') = Len(pulled) + 1
  <1>1. pulled' = Append(pulled, sample) /\ pulled \in Seq([Sources -> Samples])
    BY Zenon DEF Hydrate, SourcesServe
  <1>2. pulled' \in Seq([Sources -> Samples]) /\ Len(pulled') = Len(pulled) + 1
    BY <1>1
  <1>3. ASSUME NEW s \in Sources
        PROVE  /\ srcRing'[s] \in RingType(MaxLookback[s] + 1, Values)
               /\ Serves(srcRing'[s], MaxLookback[s] + 1, pulled', s)
    <2>1. srcRing'[s] = RingAppend(srcRing[s], sample[s])
      BY Zenon DEF Hydrate
    <2>2. sample[s] \in Values \cup {NaN}
      BY Zenon DEF Samples
    <2>3. /\ srcRing[s] \in RingType(MaxLookback[s] + 1, Values)
          /\ Serves(srcRing[s], MaxLookback[s] + 1, pulled, s)
      BY Zenon DEF SourcesServe
    <2>4. MaxLookback[s] + 1 \in Nat \ {0}
      BY Capacities, Zenon
    <2>5. RingAppend(srcRing[s], sample[s]) \in RingType(MaxLookback[s] + 1, Values)
      BY <2>2, <2>3, <2>4, AppendFields, Zenon
    <2>6. Serves(RingAppend(srcRing[s], sample[s]), MaxLookback[s] + 1, Append(pulled, sample), s)
      BY <1>1, <2>2, <2>3, <2>4, AppendServes, Zenon
    <2> QED BY <1>1, <2>1, <2>5, <2>6, Zenon
  <1> QED BY <1>2, <1>3, Zenon DEF SourcesServe, Hydrate

(* Every tracked ring advances by the value its history advances by. *)
LEMMA RecordServes ==
    ASSUME ExprsServe, NEW row \in [Tracked -> Filled],
           exprRing' = [e \in Tracked |-> RingAppend(exprRing[e], row[e])],
           produced' = Append(produced, row)
    PROVE  ExprsServe' /\ Len(produced') = Len(produced) + 1
  <1>1. produced \in Seq([Tracked -> Filled])
    BY Zenon DEF ExprsServe
  <1>2. produced' \in Seq([Tracked -> Filled]) /\ Len(produced') = Len(produced) + 1
    BY <1>1
  <1>3. ASSUME NEW e \in Tracked
        PROVE  /\ exprRing'[e] \in RingType(MaxDepth[e] + 1, Results)
               /\ Serves(exprRing'[e], MaxDepth[e] + 1, produced', e)
    <2>1. exprRing'[e] = RingAppend(exprRing[e], row[e])
      OBVIOUS
    <2>2. row[e] \in Results \cup {NaN}
      BY Zenon DEF Filled
    <2>3. /\ exprRing[e] \in RingType(MaxDepth[e] + 1, Results)
          /\ Serves(exprRing[e], MaxDepth[e] + 1, produced, e)
      BY Zenon DEF ExprsServe
    <2>4. MaxDepth[e] + 1 \in Nat \ {0}
      BY Capacities, Zenon
    <2>5. RingAppend(exprRing[e], row[e]) \in RingType(MaxDepth[e] + 1, Results)
      BY <2>2, <2>3, <2>4, AppendFields, Zenon
    <2>6. Serves(RingAppend(exprRing[e], row[e]), MaxDepth[e] + 1, Append(produced, row), e)
      BY <1>1, <2>2, <2>3, <2>4, AppendServes, Zenon
    <2> QED BY <2>1, <2>5, <2>6, Zenon
  <1> QED BY <1>2, <1>3, Zenon DEF ExprsServe

(* A tick that evaluates: filling the reserved slots records the results. *)
LEMMA EvaluatesInv ==
    ASSUME IInv, NEW c \in Nat, NEW sample \in [Sources -> Samples], NEW res \in Outcomes,
           TickEvaluates(c, sample, res)
    PROVE  IInv'
  <1> DEFINE row == [e \in Tracked |-> res[e]]
  <1>1. res \in [Names -> Results] /\ \A e \in Tracked : res[e] \in Results
    BY Capacities, Zenon DEF Outcomes
  <1>2. row \in [Tracked -> Filled]
    BY <1>1, Zenon DEF Filled
  <1>3. SourcesServe' /\ current' \in [Sources -> Samples] /\ Len(pulled') = Len(pulled) + 1
    BY HydrateServes, Zenon DEF IInv, TickEvaluates
  <1>4. ASSUME NEW e \in Tracked
        PROVE  RingFill(Reserved(e), res[e]) = RingAppend(exprRing[e], row[e])
    <2>1. exprRing[e] \in RingType(MaxDepth[e] + 1, Results) /\ MaxDepth[e] + 1 \in Nat \ {0}
      BY Capacities, Zenon DEF IInv, ExprsServe
    <2>2. res[e] \in Results \cup {NaN} /\ row[e] = res[e] /\ NaN \in Results \cup {NaN}
      BY <1>1, Zenon
    <2>3. RingFill(RingAppend(exprRing[e], NaN), res[e]) = RingAppend(exprRing[e], res[e])
      BY <2>1, <2>2, FillReserved
    <2> QED BY <2>2, <2>3, Zenon DEF Reserved
  <1>5. exprRing' = [e \in Tracked |-> RingAppend(exprRing[e], row[e])]
        /\ produced' = Append(produced, row)
    BY <1>4, Zenon DEF TickEvaluates
  <1>6. ExprsServe' /\ Len(produced') = Len(produced) + 1
    <2> HIDE DEF row
    <2> QED BY <1>2, <1>5, RecordServes, Zenon DEF IInv
  <1>7. Shape'
    <2>1. DOMAIN result' \subseteq Names /\ cursor' \in Nat
      BY <1>1, Zenon DEF TickEvaluates
    <2>2. events' \subseteq WatchIds /\ ok' \in BOOLEAN
      BY Zenon DEF TickEvaluates, Detect
    <2> QED BY <1>3, <2>1, <2>2, Zenon DEF Shape
  <1> QED BY <1>3, <1>6, <1>7, Zenon DEF IInv

(* A tick whose evaluation fails: the reserved slots stay NaN. *)
LEMMA FailsInv ==
    ASSUME IInv, NEW c \in Nat, NEW sample \in [Sources -> Samples], NEW res \in Outcomes,
           NEW k \in 0..(Len(Exprs) - 1), TickFails(c, sample, k, res)
    PROVE  IInv'
  <1> DEFINE row == [e \in Tracked |-> NaN]
  <1>1. row \in [Tracked -> Filled]
    BY Zenon DEF Filled
  <1>2. SourcesServe' /\ current' \in [Sources -> Samples] /\ Len(pulled') = Len(pulled) + 1
    BY HydrateServes, Zenon DEF IInv, TickFails
  <1>3. exprRing' = [e \in Tracked |-> RingAppend(exprRing[e], row[e])]
        /\ produced' = Append(produced, row)
    BY Zenon DEF TickFails, Reserved
  <1>4. ExprsServe' /\ Len(produced') = Len(produced) + 1
    <2> HIDE DEF row
    <2> QED BY <1>1, <1>3, RecordServes, Zenon DEF IInv
  <1>5. Shape'
    <2>1. DOMAIN result' = {Exprs[i] : i \in 1..k}
      BY Zenon DEF TickFails
    <2>2. 1..k \subseteq DOMAIN Exprs
      BY SessionAssumption
    <2>3. DOMAIN result' \subseteq Names
      BY <2>1, <2>2, Zenon DEF Names
    <2> QED BY <1>2, <2>3, Zenon DEF Shape, TickFails
  <1> QED BY <1>2, <1>4, <1>5, Zenon DEF IInv

(* A reset forgets both histories together. *)
LEMMA ResetInv == ASSUME IInv, Reset PROVE IInv'
  <1>1. SourcesServe'
    <2>1. ASSUME NEW s \in Sources
          PROVE  /\ srcRing'[s] \in RingType(MaxLookback[s] + 1, Values)
                 /\ Serves(srcRing'[s], MaxLookback[s] + 1, <<>>, s)
      BY Capacities, ResetServes, Zenon DEF IInv, SourcesServe, Reset
    <2> QED BY <2>1 DEF SourcesServe, Reset
  <1>2. ExprsServe'
    <2>1. ASSUME NEW e \in Tracked
          PROVE  /\ exprRing'[e] \in RingType(MaxDepth[e] + 1, Results)
                 /\ Serves(exprRing'[e], MaxDepth[e] + 1, <<>>, e)
      BY Capacities, ResetServes, Zenon DEF IInv, ExprsServe, Reset
    <2> QED BY <2>1 DEF ExprsServe, Reset
  <1>3. Shape'
    BY Zenon DEF IInv, Shape, Reset
  <1> QED BY <1>1, <1>2, <1>3, Zenon DEF IInv, Reset

(* Every step keeps the invariant. *)
LEMMA StepInv == IInv /\ [Next]_vars => IInv'
  <1> SUFFICES ASSUME IInv, [Next]_vars PROVE IInv'
    OBVIOUS
  <1>1. ASSUME NEW c \in Nat, TickTo(c) PROVE IInv'
    <2>1. PICK sample \in [Sources -> Samples], res \in Outcomes :
              \/ TickEvaluates(c, sample, res)
              \/ \E k \in 0..(Len(Exprs) - 1) : TickFails(c, sample, k, res)
      BY <1>1, Zenon DEF TickTo
    <2> QED BY <2>1, EvaluatesInv, FailsInv, Zenon
  <1>2. CASE Tick
    <2>1. cursor + 1 \in Nat
      BY DEF IInv, Shape
    <2> QED BY <1>1, <1>2, <2>1, Zenon DEF Tick
  <1>3. CASE \E index \in Indices : TickAt(index)
    BY <1>1, <1>3, SessionAssumption, Zenon DEF TickAt
  <1>4. CASE Reset
    BY <1>4, ResetInv, Zenon
  <1>5. CASE UNCHANGED vars
    BY <1>5, Zenon DEF vars, IInv, Shape, SourcesServe, ExprsServe
  <1> QED BY <1>2, <1>3, <1>4, <1>5, Zenon DEF Next

(* The invariant holds in every reachable state of every session. *)
THEOREM Invariance == Spec => []IInv
  BY InitInv, StepInv, PTL DEF Spec

(* The session's state keeps its shape: rings stay in bounds whatever ticks,
   repositionings and resets the host asks for. *)
THEOREM TypeCorrect == Spec => []TypeOK
  <1>1. IInv => TypeOK
    BY Zenon DEF IInv, Shape, SourcesServe, ExprsServe, TypeOK
  <1> QED BY <1>1, Invariance, PTL

(* `source[n]` is the sample of n ticks ago for every depth the program uses,
   every ring capacity and every history (engine_ring_read). *)
THEOREM SourceLookbackCorrect == Spec => []SourceLookback
  <1>1. ASSUME IInv PROVE SourceLookback
    <2> SUFFICES ASSUME NEW s \in Sources, NEW d \in 0..(MaxLookback[s] + 1)
                 PROVE  RingRead(srcRing[s], d)
                          = Sample(Column(pulled, s), MaxLookback[s] + 1, d)
      BY Zenon DEF SourceLookback
    <2>1. /\ srcRing[s] \in RingType(MaxLookback[s] + 1, Values)
          /\ Serves(srcRing[s], MaxLookback[s] + 1, pulled, s)
          /\ MaxLookback[s] + 1 \in Nat \ {0} /\ d \in Nat /\ Len(pulled) \in Nat
      BY <1>1, Capacities DEF IInv, SourcesServe
    <2>2. RingRead(srcRing[s], d) = IF d < Len(pulled) /\ d < MaxLookback[s] + 1
                                    THEN pulled[Len(pulled) - d][s] ELSE NaN
      BY <2>1, ReadServes, Zenon
    <2>3. Len(Column(pulled, s)) = Len(pulled)
          /\ \A i \in 1..Len(pulled) : Column(pulled, s)[i] = pulled[i][s]
      BY <2>1 DEF Column
    <2> QED BY <2>1, <2>2, <2>3 DEF Sample
  <1> QED BY <1>1, Invariance, PTL

(* `expr[n]` is the expression's result of n ticks ago, NaN where that tick
   failed, for every tracked expression and depth. *)
THEOREM ExprLookbackCorrect == Spec => []ExprLookback
  <1>1. ASSUME IInv PROVE ExprLookback
    <2> SUFFICES ASSUME NEW e \in Tracked, NEW d \in 0..(MaxDepth[e] + 1)
                 PROVE  RingRead(exprRing[e], d)
                          = Sample(Column(produced, e), MaxDepth[e] + 1, d)
      BY Zenon DEF ExprLookback
    <2>1. /\ exprRing[e] \in RingType(MaxDepth[e] + 1, Results)
          /\ Serves(exprRing[e], MaxDepth[e] + 1, produced, e)
          /\ MaxDepth[e] + 1 \in Nat \ {0} /\ d \in Nat /\ Len(produced) \in Nat
      BY <1>1, Capacities DEF IInv, ExprsServe
    <2>2. RingRead(exprRing[e], d) = IF d < Len(produced) /\ d < MaxDepth[e] + 1
                                     THEN produced[Len(produced) - d][e] ELSE NaN
      BY <2>1, ReadServes, Zenon
    <2>3. Len(Column(produced, e)) = Len(produced)
          /\ \A i \in 1..Len(produced) : Column(produced, e)[i] = produced[i][e]
      BY <2>1 DEF Column
    <2> QED BY <2>1, <2>2, <2>3 DEF Sample
  <1> QED BY <1>1, Invariance, PTL

(* Sources and expressions stay in step: a lookback of depth n means the same
   tick for both. *)
RingsAligned ==
    \A s \in Sources, e \in Tracked :
        LET bound == IF MaxLookback[s] < MaxDepth[e] THEN MaxLookback[s] ELSE MaxDepth[e]
        IN  (srcRing[s].count > bound) = (exprRing[e].count > bound)

(* A lookback of one depth means the same tick for a source and for a tracked
   expression, also after failed ticks. *)
THEOREM RingsAlignedCorrect == Spec => []RingsAligned
  <1>1. ASSUME IInv PROVE RingsAligned
    <2> SUFFICES ASSUME NEW s \in Sources, NEW e \in Tracked,
                        NEW bound \in {MaxLookback[s], MaxDepth[e]},
                        bound <= MaxLookback[s], bound <= MaxDepth[e]
                 PROVE  (srcRing[s].count > bound) = (exprRing[e].count > bound)
      BY SessionAssumption DEF RingsAligned, Tracked
    <2>1. /\ srcRing[s].count = Held(MaxLookback[s] + 1, Len(pulled))
          /\ exprRing[e].count = Held(MaxDepth[e] + 1, Len(pulled))
          /\ Len(pulled) \in Nat /\ MaxLookback[s] \in Nat /\ MaxDepth[e] \in Nat
      BY <1>1, SessionAssumption DEF IInv, SourcesServe, ExprsServe, Serves, Tracked
    <2> QED BY <2>1 DEF Held
  <1> QED BY <1>1, Invariance, PTL

-----------------------------------------------------------------------------
(* Watches *)

(* Every watched expression evaluates to a bool whenever it evaluates. *)
WatchesYieldBools == \A w \in WatchIds : ResultsOf[Watches[w].expr] \subseteq Truths

(* The state a watch compares with is what the caller was told last. *)
Remembered ==
    /\ told \in [WatchIds -> BOOLEAN]
    /\ prev \in [WatchIds -> [truthy : BOOLEAN, value : {0, 1, NaN}, valid : BOOLEAN]]
    /\ \A w \in WatchIds :
           /\ prev[w].truthy = told[w]
           /\ prev[w].valid => prev[w].value = IF told[w] THEN 1 ELSE 0

(* A tick whose expressions all evaluate passes every watch. *)
LEMMA NoMismatch ==
    ASSUME WatchesYieldBools, NEW res \in Outcomes
    PROVE  Mismatch(res) = {} /\ Reached(res) = WatchIds
  <1>1. ASSUME NEW w \in WatchIds PROVE res[Watches[w].expr] \in Truths
    <2>1. Watches[w].expr \in Names
      BY SessionAssumption, Zenon DEF WatchIds, Names
    <2> QED BY <2>1, Zenon DEF WatchesYieldBools, Outcomes
  <1> QED BY <1>1, Zenon DEF Mismatch, Reached

(* A bool result is remembered as the number it is compared as. *)
LEMMA BoolAsNumber ==
    ASSUME NEW v \in Truths PROVE ValueToDouble(v) = IF v = True THEN 1 ELSE 0
  BY Zenon DEF ValueToDouble, Truths

(* What a tick that evaluates remembers, and what it tells the caller. *)
LEMMA EvaluatesRemembers ==
    ASSUME WatchesYieldBools, NEW c, NEW sample, NEW res \in Outcomes,
           TickEvaluates(c, sample, res)
    PROVE  /\ prev' = [w \in WatchIds |->
                          [truthy |-> res[Watches[w].expr] = True,
                           value |-> IF res[Watches[w].expr] = True THEN 1 ELSE 0, valid |-> TRUE]]
           /\ told' = [w \in WatchIds |-> res[Watches[w].expr] = True]
           /\ events' = {w \in WatchIds : Fires(Watches[w].edge, prev[w], res[Watches[w].expr])}
           /\ \A w \in WatchIds : res[Watches[w].expr] \in Truths
  <1>1. Mismatch(res) = {} /\ Reached(res) = WatchIds
    BY NoMismatch, Zenon
  <1>2. \A w \in WatchIds : res[Watches[w].expr] \in Truths
    BY <1>1, Zenon DEF Mismatch
  <1>3. \A w \in WatchIds : ValueToDouble(res[Watches[w].expr])
                                = IF res[Watches[w].expr] = True THEN 1 ELSE 0
    BY <1>2, BoolAsNumber, Zenon
  <1>4. prev' = [w \in WatchIds |->
                    [truthy |-> res[Watches[w].expr] = True,
                     value |-> ValueToDouble(res[Watches[w].expr]), valid |-> TRUE]]
    BY <1>1, Zenon DEF TickEvaluates, Detect
  <1> QED BY <1>1, <1>2, <1>3, <1>4, Zenon DEF TickEvaluates, Detect

(* The watches' memory is kept by every step. *)
LEMMA RememberedStep ==
    ASSUME WatchesYieldBools, Remembered, [Next]_vars PROVE Remembered'
  <1>1. ASSUME NEW c, TickTo(c) PROVE Remembered'
    <2>1. PICK sample \in [Sources -> Samples], res \in Outcomes :
              \/ TickEvaluates(c, sample, res)
              \/ \E k \in 0..(Len(Exprs) - 1) : TickFails(c, sample, k, res)
      BY <1>1, Zenon DEF TickTo
    <2>2. CASE TickEvaluates(c, sample, res)
      <3>1. /\ prev' = [w \in WatchIds |->
                          [truthy |-> res[Watches[w].expr] = True,
                           value |-> IF res[Watches[w].expr] = True THEN 1 ELSE 0, valid |-> TRUE]]
            /\ told' = [w \in WatchIds |-> res[Watches[w].expr] = True]
        BY <2>2, EvaluatesRemembers
      <3> QED BY <3>1, Zenon DEF Remembered
    <2>3. CASE \E k \in 0..(Len(Exprs) - 1) : TickFails(c, sample, k, res)
      BY <2>3, Zenon DEF TickFails, Remembered
    <2> QED BY <2>1, <2>2, <2>3, Zenon
  <1>2. CASE Reset
    BY <1>2, Zenon DEF Reset, Remembered, NoPrev
  <1>3. CASE UNCHANGED vars
    BY <1>3, Zenon DEF vars, Remembered
  <1> QED BY <1>1, <1>2, <1>3, Zenon DEF Next, Tick, TickAt

(* The transition a watch of an edge kind reports. *)
Transition(edge, valid, was, now) ==
    CASE edge = "rising"  -> now /\ ~was
      [] edge = "falling" -> ~now /\ was
      [] edge = "level"   -> now
      [] edge = "changed" -> valid /\ now # was

(* What a watch remembers of the last truth value it was compared with. *)
WatchMemory(p) ==
    /\ p \in [truthy : BOOLEAN, value : {0, 1, NaN}, valid : BOOLEAN]
    /\ p.valid => p.value = IF p.truthy THEN 1 ELSE 0

(* A watch fires exactly on the transition from what it remembers. *)
LEMMA FiresOnTransition ==
    ASSUME NEW edge \in {"rising", "falling", "level", "changed"}, NEW v \in Truths,
           NEW p, WatchMemory(p)
    PROVE  Fires(edge, p, v) <=> Transition(edge, p.valid, p.truthy, v = True)
  <1>1. ValueToDouble(v) = IF v = True THEN 1 ELSE 0
    BY BoolAsNumber, Zenon
  <1>2. CASE edge = "rising"
    BY <1>2, Zenon DEF Fires, Transition
  <1>3. CASE edge = "falling"
    BY <1>3, Zenon DEF Fires, Transition
  <1>4. CASE edge = "level"
    BY <1>4, Zenon DEF Fires, Transition
  <1>5. CASE edge = "changed"
    <2>1. CASE p.valid
      <3>1. p.truthy \in BOOLEAN /\ p.value = IF p.truthy THEN 1 ELSE 0
        BY <2>1, Zenon DEF WatchMemory
      <3>2. CASE v = True /\ p.truthy
        BY <1>1, <1>5, <2>1, <3>1, <3>2, Zenon DEF Fires, Transition
      <3>3. CASE v = True /\ ~p.truthy
        BY <1>1, <1>5, <2>1, <3>1, <3>3 DEF Fires, Transition
      <3>4. CASE v # True /\ p.truthy
        BY <1>1, <1>5, <2>1, <3>1, <3>4 DEF Fires, Transition
      <3>5. CASE v # True /\ ~p.truthy
        BY <1>1, <1>5, <2>1, <3>1, <3>5, Zenon DEF Fires, Transition
      <3> QED BY <3>2, <3>3, <3>4, <3>5, Zenon
    <2>2. CASE ~p.valid
      BY <1>5, <2>2, Zenon DEF Fires, Transition
    <2> QED BY <2>1, <2>2, Zenon
  <1> QED BY <1>2, <1>3, <1>4, <1>5, Zenon

(* One step of a session whose watches are bools reports transitions only. *)
LEMMA StepTells ==
    ASSUME WatchesYieldBools, IInv, Remembered, Next, ok', Len(pulled') > Len(pulled)
    PROVE  \A w \in WatchIds :
            w \in events' <=>
                CASE Watches[w].edge = "rising"  -> told'[w] /\ ~told[w]
                  [] Watches[w].edge = "falling" -> ~told'[w] /\ told[w]
                  [] Watches[w].edge = "level"   -> told'[w]
                  [] Watches[w].edge = "changed" -> prev[w].valid /\ told'[w] # told[w]
  <1>1. ~Reset
    <2>1. Len(pulled) \in Nat
      BY DEF IInv, SourcesServe
    <2>2. Reset => Len(pulled') = 0
      BY DEF Reset
    <2> QED BY <2>1, <2>2
  <1>2. PICK c : TickTo(c)
    BY <1>1, Zenon DEF Next, Tick, TickAt
  <1>3. PICK sample \in [Sources -> Samples], res \in Outcomes : TickEvaluates(c, sample, res)
    BY <1>2, Zenon DEF TickTo, TickFails
  <1>4. /\ told' = [w \in WatchIds |-> res[Watches[w].expr] = True]
        /\ events' = {w \in WatchIds : Fires(Watches[w].edge, prev[w], res[Watches[w].expr])}
        /\ \A w \in WatchIds : res[Watches[w].expr] \in Truths
    BY <1>3, EvaluatesRemembers
  <1> SUFFICES ASSUME NEW w \in WatchIds
               PROVE  Fires(Watches[w].edge, prev[w], res[Watches[w].expr])
                        <=> Transition(Watches[w].edge, prev[w].valid, told[w], told'[w])
    BY <1>4, Zenon DEF Transition
  <1>5. /\ Watches[w].edge \in {"rising", "falling", "level", "changed"}
        /\ res[Watches[w].expr] \in Truths
    BY <1>4, SessionAssumption, Zenon DEF WatchIds
  <1>6. prev[w].truthy = told[w] /\ WatchMemory(prev[w])
    BY Zenon DEF Remembered, WatchMemory
  <1>7. told'[w] = (res[Watches[w].expr] = True)
    BY <1>4, Zenon
  <1>8. Fires(Watches[w].edge, prev[w], res[Watches[w].expr])
          <=> Transition(Watches[w].edge, prev[w].valid, prev[w].truthy, res[Watches[w].expr] = True)
    BY <1>5, <1>6, FiresOnTransition, Zenon
  <1> QED BY <1>6, <1>7, <1>8, Zenon

(* For every program whose watched expressions are bools, every sequence of
   ticks, failed ticks, repositionings and resets: a successful tick reports
   exactly the transitions since the last successful one, because a tick that
   fails to evaluate leaves the watches' memory alone (cxpr_engine_tick). *)
THEOREM EventsCorrect ==
    ASSUME WatchesYieldBools PROVE Spec => EventsAreTransitions
  <1>1. ASSUME Init PROVE Remembered
    <2>1. told = [w \in WatchIds |-> FALSE] /\ prev = [w \in WatchIds |-> NoPrev]
      BY <1>1, Zenon DEF Init
    <2> QED BY <2>1, Zenon DEF Remembered, NoPrev
  <1>2. Remembered /\ [Next]_vars => Remembered'
    BY RememberedStep, Zenon
  <1>3. IInv /\ Remembered /\ [Next]_vars =>
          [ok' /\ Len(pulled') > Len(pulled) =>
            \A w \in WatchIds :
              w \in events' <=>
                CASE Watches[w].edge = "rising"  -> told'[w] /\ ~told[w]
                  [] Watches[w].edge = "falling" -> ~told'[w] /\ told[w]
                  [] Watches[w].edge = "level"   -> told'[w]
                  [] Watches[w].edge = "changed" -> prev[w].valid /\ told'[w] # told[w]]_vars
    BY StepTells, Zenon
  <1> QED BY <1>1, <1>2, <1>3, Invariance, PTL DEF Spec, EventsAreTransitions

-----------------------------------------------------------------------------
(* A session implements sliding windows *)

(* The read of a held depth after an append: the new sample, or what was one
   depth nearer. *)
LEMMA ReadAfterAppend ==
    ASSUME NEW cap \in Nat \ {0}, NEW V, NEW r \in RingType(cap, V), NEW v \in V \cup {NaN},
           NEW d \in Nat, d < RingAppend(r, v).count
    PROVE  RingRead(RingAppend(r, v), d) = IF d = 0 THEN v ELSE RingRead(r, d - 1)
  <1> DEFINE a == RingAppend(r, v)
             g == (r.head + 1) % cap
  <1>1. /\ r.cap = cap /\ r.head \in 0..(cap - 1) /\ r.count \in 0..cap /\ g \in 0..(cap - 1)
        /\ r.buf \in [0..(cap - 1) -> V \cup {NaN, Garbage}]
    BY NextHead, Zenon DEF RingType
  <1>2. /\ a \in RingType(cap, V) /\ a.head = g /\ a.buf = [r.buf EXCEPT ![g] = v]
        /\ a.count = IF r.count < cap THEN r.count + 1 ELSE r.count
    BY AppendFields
  <1> HIDE DEF a, g
  <1>3. a.cap = cap /\ a.count \in Nat /\ d < a.count /\ d \in 0..(cap - 1)
    BY <1>1, <1>2 DEF RingType, a
  <1>4. RingRead(a, d) = a.buf[Cell(cap, g, d)]
    BY <1>2, <1>3 DEF RingRead, Cell
  <1>5. CASE d = 0
    <2>1. Cell(cap, g, d) = g
      BY <1>1, <1>5, CellZero, Zenon
    <2> QED BY <1>1, <1>2, <1>4, <1>5, <2>1, Zenon DEF a
  <1>6. CASE d > 0
    <2> DEFINE e == d - 1
    <2>1. e \in Nat /\ e + 1 = d /\ e + 1 <= cap - 1 /\ e \in 0..(cap - 1) /\ e < r.count
      BY <1>1, <1>2, <1>3, <1>6
    <2> HIDE DEF e
    <2>2. Cell(cap, g, d) = Cell(cap, r.head, e) /\ Cell(cap, r.head, e) # g
      BY <1>1, <2>1, CellShift, Zenon DEF g
    <2>3. Cell(cap, r.head, e) \in 0..(cap - 1)
      BY <1>1, <2>1, CellValue, Zenon
    <2>4. a.buf[Cell(cap, r.head, e)] = r.buf[Cell(cap, r.head, e)]
      BY <1>1, <1>2, <2>2, <2>3, Zenon
    <2>5. RingRead(r, e) = r.buf[Cell(cap, r.head, e)]
      BY <1>1, <2>1 DEF RingRead, Cell
    <2> QED BY <1>4, <1>6, <2>2, <2>4, <2>5 DEF a, e
  <1> QED BY <1>3, <1>5, <1>6

(* A window is a sequence of what the ring holds. *)
LEMMA WindowIsSeq ==
    ASSUME NEW cap \in Nat \ {0}, NEW V, NEW r \in RingType(cap, V)
    PROVE  /\ WindowOf(r) \in Seq(V \cup {NaN, Garbage})
           /\ Len(WindowOf(r)) = r.count /\ r.count \in 0..cap
           /\ \A i \in 1..r.count : WindowOf(r)[i] = RingRead(r, i - 1)
  <1>1. r.count \in 0..cap /\ r.cap = cap /\ r.head \in 0..(cap - 1)
        /\ r.buf \in [0..(cap - 1) -> V \cup {NaN, Garbage}]
    BY Zenon DEF RingType
  <1>2. ASSUME NEW i \in 1..r.count PROVE RingRead(r, i - 1) \in V \cup {NaN, Garbage}
    <2>1. i - 1 \in 0..(cap - 1) /\ ~(i - 1 >= r.count)
      BY <1>1
    <2>2. Cell(cap, r.head, i - 1) \in 0..(cap - 1)
      BY <1>1, <2>1, CellValue, Zenon
    <2> QED BY <1>1, <2>1, <2>2, Zenon DEF RingRead, Cell
  <1>3. r.count \in Nat /\ WindowOf(r) \in [1..r.count -> V \cup {NaN, Garbage}]
    BY <1>1, <1>2 DEF WindowOf
  <1>4. WindowOf(r) \in Seq(V \cup {NaN, Garbage}) /\ Len(WindowOf(r)) = r.count
    BY <1>3
  <1> QED BY <1>1, <1>4, Zenon DEF WindowOf

(* An append shifts the window by one sample and drops what the ring cannot
   hold. *)
LEMMA AppendShifts ==
    ASSUME NEW cap \in Nat \ {0}, NEW V, NEW r \in RingType(cap, V), NEW v \in V \cup {NaN}
    PROVE  WindowOf(RingAppend(r, v)) = History!Shift(WindowOf(r), v, cap - 1)
  <1> DEFINE S == V \cup {NaN, Garbage}
             a == RingAppend(r, v)
             w == WindowOf(r)
             longer == <<v>> \o w
             n == IF Len(longer) > cap THEN cap ELSE Len(longer)
  <1>2. /\ a \in RingType(cap, V) /\ a.head = (r.head + 1) % cap
        /\ a.buf = [r.buf EXCEPT ![(r.head + 1) % cap] = v]
        /\ a.count = IF r.count < cap THEN r.count + 1 ELSE r.count
    BY AppendFields
  <1>3. /\ w \in Seq(S) /\ Len(w) = r.count /\ r.count \in 0..cap
        /\ \A i \in 1..r.count : w[i] = RingRead(r, i - 1)
    BY WindowIsSeq, Zenon
  <1>4. /\ WindowOf(a) \in Seq(S) /\ Len(WindowOf(a)) = a.count
        /\ \A i \in 1..a.count : WindowOf(a)[i] = RingRead(a, i - 1)
    BY <1>2, WindowIsSeq, Zenon
  <1> HIDE DEF w, S
  <1>5. <<v>> \in Seq(S) /\ Len(<<v>>) = 1 /\ <<v>>[1] = v
    BY DEF S
  <1>6. /\ longer \in Seq(S) /\ Len(longer) = 1 + r.count
        /\ \A i \in 1..(1 + r.count) : longer[i] = IF i <= 1 THEN <<v>>[i] ELSE w[i - 1]
    BY <1>3, <1>5
  <1> HIDE DEF longer
  <1>7. n = a.count /\ n \in Nat /\ n <= Len(longer)
    BY <1>2, <1>3, <1>6
  <1> HIDE DEF n
  <1>8. \A i \in 1..n : longer[i] \in S
    BY <1>6, <1>7
  <1>9. /\ SubSeq(longer, 1, n) \in Seq(S)
        /\ Len(SubSeq(longer, 1, n)) = n
        /\ \A i \in 1..n : SubSeq(longer, 1, n)[i] = longer[i]
    BY <1>7, <1>8
  <1>10. ASSUME NEW i \in 1..n PROVE WindowOf(a)[i] = longer[i]
    <2>1. WindowOf(a)[i] = RingRead(a, i - 1) /\ i - 1 \in Nat /\ i - 1 < a.count
      BY <1>4, <1>7
    <2>2. RingRead(a, i - 1) = IF i - 1 = 0 THEN v ELSE RingRead(r, (i - 1) - 1)
      BY <2>1, ReadAfterAppend
    <2>3. CASE i = 1
      BY <1>5, <1>6, <1>7, <2>1, <2>2, <2>3
    <2>4. CASE i > 1
      <3>1. i - 1 \in 1..r.count /\ i \in 1..(1 + r.count)
        BY <1>2, <1>3, <1>7, <2>4
      <3> QED BY <1>3, <1>6, <2>1, <2>2, <2>4, <3>1
    <2> QED BY <2>3, <2>4
  <1>11. WindowOf(a) = SubSeq(longer, 1, n)
    <2> HIDE DEF a
    <2> QED BY <1>4, <1>7, <1>9, <1>10
  <1>12. (cap - 1) + 1 = cap
    OBVIOUS
  <1> QED BY <1>11, <1>12, Zenon DEF History!Shift, longer, n, w

Depths == [t \in Sources \cup Tracked |-> IF t \in Sources THEN MaxLookback[t] ELSE MaxDepth[t]]
Windows == [t \in Sources \cup Tracked |->
               WindowOf(IF t \in Sources THEN srcRing[t] ELSE exprRing[t])]
Seen == [w \in WatchIds |->
            IF ~prev[w].valid THEN "never" ELSE IF prev[w].truthy THEN "true" ELSE "false"]

(* Every target of lookback advances by one sample when every ring does. *)
LEMMA WindowsShift ==
    ASSUME IInv, NEW sample \in [Sources -> Samples], NEW row \in [Tracked -> Filled],
           srcRing' = [s \in Sources |-> RingAppend(srcRing[s], sample[s])],
           exprRing' = [e \in Tracked |-> RingAppend(exprRing[e], row[e])]
    PROVE  \E v \in [Sources \cup Tracked -> Samples \cup Results] :
               Windows' = [t \in Sources \cup Tracked |->
                              History!Shift(Windows[t], v[t], Depths[t])]
  <1> DEFINE v == [t \in Sources \cup Tracked |-> IF t \in Sources THEN sample[t] ELSE row[t]]
  <1>1. v \in [Sources \cup Tracked -> Samples \cup Results]
    BY Zenon DEF Samples, Filled
  <1>2. ASSUME NEW t \in Sources
        PROVE  WindowOf(srcRing'[t]) = History!Shift(WindowOf(srcRing[t]), sample[t], MaxLookback[t])
    <2>1. srcRing[t] \in RingType(MaxLookback[t] + 1, Values) /\ sample[t] \in Values \cup {NaN}
      BY Zenon DEF IInv, SourcesServe, Samples
    <2>2. MaxLookback[t] + 1 \in Nat \ {0} /\ MaxLookback[t] \in Nat
      BY Capacities, SessionAssumption, Zenon
    <2>3. WindowOf(RingAppend(srcRing[t], sample[t]))
            = History!Shift(WindowOf(srcRing[t]), sample[t], (MaxLookback[t] + 1) - 1)
      BY <2>1, <2>2, AppendShifts, Zenon
    <2>4. (MaxLookback[t] + 1) - 1 = MaxLookback[t]
      BY <2>2
    <2> QED BY <2>3, <2>4, Zenon
  <1>3. ASSUME NEW t \in Tracked
        PROVE  WindowOf(exprRing'[t]) = History!Shift(WindowOf(exprRing[t]), row[t], MaxDepth[t])
    <2>1. exprRing[t] \in RingType(MaxDepth[t] + 1, Results) /\ row[t] \in Results \cup {NaN}
      BY Zenon DEF IInv, ExprsServe, Filled
    <2>2. MaxDepth[t] + 1 \in Nat \ {0} /\ MaxDepth[t] \in Nat
      BY Capacities, SessionAssumption, Zenon DEF Tracked
    <2>3. WindowOf(RingAppend(exprRing[t], row[t]))
            = History!Shift(WindowOf(exprRing[t]), row[t], (MaxDepth[t] + 1) - 1)
      BY <2>1, <2>2, AppendShifts, Zenon
    <2>4. (MaxDepth[t] + 1) - 1 = MaxDepth[t]
      BY <2>2
    <2> QED BY <2>3, <2>4, Zenon
  <1>4. ASSUME NEW t \in Sources \cup Tracked
        PROVE  WindowOf(IF t \in Sources THEN srcRing'[t] ELSE exprRing'[t])
                 = History!Shift(Windows[t], v[t], Depths[t])
    BY <1>2, <1>3, Zenon DEF Windows, Depths
  <1>5. Windows' = [t \in Sources \cup Tracked |-> History!Shift(Windows[t], v[t], Depths[t])]
    <2> HIDE DEF v
    <2> QED BY <1>4, Zenon DEF Windows
  <1> HIDE DEF v
  <1> QED BY <1>1, <1>5, Zenon

(* A watch that was compared once is never unseen again by a tick. *)
LEMMA SeenStep ==
    ASSUME \A w \in WatchIds : prev'[w] = prev[w] \/ prev'[w].valid
    PROVE  /\ Seen' \in [WatchIds -> {"never", "true", "false"}]
           /\ \A w \in WatchIds : Seen'[w] = "never" => Seen[w] = "never"
  BY Zenon DEF Seen

(* A tick, successful or not, is a step of the abstract session. *)
LEMMA TickSteps ==
    ASSUME IInv, NEW c, TickTo(c) PROVE History!Step
  <1>1. PICK sample \in [Sources -> Samples], res \in Outcomes :
            \/ TickEvaluates(c, sample, res)
            \/ \E k \in 0..(Len(Exprs) - 1) : TickFails(c, sample, k, res)
    BY Zenon DEF TickTo
  <1>2. /\ \A w \in WatchIds : prev'[w] = prev[w] \/ prev'[w].valid
        /\ \E row \in [Tracked -> Filled] :
               exprRing' = [e \in Tracked |-> RingAppend(exprRing[e], row[e])]
    <2>1. CASE TickEvaluates(c, sample, res)
      <3> DEFINE row == [e \in Tracked |-> res[e]]
      <3>1. \A e \in Tracked : res[e] \in Results
        BY Capacities, Zenon DEF Outcomes
      <3>2. row \in [Tracked -> Filled]
        BY <3>1, Zenon DEF Filled
      <3>3. ASSUME NEW e \in Tracked
            PROVE  RingFill(Reserved(e), res[e]) = RingAppend(exprRing[e], row[e])
        <4>1. exprRing[e] \in RingType(MaxDepth[e] + 1, Results) /\ MaxDepth[e] + 1 \in Nat \ {0}
          BY Capacities, Zenon DEF IInv, ExprsServe
        <4>2. RingFill(RingAppend(exprRing[e], NaN), res[e]) = RingAppend(exprRing[e], res[e])
          BY <3>1, <4>1, FillReserved
        <4> QED BY <4>2, Zenon DEF Reserved
      <3>4. exprRing' = [e \in Tracked |-> RingAppend(exprRing[e], row[e])]
        BY <2>1, <3>3, Zenon DEF TickEvaluates
      <3>5. \A w \in WatchIds : prev'[w] = prev[w] \/ prev'[w].valid
        BY <2>1, Zenon DEF TickEvaluates, Detect
      <3> HIDE DEF row
      <3> QED BY <3>2, <3>4, <3>5, Zenon
    <2>2. CASE \E k \in 0..(Len(Exprs) - 1) : TickFails(c, sample, k, res)
      <3> DEFINE row == [e \in Tracked |-> NaN]
      <3>1. row \in [Tracked -> Filled]
        BY Zenon DEF Filled
      <3>2. exprRing' = [e \in Tracked |-> RingAppend(exprRing[e], row[e])] /\ prev' = prev
        BY <2>2, Zenon DEF TickFails, Reserved
      <3> HIDE DEF row
      <3> QED BY <3>1, <3>2, Zenon
    <2> QED BY <1>1, <2>1, <2>2, Zenon
  <1>3. srcRing' = [s \in Sources |-> RingAppend(srcRing[s], sample[s])]
    BY <1>1, Zenon DEF TickEvaluates, TickFails, Hydrate
  <1>4. \E v \in [Sources \cup Tracked -> Samples \cup Results] :
            Windows' = [t \in Sources \cup Tracked |-> History!Shift(Windows[t], v[t], Depths[t])]
    BY <1>2, <1>3, WindowsShift, Zenon
  <1>5. /\ Seen' \in [WatchIds -> {"never", "true", "false"}]
        /\ \A w \in WatchIds : Seen'[w] = "never" => Seen[w] = "never"
    BY <1>2, SeenStep, Zenon
  <1> QED BY <1>4, <1>5, Zenon DEF History!Step, Windows, Depths, Seen

(* No sample, no window. *)
LEMMA EmptyWindow == ASSUME NEW r, r.count = 0 PROVE WindowOf(r) = <<>>
  BY DEF WindowOf

(* A session without samples is the initial abstract one. *)
LEMMA NothingSeen ==
    ASSUME \A s \in Sources : srcRing[s].count = 0, \A e \in Tracked : exprRing[e].count = 0,
           prev = [w \in WatchIds |-> NoPrev]
    PROVE  History!Init
  <1>1. \A t \in Sources \cup Tracked : WindowOf(IF t \in Sources THEN srcRing[t] ELSE exprRing[t]) = <<>>
    BY EmptyWindow, Zenon
  <1> QED BY <1>1, Zenon DEF History!Init, NoPrev

(* A reset forgets every window and every watch. *)
LEMMA ResetForgets == ASSUME IInv, Reset PROVE History!Forget
  <1>1. \A s \in Sources : srcRing'[s].count = 0
    BY Zenon DEF IInv, SourcesServe, RingType, Reset, RingReset
  <1>2. \A e \in Tracked : exprRing'[e].count = 0
    BY Zenon DEF IInv, ExprsServe, RingType, Reset, RingReset
  <1>3. \A t \in Sources \cup Tracked :
            WindowOf(IF t \in Sources THEN srcRing'[t] ELSE exprRing'[t]) = <<>>
    BY <1>1, <1>2, EmptyWindow, Zenon
  <1> QED BY <1>3, Zenon DEF Reset, History!Forget, History!Init, NoPrev

(* For every program, every depth and every run: the rings with their reserved
   slots and wrap-around, and the watches, are sliding windows that move
   together by one sample in every tick, failed ones included, and start over
   in every reset (cxpr_engine_tick, cxpr_engine_session_reset). *)
THEOREM HistoryImplemented == Spec => ImplementsHistory
  <1>1. ASSUME Init PROVE History!Init
    <2>1. /\ \A s \in Sources : srcRing[s].count = 0
          /\ \A e \in Tracked : exprRing[e].count = 0
          /\ prev = [w \in WatchIds |-> NoPrev]
      BY <1>1, Zenon DEF Init, NewRing
    <2> QED BY <2>1, NothingSeen, Zenon
  <1>2. ASSUME IInv, [Next]_vars PROVE [History!Next]_<<Windows, Seen>>
    <2>1. CASE \E c : TickTo(c)
      BY <1>2, <2>1, TickSteps, Zenon DEF History!Next
    <2>2. CASE Reset
      BY <1>2, <2>2, ResetForgets, Zenon DEF History!Next
    <2>3. CASE UNCHANGED vars
      BY <2>3, Zenon DEF vars, Windows, Seen
    <2> QED BY <1>2, <2>1, <2>2, <2>3, Zenon DEF Next, Tick, TickAt
  <1> QED BY <1>1, <1>2, Invariance, PTL DEF Spec, ImplementsHistory, History!Spec, Windows, Seen
=============================================================================
