----------------------------- MODULE ModelProofs -----------------------------
(***************************************************************************)
(* What a compiled model means, for every program: the rings of a session, *)
(* the values its equations give every name, and what the binding loop of  *)
(* the reference session makes of them.                                    *)
(***************************************************************************)
EXTENDS ModelSession, FiniteSetTheorems, TLAPS

(* What a context, a staged update or a sample may hold. *)
Good == Numbers \cup {NaN}

Ring(n) == [values : [0..n-1 -> Good], next : 0..n-1, count : 0..n]

-----------------------------------------------------------------------------
(* Induction over numbers, and loops *)

\* A set of natural numbers that is not empty has a least element.
LEMMA LeastNumber ==
    ASSUME NEW T, T \subseteq Nat, T # {}
    PROVE  \E x \in T : \A y \in T : x <= y
<1> DEFINE R == OpToRel(<, Nat)
<1>1. IsWellFoundedOn(R, Nat)
    BY NatLessThanWellFounded, Zenon
<1>2. \A x, y \in Nat : <<x, y>> \in R <=> x < y
    BY Zenon DEF OpToRel
<1> HIDE DEF R
<1>3. PICK x \in T : \A y \in T : ~(<<y, x>> \in R)
    BY <1>1, WFMin, Zenon
<1>4. ASSUME NEW y \in T PROVE x <= y
    <2>1. x \in Nat /\ y \in Nat /\ ~(<<y, x>> \in R)
        BY <1>3, Zenon
    <2> QED BY <1>2, <2>1
<1> QED BY <1>4, Zenon

(* A set of numbers that holds 0, and i if it holds i - 1, up to n. *)
LEMMA UpTo ==
    ASSUME NEW n \in Nat, NEW S, 0 \in S, \A i \in 1 .. n : i - 1 \in S => i \in S
    PROVE  \A i \in 0 .. n : i \in S
<1> DEFINE T == {i \in 0 .. n : i \notin S}
<1> SUFFICES ASSUME T # {} PROVE FALSE
    OBVIOUS
<1>1. T \subseteq Nat
    OBVIOUS
<1> HIDE DEF T
<1>2. PICK x \in T : \A y \in T : x <= y
    BY <1>1, LeastNumber, Zenon
<1> USE DEF T
<1>3. x \in 1 .. n /\ x - 1 \in 0 .. n
    BY <1>2
<1>4. x - 1 \in S
    BY <1>2, <1>3
<1> QED BY <1>2, <1>3, <1>4, Zenon

(* The states a loop runs through: s0, then what step makes of each. *)
Runs(f, n, s0, step) == f = [i \in 0 .. n |-> IF i = 0 THEN s0 ELSE step[i][f[i - 1]]]

\* A loop whose steps stay in S has such a sequence of states.
LEMMA LoopRuns ==
    ASSUME NEW n \in Nat, NEW S, NEW s0 \in S, NEW step \in [1 .. n -> [S -> S]]
    PROVE  \E f \in [0 .. n -> S] : Runs(f, n, s0, step)
<1> DEFINE D == {k \in 0 .. n : \E f \in [0 .. k -> S] : Runs(f, k, s0, step)}
<1>1. 0 \in D
    <2> DEFINE f == [i \in 0 .. 0 |-> s0]
    <2>1. f \in [0 .. 0 -> S] /\ f[0] = s0
        OBVIOUS
    <2>2. f = [i \in 0 .. 0 |-> IF i = 0 THEN s0 ELSE step[i][f[i - 1]]]
        OBVIOUS
    <2> HIDE DEF f
    <2> QED BY <2>1, <2>2 DEF Runs
<1>2. ASSUME NEW k \in 1 .. n, k - 1 \in D PROVE k \in D
    <2>1. PICK f \in [0 .. k - 1 -> S] : Runs(f, k - 1, s0, step)
        BY <1>2, Zenon
    <2> DEFINE g == [i \in 0 .. k |-> IF i = k THEN step[k][f[k - 1]] ELSE f[i]]
    <2>2. k - 1 \in 0 .. k - 1 /\ f[k - 1] \in S /\ step[k][f[k - 1]] \in S
        BY <1>2
    <2>3. g \in [0 .. k -> S]
        BY <2>2
    <2>4. ASSUME NEW i \in 0 .. k
          PROVE  g[i] = IF i = 0 THEN s0 ELSE step[i][g[i - 1]]
        <3>1. CASE i = k
            <4>1. g[k] = step[k][f[k - 1]] /\ g[k - 1] = f[k - 1]
                OBVIOUS
            <4> QED BY <3>1, <4>1
        <3>2. CASE i # k
            <4>1. i \in 0 .. k - 1 /\ g[i] = f[i]
                BY <3>2
            <4>2. f[i] = IF i = 0 THEN s0 ELSE step[i][f[i - 1]]
                BY <2>1, <4>1, Zenon DEF Runs
            <4>3. i # 0 => g[i - 1] = f[i - 1]
                BY <4>1
            <4> HIDE DEF g
            <4> QED BY <4>1, <4>2, <4>3, Zenon
        <3> QED BY <3>1, <3>2, Zenon
    <2>5. Runs(g, k, s0, step)
        <3>1. g = [i \in 0 .. k |-> g[i]]
            BY <2>3, Zenon
        <3> HIDE DEF g
        <3> QED BY <2>4, <3>1, Zenon DEF Runs
    <2>6. k \in 0 .. n
        OBVIOUS
    <2> HIDE DEF g
    <2> QED BY <2>3, <2>5, <2>6, Zenon
<1> HIDE DEF D
<1>3. \A k \in 0 .. n : k \in D
    BY <1>1, <1>2, UpTo, Zenon
<1>4. n \in D
    BY <1>3
<1> QED BY <1>4, Zenon DEF D

-----------------------------------------------------------------------------
(* Numbers and finite sets *)

\* An index inside the ring needs no wrap.
LEMMA ModSmall == ASSUME NEW n \in Nat \ {0}, NEW x \in Nat, x < n PROVE x % n = x
  OBVIOUS

\* An index less than one lap past the end wraps by subtracting the size.
LEMMA ModWrap ==
    ASSUME NEW n \in Nat \ {0}, NEW x \in Nat, n <= x, x < 2 * n PROVE x % n = x - n
  OBVIOUS

\* The smaller of two numbers.
LEMMA MinOfTwo ==
    ASSUME NEW a \in Int, NEW b \in Int
    PROVE  Min({a, b}) = IF a <= b THEN a ELSE b
<1> DEFINE m == IF a <= b THEN a ELSE b
<1>1. m \in {a, b} /\ \A y \in {a, b} : m =< y
    OBVIOUS
<1>2. ASSUME NEW x \in {a, b}, \A y \in {a, b} : x =< y PROVE x = m
    BY <1>2
<1> HIDE DEF m
<1>3. Min({a, b}) = m
    BY <1>1, <1>2, Zenon DEF Min
<1> QED BY <1>3, Zenon DEF m

\* The smallest element of a set of one number.
LEMMA MinOfOne == ASSUME NEW a \in Int PROVE Min({a}) = a
  BY DEF Min

\* A function with numbers as values has a largest one on a finite set.
LEMMA Greatest ==
    ASSUME NEW A, IsFiniteSet(A), A # {}, NEW f \in [A -> Nat]
    PROVE  \E a \in A : \A b \in A : f[b] <= f[a]
<1> DEFINE Has(B) == \E a \in B : \A b \in B : f[b] <= f[a]
           Bad == {B \in SUBSET A : B # {} /\ ~Has(B)}
           T == {Cardinality(B) : B \in Bad}
<1> SUFFICES ASSUME A \in Bad PROVE FALSE
    OBVIOUS
<1>1. ASSUME NEW B \in SUBSET A PROVE IsFiniteSet(B) /\ Cardinality(B) \in Nat
    BY FS_Subset, FS_CardinalityType, Zenon
<1>2. T \subseteq Nat /\ T # {}
    BY <1>1, Zenon
<1>3. PICK x \in T : \A y \in T : x <= y
    BY <1>2, LeastNumber, Zenon
<1>4. PICK B \in Bad : x = Cardinality(B)
    BY <1>3, Zenon
<1>5. PICK a \in B : TRUE
    BY <1>4, Zenon
<1> DEFINE C == B \ {a}
<1>6. Cardinality(C) = x - 1 /\ C \in SUBSET A /\ x \in Nat
    BY <1>1, <1>4, <1>5, FS_RemoveElement, Zenon
<1>7. C \notin Bad
    <2>1. Cardinality(C) \notin T
        BY <1>3, <1>6
    <2> QED BY <2>1, Zenon
<1>8. CASE C = {}
    <2>1. B = {a}
        BY <1>5, <1>8, Zenon
    <2>2. f[a] \in Nat
        BY <1>4, <1>5, Zenon
    <2> QED BY <1>4, <2>1, <2>2
<1>9. CASE C # {}
    <2>1. PICK c \in C : \A b \in C : f[b] <= f[c]
        BY <1>6, <1>7, <1>9, Zenon
    <2>2. \A b \in B : f[b] \in Nat
        BY <1>4, Zenon
    <2>3. c \in B /\ a \in B /\ \A b \in B : b = a \/ b \in C
        BY <1>5, <2>1, Zenon
    <2> HIDE DEF C
    <2>4. CASE f[c] <= f[a]
        <3>1. \A b \in B : f[b] <= f[a]
            BY <2>1, <2>2, <2>3, <2>4
        <3> QED BY <1>4, <2>3, <3>1, Zenon
    <2>5. CASE f[a] <= f[c]
        <3>1. \A b \in B : f[b] <= f[c]
            BY <2>1, <2>2, <2>3, <2>5, Zenon
        <3> QED BY <1>4, <2>3, <3>1, Zenon
    <2> QED BY <2>2, <2>3, <2>4, <2>5
<1> QED BY <1>8, <1>9, Zenon

-----------------------------------------------------------------------------
(* Rings *)

\* The number of cells of a ring.
LEMMA RingSizeIs ==
    ASSUME NEW n \in Nat \ {0}, NEW r \in Ring(n)
    PROVE  /\ RingSize(r) = n
           /\ r.values \in [0..n-1 -> Good] /\ r.next \in 0..n-1 /\ r.count \in 0..n
<1>1. /\ r.values \in [0..n-1 -> Good] /\ r.next \in 0..n-1 /\ r.count \in 0..n
    BY Zenon DEF Ring
<1>2. DOMAIN r.values = 0..n-1
    BY <1>1, Zenon
<1>3. Cardinality(0..n-1) = n
    BY FS_Interval
<1> QED BY <1>1, <1>2, <1>3, Zenon DEF RingSize

\* The fields of a ring after a push.
LEMMA PushIs ==
    ASSUME NEW n \in Nat \ {0}, NEW r \in Ring(n), NEW v \in Good
    PROVE  /\ Push(r, v) \in Ring(n)
           /\ Push(r, v).values = [r.values EXCEPT ![r.next] = v]
           /\ Push(r, v).next = IF r.next + 1 = n THEN 0 ELSE r.next + 1
           /\ Push(r, v).count = IF r.count + 1 <= n THEN r.count + 1 ELSE n
<1>1. /\ RingSize(r) = n
      /\ r.values \in [0..n-1 -> Good] /\ r.next \in 0..n-1 /\ r.count \in 0..n
    BY RingSizeIs, Zenon
<1>2. (r.next + 1) % n = IF r.next + 1 = n THEN 0 ELSE r.next + 1
    <2>1. CASE r.next + 1 = n
        <3>1. n % n = n - n
            BY ModWrap
        <3> QED BY <2>1, <3>1
    <2>2. CASE r.next + 1 # n
        <3>1. r.next + 1 \in Nat /\ r.next + 1 < n
            BY <1>1, <2>2
        <3> QED BY <2>2, <3>1, ModSmall, Zenon
    <2> QED BY <2>1, <2>2, Zenon
<1>3. Min({r.count + 1, n}) = IF r.count + 1 <= n THEN r.count + 1 ELSE n
    BY <1>1, MinOfTwo
<1>4. /\ Push(r, v).values = [r.values EXCEPT ![r.next] = v]
      /\ Push(r, v).next = (r.next + 1) % n
      /\ Push(r, v).count = Min({r.count + 1, n})
    BY <1>1, Zenon DEF Push
<1>5. /\ [r.values EXCEPT ![r.next] = v] \in [0..n-1 -> Good]
      /\ (r.next + 1) % n \in 0..n-1
      /\ Min({r.count + 1, n}) \in 0..n
    BY <1>1, <1>2, <1>3
<1>6. Push(r, v) \in Ring(n)
    BY <1>1, <1>5, Zenon DEF Push, Ring
<1> QED BY <1>2, <1>3, <1>4, <1>6, Zenon

\* The cell a lookback reads.
LEMMA CellIs ==
    ASSUME NEW n \in Nat \ {0}, NEW x \in 0..n-1, NEW k \in 1..n
    PROVE  /\ (x + n - k) % n = IF k <= x THEN x - k ELSE x + n - k
           /\ (x + n - k) % n \in 0..n-1
<1>1. CASE k <= x
    <2>1. x + n - k \in Nat /\ n <= x + n - k /\ x + n - k < 2 * n
        BY <1>1
    <2>2. (x + n - k) % n = (x + n - k) - n
        BY <2>1, ModWrap, Zenon
    <2> QED BY <1>1, <2>2
<1>2. CASE k > x
    <2>1. x + n - k \in Nat /\ x + n - k < n
        BY <1>2
    <2> QED BY <1>2, <2>1, ModSmall
<1> QED BY <1>1, <1>2

\* A lookback inside the history yields a sample.
LEMMA ReadIsGood ==
    ASSUME NEW n \in Nat \ {0}, NEW r \in Ring(n), NEW k \in Nat \ {0}
    PROVE  HistoryRead(r, k) \in Good /\ (r.count < k => HistoryRead(r, k) = NaN)
<1>1. /\ RingSize(r) = n
      /\ r.values \in [0..n-1 -> Good] /\ r.next \in 0..n-1 /\ r.count \in 0..n
    BY RingSizeIs, Zenon
<1>2. CASE r.count < k
    BY <1>2, Zenon DEF HistoryRead, Good
<1>3. CASE ~(r.count < k)
    <2>1. k \in 1..n
        BY <1>1, <1>3
    <2>2. (r.next + n - k) % n \in 0..n-1
        BY <1>1, <2>1, CellIs, Zenon
    <2> QED BY <1>1, <1>3, <2>2, Zenon DEF HistoryRead
<1> QED BY <1>2, <1>3, Zenon

\* After a push the newest sample is the pushed one, the others are one older.
LEMMA ReadAfterPush ==
    ASSUME NEW n \in Nat \ {0}, NEW r \in Ring(n), NEW v \in Good,
           NEW k \in 1..Push(r, v).count
    PROVE  HistoryRead(Push(r, v), k) = IF k = 1 THEN v ELSE HistoryRead(r, k - 1)
<1> DEFINE p == Push(r, v)
<1>1. /\ RingSize(r) = n
      /\ r.values \in [0..n-1 -> Good] /\ r.next \in 0..n-1 /\ r.count \in 0..n
    BY RingSizeIs, Zenon
<1>2. /\ p \in Ring(n)
      /\ p.values = [r.values EXCEPT ![r.next] = v]
      /\ p.next = IF r.next + 1 = n THEN 0 ELSE r.next + 1
      /\ p.count = IF r.count + 1 <= n THEN r.count + 1 ELSE n
    BY PushIs
<1>3. RingSize(p) = n /\ p.next \in 0..n-1
    BY <1>2, RingSizeIs, Zenon
<1> HIDE DEF p
<1>4. k \in 1..n /\ ~(p.count < k) /\ k \in 1..p.count
    BY <1>1, <1>2 DEF p
<1>5. (p.next + n - k) % n = IF k <= p.next THEN p.next - k ELSE p.next + n - k
    BY <1>3, <1>4, CellIs, Zenon
<1>6. HistoryRead(p, k) = p.values[(p.next + n - k) % n]
    BY <1>3, <1>4, Zenon DEF HistoryRead
<1>7. CASE k = 1
    <2>1. (p.next + n - k) % n = r.next
        BY <1>1, <1>2, <1>5, <1>7
    <2> QED BY <1>1, <1>2, <1>6, <1>7, <2>1, Zenon DEF p
<1>8. CASE k # 1
    <2>1. k - 1 \in 1..n /\ ~(r.count < k - 1)
        BY <1>1, <1>2, <1>4, <1>8
    <2>2. (r.next + n - (k - 1)) % n = IF k - 1 <= r.next THEN r.next - (k - 1) ELSE r.next + n - (k - 1)
        BY <1>1, <2>1, CellIs, Zenon
    <2>3. HistoryRead(r, k - 1) = r.values[(r.next + n - (k - 1)) % n]
        BY <1>1, <2>1, Zenon DEF HistoryRead
    <2>4. /\ (p.next + n - k) % n = (r.next + n - (k - 1)) % n
          /\ (p.next + n - k) % n \in 0..n-1
          /\ (p.next + n - k) % n # r.next
        <3>1. k \in 2..n
            BY <1>4, <1>8
        <3> DEFINE a == (p.next + n - k) % n
                   b == (r.next + n - (k - 1)) % n
                   x == r.next
                   y == p.next
        <3>2. /\ x \in 0..n-1 /\ y = IF x + 1 = n THEN 0 ELSE x + 1
              /\ a = IF k <= y THEN y - k ELSE y + n - k
              /\ b = IF k - 1 <= x THEN x - (k - 1) ELSE x + n - (k - 1)
            BY <1>1, <1>2, <1>5, <2>2, Zenon
        <3> HIDE DEF a, b, x, y
        <3>3. a = b /\ a \in 0..n-1 /\ a # x
            BY <3>1, <3>2
        <3> QED BY <3>3, Zenon DEF a, b, x
    <2> QED BY <1>1, <1>2, <1>6, <1>8, <2>3, <2>4 DEF p
<1> QED BY <1>7, <1>8, Zenon

\* The samples of a ring, newest first.
LEMMA SamplesAre ==
    ASSUME NEW n \in Nat \ {0}, NEW r \in Ring(n)
    PROVE  /\ Samples(r) \in Seq(Good) /\ Len(Samples(r)) = r.count
           /\ DOMAIN Samples(r) = 1..r.count
           /\ \A k \in 1..r.count : Samples(r)[k] = HistoryRead(r, k)
<1>1. r.count \in Nat
    BY RingSizeIs
<1>2. \A k \in 1..r.count : HistoryRead(r, k) \in Good
    BY <1>1, ReadIsGood
<1>3. Samples(r) \in [1..r.count -> Good]
    BY <1>2, Zenon DEF Samples
<1>4. Samples(r) \in Seq(Good)
    BY <1>1, <1>3
<1> QED BY <1>1, <1>3, <1>4 DEF Samples

\* A push adds the newest sample and drops what no longer fits.
LEMMA PushShifts ==
    ASSUME NEW n \in Nat \ {0}, NEW r \in Ring(n), NEW v \in Good
    PROVE  Samples(Push(r, v)) = SubSeq(<<v>> \o Samples(r), 1, Min({n, Len(Samples(r)) + 1}))
<1> DEFINE p == Push(r, v)
           all == <<v>> \o Samples(r)
           kept == SubSeq(all, 1, p.count)
<1>1. /\ Samples(r) \in Seq(Good) /\ Len(Samples(r)) = r.count /\ r.count \in 0..n
      /\ \A k \in 1..r.count : Samples(r)[k] = HistoryRead(r, k)
    BY SamplesAre, RingSizeIs, Zenon
<1>2. /\ p \in Ring(n)
      /\ p.values = [r.values EXCEPT ![r.next] = v]
      /\ p.next = IF r.next + 1 = n THEN 0 ELSE r.next + 1
      /\ p.count = IF r.count + 1 <= n THEN r.count + 1 ELSE n
    BY PushIs
<1>3. p.count = Min({n, Len(Samples(r)) + 1}) /\ p.count \in 1..r.count+1
    BY <1>1, <1>2, MinOfTwo
<1>4. /\ all \in Seq(Good) /\ Len(all) = r.count + 1
      /\ \A i \in 1..r.count+1 : all[i] = IF i = 1 THEN v ELSE Samples(r)[i - 1]
    <2>1. <<v>> \in Seq(Good) /\ Len(<<v>>) = 1 /\ <<v>>[1] = v
        OBVIOUS
    <2>2. /\ all \in Seq(Good) /\ Len(all) = 1 + r.count
          /\ \A i \in 1..1+r.count : all[i] = IF i <= 1 THEN <<v>>[i] ELSE Samples(r)[i - 1]
        BY <1>1, <2>1
    <2> QED BY <1>1, <2>1, <2>2
<1>5. /\ Samples(p) \in Seq(Good) /\ Len(Samples(p)) = p.count
      /\ \A k \in 1..p.count : Samples(p)[k] = HistoryRead(p, k)
    BY <1>2, SamplesAre, Zenon
<1>6. \A k \in 1..p.count : HistoryRead(p, k) = IF k = 1 THEN v ELSE HistoryRead(r, k - 1)
    BY ReadAfterPush, Zenon
<1> HIDE DEF p, all
<1>7. \A i \in 1..p.count : all[i] \in Good
    BY <1>1, <1>3, <1>4
<1>8. /\ kept \in Seq(Good) /\ Len(kept) = p.count
      /\ \A i \in 1..p.count : kept[i] = all[i]
    <2>1. 1 \in Int /\ p.count \in Int /\ 1 <= p.count
        BY <1>1, <1>3
    <2> QED BY <1>7, <2>1
<1>9. \A k \in 1..p.count : Samples(p)[k] = kept[k]
    <2> SUFFICES ASSUME NEW k \in 1..p.count PROVE Samples(p)[k] = kept[k]
        OBVIOUS
    <2>1. Samples(p)[k] = IF k = 1 THEN v ELSE HistoryRead(r, k - 1)
        BY <1>5, <1>6, Zenon
    <2>2. kept[k] = IF k = 1 THEN v ELSE Samples(r)[k - 1]
        BY <1>1, <1>3, <1>4, <1>8
    <2>3. k # 1 => k - 1 \in 1..r.count
        BY <1>1, <1>3
    <2> QED BY <1>1, <2>1, <2>2, <2>3, Zenon
<1> HIDE DEF kept
<1>10. Samples(p) = kept
    BY <1>5, <1>8, <1>9
<1> QED BY <1>3, <1>10, Zenon DEF p, all, kept

-----------------------------------------------------------------------------
(* Programs *)

\* A history holds as many samples as the largest offset that reads it.
LEMMA DepthIs ==
    ASSUME ProgramAssumption, NEW n \in Histories
    PROVE  /\ Depth[n] \in Nat \ {0}
           /\ \A r \in Lookbacks : r[1] = n => r[2] \in 1..Depth[n]
<1> DEFINE All == UNION {Reads[b] : b \in DOMAIN Reads}
           A == {r \in Lookbacks : r[1] = n}
           f == [r \in A |-> r[2]]
<1>1. IsFiniteSet(All) /\ All \subseteq Names \X Nat
    BY DEF ProgramAssumption
<1>2. A \subseteq All /\ \A r \in A : r[2] \in Nat /\ r[2] > 0
    BY <1>1, Zenon DEF Lookbacks, Sampled
<1>3. A # {} /\ IsFiniteSet(A)
    <2>1. A # {}
        BY Zenon DEF Histories
    <2> HIDE DEF A, All
    <2> QED BY <1>1, <1>2, <2>1, FS_Subset, Zenon
<1>4. f \in [A -> Nat]
    BY <1>2, Zenon
<1> HIDE DEF A, All
<1>5. PICK a \in A : \A b \in A : f[b] <= f[a]
    <2> HIDE DEF f
    <2> QED BY <1>3, <1>4, Greatest, Zenon
<1> DEFINE T == Offsets(n)
<1>6. T = {r[2] : r \in A}
    BY Zenon DEF Offsets, A
<1>7. a[2] \in T /\ \A y \in T : a[2] >= y
    BY <1>2, <1>5, <1>6, Zenon
<1>8. T \subseteq Nat /\ \A r \in A : r[2] \in T
    BY <1>2, <1>6, Zenon
<1> HIDE DEF T
<1>9. Max(T) \in T /\ \A y \in T : Max(T) >= y
    BY <1>7, Zenon DEF Max
<1>10. Depth[n] = Max(T)
    BY Zenon DEF Depth, T
<1>11. ASSUME NEW r \in A PROVE r[2] \in 1..Max(T)
    BY <1>2, <1>8, <1>9
<1>12. Max(T) # 0
    BY <1>5, <1>8, <1>11
<1> QED BY <1>8, <1>9, <1>10, <1>11, <1>12, Zenon DEF A

\* What an expression reads without a lookback is a name of the context.
LEMMA ReadsNow ==
    ASSUME ProgramAssumption, NEW b \in Bindings \cup Captured, NEW r \in Reads[b]
    PROVE  /\ r \in Names \X Nat
           /\ r \notin Sampled => r = <<r[1], 0>> /\ r[1] \in Inputs \cup Scalars \cup Lets
<1>1. DOMAIN Reads = Bindings \cup Captured /\ Reads[b] \subseteq Names \X Nat
    BY Zenon DEF ProgramAssumption
<1>2. r \in Names \X Nat /\ r = <<r[1], r[2]>> /\ r[1] \in Names /\ r[2] \in Nat
    BY <1>1
<1>3. ASSUME r \notin Sampled PROVE r[2] = 0 /\ r[1] \notin Buffers
    BY <1>1, <1>2, <1>3 DEF Sampled
<1>4. ASSUME r \notin Sampled PROVE r[1] \notin Captured
    BY <1>1, <1>2, <1>3, <1>4 DEF ProgramAssumption
<1> QED BY <1>2, <1>3, <1>4, Zenon DEF Names, Scalars

\* A binding yields a result for results.
LEMMA ValueIs ==
    ASSUME ProgramAssumption, NEW b \in Bindings \cup Captured, NEW got \in [Reads[b] -> Results]
    PROVE  Value[b][got] \in Results
<1>1. Value[b] \in [[Reads[b] -> Results] -> Results]
    BY Zenon DEF ProgramAssumption
<1> QED BY <1>1, Zenon

\* What an expression reads are results.
LEMMA GotIs ==
    ASSUME ProgramAssumption, NEW b \in Bindings \cup Captured,
           NEW m \in [Names -> Results], NEW seen \in [Sampled -> Results]
    PROVE  Got(b, m, seen) \in [Reads[b] -> Results]
<1>1. \A r \in Reads[b] : r \in Names \X Nat
    BY ReadsNow, Zenon
<1>2. \A r \in Reads[b] : r[1] \in Names
    BY <1>1, Zenon
<1> QED BY <1>2, Zenon DEF Got

\* Only the values of the names it reads now matter to an expression.
LEMMA GotSame ==
    ASSUME ProgramAssumption, NEW b \in Bindings \cup Captured, NEW m1, NEW m2, NEW seen,
           \A n \in Inputs \cup Scalars \cup Lets : <<n, 0>> \in Reads[b] => m1[n] = m2[n]
    PROVE  Got(b, m1, seen) = Got(b, m2, seen)
<1>1. ASSUME NEW r \in Reads[b], r \notin Sampled PROVE m1[r[1]] = m2[r[1]]
    BY <1>1, ReadsNow, Zenon
<1> QED BY <1>1, Zenon DEF Got

\* A listing names every binding once.
LEMMA ListingIs ==
    ASSUME ProgramAssumption, NEW o \in Listings
    PROVE  /\ o \in Seq(Bindings) /\ Len(o) \in Nat /\ o \in [1..Len(o) -> Bindings]
           /\ \A b \in Bindings : \E i \in 1..Len(o) : o[i] = b
           /\ \A i, j \in 1..Len(o) : i # j => o[i] # o[j]
<1>1. Cardinality(Bindings) \in Nat
    BY FS_CardinalityType, Zenon DEF ProgramAssumption
<1> DEFINE N == Cardinality(Bindings)
<1>2. /\ o \in [1..N -> Bindings]
      /\ \A b \in Bindings : \E i \in DOMAIN o : o[i] = b
      /\ \A i, j \in DOMAIN o : i # j => o[i] # o[j]
    BY Zenon DEF Listings
<1> HIDE DEF N
<1>3. o \in Seq(Bindings) /\ Len(o) = N /\ N \in Nat
    BY <1>1, <1>2 DEF N
<1> QED BY <1>2, <1>3, Zenon

(* The equations of the lets and of the captured targets. *)
Solves(m, seen) == \A n \in Lets \cup Captured : m[n] = Value[n][Got(n, m, seen)]

(* What MeaningIs establishes of the values of all names. *)
Means(m, in, st, seen) ==
    /\ m \in [Names -> Results]
    /\ \A n \in Inputs : m[n] = in[n]
    /\ \A n \in Scalars : m[n] = st[n]
    /\ Solves(m, seen)

\* No name has two roles.
LEMMA NamesApart ==
    ASSUME ProgramAssumption
    PROVE  /\ \A n \in Inputs : n \in Names /\ n \notin Scalars \cup Buffers \cup Lets \cup Captured \cup Updated
           /\ \A n \in Scalars : n \in Names /\ n \notin Inputs \cup Buffers \cup Lets \cup Captured
           /\ \A n \in Buffers : n \in Names /\ n \notin Inputs \cup Scalars \cup Lets \cup Captured
           /\ \A n \in Lets : n \in Names /\ n \notin Inputs \cup Scalars \cup Buffers \cup Captured \cup Updated
           /\ \A n \in Captured : n \in Names /\ n \notin Inputs \cup Scalars \cup Buffers \cup Lets \cup Updated
           /\ \A n \in Names : n \in Inputs \cup Scalars \cup Buffers \cup Lets \cup Captured
           /\ \A n \in Updated : n \in Scalars \cup Buffers
           /\ Buffers \subseteq Updated
  BY Zenon DEF ProgramAssumption, Names, Scalars

\* Two ways to give the names values that satisfy the equations of a tick are the
\* same: the lets are determined one after the other.
LEMMA MeaningUnique ==
    ASSUME ProgramAssumption, NEW o \in Orders, NEW seen, NEW m1, NEW m2,
           \A n \in Inputs \cup Scalars : m1[n] = m2[n],
           Solves(m1, seen), Solves(m2, seen)
    PROVE  \A n \in Lets \cup Captured : m1[n] = m2[n]
<1> DEFINE S == {k \in 0..Len(o) : \A j \in 1..k : o[j] \in Lets => m1[o[j]] = m2[o[j]]}
<1>1. /\ Len(o) \in Nat /\ o \in [1..Len(o) -> Bindings]
      /\ \A b \in Bindings : \E i \in 1..Len(o) : o[i] = b
    BY ListingIs, Zenon DEF Orders
<1>2. \A i, j \in 1..Len(o) : DependsOnLet(o[j], o[i]) => i < j
    BY <1>1, Zenon DEF Orders, Topological
<1>3. 0 \in S
    BY <1>1
<1>4. ASSUME NEW k \in 1..Len(o), k - 1 \in S PROVE k \in S
    <2>1. \A j \in 1..k-1 : o[j] \in Lets => m1[o[j]] = m2[o[j]]
        BY <1>4, Zenon
    <2>2. ASSUME o[k] \in Lets PROVE m1[o[k]] = m2[o[k]]
        <3>1. ASSUME NEW n \in Inputs \cup Scalars \cup Lets, <<n, 0>> \in Reads[o[k]]
              PROVE  m1[n] = m2[n]
            <4>1. CASE n \in Lets
                <5>1. DependsOnLet(o[k], n)
                    BY <3>1, <4>1, Zenon DEF DependsOnLet
                <5>2. PICK i \in 1..Len(o) : o[i] = n
                    BY <1>1, <4>1, Zenon DEF Bindings
                <5>3. i < k
                    BY <1>2, <5>1, <5>2, Zenon
                <5> QED BY <2>1, <4>1, <5>2, <5>3
            <4> QED BY <3>1, <4>1, Zenon
        <3>2. o[k] \in Bindings \cup Captured
            BY <1>1, Zenon
        <3>3. Got(o[k], m1, seen) = Got(o[k], m2, seen)
            BY <3>1, <3>2, GotSame
        <3> QED BY <2>2, <3>3 DEF Solves
    <2>3. \A j \in 1..k : j = k \/ j \in 1..k-1
        OBVIOUS
    <2> QED BY <1>1, <2>1, <2>2, <2>3
<1>5. \A k \in 0..Len(o) : k \in S
    <2> HIDE DEF S
    <2> QED BY <1>1, <1>3, <1>4, UpTo, Zenon
<1>6. ASSUME NEW n \in Lets PROVE m1[n] = m2[n]
    <2>1. PICK i \in 1..Len(o) : o[i] = n
        BY <1>1, Zenon DEF Bindings
    <2>2. Len(o) \in S
        BY <1>1, <1>5
    <2> QED BY <2>1, <2>2, Zenon
<1>7. ASSUME NEW n \in Captured PROVE m1[n] = m2[n]
    <2>1. Got(n, m1, seen) = Got(n, m2, seen)
        BY <1>6, GotSame, Zenon
    <2> QED BY <2>1, Zenon DEF Solves
<1> QED BY <1>6, <1>7, Zenon

\* There are values for all names that satisfy the equations of a tick: compute
\* the lets in a dependency order, then the captured targets.
LEMMA MeaningExists ==
    ASSUME ProgramAssumption, NEW o \in Orders,
           NEW in \in [Inputs -> Results], NEW st \in [Scalars -> Results],
           NEW seen \in [Sampled -> Results]
    PROVE  \E m : Means(m, in, st, seen) /\ \A n \in Buffers : m[n] = Fault
<1> DEFINE N == Len(o)
           S == [Names -> Results]
           m0 == [n \in Names |-> IF n \in Inputs THEN in[n] ELSE IF n \in Scalars THEN st[n] ELSE Fault]
           Step(m, k) == IF o[k] \in Lets
                         THEN [m EXCEPT ![o[k]] = Value[o[k]][Got(o[k], m, seen)]] ELSE m
           step == [k \in 1..N |-> [m \in S |-> Step(m, k)]]
<1>1. /\ N \in Nat /\ o \in [1..N -> Bindings]
      /\ \A b \in Bindings : \E i \in 1..N : o[i] = b
      /\ \A i, j \in 1..N : i # j => o[i] # o[j]
    BY ListingIs, Zenon DEF Orders
<1>2. \A i, j \in 1..N : DependsOnLet(o[j], o[i]) => i < j
    BY <1>1, Zenon DEF Orders, Topological
<1>3. m0 \in S
    BY Zenon DEF Results
<1>4. ASSUME NEW k \in 1..N, NEW m \in S PROVE Step(m, k) \in S
    <2>1. o[k] \in Bindings \cup Captured
        BY <1>1, Zenon
    <2>2. Got(o[k], m, seen) \in [Reads[o[k]] -> Results]
        BY <2>1, GotIs, Zenon
    <2>3. Value[o[k]][Got(o[k], m, seen)] \in Results
        BY <2>1, <2>2, ValueIs, Zenon
    <2> QED BY <2>3, Zenon
<1> HIDE DEF N, S, m0, Step
<1>5. step \in [1..N -> [S -> S]]
    BY <1>4, Zenon
<1> HIDE DEF step
<1>6. PICK f \in [0..N -> S] : Runs(f, N, m0, step)
    BY <1>1, <1>3, <1>5, LoopRuns, Zenon
<1>7. f[0] = m0
    BY <1>1, <1>6 DEF Runs
<1>8. ASSUME NEW k \in 1..N
      PROVE  f[k] = Step(f[k - 1], k) /\ f[k - 1] \in [Names -> Results] /\ f[k] \in [Names -> Results]
    <2>1. k \in 0..N /\ k - 1 \in 0..N /\ k # 0
        BY <1>1
    <2>2. f[k] = step[k][f[k - 1]]
        BY <1>6, <2>1, Zenon DEF Runs
    <2>3. f[k - 1] \in S /\ f[k] \in S
        BY <1>6, <2>1, Zenon
    <2>4. step[k][f[k - 1]] = Step(f[k - 1], k)
        BY <2>3, Zenon DEF step
    <2> QED BY <2>2, <2>3, <2>4, Zenon DEF S
<1> DEFINE Right(m, k) ==
               /\ \A n \in Names : n \notin Lets => m[n] = m0[n]
               /\ \A j \in 1..k : o[j] \in Lets => m[o[j]] = Value[o[j]][Got(o[j], m, seen)]
           K == {k \in 0..N : Right(f[k], k)}
<1>9. 0 \in K
    BY <1>1, <1>7
<1>10. ASSUME NEW k \in 1..N, k - 1 \in K PROVE k \in K
    <2> DEFINE m == f[k - 1]
    <2>1. Right(m, k - 1)
        BY <1>10, Zenon
    <2>2. m \in [Names -> Results]
        BY <1>8, Zenon
    <2>3. CASE o[k] \notin Lets
        <3>1. f[k] = m
            BY <1>8, <2>3, Zenon DEF Step
        <3>2. \A j \in 1..k : j = k \/ j \in 1..k-1
            OBVIOUS
        <3>3. Right(f[k], k)
            BY <2>1, <2>3, <3>1, <3>2, Zenon
        <3> QED BY <1>1, <3>3
    <2>4. CASE o[k] \in Lets
        <3> DEFINE v == Value[o[k]][Got(o[k], m, seen)]
        <3>1. f[k] = [m EXCEPT ![o[k]] = v]
            BY <1>8, <2>4, Zenon DEF Step
        <3>2. o[k] \in Names
            BY <2>4, NamesApart, Zenon
        <3>3. \A n \in Names : f[k][n] = IF n = o[k] THEN v ELSE m[n]
            BY <2>2, <3>1, <3>2, Zenon
        <3>4. ASSUME NEW j \in 1..k PROVE Got(o[j], f[k], seen) = Got(o[j], m, seen)
            <4>1. ASSUME NEW n \in Inputs \cup Scalars \cup Lets, <<n, 0>> \in Reads[o[j]]
                  PROVE  f[k][n] = m[n]
                <5>1. n \in Names
                    BY NamesApart, Zenon
                <5>2. ASSUME n = o[k] PROVE FALSE
                    <6>1. DependsOnLet(o[j], o[k])
                        BY <2>4, <4>1, <5>2, Zenon DEF DependsOnLet
                    <6> QED BY <1>1, <1>2, <6>1
                <5> QED BY <3>3, <5>1, <5>2, Zenon
            <4>2. o[j] \in Bindings \cup Captured
                BY <1>1
            <4> HIDE DEF m
            <4> QED BY <4>1, <4>2, GotSame
        <3>5. ASSUME NEW j \in 1..k, o[j] \in Lets
              PROVE  f[k][o[j]] = Value[o[j]][Got(o[j], f[k], seen)]
            <4>1. o[j] \in Names
                BY <3>5, NamesApart, Zenon
            <4>2. CASE j = k
                BY <3>3, <3>4, <4>1, <4>2, Zenon
            <4>3. CASE j # k
                <5>1. j \in 1..k-1 /\ j \in 1..N
                    BY <1>1, <4>3
                <5>2. o[j] # o[k]
                    BY <1>1, <4>3, <5>1, Zenon
                <5>3. m[o[j]] = Value[o[j]][Got(o[j], m, seen)]
                    BY <2>1, <3>5, <5>1, Zenon
                <5> QED BY <3>3, <3>4, <4>1, <5>2, <5>3, Zenon
            <4> QED BY <4>2, <4>3, Zenon
        <3>6. \A n \in Names : n \notin Lets => f[k][n] = m0[n]
            BY <2>1, <2>4, <3>3, Zenon
        <3>7. Right(f[k], k)
            BY <3>5, <3>6, Zenon
        <3> QED BY <1>1, <3>7
    <2> QED BY <2>3, <2>4, Zenon
<1>11. N \in K
    <2> HIDE DEF K
    <2>1. \A k \in 0..N : k \in K
        BY <1>1, <1>9, <1>10, UpTo, Zenon
    <2> QED BY <1>1, <2>1
<1> DEFINE g == f[N]
           m == [n \in Names |-> IF n \in Captured THEN Value[n][Got(n, g, seen)] ELSE g[n]]
<1>12. g \in [Names -> Results] /\ Right(g, N)
    <2>1. N \in 0..N
        BY <1>1
    <2>2. g \in [Names -> Results]
        BY <1>6, <2>1, Zenon DEF S
    <2> QED BY <1>11, <2>2, Zenon
<1> HIDE DEF g
<1>13. ASSUME NEW n \in Lets \cup Captured PROVE Got(n, m, seen) = Got(n, g, seen)
    <2>1. \A x \in Inputs \cup Scalars \cup Lets : m[x] = g[x]
        BY NamesApart, Zenon
    <2>2. n \in Bindings \cup Captured
        BY Zenon DEF Bindings
    <2> HIDE DEF m
    <2> QED BY <2>1, <2>2, GotSame, Zenon
<1>14. ASSUME NEW n \in Captured PROVE Value[n][Got(n, g, seen)] \in Results
    BY <1>12, GotIs, ValueIs, Zenon
<1>15. m \in [Names -> Results]
    BY <1>12, <1>14, Zenon
<1>16. ASSUME NEW n \in Lets PROVE m[n] = Value[n][Got(n, m, seen)]
    <2>1. PICK i \in 1..N : o[i] = n
        BY <1>1, Zenon DEF Bindings
    <2>2. g[n] = Value[n][Got(n, g, seen)]
        BY <1>12, <2>1, Zenon
    <2>3. n \in Names /\ n \notin Captured
        BY NamesApart, Zenon
    <2>4. m[n] = g[n]
        BY <2>3, Zenon
    <2> HIDE DEF m
    <2> QED BY <1>13, <2>2, <2>4, Zenon
<1>17. ASSUME NEW n \in Captured PROVE m[n] = Value[n][Got(n, m, seen)]
    <2>1. m[n] = Value[n][Got(n, g, seen)]
        BY NamesApart, Zenon
    <2> HIDE DEF m
    <2> QED BY <1>13, <2>1, Zenon
<1>18. ASSUME NEW n \in Names, n \notin Lets \cup Captured PROVE m[n] = m0[n]
    BY <1>12, <1>18, Zenon
<1> HIDE DEF m
<1>19. \A n \in Inputs : m[n] = in[n]
    BY <1>18, NamesApart, Zenon DEF m0
<1>20. \A n \in Scalars : m[n] = st[n]
    BY <1>18, NamesApart, Zenon DEF m0
<1>21. \A n \in Buffers : m[n] = Fault
    BY <1>18, NamesApart, Zenon DEF m0
<1>22. Means(m, in, st, seen)
    BY <1>15, <1>16, <1>17, <1>19, <1>20, Zenon DEF Means, Solves
<1> QED BY <1>21, <1>22, Zenon

\* The values of a tick satisfy its equations.
LEMMA MeaningIs ==
    ASSUME ProgramAssumption, NEW o \in Orders,
           NEW in \in [Inputs -> Results], NEW st \in [Scalars -> Results],
           NEW seen \in [Sampled -> Results]
    PROVE  Means(Meaning(in, st, seen), in, st, seen)
<1> DEFINE Is(g) == g = [n \in Names |->
                            IF n \in Inputs THEN in[n]
                            ELSE IF n \in Scalars THEN st[n]
                            ELSE IF n \in Buffers THEN Fault
                            ELSE Value[n][Got(n, g, seen)]]
<1>1. PICK m : Means(m, in, st, seen) /\ \A n \in Buffers : m[n] = Fault
    BY MeaningExists, Zenon
<1>2. Is(m)
    <2>1. m = [n \in Names |-> m[n]]
        BY <1>1, Zenon DEF Means
    <2>2. ASSUME NEW n \in Names
          PROVE  m[n] = IF n \in Inputs THEN in[n]
                        ELSE IF n \in Scalars THEN st[n]
                        ELSE IF n \in Buffers THEN Fault
                        ELSE Value[n][Got(n, m, seen)]
        BY <1>1, NamesApart, Zenon DEF Means, Solves
    <2> QED BY <2>1, <2>2, Zenon
<1>3. Meaning(in, st, seen) = CHOOSE g : Is(g)
    BY Zenon DEF Meaning
<1>4. ASSUME NEW g, Is(g) PROVE g = m
    <2>1. ASSUME NEW n \in Names
          PROVE  g[n] = IF n \in Inputs THEN in[n]
                        ELSE IF n \in Scalars THEN st[n]
                        ELSE IF n \in Buffers THEN Fault
                        ELSE Value[n][Got(n, g, seen)]
        BY <1>4, Zenon
    <2>2. g = [n \in Names |-> g[n]]
        BY <1>4, Zenon
    <2> HIDE DEF Is
    <2>3. \A n \in Inputs \cup Scalars : g[n] = m[n]
        BY <1>1, <2>1, NamesApart, Zenon DEF Means
    <2>4. Solves(g, seen)
        BY <2>1, NamesApart, Zenon DEF Solves
    <2>5. Solves(m, seen)
        BY <1>1, Zenon DEF Means
    <2>6. \A n \in Lets \cup Captured : g[n] = m[n]
        BY <2>3, <2>4, <2>5, MeaningUnique, Zenon
    <2>7. \A n \in Buffers : g[n] = m[n]
        BY <1>1, <2>1, NamesApart, Zenon
    <2>8. \A n \in Names : g[n] = m[n]
        BY <2>3, <2>6, <2>7, NamesApart, Zenon
    <2>9. m = [n \in Names |-> m[n]]
        BY <1>1, Zenon DEF Means
    <2> QED BY <2>2, <2>8, <2>9, Zenon
<1> HIDE DEF Is
<1>5. Meaning(in, st, seen) = m
    BY <1>2, <1>3, <1>4, Zenon
<1> QED BY <1>1, <1>5, Zenon

-----------------------------------------------------------------------------
(* The reference session: contexts and reads *)

Known == Inputs \cup Scalars \cup Lets

Contexts == UNION {[D -> Good] : D \in {D \in SUBSET Known : Scalars \subseteq D}}

Update == [name : Updated, value : Good]

BufferSets == [Buffers -> Ring(Capacity)]

RingSets ==
    {rs \in [Histories -> UNION {Ring(Depth[n]) : n \in Histories}] :
        \A n \in Histories : rs[n] \in Ring(Depth[n])}

\* The special values are no numbers.
LEMMA SpecialValues ==
    ASSUME ProgramAssumption
    PROVE  /\ Results = Good \cup {Fault} /\ Fault \notin Good /\ None \notin Results
           /\ Good \subseteq Results /\ NaN \in Good /\ Numbers \subseteq Good
  BY DEF ProgramAssumption, Good, Results, NaN, Fault, None

\* A context is a function on known names that holds every scalar state.
LEMMA ContextIs ==
    ASSUME ProgramAssumption, NEW c \in Contexts
    PROVE  /\ DOMAIN c \subseteq Known /\ Scalars \subseteq DOMAIN c /\ c \in [DOMAIN c -> Good]
           /\ \A n : Lookup(c, n) \in Results
           /\ \A n : Lookup(c, n) # Fault => n \in DOMAIN c /\ c[n] = Lookup(c, n)
           /\ \A n \in DOMAIN c : Lookup(c, n) = c[n] /\ c[n] \in Good /\ Lookup(c, n) # Fault
           /\ \A n \in Scalars : Lookup(c, n) = c[n] /\ c[n] \in Good
<1>1. PICK D \in SUBSET Known : Scalars \subseteq D /\ c \in [D -> Good]
    BY Zenon DEF Contexts
<1>2. DOMAIN c = D
    BY <1>1, Zenon
<1>3. \A n \in D : c[n] \in Good
    BY <1>1, Zenon
<1> QED BY <1>1, <1>2, <1>3, SpecialValues, Zenon DEF Lookup

\* A write changes one name of a context.
LEMMA AssignIs ==
    ASSUME ProgramAssumption, NEW c \in Contexts, NEW n \in Known, NEW v \in Good
    PROVE  /\ Assign(c, n, v) \in Contexts
           /\ \A x : Lookup(Assign(c, n, v), x) = IF x = n THEN v ELSE Lookup(c, x)
<1>1. DOMAIN c \subseteq Known /\ Scalars \subseteq DOMAIN c /\ \A x \in DOMAIN c : c[x] \in Good
    BY ContextIs, Zenon
<1> DEFINE D == DOMAIN c \cup {n}
<1>2. D \in SUBSET Known /\ Scalars \subseteq D
    BY <1>1, Zenon
<1>3. Assign(c, n, v) \in [D -> Good]
    BY <1>1, Zenon DEF Assign
<1>4. Assign(c, n, v) \in Contexts
    BY <1>2, <1>3, Zenon DEF Contexts
<1>5. \A x : Lookup(Assign(c, n, v), x) = IF x = n THEN v ELSE Lookup(c, x)
    BY Zenon DEF Assign, Lookup
<1> QED BY <1>4, <1>5, Zenon

\* The offset of a state buffer counts from the newest sample.
LEMMA BufferReadIs ==
    ASSUME NEW n \in Nat \ {0}, NEW r \in Ring(n), NEW k \in Nat
    PROVE  BufferRead(r, k) = HistoryRead(r, k + 1)
<1>1. /\ RingSize(r) = n /\ r.next \in 0..n-1 /\ r.count \in 0..n
    BY RingSizeIs, Zenon
<1>2. r.count <= k <=> r.count < k + 1
    BY <1>1
<1>3. r.next + n - 1 - k = r.next + n - (k + 1)
    BY <1>1
<1> QED BY <1>1, <1>2, <1>3, Zenon DEF BufferRead, HistoryRead

\* A lookback reads a sample of a history or of a buffer.
LEMMA SampleInIsGood ==
    ASSUME ProgramAssumption, NEW rs \in RingSets, NEW bufs \in BufferSets,
           NEW c, NEW r \in Sampled
    PROVE  /\ ResolveIn(rs, c, bufs, r) \in Good
           /\ ResolveIn(rs, c, bufs, r) = IF r[1] \in Buffers THEN HistoryRead(bufs[r[1]], r[2] + 1)
                                          ELSE HistoryRead(rs[r[1]], r[2])
<1>1. r[2] \in Nat
    BY DEF Sampled, ProgramAssumption
<1>2. CASE r[1] \in Buffers
    <2>1. bufs[r[1]] \in Ring(Capacity) /\ Capacity \in Nat \ {0}
        BY <1>2, Zenon DEF BufferSets, ProgramAssumption
    <2>2. BufferRead(bufs[r[1]], r[2]) = HistoryRead(bufs[r[1]], r[2] + 1)
        BY <1>1, <2>1, BufferReadIs, Zenon
    <2>3. r[2] + 1 \in Nat \ {0}
        BY <1>1
    <2>4. HistoryRead(bufs[r[1]], r[2] + 1) \in Good
        BY <2>1, <2>3, ReadIsGood, Zenon
    <2> QED BY <1>2, <2>2, <2>4, Zenon DEF ResolveIn
<1>3. CASE r[1] \notin Buffers
    <2>1. r \in Lookbacks /\ r[2] > 0 /\ r[1] \in Histories
        BY <1>3, Zenon DEF Lookbacks, Histories, Sampled
    <2>2. rs[r[1]] \in Ring(Depth[r[1]]) /\ Depth[r[1]] \in Nat \ {0}
        BY <2>1, DepthIs, Zenon DEF RingSets
    <2>3. r[2] \in Nat \ {0}
        BY <1>1, <2>1
    <2>4. HistoryRead(rs[r[1]], r[2]) \in Good
        BY <2>2, <2>3, ReadIsGood, Zenon
    <2> QED BY <1>3, <2>3, <2>4, Zenon DEF ResolveIn
<1> QED BY <1>2, <1>3, Zenon

\* So it does over the rings of the session.
LEMMA SampleIsGood ==
    ASSUME ProgramAssumption, rings \in RingSets, NEW bufs \in BufferSets,
           NEW c, NEW r \in Sampled
    PROVE  /\ Resolve(c, bufs, r) \in Good
           /\ Resolve(c, bufs, r) = IF r[1] \in Buffers THEN HistoryRead(bufs[r[1]], r[2] + 1)
                                    ELSE HistoryRead(rings[r[1]], r[2])
BY SampleInIsGood, Zenon DEF Resolve

\* What a binding reads now is a name of the context.
LEMMA ResolveNow ==
    ASSUME ProgramAssumption, NEW b \in Bindings \cup Captured, NEW r \in Reads[b],
           r \notin Sampled, NEW c, NEW bufs
    PROVE  Resolve(c, bufs, r) = Lookup(c, r[1]) /\ \A rs : ResolveIn(rs, c, bufs, r) = Lookup(c, r[1])
<1>1. r = <<r[1], 0>> /\ r[1] \in Inputs \cup Scalars \cup Lets
    BY ReadsNow, Zenon
<1>2. r[1] \notin Buffers /\ r[2] = 0
    BY <1>1, NamesApart
<1> QED BY <1>2, Zenon DEF Resolve, ResolveIn

\* An expression yields a result.
LEMMA EvalInIs ==
    ASSUME ProgramAssumption, NEW rs \in RingSets, NEW bufs \in BufferSets,
           NEW c \in Contexts, NEW b \in Bindings \cup Captured
    PROVE  EvalIn(rs, b, c, bufs) \in Results
<1> DEFINE got == [r \in Reads[b] |-> ResolveIn(rs, c, bufs, r)]
<1>1. ASSUME NEW r \in Reads[b] PROVE ResolveIn(rs, c, bufs, r) \in Results
    <2>1. CASE r \in Sampled
        BY <2>1, SampleInIsGood, SpecialValues, Zenon
    <2>2. CASE r \notin Sampled
        <3>1. ResolveIn(rs, c, bufs, r) = Lookup(c, r[1])
            BY <2>2, ResolveNow, Zenon
        <3> QED BY <3>1, ContextIs
    <2> QED BY <2>1, <2>2, Zenon
<1>2. got \in [Reads[b] -> Results]
    BY <1>1, Zenon
<1> HIDE DEF got
<1>3. Value[b][got] \in Results
    BY <1>2, ValueIs, Zenon
<1> QED BY <1>3, Zenon DEF EvalIn, got

\* So it does over the rings of the session.
LEMMA EvalIs ==
    ASSUME ProgramAssumption, rings \in RingSets, NEW bufs \in BufferSets,
           NEW c \in Contexts, NEW b \in Bindings \cup Captured
    PROVE  Eval(b, c, bufs) \in Results
BY EvalInIs, Zenon DEF Eval

\* An expression yields what it means when the context holds what it reads now.
LEMMA EvalMeans ==
    ASSUME ProgramAssumption, NEW b \in Bindings \cup Captured, NEW c, NEW bufs, NEW m, NEW seen,
           \A r \in Sampled : seen[r] = Resolve(c, bufs, r),
           \A n \in Known : <<n, 0>> \in Reads[b] => m[n] = Lookup(c, n)
    PROVE  Eval(b, c, bufs) = Value[b][Got(b, m, seen)]
<1>1. ASSUME NEW r \in Reads[b]
      PROVE  Resolve(c, bufs, r) = IF r \in Sampled THEN seen[r] ELSE m[r[1]]
    <2>1. CASE r \notin Sampled
        <3>1. Resolve(c, bufs, r) = Lookup(c, r[1])
            BY <2>1, ResolveNow, Zenon
        <3>2. r = <<r[1], 0>> /\ r[1] \in Known
            BY <2>1, ReadsNow, Zenon DEF Known
        <3>3. <<r[1], 0>> \in Reads[b]
            BY <3>2, Zenon
        <3> QED BY <2>1, <3>1, <3>2, <3>3, Zenon
    <2> QED BY <2>1, Zenon
<1>2. [r \in Reads[b] |-> Resolve(c, bufs, r)] = Got(b, m, seen)
    BY <1>1, Zenon DEF Got
<1> QED BY <1>2, Zenon DEF Eval, EvalIn, Resolve

-----------------------------------------------------------------------------
(* The binding loop *)

EvalState == [ctx : Contexts, pending : Seq(Update), err : {"ok", "failed"}]

\* Every turn of the loop leaves a context and staged updates.
LEMMA EvalStepIs ==
    ASSUME ProgramAssumption, rings \in RingSets, NEW bufs \in BufferSets,
           NEW s \in EvalState, NEW b \in Bindings
    PROVE  EvalStep(s, b, bufs) \in EvalState
<1> DEFINE v == Eval(b, s.ctx, bufs)
<1>1. s.ctx \in Contexts /\ s.pending \in Seq(Update) /\ s.err \in {"ok", "failed"}
    BY Zenon DEF EvalState
<1>2. v \in Results
    BY <1>1, EvalIs, Zenon
<1>3. EvalStep(s, b, bufs) =
        IF s.err = "failed" THEN s
        ELSE IF v = Fault THEN [s EXCEPT !.err = "failed"]
        ELSE IF b \in Updated
        THEN [s EXCEPT !.pending = Append(@, [name |-> b, value |-> v])]
        ELSE [s EXCEPT !.ctx = Assign(@, b, v)]
    BY Zenon DEF EvalStep
<1> HIDE DEF v
<1>4. CASE v # Fault /\ b \in Updated
    <2>1. [name |-> b, value |-> v] \in Update
        BY <1>2, <1>4, SpecialValues, Zenon DEF Update
    <2>2. Append(s.pending, [name |-> b, value |-> v]) \in Seq(Update)
        BY <1>1, <2>1
    <2> QED BY <1>3, <1>4, <2>2, Zenon DEF EvalState
<1>5. CASE v # Fault /\ b \notin Updated
    <2>1. b \in Known /\ v \in Good
        BY <1>2, <1>5, SpecialValues, Zenon DEF Known, Bindings
    <2>2. Assign(s.ctx, b, v) \in Contexts
        BY <1>1, <2>1, AssignIs, Zenon
    <2> QED BY <1>3, <1>5, <2>2, Zenon DEF EvalState
<1>6. CASE v = Fault
    BY <1>3, <1>6, Zenon DEF EvalState
<1> QED BY <1>4, <1>5, <1>6, Zenon

\* The loop, turn by turn.
LEMMA Evaluating ==
    ASSUME ProgramAssumption, order \in Listings, rings \in RingSets,
           NEW start, start.ctx \in Contexts, start.buffers \in BufferSets
    PROVE  /\ Evals(start)[0] = [ctx |-> start.ctx, pending |-> <<>>, err |-> "ok"]
           /\ \A k \in 0..Len(order) : Evals(start)[k] \in EvalState
           /\ \A k \in 1..Len(order) :
                 Evals(start)[k] = EvalStep(Evals(start)[k - 1], order[k], start.buffers)
<1> DEFINE N == Len(order)
           S == EvalState
           s0 == [ctx |-> start.ctx, pending |-> <<>>, err |-> "ok"]
           Step(s, k) == EvalStep(s, order[k], start.buffers)
           step == [k \in 1..N |-> [s \in S |-> Step(s, k)]]
           Is(f) == f = [k \in 0..N |-> IF k = 0 THEN s0
                                        ELSE EvalStep(f[k - 1], order[k], start.buffers)]
<1>1. N \in Nat /\ order \in [1..N -> Bindings]
    BY ListingIs, Zenon
<1>2. s0 \in S
    BY DEF EvalState
<1>3. ASSUME NEW k \in 1..N, NEW s \in S PROVE Step(s, k) \in S
    BY <1>1, EvalStepIs, Zenon
<1> HIDE DEF N, S, s0, Step
<1>4. step \in [1..N -> [S -> S]]
    BY <1>3, Zenon
<1> HIDE DEF step
<1>5. PICK f \in [0..N -> S] : Runs(f, N, s0, step)
    BY <1>1, <1>2, <1>4, LoopRuns, Zenon
<1>6. ASSUME NEW k \in 0..N
      PROVE  f[k] = IF k = 0 THEN s0 ELSE Step(f[k - 1], k)
    <2>1. f[k] = IF k = 0 THEN s0 ELSE step[k][f[k - 1]]
        BY <1>5, Zenon DEF Runs
    <2>2. CASE k = 0
        BY <2>1, <2>2, Zenon
    <2>3. CASE k # 0
        <3>1. k \in 1..N /\ k - 1 \in 0..N
            BY <1>1, <2>3
        <3>2. f[k - 1] \in S
            BY <3>1, Zenon
        <3>3. step[k][f[k - 1]] = Step(f[k - 1], k)
            BY <3>1, <3>2, Zenon DEF step
        <3> QED BY <2>1, <2>3, <3>3, Zenon
    <2> QED BY <2>2, <2>3, Zenon
<1>7. Is(f)
    <2>1. f = [k \in 0..N |-> f[k]]
        OBVIOUS
    <2> QED BY <1>6, <2>1, Zenon DEF Step
<1>8. Evals(start) = CHOOSE g : Is(g)
    BY Zenon DEF Evals, s0, N
<1>9. ASSUME NEW g, Is(g) PROVE g \in [0..N -> S] /\ g[0] = s0 /\ \A k \in 1..N : g[k] = Step(g[k - 1], k)
    <2> DEFINE K == {k \in 0..N : g[k] \in S}
    <2>1. ASSUME NEW k \in 0..N PROVE g[k] = IF k = 0 THEN s0 ELSE Step(g[k - 1], k)
        BY <1>9, Zenon DEF Step
    <2>2. g = [k \in 0..N |-> g[k]]
        BY <1>9, Zenon
    <2> HIDE DEF Is
    <2>3. 0 \in K
        BY <1>1, <1>2, <2>1
    <2>4. ASSUME NEW k \in 1..N, k - 1 \in K PROVE k \in K
        BY <1>1, <1>3, <2>1, <2>4
    <2>5. \A k \in 0..N : k \in K
        <3> HIDE DEF K
        <3> QED BY <1>1, <2>3, <2>4, UpTo, Zenon
    <2>6. g \in [0..N -> S]
        BY <2>2, <2>5, Zenon
    <2>7. g[0] = s0 /\ \A k \in 1..N : g[k] = Step(g[k - 1], k)
        BY <1>1, <2>1
    <2> QED BY <2>6, <2>7, Zenon
<1> HIDE DEF Is
<1>10. Is(Evals(start))
    BY <1>7, <1>8, Zenon
<1>11. Evals(start) \in [0..N -> S] /\ Evals(start)[0] = s0
       /\ \A k \in 1..N : Evals(start)[k] = Step(Evals(start)[k - 1], k)
    BY <1>9, <1>10, Zenon
<1> QED BY <1>1, <1>11, Zenon DEF s0, N, S, Step

(* What binding b means in a tick. *)
Outcome(b, m, seen) == Value[b][Got(b, m, seen)]

(* What k turns of the binding loop have done to a context c. *)
Follows(s, k, c, m, seen) ==
    /\ s.err = "failed" => \E j \in 1..k : Outcome(order[j], m, seen) = Fault
    /\ \A n \in Inputs \cup Scalars : Lookup(s.ctx, n) = Lookup(c, n)
    /\ s.err = "ok" => \A j \in 1..k : Outcome(order[j], m, seen) # Fault
    /\ s.err = "ok" => \A j \in 1..k : order[j] \in Lets => Lookup(s.ctx, order[j]) = m[order[j]]
    /\ s.err = "ok" => \A i \in 1..Len(s.pending) :
          /\ s.pending[i].value = Outcome(s.pending[i].name, m, seen)
          /\ \E j \in 1..k : order[j] = s.pending[i].name
    /\ s.err = "ok" => \A j \in 1..k : order[j] \in Updated =>
          \E i \in 1..Len(s.pending) : s.pending[i].name = order[j]
    /\ s.err = "ok" => \A i, j \in 1..Len(s.pending) :
          i # j => s.pending[i].name # s.pending[j].name

\* The values m that the names stand for have the inputs and states of context c.
Begins(m, c) == \A n \in Inputs \cup Scalars : m[n] = Lookup(c, n)

\* The samples seen are those a read of an earlier tick finds.
Recalls(seen, bufs) == \A d, r : r \in Sampled => seen[r] = Resolve(d, bufs, r)

\* One turn of the binding loop computes what its binding means.
LEMMA FollowsStep ==
    ASSUME ProgramAssumption, order \in Orders, rings \in RingSets, NEW bufs \in BufferSets,
           NEW c \in Contexts, NEW m \in [Names -> Results], NEW seen, Solves(m, seen),
           Begins(m, c), Recalls(seen, bufs),
           NEW k \in 1..Len(order), NEW s \in EvalState, Follows(s, k - 1, c, m, seen)
    PROVE  Follows(EvalStep(s, order[k], bufs), k, c, m, seen)
<1> DEFINE b == order[k]
           v == Eval(b, s.ctx, bufs)
           t == EvalStep(s, b, bufs)
<1>1. /\ Len(order) \in Nat /\ order \in [1..Len(order) -> Bindings]
      /\ \A x \in Bindings : \E i \in 1..Len(order) : order[i] = x
      /\ \A i, j \in 1..Len(order) : i # j => order[i] # order[j]
    BY ListingIs, Zenon DEF Orders
<1>2. \A i, j \in 1..Len(order) : DependsOnLet(order[j], order[i]) => i < j
    BY <1>1, Zenon DEF Orders, Topological
<1>3. s.ctx \in Contexts /\ s.pending \in Seq(Update) /\ s.err \in {"ok", "failed"}
    BY Zenon DEF EvalState
<1>4. b \in Bindings /\ \A j \in 1..k : j = k \/ j \in 1..k-1
    BY <1>1
<1>5. /\ \A j \in 1..k-1 : j \in 1..k
      /\ k \in 1..k /\ k - 1 \in 0..Len(order)
    BY <1>1
<1>6. t = IF s.err = "failed" THEN s
          ELSE IF v = Fault THEN [s EXCEPT !.err = "failed"]
          ELSE IF b \in Updated
          THEN [s EXCEPT !.pending = Append(@, [name |-> b, value |-> v])]
          ELSE [s EXCEPT !.ctx = Assign(@, b, v)]
    BY Zenon DEF EvalStep
<1>7. ASSUME s.err = "ok" PROVE v = Outcome(b, m, seen)
    <2>1. ASSUME NEW n \in Known, <<n, 0>> \in Reads[b] PROVE m[n] = Lookup(s.ctx, n)
        <3>1. CASE n \in Inputs \cup Scalars
            BY <3>1, Zenon DEF Follows, Begins
        <3>2. CASE n \in Lets
            <4>1. DependsOnLet(b, n)
                BY <2>1, <3>2, Zenon DEF DependsOnLet
            <4>2. PICK i \in 1..Len(order) : order[i] = n
                BY <1>1, <3>2, Zenon DEF Bindings
            <4>3. i \in 1..k-1
                BY <1>2, <4>1, <4>2
            <4> QED BY <1>7, <3>2, <4>2, <4>3, Zenon DEF Follows
        <3> QED BY <3>1, <3>2, Zenon DEF Known
    <2>2. \A r \in Sampled : seen[r] = Resolve(s.ctx, bufs, r)
        BY Zenon DEF Recalls
    <2>3. b \in Bindings \cup Captured
        BY <1>4, Zenon
    <2> HIDE DEF b
    <2> QED BY <2>1, <2>2, <2>3, EvalMeans DEF Outcome
<1>8. v \in Results
    BY <1>3, <1>4, EvalIs, Zenon
<1> HIDE DEF v, t
<1>9. CASE s.err = "failed"
    <2>1. t = s
        BY <1>6, <1>9, Zenon
    <2>2. Follows(s, k, c, m, seen)
        BY <1>5, <1>9, Zenon DEF Follows
    <2> QED BY <2>1, <2>2, Zenon DEF t
<1>10. CASE s.err = "ok" /\ v = Fault
    <2>1. t.err = "failed" /\ t.ctx = s.ctx
        BY <1>6, <1>10, Zenon DEF EvalState
    <2>2. Outcome(order[k], m, seen) = Fault
        BY <1>7, <1>10, Zenon
    <2>3. Follows(t, k, c, m, seen)
        BY <1>5, <2>1, <2>2, Zenon DEF Follows
    <2> QED BY <2>3, Zenon DEF t
<1>11. CASE s.err = "ok" /\ v # Fault /\ b \in Updated
    <2> DEFINE u == [name |-> b, value |-> v]
               q == Append(s.pending, u)
    <2>1. t.err = "ok" /\ t.ctx = s.ctx /\ t.pending = q
        BY <1>6, <1>11, Zenon DEF EvalState
    <2>2. u \in Update /\ u.name = b /\ u.value = v
        BY <1>8, <1>11, SpecialValues, Zenon DEF Update
    <2> HIDE DEF u
    <2>3. /\ Len(q) = Len(s.pending) + 1 /\ Len(s.pending) \in Nat
          /\ \A i \in 1..Len(s.pending) : q[i] = s.pending[i]
          /\ q[Len(s.pending) + 1] = u
        BY <1>3, <2>2
    <2> HIDE DEF q
    <2>4. \A i \in 1..Len(q) : i = Len(q) \/ i \in 1..Len(s.pending)
        BY <2>3
    <2>5. Outcome(b, m, seen) = v /\ b \notin Lets
        BY <1>7, <1>11, NamesApart, Zenon
    <2>6. \A j \in 1..k : Outcome(order[j], m, seen) # Fault
        BY <1>4, <1>11, <2>5, Zenon DEF Follows
    <2>7. \A j \in 1..k : order[j] \in Lets => Lookup(t.ctx, order[j]) = m[order[j]]
        BY <1>4, <1>11, <2>1, <2>5, Zenon DEF Follows
    <2>8. ASSUME NEW i \in 1..Len(q)
          PROVE  q[i].value = Outcome(q[i].name, m, seen) /\ \E j \in 1..k : order[j] = q[i].name
        <3>1. CASE i = Len(q)
            BY <1>5, <2>2, <2>3, <2>5, <3>1, Zenon
        <3>2. CASE i \in 1..Len(s.pending)
            BY <1>5, <1>11, <2>3, <3>2, SMTT(30) DEF Follows
        <3> QED BY <2>4, <3>1, <3>2, Zenon
    <2>9. ASSUME NEW j \in 1..k, order[j] \in Updated
          PROVE  \E i \in 1..Len(q) : q[i].name = order[j]
        <3>1. CASE j = k
            <4>1. Len(q) \in 1..Len(q)
                BY <2>3
            <4> QED BY <2>2, <2>3, <3>1, <4>1, Zenon
        <3>2. CASE j \in 1..k-1
            <4>1. PICK i \in 1..Len(s.pending) : s.pending[i].name = order[j]
                BY <1>11, <2>9, <3>2, Zenon DEF Follows
            <4>2. i \in 1..Len(q) /\ q[i] = s.pending[i]
                BY <2>3
            <4> QED BY <4>1, <4>2, Zenon
        <3> QED BY <1>4, <3>1, <3>2, Zenon
    <2>10. ASSUME NEW i \in 1..Len(s.pending) PROVE s.pending[i].name # b
        <3>1. PICK j \in 1..k-1 : order[j] = s.pending[i].name
            BY <1>11, Zenon DEF Follows
        <3>2. j \in 1..Len(order) /\ k \in 1..Len(order) /\ j # k
            BY <1>1
        <3> QED BY <1>1, <3>1, <3>2, Zenon
    <2>11. \A i, j \in 1..Len(q) : i # j => q[i].name # q[j].name
        <3>1. \A i, j \in 1..Len(s.pending) : i # j => s.pending[i].name # s.pending[j].name
            BY <1>11, Zenon DEF Follows
        <3>2. ASSUME NEW i \in 1..Len(q), NEW j \in 1..Len(q), i # j PROVE q[i].name # q[j].name
            <4>1. CASE i \in 1..Len(s.pending) /\ j \in 1..Len(s.pending)
                BY <2>3, <3>1, <3>2, <4>1, Zenon
            <4>2. CASE i = Len(q)
                BY <2>2, <2>3, <2>4, <2>10, <3>2, <4>2, Zenon
            <4>3. CASE j = Len(q)
                BY <2>2, <2>3, <2>4, <2>10, <3>2, <4>3, Zenon
            <4> QED BY <2>4, <4>1, <4>2, <4>3, Zenon
        <3> QED BY <3>2, Zenon
    <2>12. \A n \in Inputs \cup Scalars : Lookup(t.ctx, n) = Lookup(c, n)
        BY <2>1, Zenon DEF Follows
    <2>13. Follows(t, k, c, m, seen)
        BY <2>1, <2>6, <2>7, <2>8, <2>9, <2>11, <2>12, Zenon DEF Follows
    <2> QED BY <2>13, Zenon DEF t
<1>12. CASE s.err = "ok" /\ v # Fault /\ b \notin Updated
    <2>1. t.err = "ok" /\ t.ctx = Assign(s.ctx, b, v) /\ t.pending = s.pending
        BY <1>6, <1>12, Zenon DEF EvalState
    <2>2. b \in Lets /\ b \in Known /\ v \in Good
        BY <1>4, <1>8, <1>12, SpecialValues, Zenon DEF Bindings, Known
    <2>3. \A x : Lookup(t.ctx, x) = IF x = b THEN v ELSE Lookup(s.ctx, x)
        BY <1>3, <2>1, <2>2, AssignIs, SMTT(30)
    <2>4. Outcome(b, m, seen) = v /\ m[b] = v
        BY <1>7, <1>12, <2>2, Zenon DEF Solves, Outcome
    <2>5. \A n \in Inputs \cup Scalars : Lookup(t.ctx, n) = Lookup(c, n)
        BY <2>2, <2>3, NamesApart, Zenon DEF Follows
    <2>6. \A j \in 1..k : Outcome(order[j], m, seen) # Fault
        BY <1>4, <1>12, <2>4, Zenon DEF Follows
    <2>7. \A j \in 1..k : order[j] \in Lets => Lookup(t.ctx, order[j]) = m[order[j]]
        BY <1>4, <1>12, <2>3, <2>4, Zenon DEF Follows
    <2>8. \A i \in 1..Len(t.pending) :
             /\ t.pending[i].value = Outcome(t.pending[i].name, m, seen)
             /\ \E j \in 1..k : order[j] = t.pending[i].name
        BY <1>5, <1>12, <2>1, SMTT(30) DEF Follows
    <2>9. \A j \in 1..k : order[j] \in Updated => \E i \in 1..Len(t.pending) : t.pending[i].name = order[j]
        BY <1>4, <1>12, <2>1, SMTT(30) DEF Follows
    <2>10. \A i, j \in 1..Len(t.pending) : i # j => t.pending[i].name # t.pending[j].name
        BY <1>12, <2>1, Zenon DEF Follows
    <2>11. Follows(t, k, c, m, seen)
        BY <2>1, <2>5, <2>6, <2>7, <2>8, <2>9, <2>10, Zenon DEF Follows
    <2> QED BY <2>11, Zenon DEF t
<1> QED BY <1>3, <1>9, <1>10, <1>11, <1>12, Zenon

(* Staged updates: each updated state once, with what its update means. *)
StagesAll(p, m, seen) ==
    /\ \A i \in 1..Len(p) : p[i].value = Outcome(p[i].name, m, seen)
    /\ \A u \in Updated : \E i \in 1..Len(p) : p[i].name = u
    /\ \A i, j \in 1..Len(p) : i # j => p[i].name # p[j].name

\* The binding loop fails when some binding does, and else computes what all of
\* them mean; states keep the values the tick began with.
LEMMA RunIs ==
    ASSUME ProgramAssumption, order \in Orders, rings \in RingSets,
           NEW start, start.ctx \in Contexts, start.buffers \in BufferSets,
           NEW m \in [Names -> Results], NEW seen, Solves(m, seen),
           Begins(m, start.ctx), Recalls(seen, start.buffers)
    PROVE  /\ EvalAll(start) \in EvalState
           /\ EvalAll(start).err = "ok" <=> \A b \in Bindings : Outcome(b, m, seen) # Fault
           /\ \A n \in Inputs \cup Scalars : Lookup(EvalAll(start).ctx, n) = Lookup(start.ctx, n)
           /\ EvalAll(start).err = "ok" => \A n \in Lets : Lookup(EvalAll(start).ctx, n) = m[n]
           /\ EvalAll(start).err = "ok" => StagesAll(EvalAll(start).pending, m, seen)
<1> DEFINE N == Len(order)
           f == Evals(start)
           c == start.ctx
           K == {k \in 0..N : Follows(f[k], k, c, m, seen)}
<1>1. /\ N \in Nat /\ order \in [1..N -> Bindings]
      /\ \A b \in Bindings : \E i \in 1..N : order[i] = b
    BY ListingIs, Zenon DEF Orders
<1>2. /\ f[0] = [ctx |-> c, pending |-> <<>>, err |-> "ok"]
      /\ \A k \in 0..N : f[k] \in EvalState
      /\ \A k \in 1..N : f[k] = EvalStep(f[k - 1], order[k], start.buffers)
    BY Evaluating, Zenon DEF Orders
<1> HIDE DEF f
<1>3. 0 \in K
    <2>1. f[0].ctx = c /\ f[0].err = "ok" /\ f[0].pending = <<>> /\ Len(<<>>) = 0
        BY <1>2, SMTT(30)
    <2>2. Follows(f[0], 0, c, m, seen)
        BY <2>1, SMTT(30) DEF Follows
    <2> QED BY <1>1, <2>2, SMTT(30)
<1>4. ASSUME NEW k \in 1..N, k - 1 \in K PROVE k \in K
    <2>1. f[k - 1] \in EvalState /\ Follows(f[k - 1], k - 1, c, m, seen)
        BY <1>2, <1>4, Zenon
    <2>2. Follows(EvalStep(f[k - 1], order[k], start.buffers), k, c, m, seen)
        BY <2>1, FollowsStep, Zenon
    <2> QED BY <1>1, <1>2, <2>2, SMTT(30)
<1>5. \A k \in 0..N : k \in K
    <2> HIDE DEF K
    <2> QED BY <1>1, <1>3, <1>4, UpTo, Zenon
<1> DEFINE r == f[N]
<1>6. Follows(r, N, c, m, seen) /\ r \in EvalState
    BY <1>1, <1>2, <1>5
<1>7. EvalAll(start) = r
    BY Zenon DEF EvalAll, f
<1> HIDE DEF r, K
<1>8. r.err \in {"ok", "failed"}
    BY <1>6, Zenon DEF EvalState
<1>9. r.err = "ok" <=> \A b \in Bindings : Outcome(b, m, seen) # Fault
    BY <1>1, <1>6, <1>8, SMTT(30) DEF Follows
<1>10. ASSUME r.err = "ok", NEW n \in Lets PROVE Lookup(r.ctx, n) = m[n]
    <2>1. PICK i \in 1..N : order[i] = n
        BY <1>1, Zenon DEF Bindings
    <2> QED BY <1>6, <1>10, <2>1, Zenon DEF Follows
<1>11. ASSUME r.err = "ok" PROVE StagesAll(r.pending, m, seen)
    <2>1. ASSUME NEW u \in Updated PROVE \E i \in 1..Len(r.pending) : r.pending[i].name = u
        <3>1. PICK j \in 1..N : order[j] = u
            BY <1>1, Zenon DEF Bindings
        <3> QED BY <1>6, <1>11, <3>1, Zenon DEF Follows
    <2> QED BY <1>6, <1>11, <2>1, Zenon DEF Follows, StagesAll
<1>12. \A n \in Inputs \cup Scalars : Lookup(r.ctx, n) = Lookup(c, n)
    BY <1>6, Zenon DEF Follows
<1> QED BY <1>6, <1>7, <1>9, <1>10, <1>11, <1>12, Zenon
=============================================================================
