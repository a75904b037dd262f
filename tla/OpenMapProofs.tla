--------------------------- MODULE OpenMapProofs ---------------------------
(***************************************************************************)
(* That the open-addressing tables hold what was stored, for every set of  *)
(* names, hash function and initial capacity.                              *)
(***************************************************************************)
EXTENDS OpenMapMachine, FiniteSetTheorems, TLAPS

----------------------------------------------------------------------------
(* Induction over numbers, and loops *)

\* A set of natural numbers that is not empty has a least element.
LEMMA LeastNumber ==
    ASSUME NEW T, T \subseteq Nat, T # {}
    PROVE  \E x \in T : \A y \in T : x <= y
<1> DEFINE R == OpToRel(<, Nat)
<1>1. IsWellFoundedOn(R, Nat)
    BY NatLessThanWellFounded, Zenon
<1>2. \A x, y \in Nat : <<x, y>> \in R <=> x < y
    BY Zenon DEF OpToRel
<1> HIDE DEF R
<1>3. PICK x \in T : \A y \in T : ~(<<y, x>> \in R)
    BY <1>1, WFMin, Zenon
<1>4. ASSUME NEW y \in T PROVE x <= y
    <2>1. x \in Nat /\ y \in Nat /\ ~(<<y, x>> \in R)
        BY <1>3, Zenon
    <2> QED BY <1>2, <2>1
<1> QED BY <1>4, Zenon

(* A set of numbers that holds 0, and i if it holds i - 1, up to n. *)
LEMMA UpTo ==
    ASSUME NEW n \in Nat, NEW S, 0 \in S, \A i \in 1 .. n : i - 1 \in S => i \in S
    PROVE  \A i \in 0 .. n : i \in S
<1> DEFINE T == {i \in 0 .. n : i \notin S}
<1> SUFFICES ASSUME T # {} PROVE FALSE
    OBVIOUS
<1>1. T \subseteq Nat
    OBVIOUS
<1> HIDE DEF T
<1>2. PICK x \in T : \A y \in T : x <= y
    BY <1>1, LeastNumber, Zenon
<1> USE DEF T
<1>3. x \in 1 .. n /\ x - 1 \in 0 .. n
    BY <1>2
<1>4. x - 1 \in S
    BY <1>2, <1>3
<1> QED BY <1>2, <1>3, <1>4, Zenon

(* The states a loop runs through: s0, then what step makes of each. *)
Runs(f, n, s0, step) == f = [i \in 0 .. n |-> IF i = 0 THEN s0 ELSE step[i][f[i - 1]]]

\* A loop whose steps stay in S has such a sequence of states.
LEMMA LoopRuns ==
    ASSUME NEW n \in Nat, NEW S, NEW s0 \in S, NEW step \in [1 .. n -> [S -> S]]
    PROVE  \E f \in [0 .. n -> S] : Runs(f, n, s0, step)
<1> DEFINE D == {k \in 0 .. n : \E f \in [0 .. k -> S] : Runs(f, k, s0, step)}
<1>1. 0 \in D
    <2> DEFINE f == [i \in 0 .. 0 |-> s0]
    <2>1. f \in [0 .. 0 -> S] /\ f[0] = s0
        OBVIOUS
    <2>2. f = [i \in 0 .. 0 |-> IF i = 0 THEN s0 ELSE step[i][f[i - 1]]]
        OBVIOUS
    <2> HIDE DEF f
    <2> QED BY <2>1, <2>2 DEF Runs
<1>2. ASSUME NEW k \in 1 .. n, k - 1 \in D PROVE k \in D
    <2>1. PICK f \in [0 .. k - 1 -> S] : Runs(f, k - 1, s0, step)
        BY <1>2, Zenon
    <2> DEFINE g == [i \in 0 .. k |-> IF i = k THEN step[k][f[k - 1]] ELSE f[i]]
    <2>2. k - 1 \in 0 .. k - 1 /\ f[k - 1] \in S /\ step[k][f[k - 1]] \in S
        BY <1>2
    <2>3. g \in [0 .. k -> S]
        BY <2>2
    <2>4. ASSUME NEW i \in 0 .. k
          PROVE  g[i] = IF i = 0 THEN s0 ELSE step[i][g[i - 1]]
        <3>1. CASE i = k
            <4>1. g[k] = step[k][f[k - 1]] /\ g[k - 1] = f[k - 1]
                OBVIOUS
            <4> QED BY <3>1, <4>1
        <3>2. CASE i # k
            <4>1. i \in 0 .. k - 1 /\ g[i] = f[i]
                BY <3>2
            <4>2. f[i] = IF i = 0 THEN s0 ELSE step[i][f[i - 1]]
                BY <2>1, <4>1, Zenon DEF Runs
            <4>3. i # 0 => g[i - 1] = f[i - 1]
                BY <4>1
            <4> HIDE DEF g
            <4> QED BY <4>1, <4>2, <4>3, Zenon
        <3> QED BY <3>1, <3>2, Zenon
    <2>5. Runs(g, k, s0, step)
        <3>1. g = [i \in 0 .. k |-> g[i]]
            BY <2>3, Zenon
        <3> HIDE DEF g
        <3> QED BY <2>4, <3>1, Zenon DEF Runs
    <2>6. k \in 0 .. n
        OBVIOUS
    <2> HIDE DEF g
    <2> QED BY <2>3, <2>5, <2>6, Zenon
<1> HIDE DEF D
<1>3. \A k \in 0 .. n : k \in D
    BY <1>1, <1>2, UpTo, Zenon
<1>4. n \in D
    BY <1>3
<1> QED BY <1>4, Zenon DEF D

----------------------------------------------------------------------------
(* Arithmetic of the probe. *)

\* Division of a hash by the capacity.
LEMMA Remainder ==
    ASSUME NEW cap \in Nat \ {0}, NEW a \in Nat
    PROVE  /\ a = cap * (a \div cap) + (a % cap)
           /\ a % cap \in 0 .. cap - 1
           /\ a \div cap \in Nat
OBVIOUS

\* The remainder of a number written as quotient and remainder.
LEMMA RemainderIs ==
    ASSUME NEW cap \in Nat \ {0}, NEW k \in Nat, NEW e \in 0 .. cap - 1
    PROVE  (cap * k + e) % cap = e
<1> DEFINE u == cap * k + e
           q == u \div cap
<1>1. u \in Nat
    OBVIOUS
<1>2. u = cap * q + (u % cap) /\ u % cap \in 0 .. cap - 1 /\ q \in Nat
    BY <1>1, Remainder, Zenon
<1>3. q = k
    <2>1. CASE q < k
        <3>1. PICK z \in Nat : k = q + 1 + z
            BY <1>2, <2>1
        <3> QED BY <1>2, <3>1
    <2>2. CASE q > k
        <3>1. PICK z \in Nat : q = k + 1 + z
            BY <1>2, <2>2
        <3> QED BY <1>2, <3>1
    <2> QED BY <1>2, <2>1, <2>2
<1> QED BY <1>2, <1>3

\* The cell d steps after the home cell.
LEMMA ProbeAt ==
    ASSUME NEW cap \in Nat \ {0}, NEW a \in Nat, NEW d \in 0 .. cap - 1
    PROVE  /\ a % cap \in 0 .. cap - 1
           /\ (a + d) % cap = IF (a % cap) + d < cap THEN (a % cap) + d ELSE (a % cap) + d - cap
<1> DEFINE q == a \div cap
           r == a % cap
<1>1. a = cap * q + r /\ r \in 0 .. cap - 1 /\ q \in Nat
    BY Remainder, Zenon
<1>2. CASE r + d < cap
    <2>1. a + d = cap * q + (r + d) /\ r + d \in 0 .. cap - 1
        BY <1>1, <1>2
    <2> QED BY <1>1, <1>2, <2>1, RemainderIs, Zenon
<1>3. CASE ~(r + d < cap)
    <2>1. a + d = cap * (q + 1) + (r + d - cap) /\ r + d - cap \in 0 .. cap - 1 /\ q + 1 \in Nat
        BY <1>1, <1>3
    <2> HIDE DEF q, r
    <2>2. (a + d) % cap = r + d - cap
        BY <2>1, RemainderIs, Zenon
    <2> QED BY <1>1, <1>3, <2>2, Zenon DEF r
<1> QED BY <1>2, <1>3, Zenon

\* Every cell is met by a probe, and the cells met before it are those Before.
LEMMA ProbeMeets ==
    ASSUME NEW cap \in Nat \ {0}, NEW a \in Nat, NEW i \in 0 .. cap - 1
    PROVE  \E d \in 0 .. cap - 1 : (a + d) % cap = i
<1> DEFINE h == a % cap
           d == IF h <= i THEN i - h ELSE i - h + cap
<1>1. h \in 0 .. cap - 1
    BY Remainder, Zenon
<1>2. d \in 0 .. cap - 1
    <2> HIDE DEF h
    <2> QED BY <1>1
<1> HIDE DEF d
<1>3. (a + d) % cap = IF h + d < cap THEN h + d ELSE h + d - cap
    BY <1>2, ProbeAt, Zenon
<1> HIDE DEF h
<1>4. (a + d) % cap = i
    BY <1>1, <1>2, <1>3 DEF d
<1> QED BY <1>2, <1>4, Zenon

\* What lies before the cell of step d was met by an earlier step.
LEMMA ProbeBefore ==
    ASSUME NEW cap \in Nat \ {0}, NEW a \in Nat, NEW d \in 0 .. cap - 1,
           NEW j \in 0 .. cap - 1, Before(a % cap, j, (a + d) % cap)
    PROVE  \E e \in 0 .. d - 1 : (a + e) % cap = j
<1> DEFINE h == a % cap
           i == (a + d) % cap
           e == IF h <= j THEN j - h ELSE j - h + cap
<1>1. h \in 0 .. cap - 1 /\ i = IF h + d < cap THEN h + d ELSE h + d - cap
    BY ProbeAt, Zenon
<1>2. Before(h, j, i)
    OBVIOUS
<1>3. e \in 0 .. cap - 1 /\ e < d
    <2> HIDE DEF h, i
    <2> QED BY <1>1, <1>2 DEF Before
<1> HIDE DEF e
<1>4. (a + e) % cap = IF h + e < cap THEN h + e ELSE h + e - cap
    BY <1>3, ProbeAt, Zenon
<1>5. (a + e) % cap = j
    <2> HIDE DEF h
    <2> QED BY <1>1, <1>3, <1>4 DEF e
<1>6. e \in 0 .. d - 1
    BY <1>3
<1> QED BY <1>5, <1>6, Zenon

----------------------------------------------------------------------------
(* Where a probe stops. *)

\* The fields of a table.
LEMMA TableIs ==
    ASSUME NEW m \in Table
    PROVE  /\ m.cap \in Nat \ {0} /\ m.count \in Nat
           /\ m.cells \in [0 .. m.cap - 1 -> Cell]
           /\ m \in Tables(m.cap)
           /\ m = [cap |-> m.cap, count |-> m.count, cells |-> m.cells]
BY DEF Table, Tables

\* With a free cell in the table a probe stops, at the name or at the first
\* free cell.
LEMMA Stops ==
    ASSUME NEW m \in Table, Roomy(m), NEW n \in Names
    PROVE  /\ FindSlot(m, n) \in 0 .. m.cap - 1
           /\ m.cells[FindSlot(m, n)].name \in {n, NoName}
           /\ \A j \in 0 .. m.cap - 1 : Before(Home(n, m.cap), j, FindSlot(m, n))
                                          => m.cells[j].name \notin {n, NoName}
<1> DEFINE cap == m.cap
           a == Hash[n]
           At(d) == m.cells[(a + d) % cap].name
           D == {d \in 0 .. cap - 1 : At(d) \in {n, NoName}}
           d0 == ProbeLength(m.cells, cap, n)
<1>1. cap \in Nat \ {0} /\ a \in Nat
    BY TableIs, TableAssumption, Zenon
<1>2. PICK i \in 0 .. cap - 1 : m.cells[i].name = NoName
    BY Zenon DEF Roomy, Free
<1>3. PICK d \in 0 .. cap - 1 : (a + d) % cap = i
    BY <1>1, ProbeMeets, Zenon
<1>4. D \subseteq Nat /\ D # {}
    BY <1>1, <1>2, <1>3
<1> HIDE DEF D
<1>5. PICK x \in D : \A y \in D : x <= y
    BY <1>4, LeastNumber, Zenon
<1>6. x \in 0 .. cap - 1 /\ At(x) \in {n, NoName} /\ \A e \in 0 .. x - 1 : At(e) \notin {n, NoName}
    BY <1>1, <1>5 DEF D
<1>7. /\ d0 \in 0 .. cap - 1 /\ At(d0) \in {n, NoName}
      /\ \A e \in 0 .. d0 - 1 : At(e) \notin {n, NoName}
    BY <1>6, Zenon DEF ProbeLength
<1>8. FindSlot(m, n) = (a + d0) % cap
    BY Zenon DEF FindSlot
<1> HIDE DEF d0
<1> HIDE DEF cap, a
<1>9. FindSlot(m, n) \in 0 .. cap - 1
    BY <1>1, <1>7, <1>8, Remainder
<1>10. ASSUME NEW j \in 0 .. cap - 1, Before(Home(n, cap), j, FindSlot(m, n))
       PROVE  m.cells[j].name \notin {n, NoName}
    <2>1. PICK e \in 0 .. d0 - 1 : (a + e) % cap = j
        <3>1. Before(a % cap, j, (a + d0) % cap)
            BY <1>8, <1>10, Zenon DEF Home, a
        <3>2. cap \in Nat \ {0} /\ a \in Nat /\ d0 \in 0 .. cap - 1 /\ j \in 0 .. cap - 1
            BY <1>1, <1>7, <1>10, Zenon
        <3> HIDE DEF At
        <3>3. \E e \in 0 .. d0 - 1 : (a + e) % cap = j
            BY <3>1, <3>2, ProbeBefore, ZenonT(60)
        <3> QED BY <3>3, Zenon
    <2> QED BY <1>7, <2>1, Zenon
<1> QED BY <1>7, <1>8, <1>9, <1>10, Zenon DEF cap

\* The cell of a name that a probe reaches is the one it stops at.
LEMMA FindsIt ==
    ASSUME NEW m \in Table, Roomy(m), Single(m), NEW n \in Names,
           NEW i \in 0 .. m.cap - 1, m.cells[i].name = n, Reached(m, i)
    PROVE  FindSlot(m, n) = i
<1> DEFINE s == FindSlot(m, n)
           h == Home(n, m.cap)
<1>1. /\ s \in 0 .. m.cap - 1 /\ m.cells[s].name \in {n, NoName}
      /\ \A j \in 0 .. m.cap - 1 : Before(h, j, s) => m.cells[j].name \notin {n, NoName}
    BY Stops, Zenon
<1>2. h \in 0 .. m.cap - 1
    BY ProbeAt, TableIs, TableAssumption, Zenon DEF Home
<1> HIDE DEF s, h
<1>3. s = i \/ Before(h, s, i) \/ Before(h, i, s)
    BY <1>1, <1>2, TableIs DEF Before
<1>4. ~Before(h, i, s)
    BY <1>1, Zenon
<1>5. Before(h, s, i) => ~Free(m, s)
    BY <1>1, Zenon DEF Reached, h
<1>6. Before(h, s, i) => m.cells[s].name = n
    BY <1>1, <1>5, Zenon DEF Free
<1>7. n # NoName
    BY TableAssumption, Zenon
<1>8. Before(h, s, i) => s = i
    BY <1>1, <1>6, <1>7, Zenon DEF Single, Free
<1> QED BY <1>3, <1>4, <1>8, Zenon DEF s

----------------------------------------------------------------------------
(* Placing a cell. *)

\* Put changes one cell.
LEMMA PutIs ==
    ASSUME NEW m \in Table, NEW cell \in Cell
    PROVE  /\ Put(m, cell) \in Tables(m.cap)
           /\ Put(m, cell).cap = m.cap /\ Put(m, cell).count = m.count
           /\ Put(m, cell).cells = [m.cells EXCEPT ![FindSlot(m, cell.name)] = cell]
<1> DEFINE s == FindSlot(m, cell.name)
           c == [m.cells EXCEPT ![s] = cell]
<1> HIDE DEF s
<1>1. m.cells \in [0 .. m.cap - 1 -> Cell] /\ m.count \in Nat /\ m.cap \in Nat \ {0}
    BY TableIs, Zenon
<1>2. c \in [0 .. m.cap - 1 -> Cell]
    BY <1>1, Zenon
<1> HIDE DEF c
<1>3. Put(m, cell) = [m EXCEPT !.cells = c]
    BY Zenon DEF Put, s, c
<1>4. m = [cap |-> m.cap, count |-> m.count, cells |-> m.cells]
    BY TableIs, Zenon
<1>5. Put(m, cell) = [cap |-> m.cap, count |-> m.count, cells |-> c]
    BY <1>3, <1>4, Zenon
<1> QED BY <1>1, <1>2, <1>5 DEF Tables, c, s

\* Tables of one capacity are tables.
LEMMA TablesAreTable == ASSUME NEW cap \in Nat \ {0} PROVE Tables(cap) \subseteq Table
BY Zenon DEF Table

\* A name that has no cell takes the free one its probe stops at, and no
\* other cell is harder to reach.
LEMMA PutNew ==
    ASSUME NEW m \in Table, Roomy(m), NEW cell \in Cell, cell.name \in Names,
           Absent(m, cell.name)
    PROVE  LET p == Put(m, cell)
               s == FindSlot(m, cell.name) IN
           /\ s \in 0 .. m.cap - 1 /\ Free(m, s)
           /\ p \in Table /\ p.cap = m.cap /\ p.count = m.count
           /\ p.cells = [m.cells EXCEPT ![s] = cell]
           /\ \A i \in 0 .. m.cap - 1 : p.cells[i] = IF i = s THEN cell ELSE m.cells[i]
           /\ Single(m) => Single(p)
           /\ Reached(p, s)
           /\ \A i \in 0 .. m.cap - 1 : ~Free(m, i) /\ Reached(m, i) => Reached(p, i)
           /\ Occupied(p) = Occupied(m) \cup {s}
<1> DEFINE n == cell.name
           p == Put(m, cell)
           s == FindSlot(m, cell.name)
<1>0. \A i \in 0 .. m.cap - 1 : m.cells[i].name # cell.name
    BY Zenon DEF Absent
<1>1. /\ s \in 0 .. m.cap - 1 /\ m.cells[s].name \in {n, NoName}
      /\ \A j \in 0 .. m.cap - 1 : Before(Home(n, m.cap), j, s) => m.cells[j].name \notin {n, NoName}
    BY Stops, Zenon
<1>2. Free(m, s) /\ n # NoName
    BY <1>0, <1>1, TableAssumption, Zenon DEF Free
<1>3. p \in Tables(m.cap) /\ p.cap = m.cap /\ p.count = m.count /\ p.cells = [m.cells EXCEPT ![s] = cell]
    BY PutIs, Zenon
<1>4. p \in Table
    BY <1>3, TableIs, TablesAreTable, Zenon
<1>5. \A i \in 0 .. m.cap - 1 : p.cells[i] = IF i = s THEN cell ELSE m.cells[i]
    BY <1>3, TableIs, Zenon
<1> HIDE DEF p, s
<1>6. Single(m) => Single(p)
    BY <1>0, <1>1, <1>2, <1>3, <1>5 DEF Single, Free
<1>7. m.cap \in Nat \ {0} /\ \A i \in 0 .. m.cap - 1 : m.cells[i].name \in Names \cup {NoName}
    BY TableIs, Zenon DEF Cell
<1>8. \A k \in Names : Home(k, m.cap) \in 0 .. m.cap - 1
    BY <1>7, Remainder, TableAssumption, Zenon DEF Home
<1>9. Reached(p, s)
    <2> SUFFICES ASSUME NEW j \in 0 .. m.cap - 1, Before(Home(n, m.cap), j, s) PROVE ~Free(p, j)
        BY <1>1, <1>3, <1>5, Zenon DEF Reached
    <2>1. j # s
        BY <1>1, <1>7, <1>8, Zenon DEF Before
    <2> QED BY <1>1, <1>5, <2>1, Zenon DEF Free
<1>10. \A j \in 0 .. m.cap - 1 : ~Free(m, j) => ~Free(p, j)
    BY <1>2, <1>5, Zenon DEF Free
<1>11. ASSUME NEW i \in 0 .. m.cap - 1, ~Free(m, i), Reached(m, i) PROVE Reached(p, i)
    <2>1. i # s
        BY <1>2, <1>11, Zenon
    <2>2. p.cells[i] = m.cells[i]
        BY <1>5, <2>1, Zenon
    <2> QED BY <1>3, <1>10, <1>11, <2>2, Zenon DEF Reached
<1>12. Occupied(p) = Occupied(m) \cup {s}
    BY <1>1, <1>2, <1>3, <1>5, Zenon DEF Occupied, Free
<1> QED BY <1>1, <1>2, <1>3, <1>4, <1>5, <1>6, <1>9, <1>11, <1>12, Zenon DEF p, s

\* The occupied cells can be counted; if they are fewer than the capacity a
\* cell is free.
LEMMA OccupiedFinite ==
    ASSUME NEW m \in Table
    PROVE  /\ IsFiniteSet(Occupied(m)) /\ Cardinality(Occupied(m)) \in Nat
           /\ Cardinality(Occupied(m)) < m.cap => Roomy(m)
<1>1. m.cap \in Nat \ {0}
    BY TableIs, Zenon
<1>2. IsFiniteSet(0 .. m.cap - 1) /\ Cardinality(0 .. m.cap - 1) = m.cap
    <2> DEFINE k == m.cap - 1
    <2>1. 0 \in Int /\ k \in Int /\ ~(0 > k) /\ k - 0 + 1 = m.cap
        BY <1>1
    <2> HIDE DEF k
    <2>2. IsFiniteSet(0 .. k) /\ Cardinality(0 .. k) = IF 0 > k THEN 0 ELSE k - 0 + 1
        BY <2>1, FS_Interval, Zenon
    <2> QED BY <2>1, <2>2, Zenon DEF k
<1>3. Occupied(m) \subseteq 0 .. m.cap - 1
    BY Zenon DEF Occupied
<1>4. IsFiniteSet(Occupied(m)) /\ Cardinality(Occupied(m)) \in Nat
    BY <1>2, <1>3, FS_Subset, FS_CardinalityType, Zenon
<1>5. ASSUME Cardinality(Occupied(m)) < m.cap PROVE Roomy(m)
    <2>1. Occupied(m) # 0 .. m.cap - 1
        BY <1>1, <1>2, <1>4, <1>5
    <2> QED BY <2>1, Zenon DEF Occupied, Roomy
<1> QED BY <1>4, <1>5, Zenon

\* Filling a free cell adds one to the occupied ones.
LEMMA PutCounts ==
    ASSUME NEW m \in Table, NEW p, NEW s, s \in 0 .. m.cap - 1, Free(m, s),
           Occupied(p) = Occupied(m) \cup {s}
    PROVE  Cardinality(Occupied(p)) = Cardinality(Occupied(m)) + 1
<1>1. s \notin Occupied(m)
    BY Zenon DEF Occupied
<1> QED BY <1>1, OccupiedFinite, FS_AddElement, Zenon

----------------------------------------------------------------------------
(* Looking up. *)

\* The load factor leaves a free cell.
LEMMA KeptIsRoomy == ASSUME NEW m, WellKept(m) PROVE m \in Table /\ Roomy(m)
<1>1. m \in Table /\ m.count = Cardinality(Occupied(m)) /\ 4 * m.count <= 3 * m.cap
    BY Zenon DEF WellKept, Sound
<1>2. m.count < m.cap
    BY <1>1, TableIs
<1> QED BY <1>1, <1>2, OccupiedFinite, Zenon

\* A lookup finds the cell that holds the name, and only that.
LEMMA LookupIs ==
    ASSUME NEW m, WellKept(m), NEW n \in Names
    PROVE  /\ \A i \in 0 .. m.cap - 1 :
                m.cells[i].name = n => /\ Found(m, n) /\ FindSlot(m, n) = i
                                       /\ Lookup(m, n) = m.cells[i].value
           /\ Absent(m, n) => ~Found(m, n) /\ Lookup(m, n) = NoValue
<1>1. m \in Table /\ Roomy(m) /\ Sound(m)
    BY KeptIsRoomy, Zenon DEF WellKept
<1>2. ASSUME NEW i \in 0 .. m.cap - 1, m.cells[i].name = n
      PROVE  Found(m, n) /\ FindSlot(m, n) = i /\ Lookup(m, n) = m.cells[i].value
    <2>1. ~Free(m, i)
        BY <1>2, TableAssumption, Zenon DEF Free
    <2>2. FindSlot(m, n) = i
        BY <1>1, <1>2, <2>1, FindsIt, Zenon DEF Sound
    <2>3. i \in Occupied(m)
        BY <2>1, Zenon DEF Occupied
    <2>4. m.count # 0
        BY <1>1, <2>3, OccupiedFinite, FS_EmptySet, Zenon DEF WellKept
    <2>5. m.count > 0
        BY <1>1, <2>4, TableIs
    <2> QED BY <1>2, <2>2, <2>5, Zenon DEF Found, Lookup
<1>3. ASSUME Absent(m, n) PROVE ~Found(m, n)
    <2>1. FindSlot(m, n) \in 0 .. m.cap - 1
        BY <1>1, Stops, Zenon
    <2> QED BY <1>3, <2>1, Zenon DEF Found, Absent
<1> QED BY <1>2, <1>3, Zenon DEF Lookup

----------------------------------------------------------------------------
(* Growing. *)

\* The cells of m that hold a name.
Content(m) == {m.cells[i] : i \in Occupied(m)}

\* A new table is empty, whatever its count is set to.
LEMMA NewMapIs ==
    ASSUME NEW cap \in Nat \ {0}, NEW count \in Nat
    PROVE  LET t == [NewMap(cap) EXCEPT !.count = count]
           IN  /\ t = [cap |-> cap, count |-> count, cells |-> FreeCells(cap)]
               /\ t \in Tables(cap) /\ t \in Table /\ t.cap = cap /\ t.count = count
               /\ t.cells \in [0 .. cap - 1 -> Cell]
               /\ \A i \in 0 .. cap - 1 : Free(t, i)
               /\ Occupied(t) = {} /\ Sound(t)
<1> DEFINE t == [cap |-> cap, count |-> count, cells |-> FreeCells(cap)]
<1>1. [NewMap(cap) EXCEPT !.count = count] = t
    BY DEF NewMap
<1>2. FreeCell \in Cell
    BY Zenon DEF FreeCell, Cell
<1>3. FreeCells(cap) \in [0 .. cap - 1 -> Cell]
    BY <1>2, Zenon DEF FreeCells
<1>4. t \in Tables(cap) /\ t.cap = cap /\ t.count = count /\ t.cells = FreeCells(cap)
    BY <1>3, Zenon DEF Tables
<1>5. t \in Table
    BY <1>4, TablesAreTable, Zenon
<1>6. \A i \in 0 .. cap - 1 : Free(t, i)
    BY Zenon DEF Free, FreeCells, FreeCell
<1> HIDE DEF t
<1>7. Occupied(t) = {} /\ Sound(t)
    BY <1>4, <1>5, <1>6, Zenon DEF Occupied, Sound, Single
<1> QED BY <1>1, <1>3, <1>4, <1>5, <1>6, <1>7, Zenon DEF t

\* The loop of cxpr_hashmap_grow, turn by turn.
LEMMA Regrowing ==
    ASSUME NEW m \in Table, NEW i \in 0 .. m.cap
    PROVE  Regrown(m)[i] = IF i = 0 THEN [NewMap(2 * m.cap) EXCEPT !.count = m.count]
                           ELSE IF m.cells[i - 1].name = NoName THEN Regrown(m)[i - 1]
                           ELSE Put(Regrown(m)[i - 1], m.cells[i - 1])
<1> DEFINE cap == m.cap
           S == Tables(2 * cap)
           t0 == [NewMap(2 * cap) EXCEPT !.count = m.count]
           Step(t, k) == IF m.cells[k - 1].name = NoName THEN t ELSE Put(t, m.cells[k - 1])
           step == [k \in 1 .. cap |-> [t \in S |-> Step(t, k)]]
           Is(f) == f = [k \in 0 .. cap |-> IF k = 0 THEN t0
                                            ELSE IF m.cells[k - 1].name = NoName THEN f[k - 1]
                                            ELSE Put(f[k - 1], m.cells[k - 1])]
<1>1. /\ cap \in Nat \ {0} /\ 2 * cap \in Nat \ {0} /\ m.count \in Nat
      /\ m.cells \in [0 .. cap - 1 -> Cell]
    BY TableIs
<1>2. t0 \in S
    BY <1>1, NewMapIs, Zenon
<1>3. \A t \in S : t \in Table /\ t.cap = 2 * cap
    BY <1>1, TablesAreTable, Zenon DEF Tables
<1> HIDE DEF S, t0
<1>4. ASSUME NEW k \in 1 .. cap, NEW t \in S PROVE Step(t, k) \in S
    <2>1. m.cells[k - 1] \in Cell
        <3> HIDE DEF Step, step, Is
        <3>1. k - 1 \in 0 .. cap - 1
            BY <1>1
        <3> QED BY <1>1, <3>1, Zenon
    <2> QED BY <1>3, <2>1, PutIs, Zenon DEF S
<1> HIDE DEF Step
<1>5. step \in [1 .. cap -> [S -> S]]
    BY <1>4, Zenon
<1> HIDE DEF step
<1>6. PICK f \in [0 .. cap -> S] : Runs(f, cap, t0, step)
    BY <1>1, <1>2, <1>5, LoopRuns, Zenon
<1>7. ASSUME NEW k \in 0 .. cap
      PROVE  f[k] = IF k = 0 THEN t0 ELSE Step(f[k - 1], k)
    <2>1. f[k] = IF k = 0 THEN t0 ELSE step[k][f[k - 1]]
        BY <1>6, Zenon DEF Runs
    <2>2. CASE k = 0
        BY <2>1, <2>2, Zenon
    <2>3. CASE k # 0
        <3>1. k \in 1 .. cap /\ k - 1 \in 0 .. cap
            BY <1>1, <2>3
        <3>2. f[k - 1] \in S
            BY <3>1, Zenon
        <3>3. step[k][f[k - 1]] = Step(f[k - 1], k)
            BY <3>1, <3>2, Zenon DEF step
        <3> QED BY <2>1, <2>3, <3>3, Zenon
    <2> QED BY <2>2, <2>3, Zenon
<1>8. Is(f)
    <2>1. f = [k \in 0 .. cap |-> f[k]]
        OBVIOUS
    <2> QED BY <1>7, <2>1, Zenon DEF Step
<1>9. Regrown(m) = CHOOSE g : Is(g)
    BY Zenon DEF Regrown, t0
<1> HIDE DEF Is
<1>10. Is(Regrown(m))
    BY <1>8, <1>9, Zenon
<1> HIDE DEF cap
<1> QED BY <1>10, Zenon DEF Is, cap, t0

\* Placing a name that has no cell keeps a table sound and adds the cell.
LEMMA PutSound ==
    ASSUME NEW m, Sound(m), Roomy(m), NEW cell \in Cell, cell.name \in Names, Absent(m, cell.name)
    PROVE  /\ Sound(Put(m, cell)) /\ Put(m, cell).cap = m.cap /\ Put(m, cell).count = m.count
           /\ Content(Put(m, cell)) = Content(m) \cup {cell}
           /\ Cardinality(Occupied(Put(m, cell))) = Cardinality(Occupied(m)) + 1
<1> DEFINE p == Put(m, cell)
           s == FindSlot(m, cell.name)
<1>1. m \in Table
    BY Zenon DEF Sound
<1>2. /\ s \in 0 .. m.cap - 1 /\ Free(m, s)
      /\ p \in Table /\ p.cap = m.cap /\ p.count = m.count
      /\ \A i \in 0 .. m.cap - 1 : p.cells[i] = IF i = s THEN cell ELSE m.cells[i]
      /\ Single(m) => Single(p)
      /\ Reached(p, s)
      /\ \A i \in 0 .. m.cap - 1 : ~Free(m, i) /\ Reached(m, i) => Reached(p, i)
      /\ Occupied(p) = Occupied(m) \cup {s}
    BY <1>1, PutNew, Zenon
<1> HIDE DEF p, s
<1>3. \A i \in 0 .. m.cap - 1 : i # s /\ ~Free(p, i) => ~Free(m, i)
    BY <1>2, Zenon DEF Free
<1>4. Sound(p)
    BY <1>2, <1>3, Zenon DEF Sound
<1>5. Content(p) = Content(m) \cup {cell}
    <2>1. Occupied(m) \subseteq 0 .. m.cap - 1 /\ s \notin Occupied(m)
        BY <1>2, Zenon DEF Occupied
    <2>2. \A i \in Occupied(m) : p.cells[i] = m.cells[i]
        BY <1>2, <2>1, Zenon
    <2>3. p.cells[s] = cell
        BY <1>2, Zenon
    <2> QED BY <1>2, <2>1, <2>2, <2>3, Zenon DEF Content
<1>6. Cardinality(Occupied(p)) = Cardinality(Occupied(m)) + 1
    BY <1>1, <1>2, PutCounts, Zenon
<1> QED BY <1>2, <1>4, <1>5, <1>6, Zenon DEF p

\* A name is absent when no cell of the content has it.
LEMMA AbsentContent ==
    ASSUME NEW m \in Table, NEW n \in Names
    PROVE  Absent(m, n) <=> \A c \in Content(m) : c.name # n
BY TableAssumption, Zenon DEF Absent, Content, Occupied, Free

\* The occupied cells among the first i.
Seen(m, i) == Occupied(m) \cap (0 .. i - 1)

\* How many cells the growing loop has copied after i turns.
LEMMA SeenIs ==
    ASSUME NEW m \in Table
    PROVE  /\ Seen(m, 0) = {} /\ Seen(m, m.cap) = Occupied(m)
           /\ \A i \in Nat : /\ IsFiniteSet(Seen(m, i)) /\ Cardinality(Seen(m, i)) \in Nat
                             /\ Cardinality(Seen(m, i)) <= Cardinality(Occupied(m))
           /\ \A i \in 1 .. m.cap :
                IF Free(m, i - 1)
                  THEN Seen(m, i) = Seen(m, i - 1)
                  ELSE /\ Seen(m, i) = Seen(m, i - 1) \cup {i - 1}
                       /\ Cardinality(Seen(m, i)) = Cardinality(Seen(m, i - 1)) + 1
<1>1. m.cap \in Nat \ {0}
    BY TableIs, Zenon
<1>2. Seen(m, 0) = {} /\ Seen(m, m.cap) = Occupied(m)
    BY <1>1 DEF Seen, Occupied
<1>3. \A i \in Nat : /\ IsFiniteSet(Seen(m, i)) /\ Cardinality(Seen(m, i)) \in Nat
                     /\ Cardinality(Seen(m, i)) <= Cardinality(Occupied(m))
    BY OccupiedFinite, FS_Subset, FS_CardinalityType, Zenon DEF Seen
<1>4. ASSUME NEW i \in 1 .. m.cap
      PROVE  IF Free(m, i - 1)
               THEN Seen(m, i) = Seen(m, i - 1)
               ELSE /\ Seen(m, i) = Seen(m, i - 1) \cup {i - 1}
                    /\ Cardinality(Seen(m, i)) = Cardinality(Seen(m, i - 1)) + 1
    <2>1. i - 1 \in Nat /\ i - 1 \in 0 .. m.cap - 1 /\ 0 .. i - 1 = (0 .. (i - 1) - 1) \cup {i - 1}
        BY <1>1
    <2>2. Free(m, i - 1) => Seen(m, i) = Seen(m, i - 1)
        BY <2>1, Zenon DEF Seen, Occupied
    <2>3. ~Free(m, i - 1) => Seen(m, i) = Seen(m, i - 1) \cup {i - 1}
        BY <2>1, Zenon DEF Seen, Occupied
    <2>4. i - 1 \notin Seen(m, i - 1)
        BY <2>1 DEF Seen
    <2> QED BY <1>3, <2>1, <2>2, <2>3, <2>4, FS_AddElement, Zenon
<1> QED BY <1>2, <1>3, <1>4, Zenon

\* t holds the first i cells of m.
Copied(m, t, i) ==
  /\ Sound(t)
  /\ Content(t) = {m.cells[j] : j \in Seen(m, i)}
  /\ Cardinality(Occupied(t)) = Cardinality(Seen(m, i))

\* An occupied cell holds a name and a value.
LEMMA CellOf ==
    ASSUME NEW m \in Table, NEW i \in 0 .. m.cap - 1, ~Free(m, i)
    PROVE  m.cells[i] \in Cell /\ m.cells[i].name \in Names /\ m.cells[i].value \in Values \cup {NoValue}
<1>1. m.cells[i] \in Cell /\ m.cells[i].name # NoName
    BY TableIs, Zenon DEF Free
<1> QED BY <1>1, Zenon DEF Cell

\* The name of the next cell to copy is not in the larger table yet.
LEMMA CopiedAbsent ==
    ASSUME NEW m \in Table, Single(m), NEW i \in 1 .. m.cap, ~Free(m, i - 1),
           NEW t, Copied(m, t, i - 1)
    PROVE  Absent(t, m.cells[i - 1].name)
<1> DEFINE n == m.cells[i - 1].name
<1>1. m.cap \in Nat \ {0} /\ i - 1 \in 0 .. m.cap - 1
    BY TableIs
<1>2. t \in Table /\ n \in Names
    BY <1>1, CellOf, Zenon DEF Copied, Sound
<1>3. ASSUME NEW j \in Seen(m, i - 1) PROVE m.cells[j].name # n
    <2>1. j \in 0 .. m.cap - 1 /\ j # i - 1 /\ ~Free(m, j)
        BY <1>1 DEF Seen, Occupied
    <2> QED BY <1>1, <2>1, Zenon DEF Single
<1> HIDE DEF n
<1>4. \A c \in Content(t) : c.name # n
    BY <1>3, Zenon DEF Copied
<1> QED BY <1>2, <1>4, AbsentContent, Zenon DEF n

\* cxpr_hashmap_grow keeps every name, its value and the count.
LEMMA GrowKeeps ==
    ASSUME NEW m, WellKept(m)
    PROVE  /\ Sound(Grow(m)) /\ Grow(m).cap = 2 * m.cap /\ Grow(m).count = m.count
           /\ Content(Grow(m)) = Content(m)
           /\ Cardinality(Occupied(Grow(m))) = m.count
<1> DEFINE cap == m.cap
           t(i) == Regrown(m)[i]
           Good(i) == Copied(m, t(i), i) /\ t(i).cap = 2 * cap /\ t(i).count = m.count
           D == {i \in 0 .. cap : Good(i)}
<1>1. /\ m \in Table /\ Single(m) /\ cap \in Nat \ {0} /\ m.count \in Nat
      /\ 2 * cap \in Nat \ {0} /\ m.count < 2 * cap
      /\ m.count = Cardinality(Occupied(m))
    BY TableIs DEF WellKept, Sound
<1>2. 0 \in D
    <2> DEFINE z == [NewMap(2 * cap) EXCEPT !.count = m.count]
    <2>1. 0 \in 0 .. cap /\ t(0) = z
        BY <1>1, Regrowing
    <2>2. Sound(z) /\ z.cap = 2 * cap /\ z.count = m.count /\ Occupied(z) = {}
        <3> HIDE DEF cap
        <3> QED BY <1>1, NewMapIs, Zenon
    <2> HIDE DEF z, t
    <2>3. Copied(m, z, 0)
        BY <1>1, <2>2, SeenIs, Zenon DEF Copied, Content
    <2> QED BY <2>1, <2>2, <2>3, Zenon
<1>3. ASSUME NEW i \in 1 .. cap, i - 1 \in D PROVE i \in D
    <2> DEFINE u == t(i - 1)
               cell == m.cells[i - 1]
    <2>1. /\ Copied(m, u, i - 1) /\ u.cap = 2 * cap /\ u.count = m.count
        BY <1>3, Zenon
    <2>2. i \in 0 .. cap /\ i - 1 \in 0 .. cap - 1 /\ i - 1 \in Nat /\ i # 0
        BY <1>1
    <2>3. t(i) = IF cell.name = NoName THEN u ELSE Put(u, cell)
        <3> HIDE DEF cell
        <3> QED BY <1>1, <2>2, Regrowing, Zenon DEF cell
    <2>4. u \in Table /\ Sound(u)
        BY <2>1, Zenon DEF Copied, Sound
    <2> HIDE DEF t, u
    <2>5. CASE Free(m, i - 1)
        BY <1>1, <2>1, <2>2, <2>3, <2>5, SeenIs, Zenon DEF Copied, Free
    <2>6. CASE ~Free(m, i - 1)
        <3>1. t(i) = Put(u, cell) /\ cell \in Cell /\ cell.name \in Names
            BY <1>1, <2>2, <2>3, <2>6, CellOf, Zenon DEF Free
        <3>2. Absent(u, cell.name)
            BY <1>1, <2>1, <2>6, CopiedAbsent, Zenon
        <3>3. Roomy(u)
            <4>1. Cardinality(Occupied(u)) = Cardinality(Seen(m, i - 1))
                BY <2>1, Zenon DEF Copied
            <4>2. Cardinality(Seen(m, i - 1)) \in Nat /\ Cardinality(Seen(m, i - 1)) <= m.count
                BY <1>1, <2>2, SeenIs, Zenon
            <4>3. Cardinality(Occupied(u)) < u.cap
                BY <1>1, <2>1, <4>1, <4>2
            <4> QED BY <2>4, <4>3, OccupiedFinite, Zenon
        <3>4. /\ Seen(m, i) = Seen(m, i - 1) \cup {i - 1}
              /\ Cardinality(Seen(m, i)) = Cardinality(Seen(m, i - 1)) + 1
            BY <1>1, <2>6, SeenIs, Zenon
        <3> HIDE DEF cell
        <3>5. /\ Sound(t(i)) /\ t(i).cap = u.cap /\ t(i).count = u.count
              /\ Content(t(i)) = Content(u) \cup {cell}
              /\ Cardinality(Occupied(t(i))) = Cardinality(Occupied(u)) + 1
            BY <2>4, <3>1, <3>2, <3>3, PutSound, Zenon
        <3>6. {m.cells[j] : j \in Seen(m, i)} = {m.cells[j] : j \in Seen(m, i - 1)} \cup {cell}
            BY <3>4, Zenon DEF cell
        <3>7. Copied(m, t(i), i)
            BY <2>1, <3>4, <3>5, <3>6, Zenon DEF Copied
        <3> QED BY <2>1, <2>2, <3>5, <3>7, Zenon
    <2> QED BY <2>5, <2>6, Zenon
<1> HIDE DEF D
<1>4. \A i \in 0 .. cap : i \in D
    BY <1>1, <1>2, <1>3, UpTo, Zenon
<1> HIDE DEF t
<1>5. Good(cap)
    BY <1>1, <1>4 DEF D
<1>6. Grow(m) = t(cap)
    BY Zenon DEF Grow, t
<1>7. Content(m) = {m.cells[j] : j \in Seen(m, cap)} /\ Seen(m, cap) = Occupied(m)
    BY <1>1, SeenIs, Zenon DEF Content
<1> HIDE DEF cap
<1>8. /\ Sound(t(cap)) /\ t(cap).cap = 2 * cap /\ t(cap).count = m.count
      /\ Content(t(cap)) = {m.cells[j] : j \in Seen(m, cap)}
      /\ Cardinality(Occupied(t(cap))) = Cardinality(Seen(m, cap))
    BY <1>5, Zenon DEF Copied
<1> QED BY <1>1, <1>6, <1>7, <1>8, Zenon DEF cap

----------------------------------------------------------------------------
(* What a table stands for. *)

\* A well kept table that stands for f answers as f does.
LEMMA BindingsAre ==
    ASSUME NEW m, WellKept(m), NEW f \in Binding, Stands(m, f)
    PROVE  Bindings(m) = f
<1>1. ASSUME NEW n \in Names PROVE Lookup(m, n) = f[n]
    <2>1. CASE Absent(m, n)
        BY <2>1, LookupIs, Zenon DEF Stands
    <2>2. CASE ~Absent(m, n)
        <3>1. PICK i \in 0 .. m.cap - 1 : m.cells[i].name = n
            BY <2>2, Zenon DEF Absent
        <3>2. ~Free(m, i)
            BY <3>1, TableAssumption, Zenon DEF Free
        <3> QED BY <3>1, <3>2, LookupIs, Zenon DEF Stands
    <2> QED BY <2>1, <2>2, Zenon
<1> QED BY <1>1, Zenon DEF Bindings, Binding

\* What a table stands for depends on its content only.
LEMMA StandsByContent ==
    ASSUME NEW m \in Table, NEW g \in Table, Content(g) = Content(m), NEW f, Stands(m, f)
    PROVE  Stands(g, f)
<1>1. \A c \in Content(g) : c.value = f[c.name]
    BY Zenon DEF Content, Occupied, Stands
<1>2. \A n \in Names : Absent(g, n) <=> Absent(m, n)
    BY AbsentContent, Zenon
<1>3. ASSUME NEW i \in 0 .. g.cap - 1, ~Free(g, i) PROVE g.cells[i].value = f[g.cells[i].name]
    <2>1. g.cells[i] \in Content(g)
        BY <1>3, Zenon DEF Content, Occupied
    <2> QED BY <1>1, <2>1, Zenon
<1> QED BY <1>2, <1>3, Zenon DEF Stands

\* The value of a name that has a cell is replaced where it is.
LEMMA Overwritten ==
    ASSUME NEW m, Sound(m), NEW i \in 0 .. m.cap - 1, NEW cell \in Cell, cell.name \in Names,
           m.cells[i].name = cell.name, NEW q \in Table,
           q.cap = m.cap, q.cells = [m.cells EXCEPT ![i] = cell]
    PROVE  /\ Sound(q) /\ Occupied(q) = Occupied(m)
           /\ \A f \in Binding : Stands(m, f) => Stands(q, [f EXCEPT ![cell.name] = cell.value])
<1>1. m \in Table /\ m.cells \in [0 .. m.cap - 1 -> Cell]
    BY TableIs, Zenon DEF Sound
<1>2. \A j \in 0 .. m.cap - 1 : q.cells[j].name = m.cells[j].name
    BY <1>1, Zenon
<1>3. \A j \in 0 .. m.cap - 1 : Free(q, j) <=> Free(m, j)
    BY <1>2, Zenon DEF Free
<1>4. Occupied(q) = Occupied(m)
    BY <1>3, Zenon DEF Occupied
<1>5. Single(q)
    BY <1>2, <1>3, Zenon DEF Single, Sound
<1>6. \A j \in 0 .. m.cap - 1 : ~Free(q, j) => Reached(q, j)
    BY <1>2, <1>3, Zenon DEF Reached, Sound
<1>7. ASSUME NEW f \in Binding, Stands(m, f) PROVE Stands(q, [f EXCEPT ![cell.name] = cell.value])
    <2> DEFINE g == [f EXCEPT ![cell.name] = cell.value]
    <2>1. \A n \in Names : g[n] = IF n = cell.name THEN cell.value ELSE f[n]
        BY Zenon DEF Binding
    <2> HIDE DEF g
    <2>2. ASSUME NEW j \in 0 .. q.cap - 1, ~Free(q, j) PROVE q.cells[j].value = g[q.cells[j].name]
        <3>1. CASE j = i
            BY <1>1, <2>1, <3>1, Zenon
        <3>2. CASE j # i
            <4>1. ~Free(m, j) /\ ~Free(m, i) /\ q.cells[j] = m.cells[j]
                BY <1>1, <1>3, <2>2, <3>2, TableAssumption, Zenon DEF Free
            <4>2. m.cells[j].name # cell.name
                BY <3>2, <4>1, Zenon DEF Sound, Single
            <4>3. m.cells[j].name \in Names
                BY <1>1, <4>1, CellOf, Zenon
            <4> QED BY <1>7, <2>1, <4>1, <4>2, <4>3, Zenon DEF Stands
        <3> QED BY <3>1, <3>2, Zenon
    <2>3. ASSUME NEW n \in Names, Absent(q, n) PROVE g[n] = NoValue
        BY <1>2, <1>7, <2>1, <2>3 DEF Stands, Absent
    <2> QED BY <2>2, <2>3, Zenon DEF Stands, g
<1> QED BY <1>4, <1>5, <1>6, <1>7, Zenon DEF Sound

\* Put binds the name, whether it was bound before or not.
LEMMA PutStands ==
    ASSUME NEW m, Sound(m), Roomy(m), NEW cell \in Cell, cell.name \in Names,
           NEW f \in Binding, Stands(m, f)
    PROVE  LET p == Put(m, cell)
               s == FindSlot(m, cell.name) IN
           /\ Sound(p) /\ p.cap = m.cap /\ p.count = m.count
           /\ Stands(p, [f EXCEPT ![cell.name] = cell.value])
           /\ Absent(m, cell.name) <=> Free(m, s)
           /\ Cardinality(Occupied(p)) = Cardinality(Occupied(m)) + (IF Free(m, s) THEN 1 ELSE 0)
<1> DEFINE p == Put(m, cell)
           s == FindSlot(m, cell.name)
           g == [f EXCEPT ![cell.name] = cell.value]
<1>1. m \in Table /\ cell.name # NoName
    BY TableAssumption, Zenon DEF Sound
<1>2. \A n \in Names : g[n] = IF n = cell.name THEN cell.value ELSE f[n]
    BY Zenon DEF Binding
<1>3. CASE Absent(m, cell.name)
    <2>1. /\ Sound(p) /\ p.cap = m.cap /\ p.count = m.count
          /\ Cardinality(Occupied(p)) = Cardinality(Occupied(m)) + 1
        BY <1>3, PutSound, Zenon
    <2>2. /\ s \in 0 .. m.cap - 1 /\ Free(m, s)
          /\ \A i \in 0 .. m.cap - 1 : p.cells[i] = IF i = s THEN cell ELSE m.cells[i]
        BY <1>1, <1>3, PutNew, Zenon
    <2> HIDE DEF p, s, g
    <2>3. ASSUME NEW i \in 0 .. p.cap - 1, ~Free(p, i) PROVE p.cells[i].value = g[p.cells[i].name]
        <3>1. CASE i = s
            BY <1>2, <2>1, <2>2, <3>1, Zenon
        <3>2. CASE i # s
            <4>1. ~Free(m, i) /\ p.cells[i] = m.cells[i] /\ i \in 0 .. m.cap - 1
                BY <2>1, <2>2, <2>3, <3>2 DEF Free
            <4>2. m.cells[i].name \in Names /\ m.cells[i].name # cell.name
                BY <1>1, <1>3, <4>1, CellOf, Zenon DEF Absent
            <4> QED BY <1>2, <4>1, <4>2, Zenon DEF Stands
        <3> QED BY <3>1, <3>2, Zenon
    <2>4. ASSUME NEW n \in Names, Absent(p, n) PROVE g[n] = NoValue
        <3>1. n # cell.name
            BY <2>1, <2>2, <2>4, Zenon DEF Absent
        <3>2. Absent(m, n)
            BY <1>1, <2>1, <2>2, <2>4, TableAssumption, Zenon DEF Absent, Free
        <3> QED BY <1>2, <3>1, <3>2, Zenon DEF Stands
    <2>5. Stands(p, g)
        BY <2>3, <2>4, Zenon DEF Stands
    <2> QED BY <1>3, <2>1, <2>2, <2>5, Zenon DEF p, s, g
<1>4. CASE ~Absent(m, cell.name)
    <2>1. PICK i \in 0 .. m.cap - 1 : m.cells[i].name = cell.name
        BY <1>4, Zenon DEF Absent
    <2>2. ~Free(m, i)
        BY <1>1, <2>1, Zenon DEF Free
    <2>3. s = i
        BY <1>1, <2>1, <2>2, FindsIt, Zenon DEF Sound
    <2>4. /\ p \in Tables(m.cap) /\ p.cap = m.cap /\ p.count = m.count
          /\ p.cells = [m.cells EXCEPT ![s] = cell]
        BY <1>1, PutIs, Zenon
    <2>5. p \in Table
        BY <1>1, <2>4, TableIs, TablesAreTable, Zenon
    <2> HIDE DEF p, s
    <2>6. Sound(p) /\ Occupied(p) = Occupied(m) /\ Stands(p, g)
        BY <2>1, <2>3, <2>4, <2>5, Overwritten
    <2>7. Cardinality(Occupied(m)) \in Nat
        BY <1>1, OccupiedFinite, Zenon
    <2> QED BY <1>4, <2>2, <2>3, <2>4, <2>6, <2>7, SMTT(30) DEF p, s, g
<1> QED BY <1>3, <1>4, Zenon

----------------------------------------------------------------------------
(* The operations. *)

\* The table in which a new name is placed has room for it.
LEMMA MadeRoom ==
    ASSUME NEW m, WellKept(m)
    PROVE  LET g == IF Overloaded(m) THEN Grow(m) ELSE m IN
           /\ Sound(g) /\ Roomy(g) /\ g.count = m.count /\ m.count = Cardinality(Occupied(g))
           /\ g.count \in Nat /\ g.cap \in Nat \ {0}
           /\ 4 * (g.count + 1) <= 3 * g.cap
           /\ \A f \in Binding : Stands(m, f) => Stands(g, f)
<1> DEFINE g == IF Overloaded(m) THEN Grow(m) ELSE m
<1>1. m \in Table /\ Sound(m) /\ m.count = Cardinality(Occupied(m)) /\ 4 * m.count <= 3 * m.cap
    BY Zenon DEF WellKept, Sound
<1>2. m.cap \in Nat \ {0} /\ m.count \in Nat
    BY <1>1, TableIs, Zenon
<1>3. /\ Sound(g) /\ g.count = m.count /\ m.count = Cardinality(Occupied(g))
      /\ 4 * (g.count + 1) <= 3 * g.cap
    <2>1. CASE Overloaded(m)
        <3>1. /\ Sound(g) /\ g.cap = 2 * m.cap /\ g.count = m.count
              /\ m.count = Cardinality(Occupied(g))
            BY <2>1, GrowKeeps, Zenon
        <3>2. \A c \in Nat, k \in Nat \ {0} : 4 * c <= 3 * k => 4 * (c + 1) <= 3 * (2 * k)
            OBVIOUS
        <3>3. 4 * (m.count + 1) <= 3 * (2 * m.cap)
            BY <1>1, <1>2, <3>2, Zenon
        <3> HIDE DEF g
        <3> QED BY <3>1, <3>3, Zenon
    <2>2. CASE ~Overloaded(m)
        BY <1>1, <1>2, <2>2 DEF Overloaded
    <2> QED BY <2>1, <2>2, Zenon
<1>4. ASSUME NEW f \in Binding, Stands(m, f) PROVE Stands(g, f)
    <2>1. CASE Overloaded(m)
        <3>1. g \in Table /\ Content(g) = Content(m)
            BY <2>1, GrowKeeps, Zenon DEF Sound
        <3> HIDE DEF g
        <3> QED BY <1>1, <1>4, <3>1, StandsByContent, Zenon
    <2>2. CASE ~Overloaded(m)
        BY <1>4, <2>2, Zenon
    <2> QED BY <2>1, <2>2, Zenon
<1> HIDE DEF g
<1>5. g \in Table
    BY <1>3, Zenon DEF Sound
<1>6. g.cap \in Nat \ {0}
    BY <1>5, TableIs, Zenon
<1>7. g.count < g.cap
    BY <1>2, <1>3, <1>6
<1>8. Roomy(g)
    BY <1>3, <1>5, <1>7, OccupiedFinite, Zenon
<1> QED BY <1>2, <1>3, <1>4, <1>6, <1>8, Zenon DEF g

\* Changing the count leaves the cells sound.
LEMMA Recounted ==
    ASSUME NEW p, Sound(p), NEW k \in Nat, NEW q, q = [p EXCEPT !.count = k]
    PROVE  /\ Sound(q) /\ q.cap = p.cap /\ q.count = k /\ q.cells = p.cells
           /\ Occupied(q) = Occupied(p) /\ \A f : Stands(p, f) => Stands(q, f)
<1>1. /\ p.cap \in Nat \ {0} /\ p.cells \in [0 .. p.cap - 1 -> Cell]
      /\ p = [cap |-> p.cap, count |-> p.count, cells |-> p.cells]
    BY TableIs, Zenon DEF Sound
<1>2. q = [cap |-> p.cap, count |-> k, cells |-> p.cells]
    BY <1>1, Zenon
<1>3. q.cap = p.cap /\ q.count = k /\ q.cells = p.cells
    BY <1>2, Zenon
<1>4. q \in Tables(p.cap)
    BY <1>1, <1>2, Zenon DEF Tables
<1>5. q \in Table
    BY <1>1, <1>4, TablesAreTable, Zenon
<1>6. \A i : Free(q, i) <=> Free(p, i)
    BY <1>3, Zenon DEF Free
<1>7. Occupied(q) = Occupied(p) /\ Single(q) /\ (\A i : Reached(q, i) <=> Reached(p, i))
    BY <1>3, <1>6 DEF Occupied, Single, Reached, Sound
<1>8. Sound(q)
    BY <1>3, <1>5, <1>6, <1>7, Zenon DEF Sound
<1>9. \A f : Stands(p, f) => Stands(q, f)
    BY <1>3, <1>6, Zenon DEF Stands, Absent
<1> QED BY <1>3, <1>7, <1>8, <1>9, Zenon

\* cxpr_context_store_struct.
LEMMA StoreKeeps ==
    ASSUME NEW m, WellKept(m), NEW f \in Binding, Stands(m, f), NEW n \in Names,
           NEW v \in Values \cup {NoValue}, NEW grows \in BOOLEAN
    PROVE  /\ WellKept(StoreEntry(m, n, v, grows))
           /\ Stands(StoreEntry(m, n, v, grows),
                     IF Overloaded(m) /\ ~grows THEN f ELSE [f EXCEPT ![n] = v])
<1> DEFINE g == IF Overloaded(m) THEN Grow(m) ELSE m
           cell == [name |-> n, value |-> v]
           p == Put(g, cell)
           new == g.cells[FindSlot(g, n)].name = NoName
           k == p.count + (IF new THEN 1 ELSE 0)
           q == [p EXCEPT !.count = k]
<1>1. CASE Overloaded(m) /\ ~grows
    BY <1>1, Zenon DEF StoreEntry
<1>2. CASE ~(Overloaded(m) /\ ~grows)
    <2>1. StoreEntry(m, n, v, grows) = q
        BY <1>2, Zenon DEF StoreEntry
    <2>2. cell \in Cell /\ cell.name = n /\ cell.value = v
        BY Zenon DEF Cell
    <2>3. /\ Sound(g) /\ Roomy(g) /\ g.count = m.count /\ m.count = Cardinality(Occupied(g))
          /\ g.count \in Nat /\ g.cap \in Nat \ {0} /\ 4 * (g.count + 1) <= 3 * g.cap /\ Stands(g, f)
        BY MadeRoom, Zenon
    <2> HIDE DEF g, cell
    <2>4. /\ Sound(p) /\ p.cap = g.cap /\ p.count = g.count /\ Stands(p, [f EXCEPT ![n] = v])
          /\ Cardinality(Occupied(p)) = Cardinality(Occupied(g)) + (IF new THEN 1 ELSE 0)
        BY <2>2, <2>3, PutStands, Zenon DEF Free
    <2> HIDE DEF p, new
    <2>5. k \in Nat /\ k <= g.count + 1 /\ k = Cardinality(Occupied(p))
        BY <2>3, <2>4
    <2> HIDE DEF k
    <2>6. /\ Sound(q) /\ q.cap = p.cap /\ q.count = k /\ Occupied(q) = Occupied(p)
          /\ Stands(q, [f EXCEPT ![n] = v])
        BY <2>4, <2>5, Recounted
    <2> HIDE DEF q
    <2>7. 4 * q.count <= 3 * q.cap
        BY <2>3, <2>4, <2>5, <2>6
    <2> QED BY <1>2, <2>1, <2>5, <2>6, <2>7, Zenon DEF WellKept
<1> QED BY <1>1, <1>2, Zenon

\* A value is written into the cell of its name.
LEMMA ValueSet ==
    ASSUME NEW m, WellKept(m), NEW i \in 0 .. m.cap - 1, NEW n \in Names, m.cells[i].name = n,
           NEW v \in Values \cup {NoValue}
    PROVE  LET q == [m EXCEPT !.cells[i].value = v] IN
           /\ WellKept(q) /\ q.cap = m.cap
           /\ \A j \in 0 .. m.cap - 1 : q.cells[j].name = m.cells[j].name
           /\ \A f \in Binding : Stands(m, f) => Stands(q, [f EXCEPT ![n] = v])
<1> DEFINE cell == [name |-> n, value |-> v]
           c == [m.cells EXCEPT ![i] = cell]
           q == [m EXCEPT !.cells[i].value = v]
<1>1. cell \in Cell /\ cell.name = n /\ cell.value = v
    BY Zenon DEF Cell
<1>2. m \in Table /\ Sound(m)
    BY Zenon DEF WellKept, Sound
<1>3. /\ m.cells \in [0 .. m.cap - 1 -> Cell] /\ m.cap \in Nat \ {0} /\ m.count \in Nat
      /\ m = [cap |-> m.cap, count |-> m.count, cells |-> m.cells]
    BY <1>2, TableIs, Zenon
<1>4. [m.cells[i] EXCEPT !.value = v] = cell
    BY <1>3 DEF Cell
<1>5. q = [m EXCEPT !.cells = [m.cells EXCEPT ![i] = [m.cells[i] EXCEPT !.value = v]]]
    OBVIOUS
<1>6. c \in [0 .. m.cap - 1 -> Cell]
    BY <1>1, <1>3, Zenon
<1> HIDE DEF c, q, cell
<1>7. q = [cap |-> m.cap, count |-> m.count, cells |-> c]
    BY <1>3, <1>4, <1>5, Zenon DEF c
<1>8. q \in Tables(m.cap) /\ q.cap = m.cap /\ q.count = m.count /\ q.cells = c
    BY <1>3, <1>6, <1>7, Zenon DEF Tables
<1>9. q \in Table
    BY <1>3, <1>8, TablesAreTable, Zenon
<1>10. /\ Sound(q) /\ Occupied(q) = Occupied(m)
       /\ \A f \in Binding : Stands(m, f) => Stands(q, [f EXCEPT ![cell.name] = cell.value])
    BY <1>1, <1>2, <1>8, <1>9, Overwritten, Zenon DEF c
<1>11. WellKept(q)
    BY <1>8, <1>10, Zenon DEF WellKept
<1>12. \A j \in 0 .. m.cap - 1 : q.cells[j].name = m.cells[j].name
    BY <1>1, <1>3, <1>8, Zenon DEF c
<1> QED BY <1>1, <1>8, <1>10, <1>11, <1>12, Zenon DEF q

\* A value written into a free cell binds nothing.
LEMMA ValueLost ==
    ASSUME NEW m, WellKept(m), NEW i \in 0 .. m.cap - 1, Free(m, i), NEW v \in Values \cup {NoValue}
    PROVE  LET q == [m EXCEPT !.cells[i].value = v] IN
           WellKept(q) /\ \A f \in Binding : Stands(m, f) => Stands(q, f)
<1> DEFINE cell == [name |-> NoName, value |-> v]
           c == [m.cells EXCEPT ![i] = cell]
           q == [m EXCEPT !.cells[i].value = v]
<1>1. cell \in Cell /\ cell.name = NoName
    BY Zenon DEF Cell
<1>2. m \in Table /\ Sound(m)
    BY Zenon DEF WellKept, Sound
<1>3. /\ m.cells \in [0 .. m.cap - 1 -> Cell] /\ m.cap \in Nat \ {0} /\ m.count \in Nat
      /\ m = [cap |-> m.cap, count |-> m.count, cells |-> m.cells]
    BY <1>2, TableIs, Zenon
<1>4. [m.cells[i] EXCEPT !.value = v] = cell
    BY <1>3 DEF Cell, Free
<1>5. q = [m EXCEPT !.cells = [m.cells EXCEPT ![i] = [m.cells[i] EXCEPT !.value = v]]]
    OBVIOUS
<1>6. c \in [0 .. m.cap - 1 -> Cell]
    BY <1>1, <1>3, Zenon
<1> HIDE DEF c, q, cell
<1>7. q = [cap |-> m.cap, count |-> m.count, cells |-> c]
    BY <1>3, <1>4, <1>5, Zenon DEF c
<1>8. q \in Tables(m.cap) /\ q.cap = m.cap /\ q.count = m.count /\ q.cells = c
    BY <1>3, <1>6, <1>7, Zenon DEF Tables
<1>9. q \in Table
    BY <1>3, <1>8, TablesAreTable, Zenon
<1>10. \A j \in 0 .. m.cap - 1 : /\ q.cells[j].name = m.cells[j].name
                                 /\ ~Free(m, j) => q.cells[j] = m.cells[j]
    BY <1>1, <1>3, <1>8, Zenon DEF c, Free
<1>11. \A j \in 0 .. m.cap - 1 : Free(q, j) <=> Free(m, j)
    BY <1>10, Zenon DEF Free
<1>12. Occupied(q) = Occupied(m)
    BY <1>8, <1>11, Zenon DEF Occupied
<1>13. Sound(q)
    <2>1. Single(q)
        BY <1>2, <1>8, <1>10, <1>11, Zenon DEF Sound, Single
    <2>2. \A j \in 0 .. m.cap - 1 : ~Free(m, j) => Reached(q, j)
        BY <1>2, <1>8, <1>10, <1>11, Zenon DEF Sound, Reached
    <2> QED BY <1>8, <1>9, <1>11, <2>1, <2>2, Zenon DEF Sound
<1>14. WellKept(q)
    BY <1>8, <1>12, <1>13, Zenon DEF WellKept
<1>15. ASSUME NEW f \in Binding, Stands(m, f) PROVE Stands(q, f)
    <2>1. \A j \in 0 .. q.cap - 1 : ~Free(q, j) => q.cells[j].value = f[q.cells[j].name]
        BY <1>8, <1>10, <1>11, <1>15, Zenon DEF Stands
    <2>2. \A n \in Names : Absent(q, n) => Absent(m, n)
        BY <1>8, <1>10, Zenon DEF Absent
    <2> QED BY <1>15, <2>1, <2>2, Zenon DEF Stands
<1> QED BY <1>14, <1>15, Zenon DEF q

\* A name that has no cell is given one; the others keep theirs unless the
\* table has grown.
LEMMA SetPlaces ==
    ASSUME NEW m, WellKept(m), NEW n \in Names, Absent(m, n), NEW v \in Values \cup {NoValue}
    PROVE  LET q == SetEntry(m, n, v) IN
           /\ WellKept(q)
           /\ FindSlot(q, n) \in 0 .. q.cap - 1 /\ q.cells[FindSlot(q, n)].name = n
           /\ \A f \in Binding : Stands(m, f) => Stands(q, [f EXCEPT ![n] = v])
           /\ q.cap >= m.cap
           /\ q.cap = m.cap => \A j \in 0 .. m.cap - 1 : ~Free(m, j) => q.cells[j] = m.cells[j]
<1> DEFINE cell == [name |-> n, value |-> v]
           g == IF Overloaded(m) THEN Grow(m) ELSE m
           p == Put(g, cell)
           s == FindSlot(g, n)
           q == [p EXCEPT !.count = p.count + 1]
<1>1. cell \in Cell /\ cell.name = n /\ cell.value = v
    BY Zenon DEF Cell
<1>2. m \in Table /\ m.cap \in Nat \ {0}
    BY KeptIsRoomy, TableIs, Zenon
<1>3. SetEntry(m, n, v) = q
    BY LookupIs, Zenon DEF SetEntry
<1>4. /\ Sound(g) /\ Roomy(g) /\ g.count = m.count /\ m.count = Cardinality(Occupied(g))
      /\ g.count \in Nat /\ g.cap \in Nat \ {0} /\ 4 * (g.count + 1) <= 3 * g.cap
      /\ \A f \in Binding : Stands(m, f) => Stands(g, f)
    BY MadeRoom, Zenon
<1>5. Absent(g, n) /\ (g.cap = m.cap => g = m) /\ g.cap >= m.cap
    <2>1. CASE Overloaded(m)
        <3>1. Content(g) = Content(m) /\ g \in Table /\ g.cap = 2 * m.cap
            BY <2>1, GrowKeeps, Zenon DEF Sound
        <3> HIDE DEF g
        <3> QED BY <1>2, <3>1, AbsentContent
    <2>2. CASE ~Overloaded(m)
        <3>1. g = m
            BY <2>2, Zenon
        <3> HIDE DEF g
        <3> QED BY <1>2, <3>1
    <2> QED BY <2>1, <2>2, Zenon
<1> HIDE DEF g, cell
<1>6. /\ Sound(p) /\ p.cap = g.cap /\ p.count = g.count
      /\ Cardinality(Occupied(p)) = Cardinality(Occupied(g)) + 1
    BY <1>1, <1>4, <1>5, PutSound, Zenon
<1>7. \A f \in Binding : Stands(g, f) => Stands(p, [f EXCEPT ![n] = v])
    BY <1>1, <1>4, PutStands, Zenon
<1>8. /\ s \in 0 .. g.cap - 1 /\ Free(g, s)
      /\ \A i \in 0 .. g.cap - 1 : p.cells[i] = IF i = s THEN cell ELSE g.cells[i]
    <2>1. g \in Table
        BY <1>4, Zenon DEF Sound
    <2>2. cell.name \in Names /\ Absent(g, cell.name)
        BY <1>1, <1>5, Zenon
    <2>3. /\ FindSlot(g, cell.name) \in 0 .. g.cap - 1 /\ Free(g, FindSlot(g, cell.name))
          /\ \A i \in 0 .. g.cap - 1 :
                p.cells[i] = IF i = FindSlot(g, cell.name) THEN cell ELSE g.cells[i]
        BY <1>1, <1>4, <2>1, <2>2, PutNew, Zenon
    <2> QED BY <1>1, <2>3, Zenon
<1> HIDE DEF p, s
<1>9. p.count + 1 \in Nat
    BY <1>4, <1>6
<1>10. /\ Sound(q) /\ q.cap = p.cap /\ q.count = p.count + 1 /\ q.cells = p.cells
       /\ Occupied(q) = Occupied(p) /\ \A f : Stands(p, f) => Stands(q, f)
    BY <1>6, <1>9, Recounted
<1> HIDE DEF q
<1>11. WellKept(q)
    BY <1>4, <1>6, <1>10, Zenon DEF WellKept
<1>12. s \in 0 .. q.cap - 1 /\ q.cells[s].name = n
    BY <1>1, <1>6, <1>8, <1>10, Zenon
<1>13. FindSlot(q, n) = s
    BY <1>11, <1>12, LookupIs, Zenon
<1>14. ASSUME q.cap = m.cap, NEW j \in 0 .. m.cap - 1, ~Free(m, j) PROVE q.cells[j] = m.cells[j]
    <2>1. g = m
        BY <1>5, <1>6, <1>10, <1>14, Zenon
    <2>2. j # s
        BY <1>8, <1>14, <2>1, Zenon
    <2> QED BY <1>8, <1>10, <1>14, <2>1, <2>2, Zenon
<1>15. \A f \in Binding : Stands(m, f) => Stands(q, [f EXCEPT ![n] = v])
    BY <1>4, <1>7, <1>10, Zenon
<1>16. q.cap >= m.cap
    BY <1>5, <1>6, <1>10, Zenon
<1> QED BY <1>3, <1>11, <1>12, <1>13, <1>14, <1>15, <1>16, Zenon

\* cxpr_hashmap_set.
LEMMA SetKeeps ==
    ASSUME NEW m, WellKept(m), NEW f \in Binding, Stands(m, f), NEW n \in Names,
           NEW v \in Values \cup {NoValue}
    PROVE  WellKept(SetEntry(m, n, v)) /\ Stands(SetEntry(m, n, v), [f EXCEPT ![n] = v])
<1>1. CASE Found(m, n)
    <2> DEFINE s == FindSlot(m, n)
    <2>1. s \in 0 .. m.cap - 1 /\ m.cells[s].name = n
        BY <1>1, KeptIsRoomy, Stops, Zenon DEF Found
    <2>2. SetEntry(m, n, v) = [m EXCEPT !.cells[s].value = v]
        BY <1>1, Zenon DEF SetEntry
    <2> HIDE DEF s
    <2> QED BY <2>1, <2>2, ValueSet
<1>2. CASE ~Found(m, n)
    <2>1. Absent(m, n)
        BY <1>2, LookupIs, Zenon DEF Absent
    <2> QED BY <2>1, SetPlaces, Zenon
<1> QED BY <1>1, <1>2, Zenon

\* A new table is well kept and stands for the empty mapping.
LEMMA NewMapKept ==
    ASSUME NEW cap \in Nat \ {0}
    PROVE  WellKept(NewMap(cap)) /\ Stands(NewMap(cap), Empty)
<1> DEFINE z == [NewMap(cap) EXCEPT !.count = 0]
           t == NewMap(cap)
<1>0. /\ z.cap = cap /\ z.count = 0 /\ \A i \in 0 .. cap - 1 : Free(z, i)
      /\ Occupied(z) = {} /\ Sound(z)
    BY NewMapIs, Zenon
<1>1. t = z
    BY DEF NewMap
<1> HIDE DEF z
<1>2. /\ t.cap = cap /\ t.count = 0 /\ \A i \in 0 .. cap - 1 : Free(t, i)
      /\ Occupied(t) = {} /\ Sound(t)
    BY <1>0, <1>1, Zenon
<1> HIDE DEF t
<1>3. WellKept(t)
    BY <1>2, FS_EmptySet DEF WellKept
<1>4. Stands(t, Empty)
    BY <1>2, Zenon DEF Stands, Empty
<1> QED BY <1>3, <1>4, Zenon DEF t

\* cxpr_hashmap_clear.
LEMMA ClearKeeps ==
    ASSUME NEW m, WellKept(m)
    PROVE  WellKept(ClearMap(m)) /\ Stands(ClearMap(m), Empty)
<1>1. m.cap \in Nat \ {0} /\ m = [cap |-> m.cap, count |-> m.count, cells |-> m.cells]
    BY TableIs, Zenon DEF WellKept, Sound
<1> DEFINE c == FreeCells(m.cap)
<1>2. ClearMap(m) = [m EXCEPT !.count = 0, !.cells = c] /\ NewMap(m.cap) = [cap |-> m.cap, count |-> 0, cells |-> c]
    BY Zenon DEF ClearMap, NewMap
<1> HIDE DEF c
<1>3. ClearMap(m) = NewMap(m.cap)
    BY <1>1, <1>2, Zenon
<1> QED BY <1>1, <1>3, NewMapKept, Zenon

----------------------------------------------------------------------------
(* Cloning by storing the cells again. *)

\* A well kept table stands for the mapping its lookups give.
LEMMA StandsForBindings ==
    ASSUME NEW m, WellKept(m)
    PROVE  Bindings(m) \in Binding /\ Stands(m, Bindings(m))
<1>1. m \in Table
    BY KeptIsRoomy, Zenon
<1>2. ASSUME NEW n \in Names PROVE Lookup(m, n) \in Values \cup {NoValue}
    <2>1. CASE Absent(m, n)
        BY <2>1, LookupIs, Zenon
    <2>2. CASE ~Absent(m, n)
        <3>1. PICK i \in 0 .. m.cap - 1 : m.cells[i].name = n
            BY <2>2, Zenon DEF Absent
        <3>2. ~Free(m, i)
            BY <3>1, TableAssumption, Zenon DEF Free
        <3> QED BY <1>1, <3>1, <3>2, LookupIs, CellOf, Zenon
    <2> QED BY <2>1, <2>2, Zenon
<1>3. Bindings(m) \in Binding /\ \A n \in Names : Bindings(m)[n] = Lookup(m, n)
    BY <1>2, Zenon DEF Bindings, Binding
<1>4. ASSUME NEW i \in 0 .. m.cap - 1, ~Free(m, i)
      PROVE  m.cells[i].value = Bindings(m)[m.cells[i].name]
    <2>1. m.cells[i].name \in Names
        BY <1>1, <1>4, CellOf, Zenon
    <2> QED BY <1>3, <2>1, LookupIs, Zenon
<1> QED BY <1>3, <1>4, LookupIs, Zenon DEF Stands

\* The loop of cxpr_struct_map_clone, turn by turn.
LEMMA Recloning ==
    ASSUME NEW m \in Table, NEW i \in 0 .. m.cap
    PROVE  Recloned(m)[i] =
             IF i = 0 THEN NewMap(InitialCapacity)
             ELSE IF m.cells[i - 1].name = NoName THEN Recloned(m)[i - 1]
             ELSE StoreEntry(Recloned(m)[i - 1], m.cells[i - 1].name, m.cells[i - 1].value, TRUE)
<1> DEFINE cap == m.cap
           S == {t \in Table : WellKept(t)}
           t0 == NewMap(InitialCapacity)
           Step(t, k) == IF m.cells[k - 1].name = NoName THEN t
                         ELSE StoreEntry(t, m.cells[k - 1].name, m.cells[k - 1].value, TRUE)
           step == [k \in 1 .. cap |-> [t \in S |-> Step(t, k)]]
           Is(f) == f = [k \in 0 .. cap |->
                           IF k = 0 THEN t0
                           ELSE IF m.cells[k - 1].name = NoName THEN f[k - 1]
                           ELSE StoreEntry(f[k - 1], m.cells[k - 1].name, m.cells[k - 1].value, TRUE)]
<1>1. cap \in Nat \ {0}
    BY TableIs, Zenon
<1>2. t0 \in S
    BY NewMapKept, TableAssumption, KeptIsRoomy, Zenon
<1>3. ASSUME NEW k \in 1 .. cap, NEW t \in S PROVE Step(t, k) \in S
    <2>1. CASE m.cells[k - 1].name = NoName
        BY <2>1, Zenon
    <2>2. CASE m.cells[k - 1].name # NoName
        <3>1. k - 1 \in 0 .. m.cap - 1 /\ ~Free(m, k - 1)
            BY <1>1, <2>2 DEF Free
        <3>2. m.cells[k - 1].name \in Names /\ m.cells[k - 1].value \in Values \cup {NoValue}
            BY <3>1, CellOf, Zenon
        <3>3. WellKept(t) /\ Bindings(t) \in Binding /\ Stands(t, Bindings(t)) /\ TRUE \in BOOLEAN
            BY StandsForBindings, Zenon
        <3>4. WellKept(Step(t, k))
            BY <2>2, <3>2, <3>3, StoreKeeps, Zenon
        <3> HIDE DEF Step
        <3> QED BY <3>4, KeptIsRoomy, Zenon
    <2> QED BY <2>1, <2>2, Zenon
<1> HIDE DEF S, t0, Step
<1>4. step \in [1 .. cap -> [S -> S]]
    BY <1>3, Zenon
<1> HIDE DEF step
<1>5. PICK f \in [0 .. cap -> S] : Runs(f, cap, t0, step)
    BY <1>1, <1>2, <1>4, LoopRuns, Zenon
<1>6. ASSUME NEW k \in 0 .. cap
      PROVE  f[k] = IF k = 0 THEN t0 ELSE Step(f[k - 1], k)
    <2>1. f[k] = IF k = 0 THEN t0 ELSE step[k][f[k - 1]]
        BY <1>5, Zenon DEF Runs
    <2>2. CASE k = 0
        BY <2>1, <2>2, Zenon
    <2>3. CASE k # 0
        <3>1. k \in 1 .. cap /\ k - 1 \in 0 .. cap
            BY <1>1, <2>3
        <3>2. f[k - 1] \in S
            BY <3>1, Zenon
        <3>3. step[k][f[k - 1]] = Step(f[k - 1], k)
            BY <3>1, <3>2, Zenon DEF step
        <3> QED BY <2>1, <2>3, <3>3, Zenon
    <2> QED BY <2>2, <2>3, Zenon
<1>7. Is(f)
    <2>1. f = [k \in 0 .. cap |-> f[k]]
        OBVIOUS
    <2> QED BY <1>6, <2>1, Zenon DEF Step
<1>8. Recloned(m) = CHOOSE g : Is(g)
    BY Zenon DEF Recloned, t0
<1> HIDE DEF Is
<1>9. Is(Recloned(m))
    BY <1>7, <1>8, Zenon
<1> HIDE DEF cap
<1> QED BY <1>9, Zenon DEF Is, cap, t0

\* What the first i cells of m bind.
Restricted(m, f, i) ==
  [n \in Names |-> IF \E j \in Seen(m, i) : m.cells[j].name = n THEN f[n] ELSE NoValue]

\* cxpr_struct_map_clone.
LEMMA CloneKeeps ==
    ASSUME NEW m, WellKept(m), NEW f \in Binding, Stands(m, f)
    PROVE  WellKept(CloneByStoring(m)) /\ Stands(CloneByStoring(m), f)
<1> DEFINE cap == m.cap
           t(i) == Recloned(m)[i]
           F(i) == Restricted(m, f, i)
           Good(i) == WellKept(t(i)) /\ Stands(t(i), F(i))
           D == {i \in 0 .. cap : Good(i)}
<1>1. m \in Table /\ cap \in Nat \ {0}
    BY KeptIsRoomy, TableIs, Zenon
<1>2. \A i \in 0 .. cap : F(i) \in Binding
    BY Zenon DEF Binding, Restricted
<1>3. 0 \in D
    <2>1. 0 \in 0 .. cap /\ t(0) = NewMap(InitialCapacity)
        <3>1. 0 \in 0 .. m.cap
            BY <1>1
        <3>2. Recloned(m)[0] = IF 0 = 0 THEN NewMap(InitialCapacity)
                               ELSE IF m.cells[0 - 1].name = NoName THEN Recloned(m)[0 - 1]
                               ELSE StoreEntry(Recloned(m)[0 - 1], m.cells[0 - 1].name,
                                               m.cells[0 - 1].value, TRUE)
            BY <1>1, <3>1, Recloning, Zenon
        <3> QED BY <3>1, <3>2, Zenon
    <2>2. F(0) = Empty
        BY <1>1, SeenIs, Zenon DEF Restricted, Empty
    <2> HIDE DEF t, F
    <2> QED BY <2>1, <2>2, NewMapKept, TableAssumption, Zenon
<1>4. ASSUME NEW i \in 1 .. cap, i - 1 \in D PROVE i \in D
    <2> DEFINE n == m.cells[i - 1].name
               v == m.cells[i - 1].value
    <2>1. Good(i - 1)
        BY <1>4, Zenon
    <2>2. i \in 0 .. cap /\ i - 1 \in 0 .. cap /\ i - 1 \in 0 .. cap - 1 /\ i # 0
        BY <1>1
    <2>3. t(i) = IF n = NoName THEN t(i - 1) ELSE StoreEntry(t(i - 1), n, v, TRUE)
        BY <1>1, <2>2, Recloning, Zenon
    <2>4. CASE Free(m, i - 1)
        <3>1. t(i) = t(i - 1)
            BY <2>3, <2>4, Zenon DEF Free
        <3>2. Seen(m, i) = Seen(m, i - 1)
            BY <1>1, <2>4, SeenIs, Zenon
        <3>3. F(i) = F(i - 1)
            BY <3>2, Zenon DEF Restricted
        <3> HIDE DEF t, F
        <3> QED BY <2>1, <2>2, <3>1, <3>3, Zenon
    <2>5. CASE ~Free(m, i - 1)
        <3>1. t(i) = StoreEntry(t(i - 1), n, v, TRUE)
            BY <2>3, <2>5, Zenon DEF Free
        <3>2. n \in Names /\ v \in Values \cup {NoValue} /\ v = f[n]
            BY <1>1, <2>2, <2>5, CellOf, Zenon DEF Stands
        <3>3. Seen(m, i) = Seen(m, i - 1) \cup {i - 1}
            BY <1>1, <2>5, SeenIs, Zenon
        <3>4. F(i) = [F(i - 1) EXCEPT ![n] = v]
            <4> DEFINE g == [F(i - 1) EXCEPT ![n] = v]
            <4>1. F(i - 1) \in [Names -> Values \cup {NoValue}]
                BY <1>2, <2>2, Zenon DEF Binding
            <4>2. g = [k \in Names |-> IF k = n THEN v ELSE F(i - 1)[k]]
                <5> HIDE DEF F
                <5> QED BY <4>1, Zenon
            <4>3. ASSUME NEW k \in Names PROVE F(i)[k] = IF k = n THEN v ELSE F(i - 1)[k]
                BY <3>2, <3>3, Zenon DEF Restricted
            <4>4. F(i) = [k \in Names |-> F(i)[k]]
                BY Zenon DEF Restricted
            <4> HIDE DEF F, g
            <4> QED BY <4>2, <4>3, <4>4, Zenon DEF g
        <3> HIDE DEF t, n, v
        <3>5. WellKept(t(i - 1)) /\ F(i - 1) \in Binding /\ Stands(t(i - 1), F(i - 1))
            BY <1>2, <2>1, <2>2, Zenon
        <3> HIDE DEF F
        <3>6. /\ WellKept(StoreEntry(t(i - 1), n, v, TRUE))
              /\ Stands(StoreEntry(t(i - 1), n, v, TRUE), [F(i - 1) EXCEPT ![n] = v])
            BY <3>2, <3>5, StoreKeeps, Zenon
        <3> QED BY <2>2, <3>1, <3>4, <3>6, Zenon
    <2> QED BY <2>4, <2>5, Zenon
<1> HIDE DEF D
<1>5. \A i \in 0 .. cap : i \in D
    BY <1>1, <1>3, <1>4, UpTo, Zenon
<1>6. F(cap) = f
    <2>1. Seen(m, cap) = Occupied(m)
        BY <1>1, SeenIs, Zenon
    <2>2. ASSUME NEW n \in Names PROVE F(cap)[n] = f[n]
        <3>1. CASE \E j \in Occupied(m) : m.cells[j].name = n
            BY <2>1, <3>1, Zenon DEF Restricted
        <3>2. CASE ~\E j \in Occupied(m) : m.cells[j].name = n
            <4>1. Absent(m, n)
                BY <3>2, TableAssumption, Zenon DEF Absent, Occupied, Free
            <4> QED BY <2>1, <3>2, <4>1, Zenon DEF Restricted, Stands
        <3> QED BY <3>1, <3>2, Zenon
    <2>3. F(cap) = [n \in Names |-> F(cap)[n]] /\ f = [n \in Names |-> f[n]]
        BY Zenon DEF Restricted, Binding
    <2> HIDE DEF F
    <2> QED BY <2>2, <2>3, Zenon
<1> HIDE DEF t, F
<1>7. Good(cap)
    BY <1>1, <1>5 DEF D
<1>8. CloneByStoring(m) = t(cap)
    BY Zenon DEF CloneByStoring, t
<1> QED BY <1>6, <1>7, <1>8, Zenon

----------------------------------------------------------------------------
(* Removing. *)

\* How far j is behind s, going round.
Off(s, j, cap) == IF s <= j THEN j - s ELSE j - s + cap

\* The distance from s, going round, tells the cells apart.
LEMMA OffIs ==
    ASSUME NEW cap \in Nat \ {0}, NEW s \in 0 .. cap - 1, NEW j \in 0 .. cap - 1
    PROVE  /\ Off(s, j, cap) \in 0 .. cap - 1
           /\ Off(s, j, cap) = 0 <=> j = s
           /\ \A i \in 0 .. cap - 1 : Off(s, i, cap) = Off(s, j, cap) => i = j
BY DEF Off

\* The cell d steps after s is at distance d.
LEMMA OffAt ==
    ASSUME NEW cap \in Nat \ {0}, NEW s \in 0 .. cap - 1, NEW d \in 0 .. cap - 1
    PROVE  (s + d) % cap \in 0 .. cap - 1 /\ Off(s, (s + d) % cap, cap) = d
<1>1. s = cap * 0 + s
    OBVIOUS
<1>2. s % cap = s
    BY <1>1, RemainderIs, Zenon
<1>3. (s + d) % cap = IF s + d < cap THEN s + d ELSE s + d - cap
    <2>1. s \in Nat
        OBVIOUS
    <2>2. (s + d) % cap = IF (s % cap) + d < cap THEN (s % cap) + d ELSE (s % cap) + d - cap
        BY <2>1, ProbeAt, Zenon
    <2> QED BY <1>2, <2>2, Zenon
<1> DEFINE i == (s + d) % cap
<1> HIDE DEF i
<1>4. i = IF s + d < cap THEN s + d ELSE s + d - cap
    BY <1>3, Zenon DEF i
<1>5. i \in 0 .. cap - 1 /\ Off(s, i, cap) = d
    BY <1>4 DEF Off
<1> QED BY <1>5, Zenon DEF i

\* A way from inside a stretch after s to beyond it leads over its end, and a
\* way from its end back into it leads over everything beyond.
LEMMA RoundTrip ==
    ASSUME NEW cap \in Nat \ {0}, NEW s \in 0 .. cap - 1, NEW h \in 0 .. cap - 1,
           NEW i \in 0 .. cap - 1, NEW j \in 0 .. cap - 1, NEW k \in 0 .. cap - 1
    PROVE  /\ Off(s, k, cap) < Off(s, i, cap) /\ Off(s, i, cap) < Off(s, j, cap) /\ Before(h, k, j)
                => Before(h, i, j)
           /\ Off(s, j, cap) < Off(s, i, cap) /\ Off(s, i, cap) < Off(s, k, cap) /\ Before(h, i, j)
                => Before(h, k, j)
BY DEF Off, Before

\* After the cells up to offset d behind s are placed again: beyond them
\* nothing has changed, and those among them are where a probe finds them.
Mended(m, s, t, d) ==
  /\ \A j \in 0 .. m.cap - 1 : Off(s, j, m.cap) > d => t.cells[j] = m.cells[j]
  /\ \A j \in 0 .. m.cap - 1 : Off(s, j, m.cap) <= d => ~Free(m, j)
  /\ \A j \in 0 .. m.cap - 1 : Off(s, j, m.cap) <= d /\ ~Free(t, j) => Reached(t, j)

\* The name of cell s and nothing else is gone.
Emptied(m, s, t) ==
  /\ t \in Table /\ t.cap = m.cap /\ t.count = m.count - 1
  /\ Single(t)
  /\ Content(t) = Content(m) \ {m.cells[s]}
  /\ Cardinality(Occupied(t)) = m.count - 1

\* The first cell of a probe is a cell of the table.
LEMMA HomeIs ==
    ASSUME NEW m \in Table, NEW i \in 0 .. m.cap - 1, ~Free(m, i)
    PROVE  Home(m.cells[i].name, m.cap) \in 0 .. m.cap - 1
<1>1. m.cells[i].name \in Names /\ m.cap \in Nat \ {0}
    BY CellOf, TableIs, Zenon
<1> QED BY <1>1, Remainder, TableAssumption, Zenon DEF Home

\* At a free cell, or when all cells were placed again, the table is sound.
LEMMA MendedStops ==
    ASSUME NEW m, Sound(m), NEW s \in 0 .. m.cap - 1, NEW t, Emptied(m, s, t),
           NEW d \in 0 .. m.cap - 1, Mended(m, s, t, d),
           \/ d = m.cap - 1
           \/ \E i \in 0 .. m.cap - 1 : Off(s, i, m.cap) = d + 1 /\ Free(m, i)
    PROVE  Sound(t)
<1> DEFINE cap == m.cap
<1>1. m \in Table /\ cap \in Nat \ {0} /\ t \in Table /\ t.cap = cap
    BY TableIs, Zenon DEF Sound, Emptied
<1>2. ASSUME NEW j \in 0 .. cap - 1, ~Free(t, j) PROVE Reached(t, j)
    <2>1. CASE Off(s, j, cap) <= d
        BY <1>2, <2>1, Zenon DEF Mended
    <2>2. CASE ~(Off(s, j, cap) <= d)
        <3>0. Off(s, j, cap) \in 0 .. cap - 1
            BY <1>1, OffIs, Zenon
        <3>1. Off(s, j, cap) > d
            BY <2>2, <3>0
        <3>2. PICK i \in 0 .. cap - 1 : Off(s, i, cap) = d + 1 /\ Free(m, i)
            BY <1>1, <3>0, <3>1
        <3>3. t.cells[j] = m.cells[j]
            BY <3>1, Zenon DEF Mended
        <3>4. ~Free(m, j) /\ Reached(m, j)
            BY <1>2, <3>3, Zenon DEF Free, Sound
        <3> DEFINE h == Home(m.cells[j].name, cap)
        <3>5. h \in 0 .. cap - 1 /\ h = Home(t.cells[j].name, t.cap)
            BY <1>1, <3>3, <3>4, HomeIs, Zenon
        <3>6. \A k \in 0 .. cap - 1 : Before(h, k, j) => ~Free(m, k)
            BY <3>4, Zenon DEF Reached
        <3> HIDE DEF h
        <3>7. Off(s, j, cap) # d + 1
            <4>1. j # i
                BY <3>2, <3>4, Zenon
            <4>2. Off(s, i, cap) # Off(s, j, cap)
                BY <1>1, <4>1, OffIs, Zenon
            <4> QED BY <3>2, <4>2, Zenon
        <3>8. ASSUME NEW k \in 0 .. cap - 1, Before(h, k, j) PROVE ~Free(t, k)
            <4>1. CASE Off(s, k, cap) > d
                BY <3>6, <3>8, <4>1, Zenon DEF Mended, Free
            <4>2. CASE ~(Off(s, k, cap) > d)
                <5>1. Off(s, k, cap) \in 0 .. cap - 1
                    BY <1>1, OffIs, Zenon
                <5>2. Off(s, k, cap) < Off(s, i, cap) /\ Off(s, i, cap) < Off(s, j, cap)
                    BY <1>1, <3>0, <3>1, <3>2, <3>7, <4>2, <5>1
                <5>3. Before(h, i, j)
                    BY <1>1, <3>5, <3>8, <5>2, RoundTrip, Zenon
                <5> QED BY <3>2, <3>6, <5>3, Zenon
            <4> QED BY <4>1, <4>2, Zenon
        <3> QED BY <1>1, <3>5, <3>8, Zenon DEF Reached
    <2> QED BY <2>1, <2>2, Zenon
<1> QED BY <1>1, <1>2, Zenon DEF Sound, Emptied

\* A cell is freed.
Vacate(t, i, c) == [cap |-> t.cap, count |-> c, cells |-> [t.cells EXCEPT ![i] = FreeCell]]

\* A table with one cell emptied.
LEMMA Vacated ==
    ASSUME NEW t \in Table, NEW i \in 0 .. t.cap - 1, NEW c \in Nat
    PROVE  LET u == Vacate(t, i, c) IN
           /\ u \in Tables(t.cap) /\ u \in Table /\ u.cap = t.cap /\ u.count = c
           /\ \A j \in 0 .. t.cap - 1 : u.cells[j] = IF j = i THEN FreeCell ELSE t.cells[j]
           /\ Free(u, i) /\ Roomy(u)
           /\ Single(t) => Single(u)
           /\ Occupied(u) = Occupied(t) \ {i}
           /\ Single(t) /\ ~Free(t, i) => /\ Absent(u, t.cells[i].name)
                                          /\ Content(u) = Content(t) \ {t.cells[i]}
           /\ ~Free(t, i) => Cardinality(Occupied(t)) = Cardinality(Occupied(u)) + 1
<1> DEFINE u == Vacate(t, i, c)
<1>1. t.cap \in Nat \ {0} /\ t.cells \in [0 .. t.cap - 1 -> Cell] /\ FreeCell \in Cell
    BY TableIs, Zenon DEF FreeCell, Cell
<1>2. u \in Tables(t.cap) /\ u.cap = t.cap /\ u.count = c
    BY <1>1, Zenon DEF Tables, Vacate
<1>3. u \in Table
    BY <1>1, <1>2, TablesAreTable, Zenon
<1>4. \A j \in 0 .. t.cap - 1 : u.cells[j] = IF j = i THEN FreeCell ELSE t.cells[j]
    BY <1>1, Zenon DEF Vacate
<1> HIDE DEF u
<1>5. Free(u, i) /\ \A j \in 0 .. t.cap - 1 : j # i => (Free(u, j) <=> Free(t, j))
    BY <1>4 DEF Free, FreeCell
<1>6. Roomy(u)
    BY <1>2, <1>5, Zenon DEF Roomy
<1>7. Single(t) => Single(u)
    BY <1>2, <1>4, <1>5, Zenon DEF Single, Free
<1>8. Occupied(u) = Occupied(t) \ {i}
    BY <1>2, <1>5, Zenon DEF Occupied
<1>9. ASSUME Single(t), ~Free(t, i)
      PROVE  Absent(u, t.cells[i].name) /\ Content(u) = Content(t) \ {t.cells[i]}
    <2>1. \A j \in 0 .. t.cap - 1 : j # i => t.cells[j].name # t.cells[i].name
        BY <1>9, Zenon DEF Single
    <2>2. Absent(u, t.cells[i].name)
        BY <1>2, <1>4, <1>9, <2>1 DEF Absent, Free, FreeCell
    <2>3. Occupied(t) \subseteq 0 .. t.cap - 1 /\ i \in Occupied(t)
        BY <1>9, Zenon DEF Occupied
    <2>4. \A j \in Occupied(u) : u.cells[j] = t.cells[j] /\ t.cells[j] # t.cells[i]
        BY <1>4, <1>8, <2>1, <2>3, Zenon
    <2>5. Content(u) = {t.cells[j] : j \in Occupied(t) \ {i}}
        BY <1>8, <2>4, Zenon DEF Content
    <2>6. {t.cells[j] : j \in Occupied(t) \ {i}} = {t.cells[j] : j \in Occupied(t)} \ {t.cells[i]}
        BY <1>8, <2>3, <2>4, Zenon
    <2> QED BY <2>2, <2>5, <2>6, Zenon DEF Content
<1>10. ASSUME ~Free(t, i) PROVE Cardinality(Occupied(t)) = Cardinality(Occupied(u)) + 1
    <2>1. i \in Occupied(t)
        BY <1>10, Zenon DEF Occupied
    <2>2. i \notin Occupied(u) /\ Occupied(t) = Occupied(u) \cup {i}
        BY <1>8, <2>1, Zenon
    <2> QED BY <1>3, <2>2, OccupiedFinite, FS_AddElement, Zenon
<1> QED BY <1>2, <1>3, <1>4, <1>5, <1>6, <1>7, <1>8, <1>9, <1>10, Zenon DEF u

(* The same for the cell of a name in use, with the new table named. *)
LEMMA HoleIs ==
    ASSUME NEW t \in Table, Single(t), NEW i \in 0 .. t.cap - 1, ~Free(t, i), NEW c \in Nat,
           NEW u, u = Vacate(t, i, c)
    PROVE  /\ u \in Table /\ u.cap = t.cap /\ u.count = c
           /\ \A j \in 0 .. t.cap - 1 : u.cells[j] = IF j = i THEN FreeCell ELSE t.cells[j]
           /\ Free(u, i) /\ Single(u)
           /\ Content(u) = Content(t) \ {t.cells[i]}
           /\ Cardinality(Occupied(t)) = Cardinality(Occupied(u)) + 1
BY Vacated

\* A cell of the cluster is taken out and placed again.
LEMMA MendStep ==
    ASSUME NEW m, Sound(m), Roomy(m), NEW s \in 0 .. m.cap - 1, NEW t, Emptied(m, s, t),
           NEW d \in 1 .. m.cap - 1, Mended(m, s, t, d - 1),
           NEW i \in 0 .. m.cap - 1, Off(s, i, m.cap) = d, ~Free(t, i)
    PROVE  Emptied(m, s, Replace(t, i)) /\ Mended(m, s, Replace(t, i), d)
<1> DEFINE cap == m.cap
           cell == t.cells[i]
           n == cell.name
           u == [t EXCEPT !.cells[i] = FreeCell]
           w == Put(u, cell)
           q == FindSlot(u, n)
           off(j) == Off(s, j, cap)
<1>1. /\ m \in Table /\ cap \in Nat \ {0} /\ t \in Table /\ t.cap = cap /\ Single(t) /\ t.count \in Nat
      /\ t = [cap |-> t.cap, count |-> t.count, cells |-> t.cells] /\ i \in 0 .. t.cap - 1
    BY TableIs, Zenon DEF Sound, Emptied
<1>2. cell \in Cell /\ n \in Names /\ cell = m.cells[i] /\ ~Free(m, i)
    <2>1. cell = m.cells[i]
        BY DEF Mended
    <2> QED BY <1>1, <2>1, CellOf, Zenon DEF Free
<1>3. Replace(t, i) = w
    BY Zenon DEF Replace
<1>4. u = Vacate(t, i, t.count)
    BY <1>1 DEF Vacate
<1> HIDE DEF u
<1>5. /\ u \in Table /\ u.cap = cap /\ u.count = t.count
      /\ \A j \in 0 .. cap - 1 : u.cells[j] = IF j = i THEN FreeCell ELSE t.cells[j]
      /\ Free(u, i) /\ Roomy(u) /\ Single(u) /\ Absent(u, n)
      /\ Content(u) = Content(t) \ {cell}
      /\ Cardinality(Occupied(t)) = Cardinality(Occupied(u)) + 1
    <2>1. /\ u \in Table /\ u.cap = t.cap /\ u.count = t.count
          /\ \A j \in 0 .. t.cap - 1 : u.cells[j] = IF j = i THEN FreeCell ELSE t.cells[j]
          /\ Free(u, i) /\ Roomy(u) /\ Single(u) /\ Absent(u, t.cells[i].name)
          /\ Content(u) = Content(t) \ {t.cells[i]}
          /\ Cardinality(Occupied(t)) = Cardinality(Occupied(u)) + 1
        <3> HIDE DEF cap, cell, n, w, q, off
        <3> QED BY <1>1, <1>4, Vacated, SMTT(30)
    <2> QED BY <1>1, <2>1, Zenon
<1>6. /\ q \in 0 .. cap - 1 /\ Free(u, q)
      /\ w \in Table /\ w.cap = cap /\ w.count = u.count
      /\ \A j \in 0 .. cap - 1 : w.cells[j] = IF j = q THEN cell ELSE u.cells[j]
      /\ Single(w) /\ Reached(w, q)
      /\ \A j \in 0 .. cap - 1 : ~Free(u, j) /\ Reached(u, j) => Reached(w, j)
      /\ Occupied(w) = Occupied(u) \cup {q}
    <2>1. u \in Table /\ Roomy(u) /\ cell \in Cell /\ cell.name \in Names /\ Absent(u, cell.name)
        BY <1>2, <1>5, Zenon
    <2>2. /\ FindSlot(u, cell.name) \in 0 .. u.cap - 1 /\ Free(u, FindSlot(u, cell.name))
          /\ Put(u, cell) \in Table /\ Put(u, cell).cap = u.cap /\ Put(u, cell).count = u.count
          /\ \A j \in 0 .. u.cap - 1 :
                Put(u, cell).cells[j] = IF j = FindSlot(u, cell.name) THEN cell ELSE u.cells[j]
          /\ Single(u) => Single(Put(u, cell))
          /\ Reached(Put(u, cell), FindSlot(u, cell.name))
          /\ \A j \in 0 .. u.cap - 1 : ~Free(u, j) /\ Reached(u, j) => Reached(Put(u, cell), j)
          /\ Occupied(Put(u, cell)) = Occupied(u) \cup {FindSlot(u, cell.name)}
        <3> HIDE DEF cell
        <3> QED BY <2>1, PutNew, Zenon
    <2> QED BY <1>5, <2>2, Zenon
<1>7. Cardinality(Occupied(w)) = Cardinality(Occupied(u)) + 1
    <2> HIDE DEF w, q
    <2> QED BY <1>5, <1>6, PutCounts, Zenon
<1>8. Content(w) = Content(t)
    <2>1. \A j \in Occupied(u) : j \in 0 .. cap - 1 /\ j # q
        BY <1>5, <1>6, Zenon DEF Occupied
    <2> HIDE DEF w, q, cell
    <2>2. Content(w) = Content(u) \cup {cell}
        BY <1>6, <2>1, Zenon DEF Content
    <2>3. cell \in Content(t)
        BY <1>1, Zenon DEF Content, Occupied, cell
    <2> QED BY <1>5, <2>2, <2>3, Zenon
<1>9. Emptied(m, s, w)
    <2> HIDE DEF w, cap
    <2> QED BY <1>1, <1>5, <1>6, <1>7, <1>8, Zenon DEF Emptied, cap
<1>10. \A j \in 0 .. cap - 1 : off(j) \in 0 .. cap - 1 /\ (off(j) = d => j = i)
    BY <1>1, OffIs, Zenon
<1> HIDE DEF q, w, cell, n
<1> DEFINE h == Home(n, cap)
<1>11. h \in 0 .. cap - 1
    BY <1>1, HomeIs, Zenon DEF n, cell
<1>12. off(q) <= d
    <2>0. q \in 0 .. cap - 1 /\ off(q) \in 0 .. cap - 1
        BY <1>6, <1>10, Zenon
    <2> SUFFICES ASSUME off(q) > d PROVE FALSE
        BY <2>0
    <2>1. q # i
        OBVIOUS
    <2>2. Free(m, q)
        <3>0. off(q) > d - 1
            BY <2>0
        <3>1. t.cells[q] = m.cells[q]
            BY <2>0, <3>0, Zenon DEF Mended
        <3>2. u.cells[q] = t.cells[q]
            BY <1>5, <2>0, <2>1, Zenon
        <3> QED BY <1>6, <3>1, <3>2, Zenon DEF Free
    <2>3. Reached(m, i)
        BY <1>2, Zenon DEF Sound
    <2>4. ~Before(h, q, i)
        BY <1>2, <2>0, <2>2, <2>3, Zenon DEF Reached, n
    <2>5. ~Before(h, i, q)
        <3>1. w.cells[q].name = n /\ w.cells[i] = u.cells[i]
            BY <1>6, <2>1, Zenon DEF n
        <3> QED BY <1>5, <1>6, <3>1, Zenon DEF Reached, Free
    <2> HIDE DEF h
    <2> QED BY <1>1, <2>0, <1>11, <2>1, <2>4, <2>5 DEF Before
<1>13. \A j \in 0 .. cap - 1 : off(j) > d => w.cells[j] = m.cells[j]
    <2> SUFFICES ASSUME NEW j \in 0 .. cap - 1, off(j) > d PROVE w.cells[j] = m.cells[j]
        OBVIOUS
    <2>1. j # q /\ j # i /\ off(j) > d - 1
        BY <1>6, <1>10, <1>12, SMTT(30)
    <2>2. t.cells[j] = m.cells[j]
        BY <2>1, Zenon DEF Mended
    <2> QED BY <1>5, <1>6, <2>1, <2>2, Zenon
<1>14. \A j \in 0 .. cap - 1 : off(j) <= d => ~Free(m, j)
    <2> SUFFICES ASSUME NEW j \in 0 .. cap - 1, off(j) <= d PROVE ~Free(m, j)
        OBVIOUS
    <2>1. CASE off(j) = d
        BY <1>2, <1>10, <2>1, Zenon
    <2>2. CASE off(j) # d
        <3>1. off(j) <= d - 1
            BY <1>10, <2>2
        <3> QED BY <3>1, Zenon DEF Mended
    <2> QED BY <2>1, <2>2, Zenon
<1>15. ASSUME NEW j \in 0 .. cap - 1, off(j) <= d, ~Free(w, j) PROVE Reached(w, j)
    <2>1. CASE j = q
        BY <1>6, <2>1, Zenon
    <2>2. CASE j # q
        <3>1. w.cells[j] = u.cells[j]
            BY <1>6, <2>2, Zenon
        <3>2. ~Free(u, j)
            BY <1>15, <3>1, Zenon DEF Free
        <3>3. j # i
            BY <1>5, <3>2, Zenon
        <3>4. u.cells[j] = t.cells[j] /\ off(j) # d
            BY <1>5, <1>10, <3>3, Zenon
        <3>5. ~Free(t, j) /\ off(j) <= d - 1
            BY <1>10, <1>15, <3>2, <3>4 DEF Free
        <3>6. Reached(t, j)
            BY <3>5, Zenon DEF Mended
        <3> DEFINE g == Home(t.cells[j].name, cap)
        <3>7. g \in 0 .. cap - 1
            BY <1>1, <3>5, HomeIs, Zenon
        <3>8. \A k \in 0 .. cap - 1 : Before(g, k, j) => ~Free(t, k)
            BY <1>1, <3>6, Zenon DEF Reached
        <3>9. PICK f \in 0 .. cap - 1 : Free(m, f)
            BY Zenon DEF Roomy
        <3>10. off(f) > d
            BY <1>10, <1>14, <3>9
        <3>11. Free(t, f)
            <4>1. off(f) > d - 1
                BY <1>10, <3>10
            <4> QED BY <3>9, <4>1, Zenon DEF Mended, Free
        <3> HIDE DEF g
        <3>12. ~Before(g, i, j)
            <4>1. Off(s, j, cap) < Off(s, i, cap) /\ Off(s, i, cap) < Off(s, f, cap)
                BY <1>10, <3>5, <3>10
            <4> QED BY <1>1, <3>7, <3>8, <3>11, <4>1, RoundTrip, Zenon
        <3>13. \A k \in 0 .. cap - 1 : Before(g, k, j) => ~Free(u, k)
            BY <1>5, <3>8, <3>12, Zenon DEF Free
        <3>14. Reached(u, j)
            BY <1>5, <3>4, <3>13, Zenon DEF Reached, g
        <3> QED BY <1>6, <3>2, <3>14, Zenon
    <2> QED BY <2>1, <2>2, Zenon
<1>16. Mended(m, s, w, d)
    BY <1>13, <1>14, <1>15, Zenon DEF Mended
<1> QED BY <1>3, <1>9, <1>16, Zenon

\* One turn of the loop that places the cells after s again.
MendTurn(acc, i) ==
  IF acc.stopped \/ acc.map.cells[i].name = NoName
    THEN [acc EXCEPT !.stopped = TRUE]
    ELSE [acc EXCEPT !.map = Replace(acc.map, i)]

\* Taking a cell out and placing it again gives a table of the same capacity.
LEMMA ReplaceIs ==
    ASSUME NEW cap \in Nat \ {0}, NEW t \in Tables(cap), NEW i \in 0 .. cap - 1
    PROVE  Replace(t, i) \in Tables(cap)
<1> DEFINE u == [t EXCEPT !.cells[i] = FreeCell]
           cell == t.cells[i]
<1>1. t \in Table /\ t.cap = cap
    BY TablesAreTable, Zenon DEF Tables
<1>2. /\ t.count \in Nat /\ t.cells \in [0 .. cap - 1 -> Cell]
      /\ t = [cap |-> t.cap, count |-> t.count, cells |-> t.cells]
    BY <1>1, TableIs, Zenon
<1>3. u = Vacate(t, i, t.count) /\ cell \in Cell
    BY <1>2 DEF Vacate
<1>4. u \in Table /\ u.cap = cap
    <2> HIDE DEF u
    <2> QED BY <1>1, <1>2, <1>3, Vacated
<1>5. Replace(t, i) = Put(u, cell)
    BY Zenon DEF Replace
<1> HIDE DEF u, cell
<1> QED BY <1>3, <1>4, <1>5, PutIs, Zenon

\* The loop of cxpr_context_remove_struct, turn by turn.
LEMMA Refilling ==
    ASSUME NEW m \in Table, NEW s \in 0 .. m.cap - 1, NEW d \in 0 .. m.cap - 1
    PROVE  Refilled(m, s)[d] = IF d = 0 THEN [map |-> m, stopped |-> FALSE]
                               ELSE MendTurn(Refilled(m, s)[d - 1], (s + d) % m.cap)
<1> DEFINE cap == m.cap
           S == [map : Tables(cap), stopped : BOOLEAN]
           a0 == [map |-> m, stopped |-> FALSE]
           step == [k \in 1 .. cap - 1 |-> [a \in S |-> MendTurn(a, (s + k) % cap)]]
           Is(f) == f = [k \in 0 .. cap - 1 |->
                           IF k = 0 THEN a0
                           ELSE LET acc == f[k - 1]
                                    i == (s + k) % cap
                                IN  IF acc.stopped \/ acc.map.cells[i].name = NoName
                                      THEN [acc EXCEPT !.stopped = TRUE]
                                      ELSE [acc EXCEPT !.map = Replace(acc.map, i)]]
<1>1. cap \in Nat \ {0} /\ cap - 1 \in Nat /\ m \in Tables(cap)
    BY TableIs
<1>2. a0 \in S
    BY <1>1, Zenon
<1>3. ASSUME NEW k \in 1 .. cap - 1, NEW a \in S PROVE MendTurn(a, (s + k) % cap) \in S
    <2> DEFINE i == (s + k) % cap
    <2>1. k \in 0 .. cap - 1
        BY <1>1
    <2>2. i \in 0 .. cap - 1
        BY <1>1, <2>1, OffAt, Zenon
    <2> HIDE DEF i
    <2>3. a.map \in Tables(cap) /\ a.stopped \in BOOLEAN /\ a = [map |-> a.map, stopped |-> a.stopped]
        OBVIOUS
    <2>4. Replace(a.map, i) \in Tables(cap)
        BY <1>1, <2>2, <2>3, ReplaceIs, Zenon
    <2>5. [a EXCEPT !.stopped = TRUE] \in S /\ [a EXCEPT !.map = Replace(a.map, i)] \in S
        BY <2>3, <2>4, Zenon
    <2>6. MendTurn(a, i) \in S
        BY <2>5, Zenon DEF MendTurn
    <2> QED BY <2>6, Zenon DEF i
<1> HIDE DEF S, a0
<1>4. step \in [1 .. cap - 1 -> [S -> S]]
    BY <1>3, Zenon
<1> HIDE DEF step
<1>5. PICK f \in [0 .. cap - 1 -> S] : Runs(f, cap - 1, a0, step)
    BY <1>1, <1>2, <1>4, LoopRuns, Zenon
<1>6. ASSUME NEW k \in 0 .. cap - 1
      PROVE  f[k] = IF k = 0 THEN a0 ELSE MendTurn(f[k - 1], (s + k) % cap)
    <2>1. f[k] = IF k = 0 THEN a0 ELSE step[k][f[k - 1]]
        BY <1>5, Zenon DEF Runs
    <2>2. CASE k = 0
        BY <2>1, <2>2, Zenon
    <2>3. CASE k # 0
        <3>1. k \in 1 .. cap - 1 /\ k - 1 \in 0 .. cap - 1
            BY <1>1, <2>3
        <3>2. f[k - 1] \in S
            BY <3>1, Zenon
        <3>3. step[k][f[k - 1]] = MendTurn(f[k - 1], (s + k) % cap)
            BY <3>1, <3>2, Zenon DEF step
        <3> QED BY <2>1, <2>3, <3>3, Zenon
    <2> QED BY <2>2, <2>3, Zenon
<1>7. Is(f)
    <2>1. f = [k \in 0 .. cap - 1 |-> f[k]]
        OBVIOUS
    <2> QED BY <1>6, <2>1, Zenon DEF MendTurn
<1>8. Refilled(m, s) = CHOOSE g : Is(g)
    BY Zenon DEF Refilled, a0
<1> HIDE DEF Is
<1>9. Is(Refilled(m, s))
    BY <1>7, <1>8, Zenon
<1> HIDE DEF cap
<1> QED BY <1>9, Zenon DEF Is, cap, a0, MendTurn

\* cxpr_context_remove_struct.
LEMMA RemoveKeeps ==
    ASSUME NEW m, WellKept(m), NEW f \in Binding, Stands(m, f), NEW n \in Names
    PROVE  WellKept(RemoveEntry(m, n)) /\ Stands(RemoveEntry(m, n), [f EXCEPT ![n] = NoValue])
<1> DEFINE g == [f EXCEPT ![n] = NoValue]
<1>0. /\ g \in Binding /\ \A k \in Names : g[k] = IF k = n THEN NoValue ELSE f[k]
      /\ f = [k \in Names |-> f[k]] /\ g = [k \in Names |-> g[k]]
    BY Zenon DEF Binding
<1> HIDE DEF g
<1>1. m \in Table /\ Roomy(m) /\ Sound(m) /\ m.count = Cardinality(Occupied(m))
    BY KeptIsRoomy, Zenon DEF WellKept
<1>2. CASE ~Found(m, n)
    <2>1. RemoveEntry(m, n) = m
        BY <1>2, Zenon DEF RemoveEntry
    <2>2. Absent(m, n)
        BY <1>2, LookupIs, Zenon DEF Absent
    <2>3. f[n] = NoValue
        BY <2>2, Zenon DEF Stands
    <2>4. g = f
        BY <1>0, <2>3, Zenon
    <2> QED BY <2>1, <2>4, Zenon DEF g
<1>3. CASE Found(m, n)
    <2> DEFINE cap == m.cap
               s == FindSlot(m, n)
               hole == [m EXCEPT !.cells[s] = FreeCell, !.count = @ - 1]
               r(d) == Refilled(hole, s)[d]
               Good(d) == /\ r(d) \in [map : Table, stopped : BOOLEAN]
                          /\ Emptied(m, s, r(d).map)
                          /\ IF r(d).stopped THEN Sound(r(d).map) ELSE Mended(m, s, r(d).map, d)
               D == {d \in 0 .. cap - 1 : Good(d)}
    <2>1. /\ cap \in Nat \ {0} /\ cap - 1 \in Nat /\ m.count \in Nat
          /\ m = [cap |-> m.cap, count |-> m.count, cells |-> m.cells]
        BY <1>1, TableIs
    <2>2. s \in 0 .. cap - 1 /\ m.cells[s].name = n /\ ~Free(m, s) /\ m.count > 0
        BY <1>1, <1>3, Stops, TableAssumption, Zenon DEF Found, Free
    <2>3. RemoveEntry(m, n) = r(cap - 1).map
        BY <1>3, Zenon DEF RemoveEntry
    <2>4. hole = Vacate(m, s, m.count - 1) /\ m.count - 1 \in Nat
        <3> DEFINE c == [m.cells EXCEPT ![s] = FreeCell]
        <3>1. hole = [m EXCEPT !.cells = c, !.count = m.count - 1]
            OBVIOUS
        <3> HIDE DEF c, hole
        <3>2. hole = [cap |-> m.cap, count |-> m.count - 1, cells |-> c]
            BY <2>1, <3>1, Zenon
        <3> QED BY <2>1, <2>2, <3>2 DEF Vacate, c
    <2> HIDE DEF s, hole
    <2>5. /\ hole \in Table /\ hole.cap = cap /\ hole.count = m.count - 1
          /\ \A j \in 0 .. cap - 1 : hole.cells[j] = IF j = s THEN FreeCell ELSE m.cells[j]
          /\ Free(hole, s) /\ Single(hole)
          /\ Content(hole) = Content(m) \ {m.cells[s]}
          /\ Cardinality(Occupied(m)) = Cardinality(Occupied(hole)) + 1
        <3>1. m \in Table /\ Single(m) /\ s \in 0 .. m.cap - 1 /\ ~Free(m, s)
            BY <1>1, <2>2, Zenon DEF Sound
        <3>2. /\ hole \in Table /\ hole.cap = m.cap /\ hole.count = m.count - 1
              /\ \A j \in 0 .. m.cap - 1 : hole.cells[j] = IF j = s THEN FreeCell ELSE m.cells[j]
              /\ Free(hole, s) /\ Single(hole)
              /\ Content(hole) = Content(m) \ {m.cells[s]}
              /\ Cardinality(Occupied(m)) = Cardinality(Occupied(hole)) + 1
            <4> HIDE DEF r, D, cap
            <4> QED BY <2>4, <3>1, HoleIs
        <3> QED BY <3>2, Zenon
    <2>6. Emptied(m, s, hole)
        <3>1. Cardinality(Occupied(hole)) \in Nat
            BY <2>5, OccupiedFinite, Zenon
        <3>2. Cardinality(Occupied(hole)) = m.count - 1
            BY <1>1, <2>1, <2>5, <3>1
        <3> QED BY <2>5, <3>2, Zenon DEF Emptied
    <2>7. Mended(m, s, hole, 0)
        <3>1. \A j \in 0 .. cap - 1 : Off(s, j, cap) \in 0 .. cap - 1 /\ (Off(s, j, cap) = 0 <=> j = s)
            BY <2>1, <2>2, OffIs, Zenon
        <3>2. \A j \in 0 .. cap - 1 : Off(s, j, cap) <= 0 <=> j = s
            BY <2>1, <3>1
        <3>3. \A j \in 0 .. cap - 1 : Off(s, j, cap) > 0 <=> j # s
            BY <2>1, <3>1
        <3> QED BY <2>2, <2>5, <3>2, <3>3, Zenon DEF Mended
    <2>8. 0 \in D
        <3>1. 0 \in 0 .. hole.cap - 1 /\ s \in 0 .. hole.cap - 1
            BY <2>1, <2>2, <2>5
        <3>2. Refilled(hole, s)[0] = IF 0 = 0 THEN [map |-> hole, stopped |-> FALSE]
                                     ELSE MendTurn(Refilled(hole, s)[0 - 1], (s + 0) % hole.cap)
            BY <2>5, <3>1, Refilling, Zenon
        <3>3. /\ r(0).map = hole /\ r(0).stopped = FALSE
              /\ r(0) \in [map : Table, stopped : BOOLEAN]
            BY <2>5, <3>2
        <3> HIDE DEF r
        <3> QED BY <2>1, <2>6, <2>7, <3>3
    <2>9. ASSUME NEW d \in 1 .. cap - 1, d - 1 \in D PROVE d \in D
        <3> DEFINE a == r(d - 1)
                   i == (s + d) % cap
        <3>1. Emptied(m, s, a.map)
            BY <2>9, Zenon
        <3>2. IF a.stopped THEN Sound(a.map) ELSE Mended(m, s, a.map, d - 1)
            BY <2>9, Zenon
        <3>3. d \in 0 .. cap - 1 /\ d # 0 /\ d - 1 \in 0 .. cap - 1
            BY <2>1
        <3>4. r(d) = MendTurn(a, i)
            <4>1. d \in 0 .. hole.cap - 1 /\ s \in 0 .. hole.cap - 1
                BY <2>2, <2>5, <3>3, Zenon
            <4>2. Refilled(hole, s)[d] = IF d = 0 THEN [map |-> hole, stopped |-> FALSE]
                                         ELSE MendTurn(Refilled(hole, s)[d - 1], (s + d) % hole.cap)
                BY <2>5, <4>1, Refilling, Zenon
            <4> QED BY <2>5, <3>3, <4>2, Zenon
        <3>5. i \in 0 .. cap - 1 /\ Off(s, i, cap) = d
            BY <2>1, <2>2, <3>3, OffAt, Zenon
        <3>6. a.map \in Table /\ a.stopped \in BOOLEAN /\ a = [map |-> a.map, stopped |-> a.stopped]
            BY <2>9, Zenon
        <3> DEFINE t == a.map
        <3>7. t.cap = cap
            BY <3>1, Zenon DEF Emptied
        <3> HIDE DEF a, i
        <3>8. CASE a.stopped
            <4>1. r(d) = [a EXCEPT !.stopped = TRUE]
                BY <3>4, <3>8, Zenon DEF MendTurn
            <4>2. r(d) = [map |-> t, stopped |-> TRUE]
                BY <3>6, <4>1, Zenon
            <4> HIDE DEF r
            <4> QED BY <3>1, <3>2, <3>3, <3>6, <3>8, <4>2, Zenon
        <3>9. CASE ~a.stopped /\ Free(t, i)
            <4>1. r(d) = [a EXCEPT !.stopped = TRUE]
                BY <3>4, <3>9, Zenon DEF MendTurn, Free
            <4>2. r(d) = [map |-> t, stopped |-> TRUE]
                BY <3>6, <4>1, Zenon
            <4> HIDE DEF r, t
            <4>3. Mended(m, s, t, d - 1) /\ Emptied(m, s, t)
                BY <3>1, <3>2, <3>9, Zenon DEF t
            <4>4. t.cells[i] = m.cells[i]
                BY <3>5, <4>3, SMTT(30) DEF Mended
            <4>5. Off(s, i, cap) = (d - 1) + 1 /\ Free(m, i)
                BY <3>5, <3>9, <4>4 DEF Free
            <4>6. Sound(t)
                BY <1>1, <2>2, <3>3, <3>5, <4>3, <4>5, MendedStops, Zenon
            <4>7. t \in Table
                BY <4>3, Zenon DEF Emptied
            <4>8. /\ r(d).map = t /\ r(d).stopped = TRUE
                  /\ r(d) \in [map : Table, stopped : BOOLEAN]
                BY <4>2, <4>7
            <4>9. Good(d)
                BY <4>3, <4>6, <4>8, Zenon
            <4> QED BY <3>3, <4>9, Zenon
        <3>10. CASE ~a.stopped /\ ~Free(t, i)
            <4>1. r(d) = [a EXCEPT !.map = Replace(t, i)]
                BY <3>4, <3>10, Zenon DEF MendTurn, Free
            <4>2. r(d) = [map |-> Replace(t, i), stopped |-> FALSE]
                BY <3>6, <3>10, <4>1, Zenon
            <4> HIDE DEF r, t
            <4>3. Mended(m, s, t, d - 1) /\ Emptied(m, s, t)
                BY <3>1, <3>2, <3>10, Zenon DEF t
            <4>4. Emptied(m, s, Replace(t, i)) /\ Mended(m, s, Replace(t, i), d)
                BY <1>1, <2>2, <3>5, <3>10, <4>3, MendStep, Zenon
            <4>5. Replace(t, i) \in Table
                BY <4>4, Zenon DEF Emptied
            <4> DEFINE w == Replace(t, i)
            <4> HIDE DEF w
            <4>6. /\ r(d).map = w /\ r(d).stopped = FALSE
                  /\ r(d) \in [map : Table, stopped : BOOLEAN]
                BY <4>2, <4>5 DEF w
            <4>7. Good(d)
                BY <4>4, <4>6, Zenon DEF w
            <4> QED BY <3>3, <4>7, Zenon
        <3> QED BY <3>8, <3>9, <3>10, Zenon
    <2> HIDE DEF D
    <2>10. \A d \in 0 .. cap - 1 : d \in D
        BY <2>1, <2>8, <2>9, UpTo, Zenon
    <2> DEFINE t == r(cap - 1).map
    <2> HIDE DEF r
    <2>11. Good(cap - 1)
        BY <2>1, <2>10 DEF D
    <2>12. Sound(t) /\ Emptied(m, s, t)
        BY <1>1, <2>1, <2>2, <2>11, MendedStops, SMTT(30)
    <2> HIDE DEF t
    <2>13. WellKept(t)
        <3>1. t.cap = cap /\ t.count = m.count - 1 /\ t.count = Cardinality(Occupied(t))
            BY <2>12, Zenon DEF Emptied
        <3>2. 4 * m.count <= 3 * cap
            BY Zenon DEF WellKept
        <3>3. 4 * t.count <= 3 * t.cap
            BY <2>1, <3>1, <3>2
        <3> QED BY <2>12, <3>1, <3>3, Zenon DEF WellKept
    <2>14. Stands(t, g)
        <3>1. t \in Table /\ Content(t) = Content(m) \ {m.cells[s]}
            BY <2>12, Zenon DEF Emptied
        <3>2. \A c \in Content(m) : /\ c.name \in Names /\ c.value = f[c.name]
                                    /\ c.name = n => c = m.cells[s]
            <4>1. \A j \in Occupied(m) : j \in 0 .. cap - 1 /\ ~Free(m, j)
                BY Zenon DEF Occupied
            <4>2. \A j \in Occupied(m) : /\ m.cells[j].name \in Names
                                         /\ m.cells[j].value = f[m.cells[j].name]
                                         /\ m.cells[j].name = n => j = s
                BY <1>1, <2>2, <4>1, CellOf, Zenon DEF Stands, Sound, Single
            <4> QED BY <4>2, Zenon DEF Content
        <3>3. ASSUME NEW j \in 0 .. t.cap - 1, ~Free(t, j) PROVE t.cells[j].value = g[t.cells[j].name]
            <4>1. t.cells[j] \in Content(t)
                BY <3>3, Zenon DEF Content, Occupied
            <4> QED BY <1>0, <3>1, <3>2, <4>1, Zenon
        <3>4. ASSUME NEW k \in Names, Absent(t, k) PROVE g[k] = NoValue
            <4>1. CASE k = n
                BY <1>0, <4>1, Zenon
            <4>2. CASE k # n
                <5>1. \A c \in Content(t) : c.name # k
                    BY <3>1, <3>4, AbsentContent, Zenon
                <5>2. \A c \in Content(m) : c.name # k
                    BY <2>2, <3>1, <4>2, <5>1, Zenon
                <5>3. Absent(m, k)
                    BY <1>1, <5>2, AbsentContent, Zenon
                <5> QED BY <1>0, <4>2, <5>3, Zenon DEF Stands
            <4> QED BY <4>1, <4>2, Zenon
        <3> QED BY <3>3, <3>4, Zenon DEF Stands
    <2> QED BY <2>3, <2>13, <2>14, Zenon DEF g, t
<1> QED BY <1>2, <1>3, Zenon

----------------------------------------------------------------------------

(* The machine. *)

\* The table is well kept and stands for what was stored.
MapInv == WellKept(map) /\ ideal \in Binding /\ Stands(map, ideal)

\* The invariant implies the property.
LEMMA KeptIsCorrect == MapInv => LookupsAreStores
<1> SUFFICES ASSUME MapInv PROVE LookupsAreStores
    OBVIOUS
<1>1. Bindings(map) = ideal
    BY BindingsAre, Zenon DEF MapInv
<1>2. ProbeStops(map)
    BY KeptIsRoomy, Zenon DEF MapInv, Roomy, ProbeStops, Free
<1>3. /\ map.count = Cardinality({i \in 0..map.cap - 1 : map.cells[i].name # NoName})
      /\ 4 * map.count <= 3 * map.cap
    BY Zenon DEF MapInv, WellKept, Occupied, Free
<1> QED BY <1>1, <1>2, <1>3, Zenon DEF LookupsAreStores

\* Every operation keeps the invariant.
LEMMA MapStep == MapInv /\ [MapNext]_mapVars => MapInv'
<1> SUFFICES ASSUME MapInv, [MapNext]_mapVars PROVE MapInv'
    OBVIOUS
<1>1. WellKept(map) /\ ideal \in Binding /\ Stands(map, ideal)
    BY Zenon DEF MapInv
<1>2. \A n \in Names, v \in Values \cup {NoValue} : [ideal EXCEPT ![n] = v] \in Binding
    BY <1>1, Zenon DEF Binding
<1>3. ASSUME NEW n \in Names, NEW v \in Values, MapSet(n, v) PROVE MapInv'
    BY <1>1, <1>2, <1>3, SetKeeps, Zenon DEF MapSet, MapInv
<1>4. ASSUME NEW n \in Names, NEW v \in Values, NEW grows \in BOOLEAN, MapStore(n, v, grows)
      PROVE  MapInv'
    BY <1>1, <1>2, <1>4, StoreKeeps, Zenon DEF MapStore, MapInv
<1>5. ASSUME NEW n \in Names, MapRemove(n) PROVE MapInv'
    BY <1>1, <1>2, <1>5, RemoveKeeps, Zenon DEF MapRemove, MapInv
<1>6. CASE MapClear
    <2>1. Empty \in Binding
        BY Zenon DEF Empty, Binding
    <2> QED BY <1>1, <1>6, <2>1, ClearKeeps, Zenon DEF MapClear, MapInv, Empty
<1>7. CASE MapClone
    BY <1>1, <1>7, CloneKeeps, Zenon DEF MapClone, CloneMap, MapInv
<1>8. CASE UNCHANGED mapVars
    BY <1>1, <1>8, Zenon DEF mapVars, MapInv
<1> QED BY <1>3, <1>4, <1>5, <1>6, <1>7, <1>8, Zenon DEF MapNext

\* Whatever the names, their hashes and the initial capacity, after any
\* sequence of stores, removals, clears and clones every lookup returns what
\* was stored last under the name, the count is that of the occupied cells,
\* and a probe stops (hashmap.c and struct.c).
THEOREM TablesHoldStores == MapSpec => []LookupsAreStores
<1>1. MapInit => MapInv
    <2> SUFFICES ASSUME MapInit PROVE MapInv
        OBVIOUS
    <2>1. Empty \in Binding
        BY Zenon DEF Empty, Binding
    <2> QED BY <2>1, NewMapKept, TableAssumption, Zenon DEF MapInit, MapInv, Empty
<1> QED BY <1>1, MapStep, KeptIsCorrect, PTL DEF MapSpec

----------------------------------------------------------------------------
(* The caches over these tables. *)

\* Tables have what the caches in front of them rely on.
LEMMA MapFactsHold == MapFacts
<1>1. KeptTables
    BY KeptIsRoomy, TableIs, ClearKeeps, Zenon DEF KeptTables
<1>2. FoundCells
    <2> SUFFICES ASSUME NEW m, WellKept(m), NEW n \in Names
                 PROVE  /\ FindSlot(m, n) \in 0 .. m.cap - 1
                        /\ m.cells[FindSlot(m, n)].name \in {n, NoName}
        BY LookupIs, Zenon DEF FoundCells
    <2> QED BY KeptIsRoomy, Stops, Zenon
<1>3. SetValues
    BY ValueSet, Zenon DEF SetValues, Rebinds, IsCellOf
<1>4. NewEntries
    BY SetPlaces DEF NewEntries, Rebinds, HasCell, CellsStay
<1>6. FreeWrites
    BY ValueLost, Zenon DEF FreeWrites
<1>5. NewTables
    BY NewMapKept, Zenon DEF NewTables
<1> QED BY <1>1, <1>2, <1>3, <1>4, <1>5, <1>6, Zenon DEF MapFacts
=============================================================================
