------------------------------ MODULE IRProofs ------------------------------
(***************************************************************************)
(* Two things compiled programs take on trust: that the fast executors may *)
(* use their stacks without looking, and that the cache of a LOAD_VAR may  *)
(* be used instead of a walk along the contexts.  The second is shown over *)
(* tables that look up what was stored (MapFacts of OpenMap), which is     *)
(* what OpenMapProofs shows of them.                                       *)
(***************************************************************************)
EXTENDS LookupCache, FastStack, TLAPS

----------------------------------------------------------------------------
(* The fast executors stay inside their stacks, for every program and every
   capacity. *)

(* The loaded program is one the validator accepted, and a run is where the
   validator counted. *)
FastInv ==
    /\ code = <<>> \/ Valid(code, at)
    /\ ip # 0 => /\ code # <<>>
                 /\ ip \in DOMAIN code
                 /\ ip \in Nat
                 /\ depth = at[ip]
                 /\ at[ip] # <<>>

LEMMA EmptyIsNoGap == NoOperands # <<>>
BY DEF NoOperands, Stacks

LEMMA AfterIsNoGap ==
    ASSUME NEW i, NEW d PROVE After(i, d) # <<>>
BY DEF After, Stacks

(* What the validator established of an instruction holds when it runs. *)
LEMMA FastCorrect == FastInv => StacksAsValidated
<1> SUFFICES ASSUME FastInv, ip # 0 PROVE StacksAsValidated
    BY Zenon DEF StacksAsValidated
<1>1. Valid(code, at) /\ ip \in DOMAIN code /\ depth = at[ip] /\ at[ip] # <<>>
    BY Zenon DEF FastInv
<1>2. Fits(code[ip], at[ip])
    BY <1>1, Zenon DEF Valid
<1> QED BY <1>1, <1>2, Zenon DEF StacksAsValidated

LEMMA FastStart == Init => FastInv
BY Zenon DEF Init, FastInv

LEMMA FastStep == FastInv /\ [Next]_vars => FastInv'
<1> SUFFICES ASSUME FastInv, [Next]_vars PROVE FastInv'
    OBVIOUS
<1>1. CASE LoadProgram
    BY <1>1, Zenon DEF LoadProgram, FastInv
<1>2. CASE Enter
    <2>1. Valid(code, at)
        BY <1>2, Zenon DEF Enter, FastInv
    <2>2. 1 \in DOMAIN code /\ at[1] = NoOperands
        BY <2>1 DEF Valid
    <2>3. code' = code /\ at' = at /\ ip' = 1 /\ depth' = NoOperands
        BY <1>2, Zenon DEF Enter
    <2> QED BY <2>1, <2>2, <2>3, EmptyIsNoGap, <1>2 DEF FastInv, Enter
<1>3. CASE Execute
    <2>1. /\ ip # 0 /\ ip' \in code[ip].next
          /\ depth' = After(code[ip], depth) /\ code' = code /\ at' = at
        BY <1>3, Zenon DEF Execute
    <2>2. /\ Valid(code, at) /\ ip \in DOMAIN code /\ ip \in Nat
          /\ depth = at[ip] /\ at[ip] # <<>> /\ code # <<>>
        BY <2>1, Zenon DEF FastInv
    <2>3. ip' \in DOMAIN code /\ at[ip'] = After(code[ip], at[ip])
        BY <2>1, <2>2, Zenon DEF Valid
    <2>4. at[ip'] # <<>>
        BY <2>3, AfterIsNoGap, Zenon
    <2>5. ip' \in Nat
        BY <2>2, <2>3 DEF Valid
    <2> QED BY <2>1, <2>2, <2>3, <2>4, <2>5, Zenon DEF FastInv
<1>4. CASE Leave
    BY <1>4, Zenon DEF Leave, FastInv
<1>5. CASE UNCHANGED vars
    BY <1>5, Zenon DEF vars, FastInv
<1> QED BY <1>1, <1>2, <1>3, <1>4, <1>5, Zenon DEF Next

(* The fast executors never leave their stack arrays: at every instruction
   cxpr_ir_exec_scalar_fast and cxpr_ir_exec_bool_fast hold exactly the operands
   cxpr_ir_validate_scalar_fast_program and cxpr_ir_validate_bool_fast_program
   counted there, whatever the program and the capacity. *)
THEOREM FastExecutorStaysInItsStacks == Spec => []StacksAsValidated
<1>1. FastInv /\ [Next]_vars => FastInv'
    BY FastStep, Zenon
<1>2. Init => FastInv
    BY FastStart, Zenon
<1>3. FastInv => StacksAsValidated
    BY FastCorrect, Zenon
<1> QED BY <1>1, <1>2, <1>3, PTL DEF Spec

----------------------------------------------------------------------------
(* What the caches rely on in the tables behind them. *)

\* A well kept table is a table, and well kept after a clear.
LEMMA TableKept ==
    ASSUME MapFacts, NEW m, WellKept(m)
    PROVE  /\ m \in Table /\ m.cap \in Nat \ {0} /\ m.count \in Nat
           /\ WellKept(ClearMap(m)) /\ Stands(ClearMap(m), Empty)
BY Zenon DEF MapFacts, KeptTables

\* A probe stops at the cell of the name, or at a free one if it has none.
LEMMA SlotFound ==
    ASSUME MapFacts, NEW m, WellKept(m), NEW n \in Names
    PROVE  /\ FindSlot(m, n) \in 0 .. m.cap - 1 /\ m.cells[FindSlot(m, n)].name \in {n, NoName}
           /\ \A i \in 0 .. m.cap - 1 : m.cells[i].name = n => /\ Found(m, n) /\ FindSlot(m, n) = i
                                                             /\ Lookup(m, n) = m.cells[i].value
           /\ Absent(m, n) => ~Found(m, n) /\ Lookup(m, n) = NoValue
BY Zenon DEF MapFacts, FoundCells

\* A value written into the cell of a name changes what the name is bound to.
LEMMA ValueStored ==
    ASSUME MapFacts, NEW m, WellKept(m), NEW i \in 0 .. m.cap - 1, NEW n \in Names,
           m.cells[i].name = n, NEW v \in Values \cup {NoValue}
    PROVE  LET q == [m EXCEPT !.cells[i].value = v] IN
           /\ WellKept(q) /\ q.cap = m.cap
           /\ \A j \in 0 .. m.cap - 1 : q.cells[j].name = m.cells[j].name
           /\ \A f \in Binding : Stands(m, f) => Stands(q, [f EXCEPT ![n] = v])
<1>1. SetValues
    BY Zenon DEF MapFacts
<1> DEFINE q == [m EXCEPT !.cells[i].value = v]
<1>2. Rebinds(m, q, n, v)
    BY <1>1, Zenon DEF SetValues, IsCellOf
<1>3. m.cap \in Nat /\ m \in Tables(m.cap)
    BY TableKept DEF Table, Tables
<1>4. q.cap = m.cap /\ \A j \in 0 .. m.cap - 1 : q.cells[j].name = m.cells[j].name
    BY <1>3, Zenon DEF Tables, Cell
<1> QED BY <1>2, <1>4, Zenon DEF Rebinds

\* A new name gets a cell; the others keep theirs unless the table grows.
LEMMA EntryPlaced ==
    ASSUME MapFacts, NEW m, WellKept(m), NEW n \in Names, Absent(m, n),
           NEW v \in Values \cup {NoValue}
    PROVE  LET q == SetEntry(m, n, v) IN
           /\ WellKept(q)
           /\ FindSlot(q, n) \in 0 .. q.cap - 1 /\ q.cells[FindSlot(q, n)].name = n
           /\ \A f \in Binding : Stands(m, f) => Stands(q, [f EXCEPT ![n] = v])
           /\ q.cap = m.cap => \A j \in 0 .. m.cap - 1 : ~Free(m, j) => q.cells[j] = m.cells[j]
<1>1. NewEntries
    BY Zenon DEF MapFacts
<1>2. /\ Rebinds(m, SetEntry(m, n, v), n, v) /\ HasCell(SetEntry(m, n, v), n)
      /\ CellsStay(m, SetEntry(m, n, v))
    BY <1>1, Zenon DEF NewEntries
<1> QED BY <1>2, Zenon DEF Rebinds, HasCell, CellsStay

\* A new table is well kept and empty.
LEMMA NewIsKept ==
    ASSUME MapFacts, NEW cap \in Nat \ {0}
    PROVE  WellKept(NewMap(cap)) /\ Stands(NewMap(cap), Empty)
BY Zenon DEF MapFacts, NewTables

----------------------------------------------------------------------------
(* The lookup cache of a compiled instruction. *)

ContextsType ==
  /\ state \in [Addresses -> {"unused", "live", "listed"}]
  /\ parent \in [Addresses -> Addresses \cup {NoContext}]
  /\ table \in [Addresses -> Table] /\ \A c \in Addresses : WellKept(table[c])
  /\ bools \in [Addresses -> SUBSET Names]
  /\ version \in [Addresses -> Nat \ {0}]
  /\ free \in Seq(Addresses)

\* A context that is a root or directly over one.
Low(p) == parent[p] # NoContext => parent[parent[p]] = NoContext

\* What is live is layered over what is live; what is listed is reset, once.
Layered ==
  /\ \A c \in Live : parent[c] # NoContext => parent[c] \in Live /\ Low(parent[c])
  /\ \A i \in DOMAIN free : state[free[i]] = "listed"
  /\ \A i, j \in DOMAIN free : free[i] = free[j] => i = j
  /\ \A c \in Addresses : state[c] # "live" => version[c] = 1

\* A context of version 1 has had nothing set.
FirstVersions == \A c \in Addresses : version[c] = 1 => table[c].count = 0 /\ bools[c] = {}

\* What the cached walk found out about d: it has the cell, or no binding.
FoundOut(d) ==
  /\ Loaded \notin bools[d]
  /\ IF d = lookup.owner THEN IsCellOf(table[d], lookup.slot, Loaded) ELSE Absent(table[d], Loaded)

\* It holds as long as the version is the one noted, which does not come back
\* while the context is kept.
Noted(d, v) == state[d] # "unused" => v <= version[d] /\ (v = version[d] => FoundOut(d))

\* The walk that filled the cache went along k contexts: those of them that are
\* live are still linked the way it went.
Walks(k) ==
  /\ walk \in [1 .. k -> Addresses] /\ lookup.shadow \in [1 .. k -> Nat]
  /\ walk[1] = lookup.request /\ walk[k] = lookup.owner
  /\ \A i \in 1 .. k : Noted(walk[i], lookup.shadow[i])
  /\ \A i \in 1 .. k - 1 : state[walk[i]] = "live" => parent[walk[i]] = walk[i + 1]

LookupRight == lookup.owner # NoContext => \E k \in 1 .. 3 : Walks(k)

LoadsInv == ContextsType /\ Layered /\ FirstVersions /\ (aliased \/ LookupRight)

\* The chain of a live context is live, goes from parent to parent, and meets no
\* context twice.
LEMMA AncestryIs ==
    ASSUME ContextsType, Layered, NEW c \in Live
    PROVE  \E n \in 1 .. 3 :
              /\ Ancestry(c) \in Seq(Addresses) /\ DOMAIN Ancestry(c) = 1 .. n /\ Len(Ancestry(c)) = n
              /\ \A i \in 1 .. n : Ancestry(c)[i] \in Live /\ Ancestry(c)[i] \in Addresses
              /\ \A i, j \in 1 .. n : Ancestry(c)[i] = Ancestry(c)[j] => i = j
              /\ Ancestry(c)[1] = c
              /\ \A i \in 1 .. n - 1 : parent[Ancestry(c)[i]] = Ancestry(c)[i + 1]
              /\ parent[Ancestry(c)[n]] = NoContext
<1> DEFINE A == Ancestry(c)
           d == parent[c]
           e == parent[d]
           Chain(n) == /\ A \in Seq(Addresses) /\ DOMAIN A = 1 .. n /\ Len(A) = n
                       /\ \A i \in 1 .. n : A[i] \in Live /\ A[i] \in Addresses
                       /\ \A i, j \in 1 .. n : A[i] = A[j] => i = j
                       /\ A[1] = c
                       /\ \A i \in 1 .. n - 1 : parent[A[i]] = A[i + 1]
                       /\ parent[A[n]] = NoContext
<1> SUFFICES \E n \in 1 .. 3 : Chain(n)
    BY Zenon
<1>0. c \in Addresses /\ \A x \in Live : x \in Addresses /\ x # NoContext
    BY LoadsAssumption, Zenon DEF Live
<1>1. CASE d = NoContext
    <2>1. A = <<c>>
        BY <1>1, Zenon DEF Ancestry
    <2>2. A \in Seq(Addresses) /\ DOMAIN A = 1 .. 1 /\ Len(A) = 1 /\ A[1] = c
        BY <1>0, <2>1
    <2>3. parent[A[1]] = NoContext
        BY <1>1, <2>2, Zenon
    <2> HIDE DEF A, d
    <2>4. Chain(1)
        BY <1>0, <2>2, <2>3
    <2> QED BY <2>4
<1>2. CASE d # NoContext /\ e = NoContext
    <2>1. A = <<c, d>> /\ d \in Live /\ d \in Addresses
        BY <1>0, <1>2, Zenon DEF Ancestry, Layered
    <2>2. A \in Seq(Addresses) /\ DOMAIN A = 1 .. 2 /\ Len(A) = 2 /\ A[1] = c /\ A[2] = d
        BY <1>0, <2>1
    <2>3. c # d
        BY <1>2, Zenon
    <2>4. parent[A[1]] = A[2] /\ parent[A[2]] = NoContext
        BY <1>2, <2>2, Zenon
    <2> HIDE DEF A, d
    <2>5. Chain(2)
        BY <1>0, <2>1, <2>2, <2>3, <2>4
    <2> QED BY <2>5
<1>3. CASE d # NoContext /\ e # NoContext
    <2>1. A = <<c, d, e>> /\ d \in Live /\ d \in Addresses /\ Low(d)
        BY <1>0, <1>3, Zenon DEF Ancestry, Layered
    <2>2. parent[e] = NoContext
        BY <1>3, <2>1, Zenon DEF Low
    <2>3. e \in Live /\ e \in Addresses
        BY <1>0, <1>3, <2>1, Zenon DEF Layered
    <2>4. A \in Seq(Addresses) /\ DOMAIN A = 1 .. 3 /\ Len(A) = 3 /\ A[1] = c /\ A[2] = d /\ A[3] = e
        BY <1>0, <2>1, <2>3
    <2>5. c # d /\ d # e /\ c # e
        BY <1>3, <2>2, Zenon
    <2>6. parent[A[1]] = A[2] /\ parent[A[2]] = A[3] /\ parent[A[3]] = NoContext
        BY <2>2, <2>4, Zenon
    <2> HIDE DEF A, d, e
    <2>7. Chain(3)
        BY <1>0, <2>1, <2>3, <2>4, <2>5, <2>6
    <2> QED BY <2>7
<1> QED BY <1>1, <1>2, <1>3, Zenon

\* The nearest binding is the first of the chain, if there is one.
LEMMA NearestIs ==
    ASSUME NEW c, NEW n \in 1 .. 3, DOMAIN Ancestry(c) = 1 .. n
    PROVE  /\ \A k \in 1 .. n : /\ Binds(Ancestry(c)[k])
                                /\ \A i \in 1 .. k - 1 : ~Binds(Ancestry(c)[i])
                                => Nearest(c) = Ancestry(c)[k]
           /\ \/ Nearest(c) = NoContext
              \/ \E k \in 1 .. n : /\ Binds(Ancestry(c)[k]) /\ Nearest(c) = Ancestry(c)[k]
                                   /\ \A i \in 1 .. k - 1 : ~Binds(Ancestry(c)[i])
<1> DEFINE ch == Ancestry(c)
           hits == {i \in DOMAIN ch : Binds(ch[i])}
           First(i) == i \in hits /\ \A j \in hits : i <= j
<1>1. Nearest(c) = IF hits = {} THEN NoContext ELSE ch[CHOOSE i \in hits : \A j \in hits : i <= j]
    BY Zenon DEF Nearest
<1>2. \A k \in hits : (\A j \in hits : k <= j) => (CHOOSE i \in hits : \A j \in hits : i <= j) = k
    <2>1. \A k, l \in hits : (\A j \in hits : k <= j) /\ (\A j \in hits : l <= j) => k = l
        OBVIOUS
    <2> HIDE DEF hits
    <2> QED BY <2>1, Zenon
<1>3. ASSUME hits # {} PROVE \E k \in hits : \A j \in hits : k <= j
    <2>1. hits \subseteq {1, 2, 3}
        OBVIOUS
    <2> HIDE DEF hits
    <2>2. CASE 1 \in hits
        <3>1. \A j \in hits : 1 <= j
            BY <2>1
        <3> QED BY <2>2, <3>1, Zenon
    <2>3. CASE 1 \notin hits /\ 2 \in hits
        <3>1. \A j \in hits : 2 <= j
            BY <2>1, <2>3
        <3> QED BY <2>3, <3>1, Zenon
    <2>4. CASE 1 \notin hits /\ 2 \notin hits
        <3>1. \A j \in hits : j = 3
            BY <2>1, <2>4, Zenon
        <3>2. 3 \in hits
            BY <1>3, <3>1, Zenon
        <3>3. \A j \in hits : 3 <= j
            BY <3>1
        <3> QED BY <3>2, <3>3, Zenon
    <2> QED BY <2>2, <2>3, <2>4, Zenon
<1>4. ASSUME NEW k \in 1 .. n, Binds(ch[k]), \A i \in 1 .. k - 1 : ~Binds(ch[i])
      PROVE  Nearest(c) = ch[k]
    <2>1. k \in hits /\ \A j \in hits : k <= j
        BY <1>4
    <2> HIDE DEF hits
    <2> QED BY <1>1, <1>2, <2>1, Zenon
<1>5. ASSUME Nearest(c) # NoContext
      PROVE  \E k \in 1 .. n : /\ Binds(ch[k]) /\ Nearest(c) = ch[k]
                               /\ \A i \in 1 .. k - 1 : ~Binds(ch[i])
    <2>1. hits # {}
        BY <1>1, <1>5, Zenon
    <2>2. PICK k \in hits : \A j \in hits : k <= j
        BY <1>3, <2>1, Zenon
    <2>3. k \in 1 .. n /\ Binds(ch[k]) /\ \A i \in 1 .. k - 1 : ~Binds(ch[i])
        BY <2>2
    <2> QED BY <1>4, <2>3, Zenon
<1> QED BY <1>4, <1>5, Zenon

\* The versions from a context up to one of its chain.
LEMMA ShadowIs ==
    ASSUME ContextsType, Layered, NEW c \in Live, NEW k \in DOMAIN Ancestry(c)
    PROVE  Shadow(c, Ancestry(c)[k]) = [i \in 1 .. k |-> version[Ancestry(c)[i]]]
<1> DEFINE ch == Ancestry(c)
           stop == {i \in DOMAIN ch : ch[i] = ch[k]}
<1>2. k \in Int /\ \A i \in DOMAIN ch : ch[i] = ch[k] => i = k
    <2>1. PICK n \in 1 .. 3 : /\ DOMAIN ch = 1 .. n
                              /\ \A i, j \in 1 .. n : ch[i] = ch[j] => i = j
        BY AncestryIs, Zenon
    <2> HIDE DEF ch
    <2> QED BY <2>1 DEF ch
<1>3. stop = {k}
    BY <1>2, Zenon
<1>4. (CHOOSE i \in stop : \A j \in stop : i <= j) = k
    BY <1>2, <1>3
<1>5. Shadow(c, ch[k]) = LET stopAt == IF stop = {} THEN Len(ch)
                                       ELSE CHOOSE i \in stop : \A j \in stop : i <= j
                         IN  [i \in 1 .. stopAt |-> version[ch[i]]]
    BY Zenon DEF Shadow
<1> HIDE DEF ch, stop
<1>6. stop # {}
    BY <1>3, Zenon
<1> QED BY <1>4, <1>5, <1>6, Zenon DEF ch

\* A cell of the loaded name is what a lookup finds, and an absent name is not
\* found.
LEMMA TableAnswers ==
    ASSUME MapFacts, ContextsType, NEW d \in Addresses
    PROVE  /\ \A i : IsCellOf(table[d], i, Loaded) =>
                        /\ Found(table[d], Loaded) /\ table[d].count # 0
                        /\ Lookup(table[d], Loaded) = table[d].cells[i].value
           /\ Absent(table[d], Loaded) <=> ~Found(table[d], Loaded)
           /\ Found(table[d], Loaded) => IsCellOf(table[d], FindSlot(table[d], Loaded), Loaded)
<1>1. WellKept(table[d]) /\ Loaded \in Names 
    BY TableKept, LoadsAssumption, Zenon DEF ContextsType
<1>2. Found(table[d], Loaded) => IsCellOf(table[d], FindSlot(table[d], Loaded), Loaded)
    BY <1>1, SlotFound, Zenon DEF IsCellOf, Found
<1>3. table[d].count \in Nat /\ (Found(table[d], Loaded) => table[d].count # 0)
    BY <1>1, TableKept DEF Found
<1>4. ASSUME NEW i, IsCellOf(table[d], i, Loaded)
      PROVE  Found(table[d], Loaded) /\ Lookup(table[d], Loaded) = table[d].cells[i].value
    BY <1>1, <1>4, SlotFound, Zenon DEF IsCellOf
<1>5. Absent(table[d], Loaded) => ~Found(table[d], Loaded)
    BY <1>1, SlotFound, Zenon
<1>6. ~Found(table[d], Loaded) => Absent(table[d], Loaded)
    BY <1>1, SlotFound, Zenon DEF Absent
<1> QED BY <1>2, <1>3, <1>4, <1>5, <1>6, Zenon

\* The cached walk from a context that is live is the beginning of its chain.
LEMMA WalkIs ==
    ASSUME ContextsType, Layered, NEW c \in Live, c = lookup.request, NEW k \in 1 .. 3, Walks(k),
           NEW n \in 1 .. 3, DOMAIN Ancestry(c) = 1 .. n,
           \A i \in 1 .. n : Ancestry(c)[i] \in Live,
           Ancestry(c)[1] = c,
           \A i \in 1 .. n - 1 : parent[Ancestry(c)[i]] = Ancestry(c)[i + 1],
           parent[Ancestry(c)[n]] = NoContext
    PROVE  k <= n /\ \A i \in 1 .. k : walk[i] = Ancestry(c)[i]
<1> DEFINE A == Ancestry(c)
<1>1. \A i \in 1 .. k : walk[i] \in Addresses /\ walk[i] # NoContext
    BY LoadsAssumption, Zenon DEF Walks
<1>2. \A i \in 1 .. n : state[A[i]] = "live"
    BY Zenon DEF Live
<1>3. walk[1] = A[1] /\ \A i \in 1 .. k - 1 : state[walk[i]] = "live" => parent[walk[i]] = walk[i + 1]
    BY Zenon DEF Walks
<1> HIDE DEF A
<1>4. ASSUME NEW i \in 1 .. k - 1, i <= n, walk[i] = A[i]
      PROVE  i < n /\ walk[i + 1] = A[i + 1]
    <2>1. i \in 1 .. n /\ i \in Int /\ i + 1 \in 1 .. k
        BY <1>4
    <2>2. parent[A[i]] = walk[i + 1] /\ walk[i + 1] # NoContext
        BY <1>1, <1>2, <1>3, <1>4, <2>1, Zenon
    <2>3. i # n
        BY <2>2, Zenon DEF A
    <2>4. i \in 1 .. n - 1
        BY <2>1, <2>3
    <2> QED BY <2>2, <2>4 DEF A
<1>5. CASE k = 1
    BY <1>3, <1>5 DEF A
<1>6. CASE k = 2
    <2>1. 1 < n /\ walk[1 + 1] = A[1 + 1]
        BY <1>3, <1>4, <1>6
    <2> QED BY <1>3, <1>6, <2>1 DEF A
<1>7. CASE k = 3
    <2>1. 1 < n /\ walk[1 + 1] = A[1 + 1]
        BY <1>3, <1>4, <1>7
    <2>2. 2 < n /\ walk[2 + 1] = A[2 + 1]
        BY <1>4, <1>7, <2>1
    <2> QED BY <1>3, <1>7, <2>1, <2>2 DEF A
<1> QED BY <1>5, <1>6, <1>7

\* The invariant implies the property.
LEMMA LoadsCorrect == ASSUME MapFacts PROVE LoadsInv => LoadsAreLookups
<1> SUFFICES ASSUME LoadsInv, ~aliased, NEW c \in Live PROVE LoadedValue(c) = Walked(c)
    BY Zenon DEF LoadsAreLookups
<1> DEFINE A == Ancestry(c)
<1>1. c \in Addresses /\ ContextsType /\ Layered /\ LookupRight
    BY Zenon DEF Live, LoadsInv
<1>2. PICK n \in 1 .. 3 :
         /\ DOMAIN A = 1 .. n /\ \A i \in 1 .. n : A[i] \in Live /\ A[i] \in Addresses
         /\ \A i, j \in 1 .. n : A[i] = A[j] => i = j
         /\ A[1] = c
         /\ \A i \in 1 .. n - 1 : parent[A[i]] = A[i + 1]
         /\ parent[A[n]] = NoContext
    BY <1>1, AncestryIs, Zenon
<1>3. CASE BindsBool(c)
    <2>1. Binds(A[1]) /\ A[1] = c /\ 1 \in 1 .. n /\ \A i \in 1 .. 1 - 1 : ~Binds(A[i])
        BY <1>2, <1>3 DEF Binds
    <2>2. Nearest(c) = c /\ c # NoContext
        <3>1. Nearest(c) = A[1]
            BY <1>2, <2>1, NearestIs, Zenon
        <3> QED BY <1>1, <2>1, <3>1, LoadsAssumption, Zenon
    <2> QED BY <1>3, <2>2, Zenon DEF LoadedValue, Walked
<1>4. CASE ~BindsBool(c) /\ ~Hit(c)
    BY <1>4, Zenon DEF LoadedValue
<1>5. CASE ~BindsBool(c) /\ Hit(c)
    <2> DEFINE o == lookup.owner
    <2>1. c = lookup.request /\ o # NoContext /\ lookup.shadow = Shadow(c, o)
        BY <1>5, Zenon DEF Hit
    <2>2. PICK k \in 1 .. 3 : Walks(k)
        BY <1>1, <2>1, Zenon DEF LookupRight
    <2>3. k <= n /\ \A i \in 1 .. k : walk[i] = A[i]
        BY <1>1, <1>2, <2>1, <2>2, WalkIs, Zenon
    <2>4. k \in 1 .. n /\ k \in 1 .. k /\ \A i \in 1 .. k : i \in 1 .. n
        BY <2>3
    <2>5. A[k] = o /\ \A i \in 1 .. k : Noted(A[i], lookup.shadow[i])
        BY <2>2, <2>3, <2>4, Zenon DEF Walks
    <2>6. lookup.shadow = [i \in 1 .. k |-> version[A[i]]]
        <3>1. k \in DOMAIN A
            BY <1>2, <2>4, Zenon
        <3>2. Shadow(c, A[k]) = [i \in 1 .. k |-> version[A[i]]]
            BY <1>1, <3>1, ShadowIs, Zenon
        <3> QED BY <2>1, <2>5, <3>2, Zenon
    <2>7. ASSUME NEW i \in 1 .. k
          PROVE  /\ Loaded \notin bools[A[i]]
                 /\ i = k => IsCellOf(table[A[i]], lookup.slot, Loaded)
                 /\ i # k => Absent(table[A[i]], Loaded)
        <3>1. lookup.shadow[i] = version[A[i]]
            BY <2>6, Zenon
        <3>2. state[A[i]] = "live" /\ "live" # "unused"
            BY <1>2, <2>4, Zenon DEF Live
        <3>3. A[i] = lookup.owner <=> i = k
            BY <1>2, <2>4, <2>5, Zenon
        <3> QED BY <2>5, <3>1, <3>2, <3>3, Zenon DEF Noted, FoundOut
    <2>8. ASSUME NEW i \in 1 .. k - 1 PROVE ~Binds(A[i])
        <3>1. i \in 1 .. k /\ i # k
            OBVIOUS
        <3>2. Loaded \notin bools[A[i]] /\ Absent(table[A[i]], Loaded) /\ A[i] \in Addresses
            BY <1>2, <2>4, <2>7, <3>1, Zenon
        <3> QED BY <1>1, <3>2, TableAnswers, Zenon DEF Binds, BindsBool
    <2>9. Loaded \notin bools[o] /\ IsCellOf(table[o], lookup.slot, Loaded) /\ o \in Addresses
        BY <1>2, <2>4, <2>5, <2>7, Zenon
    <2>10. /\ ~BindsBool(o) /\ Found(table[o], Loaded)
           /\ Lookup(table[o], Loaded) = table[o].cells[lookup.slot].value
        BY <1>1, <2>9, TableAnswers, Zenon DEF BindsBool
    <2>11. Nearest(c) = o
        <3>1. Binds(A[k]) /\ \A i \in 1 .. k - 1 : ~Binds(A[i])
            BY <2>5, <2>8, <2>10, Zenon DEF Binds
        <3> QED BY <1>2, <2>4, <2>5, <3>1, NearestIs, Zenon
    <2> QED BY <1>5, <2>1, <2>10, <2>11, Zenon DEF LoadedValue, Walked
<1> QED BY <1>3, <1>4, <1>5, Zenon

\* A table just made.
LEMMA FreshIs ==
    ASSUME MapFacts
    PROVE  /\ WellKept(NewMap(InitialCapacity)) /\ NewMap(InitialCapacity).count = 0
           /\ \A n \in Names : Absent(NewMap(InitialCapacity), n)
<1> DEFINE t == NewMap(InitialCapacity)
<1>1. WellKept(t) /\ t.count = 0 /\ t.cap = InitialCapacity
    BY NewIsKept, TableAssumption, Zenon DEF NewMap
<1>2. \A i \in 0 .. InitialCapacity - 1 : t.cells[i].name = NoName
    BY Zenon DEF NewMap, FreeCells, FreeCell
<1> HIDE DEF t
<1>3. \A n \in Names : Absent(t, n)
    BY <1>1, <1>2, TableAssumption, Zenon DEF Absent
<1> QED BY <1>1, <1>3, Zenon DEF t

\* The invariant holds before anything is made.
LEMMA LoadsStart == ASSUME MapFacts PROVE LoadsInit => LoadsInv
<1> SUFFICES ASSUME LoadsInit PROVE LoadsInv
    OBVIOUS
<1> USE DEF LoadsInit
<1>1. ContextsType
    BY FreshIs, TableKept DEF ContextsType
<1>2. Layered
    BY DEF Layered, Live
<1>3. FirstVersions
    BY FreshIs, Zenon DEF FirstVersions
<1>4. LookupRight
    BY Zenon DEF LookupRight, NotCached
<1> QED BY <1>1, <1>2, <1>3, <1>4, Zenon DEF LoadsInv

\* Nothing but the context at c has changed; if the walk met it, what was noted
\* of it holds, and if it is live it leads where the walk went.
OnlyAt(c) ==
  /\ \A d \in Addresses \ {c} : /\ state'[d] = state[d] /\ table'[d] = table[d] /\ bools'[d] = bools[d]
                                /\ version'[d] = version[d] /\ parent'[d] = parent[d]
  /\ UNCHANGED <<lookup, walk>>
  /\ \A i \in DOMAIN walk : walk[i] = c =>
        /\ \A v \in Nat : Noted(c, v) => Noted(c, v)'
        /\ i < Len(walk) /\ state'[c] = "live" =>
              parent'[c] = walk[i + 1] \/ (state[c] = "live" /\ parent'[c] = parent[c])

\* What happens to one context only leaves the cache right.
LEMMA LookupKept ==
    ASSUME LookupRight, NEW c \in Addresses, OnlyAt(c)
    PROVE  LookupRight'
<1> SUFFICES ASSUME lookup.owner # NoContext PROVE LookupRight'
    BY Zenon DEF OnlyAt, LookupRight
<1>1. PICK k \in 1 .. 3 : Walks(k)
    BY Zenon DEF LookupRight
<1>2. walk \in [1 .. k -> Addresses] /\ lookup.shadow \in [1 .. k -> Nat] /\ DOMAIN walk = 1 .. k
    BY <1>1, Zenon DEF Walks
<1>3. Len(walk) = k
    BY <1>2
<1>4. ASSUME NEW i \in 1 .. k PROVE Noted(walk[i], lookup.shadow[i])'
    <2>1. walk[i] \in Addresses /\ lookup.shadow[i] \in Nat /\ Noted(walk[i], lookup.shadow[i])
        BY <1>1, <1>2, Zenon DEF Walks
    <2>2. CASE walk[i] = c
        BY <1>2, <2>1, <2>2, Zenon DEF OnlyAt
    <2>3. CASE walk[i] # c
        BY <2>1, <2>3, Zenon DEF Noted, FoundOut, OnlyAt
    <2> QED BY <2>2, <2>3, Zenon
<1>5. ASSUME NEW i \in 1 .. k - 1, state'[walk[i]] = "live" PROVE parent'[walk[i]] = walk[i + 1]
    <2>1. i \in 1 .. k /\ i < k
        OBVIOUS
    <2>2. walk[i] \in Addresses /\ (state[walk[i]] = "live" => parent[walk[i]] = walk[i + 1])
        BY <1>1, <1>2, <2>1, Zenon DEF Walks
    <2>3. CASE walk[i] = c
        <3>1. i \in DOMAIN walk /\ i < Len(walk)
            BY <1>2, <1>3, <2>1, Zenon
        <3> QED BY <1>5, <2>2, <2>3, <3>1, Zenon DEF OnlyAt
    <2>4. CASE walk[i] # c
        BY <1>5, <2>2, <2>4, Zenon DEF OnlyAt
    <2> QED BY <2>3, <2>4, Zenon
<1>6. Walks(k)'
    BY <1>1, <1>4, <1>5, Zenon DEF Walks, OnlyAt
<1> QED BY <1>6, Zenon DEF LookupRight

\* What holds of a kept context that is reset from version 1.
LEMMA ResetKeeps ==
    ASSUME MapFacts, LoadsInv, NEW c \in Addresses, Reset(c), UNCHANGED lookup, version[c] = 1,
           state[c] # "unused", NEW v \in Nat, Noted(c, v)
    PROVE  Noted(c, v)'
<1>1. ContextsType /\ FirstVersions
    BY Zenon DEF LoadsInv
<1>2. /\ table'[c] = NewMap(InitialCapacity) /\ bools'[c] = {} /\ version'[c] = 1
    BY <1>1, Zenon DEF Reset, ContextsType
<1>3. v <= 1 /\ (v = 1 => FoundOut(c))
    BY Zenon DEF Noted
<1>4. table[c].count = 0
    BY <1>1, Zenon DEF FirstVersions
<1>5. FoundOut(c) => c # lookup.owner
    BY <1>1, <1>4, TableAnswers, Zenon DEF FoundOut
<1>6. Absent(table'[c], Loaded)
    BY <1>2, FreshIs, LoadsAssumption, Zenon
<1>7. FoundOut(c) => FoundOut(c)'
    BY <1>2, <1>5, <1>6, Zenon DEF FoundOut
<1> QED BY <1>2, <1>3, <1>7, Zenon DEF Noted

\* A context made, whether new or from the free list.
LEMMA MakeKeepsLoads ==
    ASSUME MapFacts, LoadsInv, NEW c \in Addresses, NEW p, Make(c, p), state[c] # "live",
           p = NoContext \/ (p \in Live /\ Low(p)),
           free' \in Seq(Addresses),
           \A i \in DOMAIN free' : state[free'[i]] = "listed" /\ free'[i] # c,
           \A i, j \in DOMAIN free' : free'[i] = free'[j] => i = j
    PROVE  LoadsInv'
<1>1. ContextsType /\ Layered /\ FirstVersions /\ (aliased \/ LookupRight)
    BY Zenon DEF LoadsInv
<1>2. /\ state' = [state EXCEPT ![c] = "live"] /\ parent' = [parent EXCEPT ![c] = p]
      /\ table' = [table EXCEPT ![c] = NewMap(InitialCapacity)]
      /\ bools' = [bools EXCEPT ![c] = {}] /\ version' = [version EXCEPT ![c] = 1]
      /\ UNCHANGED <<lookup, walk>> /\ Reset(c) /\ aliased' = (aliased \/ Aliases(c, p))
    BY Zenon DEF Make, Reset
<1>3. version[c] = 1
    BY <1>1, Zenon DEF Layered
<1>4. /\ state'[c] = "live" /\ parent'[c] = p
      /\ \A d \in Addresses \ {c} : /\ state'[d] = state[d] /\ table'[d] = table[d] /\ bools'[d] = bools[d]
                                    /\ version'[d] = version[d] /\ parent'[d] = parent[d]
    BY <1>1, <1>2, Zenon DEF ContextsType
<1>5. p \in Addresses \cup {NoContext}
    BY Zenon DEF Live
<1>6. ContextsType'
    BY <1>1, <1>2, <1>5, FreshIs, TableKept DEF ContextsType
<1>7. Layered'
    <2>1. \A x \in Live : x # c /\ x \in Addresses /\ x \in Live' /\ parent'[x] = parent[x]
        BY <1>4, Zenon DEF Live
    <2>2. ASSUME NEW x \in Live, Low(x) PROVE Low(x)'
        <3>1. CASE parent[x] = NoContext
            BY <2>1, <3>1, Zenon DEF Low
        <3>2. CASE parent[x] # NoContext
            <4>1. parent[x] \in Live /\ parent[parent[x]] = NoContext
                BY <1>1, <2>2, <3>2, Zenon DEF Layered, Low
            <4> QED BY <2>1, <4>1, Zenon DEF Low
        <3> QED BY <3>1, <3>2, Zenon
    <2>3. ASSUME NEW d \in Live', parent'[d] # NoContext PROVE parent'[d] \in Live' /\ Low(parent[d])'
        <3>1. CASE d = c
            <4>1. p \in Live /\ Low(p) /\ parent'[d] = p
                BY <1>4, <2>3, <3>1, Zenon
            <4> QED BY <2>1, <2>2, <4>1, Zenon
        <3>2. CASE d # c
            <4>1. d \in Live
                BY <1>4, <3>2, Zenon DEF Live
            <4>2. parent[d] \in Live /\ Low(parent[d]) /\ parent'[d] = parent[d]
                BY <1>1, <2>1, <2>3, <4>1, Zenon DEF Layered
            <4> QED BY <2>1, <2>2, <4>2, Zenon
        <3> QED BY <3>1, <3>2, Zenon
    <2>4. \A i \in DOMAIN free' : state'[free'[i]] = "listed"
        <3>1. \A i \in DOMAIN free' : free'[i] \in Addresses
            OBVIOUS
        <3> QED BY <1>4, <3>1, Zenon
    <2>5. \A d \in Addresses : state'[d] # "live" => version'[d] = 1
        BY <1>1, <1>4, Zenon DEF Layered
    <2> QED BY <2>3, <2>4, <2>5, Zenon DEF Layered
<1>8. FirstVersions'
    BY <1>1, <1>2, FreshIs, Zenon DEF FirstVersions, ContextsType
<1>9. CASE aliased'
    BY <1>6, <1>7, <1>8, <1>9, Zenon DEF LoadsInv
<1>10. CASE ~aliased'
    <2>1. LookupRight /\ ~Aliases(c, p)
        BY <1>1, <1>2, <1>10, Zenon
    <2>2. ASSUME NEW i \in DOMAIN walk, walk[i] = c
          PROVE  /\ \A v \in Nat : Noted(c, v) => Noted(c, v)'
                 /\ i < Len(walk) => parent'[c] = walk[i + 1]
        <3>1. state[c] # "unused" /\ (i < Len(walk) => walk[i + 1] = p)
            BY <2>1, <2>2, Zenon DEF Aliases
        <3> QED BY <1>2, <1>3, <1>4, <3>1, ResetKeeps, Zenon
    <2>3. OnlyAt(c)
        BY <1>2, <1>4, <2>2, Zenon DEF OnlyAt
    <2> QED BY <1>6, <1>7, <1>8, <2>1, <2>3, LookupKept, Zenon DEF LoadsInv
<1> QED BY <1>9, <1>10, Zenon

\* cxpr_context_new.
LEMMA NewKeepsLoads ==
    ASSUME MapFacts, LoadsInv, NEW c \in Addresses, ContextNew(c)
    PROVE  LoadsInv'
<1>1. ContextsType /\ Layered /\ state[c] = "unused" /\ Make(c, NoContext) /\ free' = free
    BY Zenon DEF LoadsInv, ContextNew
<1>2. free' \in Seq(Addresses) /\ \A i \in DOMAIN free' : state[free'[i]] = "listed" /\ free'[i] # c
    BY <1>1, Zenon DEF ContextsType, Layered
<1>3. state[c] # "live" /\ \A i, j \in DOMAIN free' : free'[i] = free'[j] => i = j
    BY <1>1, Zenon DEF Layered
<1> QED BY <1>1, <1>2, <1>3, MakeKeepsLoads, Zenon

\* cxpr_context_overlay_new.
LEMMA OverlayKeepsLoads ==
    ASSUME MapFacts, LoadsInv, NEW c \in Addresses, NEW p \in Addresses, OverlayNew(c, p)
    PROVE  LoadsInv'
<1>1. ContextsType /\ Layered /\ Make(c, p) /\ p \in Live /\ Low(p)
    BY Zenon DEF LoadsInv, OverlayNew, Low
<1>2. /\ state[c] \in {"listed", "unused"} /\ free' \in Seq(Addresses)
      /\ \A i \in DOMAIN free' : state[free'[i]] = "listed" /\ free'[i] # c
      /\ \A i, j \in DOMAIN free' : free'[i] = free'[j] => i = j
    <2>1. CASE free = <<>>
        BY <1>1, <2>1, Zenon DEF OverlayNew, Layered, ContextsType
    <2>2. CASE free # <<>>
        <3>1. c = free[1] /\ free' = Tail(free) /\ free \in Seq(Addresses) /\ 1 \in DOMAIN free
            BY <1>1, <2>2 DEF OverlayNew, ContextsType
        <3>2. /\ free' \in Seq(Addresses) /\ DOMAIN free' = 1 .. Len(free) - 1
              /\ DOMAIN free = 1 .. Len(free) /\ Len(free) \in Nat
              /\ \A i \in 1 .. Len(free) - 1 : free'[i] = free[i + 1]
            BY <2>2, <3>1
        <3>3. \A i \in DOMAIN free' : i + 1 \in DOMAIN free /\ i + 1 # 1 /\ i \in Int
            BY <3>2
        <3> QED BY <1>1, <3>1, <3>2, <3>3 DEF Layered
    <2> QED BY <2>1, <2>2, Zenon
<1>3. state[c] # "live"
    BY <1>2
<1> QED BY <1>1, <1>2, <1>3, MakeKeepsLoads, Zenon

\* cxpr_context_free.
LEMMA FreeKeepsLoads ==
    ASSUME MapFacts, LoadsInv, NEW c \in Addresses, ContextFree(c)
    PROVE  LoadsInv'
<1> DEFINE next == IF Recyclable(c) THEN "listed" ELSE "unused"
<1>1. ContextsType /\ Layered /\ FirstVersions /\ (aliased \/ LookupRight)
    BY Zenon DEF LoadsInv
<1>2. /\ state' = [state EXCEPT ![c] = next] /\ parent' = [parent EXCEPT ![c] = NoContext]
      /\ table' = [table EXCEPT ![c] = NewMap(InitialCapacity)]
      /\ bools' = [bools EXCEPT ![c] = {}] /\ version' = [version EXCEPT ![c] = 1]
      /\ UNCHANGED <<lookup, walk, aliased>> /\ Reset(c) /\ state[c] = "live"
      /\ \A d \in Live : parent[d] # c
    BY Zenon DEF ContextFree, Reset, Live
<1>3. /\ free' \in Seq(Addresses)
      /\ \A i \in DOMAIN free' : IF free'[i] = c THEN Recyclable(c) ELSE state[free'[i]] = "listed"
      /\ \A i, j \in DOMAIN free' : free'[i] = free'[j] => i = j
    <2>1. \A i \in DOMAIN free : free[i] # c /\ state[free[i]] = "listed"
        BY <1>1, <1>2, Zenon DEF Layered
    <2>2. CASE ~Recyclable(c)
        BY <1>1, <2>1, <2>2, Zenon DEF ContextFree, Layered, ContextsType
    <2>3. CASE Recyclable(c)
        <3>1. free' = <<c>> \o free /\ free \in Seq(Addresses)
            BY <1>1, <2>3, Zenon DEF ContextFree, ContextsType
        <3>2. /\ free' \in Seq(Addresses) /\ DOMAIN free' = 1 .. Len(free) + 1
              /\ DOMAIN free = 1 .. Len(free) /\ Len(free) \in Nat
              /\ free'[1] = c /\ \A i \in 2 .. Len(free) + 1 : free'[i] = free[i - 1]
            BY <3>1
        <3>3. \A i \in DOMAIN free' : i = 1 \/ (i - 1 \in DOMAIN free /\ free'[i] = free[i - 1] /\ i \in Int)
            BY <3>2
        <3> QED BY <1>1, <2>1, <2>3, <3>2, <3>3 DEF Layered
    <2> QED BY <2>2, <2>3, Zenon
<1>4. ContextsType'
    BY <1>1, <1>2, <1>3, FreshIs, TableKept DEF ContextsType
<1>5. /\ state'[c] = next /\ next # "live"
      /\ \A d \in Addresses \ {c} : /\ state'[d] = state[d] /\ table'[d] = table[d] /\ bools'[d] = bools[d]
                                    /\ version'[d] = version[d] /\ parent'[d] = parent[d]
    <2>1. next # "live"
        OBVIOUS
    <2> HIDE DEF next
    <2> QED BY <1>1, <1>2, <2>1, Zenon DEF ContextsType
<1>6. Layered'
    <2>1. \A x \in Live' : x # c /\ x \in Addresses /\ x \in Live /\ parent'[x] = parent[x]
        BY <1>5, Zenon DEF Live
    <2>2. \A x \in Live : x # c => x \in Live'
        BY <1>5, Zenon DEF Live
    <2>3. ASSUME NEW d \in Live', parent'[d] # NoContext PROVE parent'[d] \in Live' /\ Low(parent[d])'
        <3>1. /\ d \in Live /\ parent[d] \in Live /\ Low(parent[d]) /\ parent[d] # c
              /\ parent'[d] = parent[d]
            BY <1>1, <1>2, <2>1, <2>3, Zenon DEF Layered
        <3>2. parent[d] \in Live' /\ parent'[parent[d]] = parent[parent[d]]
            BY <2>1, <2>2, <3>1, Zenon
        <3>3. CASE parent[parent[d]] = NoContext
            BY <3>1, <3>2, <3>3, Zenon DEF Low
        <3>4. CASE parent[parent[d]] # NoContext
            <4>1. parent[parent[d]] \in Live /\ parent[parent[d]] # c
                BY <1>1, <1>2, <3>1, <3>4, Zenon DEF Layered
            <4>2. parent'[parent[parent[d]]] = NoContext
                BY <2>1, <2>2, <3>1, <3>4, <4>1, Zenon DEF Low
            <4> QED BY <3>1, <3>2, <4>2, Zenon DEF Low
        <3> QED BY <3>3, <3>4, Zenon
    <2>4. \A i \in DOMAIN free' : state'[free'[i]] = "listed"
        <3>1. \A i \in DOMAIN free' : free'[i] \in Addresses
            BY <1>3
        <3> QED BY <1>3, <1>5, <3>1, Zenon
    <2>5. \A d \in Addresses : state'[d] # "live" => version'[d] = 1
        BY <1>1, <1>2, Zenon DEF Layered, ContextsType
    <2> QED BY <1>3, <2>3, <2>4, <2>5, Zenon DEF Layered
<1>7. FirstVersions'
    BY <1>1, <1>2, FreshIs, Zenon DEF FirstVersions, ContextsType
<1>8. OnlyAt(c)
    <2>1. ASSUME NEW v \in Nat, Noted(c, v) PROVE Noted(c, v)'
        <3>1. CASE Recyclable(c)
            <4>1. version[c] = 1 /\ state[c] # "unused"
                BY <1>2, <3>1 DEF Recyclable
            <4> QED BY <1>2, <2>1, <4>1, ResetKeeps, Zenon
        <3>2. CASE ~Recyclable(c)
            BY <1>5, <3>2, Zenon DEF Noted
        <3> QED BY <3>1, <3>2, Zenon
    <2> HIDE DEF next
    <2> QED BY <1>2, <1>5, <2>1, Zenon DEF OnlyAt
<1> QED BY <1>1, <1>2, <1>4, <1>6, <1>7, <1>8, LookupKept, Zenon DEF LoadsInv

\* A live context that is written: its table stays well kept, and its version
\* goes up unless its cells keep their names.
LEMMA WriteKeepsLoads ==
    ASSUME MapFacts, LoadsInv, NEW c \in Live, NEW m, NEW b \in SUBSET Names, NEW w \in Nat, WellKept(m),
           UNCHANGED <<state, parent, free, lookup, walk, aliased>>,
           table' = [table EXCEPT ![c] = m],
           bools' = [bools EXCEPT ![c] = b],
           version' = [version EXCEPT ![c] = w],
           \/ w = version[c] + 1
           \/ /\ w = version[c] /\ version[c] # 1 /\ b \subseteq bools[c] /\ m.cap = table[c].cap
              /\ \A j \in 0 .. m.cap - 1 : m.cells[j].name = table[c].cells[j].name
    PROVE  LoadsInv'
<1>1. /\ ContextsType /\ Layered /\ FirstVersions /\ (aliased \/ LookupRight)
      /\ c \in Addresses /\ state[c] = "live" /\ version[c] \in Nat \ {0}
    BY Zenon DEF LoadsInv, Live, ContextsType
<1>2. w # 1 /\ w \in Nat \ {0}
    BY <1>1
<1>3. table'[c] = m /\ bools'[c] = b /\ version'[c] = w
    BY <1>1, Zenon DEF ContextsType
<1>4. \A d \in Addresses \ {c} : /\ state'[d] = state[d] /\ table'[d] = table[d]
                                 /\ bools'[d] = bools[d] /\ version'[d] = version[d]
    BY <1>1, Zenon DEF ContextsType
<1>5. ContextsType'
    BY <1>1, <1>2, TableKept, Zenon DEF ContextsType
<1>6. Layered'
    BY <1>1, <1>3, <1>4, Zenon DEF Layered, Live, Low
<1>7. FirstVersions'
    BY <1>1, <1>2, <1>3, <1>4, Zenon DEF FirstVersions
<1>8. ASSUME NEW v \in Nat, Noted(c, v) PROVE Noted(c, v)'
    <2>1. v <= version[c] /\ (v = version[c] => FoundOut(c))
        BY <1>1, <1>8, Zenon DEF Noted
    <2>2. CASE w = version[c] + 1
        BY <1>1, <1>3, <2>1, <2>2 DEF Noted
    <2>3. CASE w # version[c] + 1
        <3>1. FoundOut(c) => FoundOut(c)'
            BY <1>3, <2>3, Zenon DEF FoundOut, IsCellOf, Absent
        <3> QED BY <1>1, <1>3, <2>1, <2>3, <3>1, Zenon DEF Noted
    <2> QED BY <2>2, <2>3, Zenon
<1>9. OnlyAt(c)
    BY <1>1, <1>4, <1>8, Zenon DEF OnlyAt
<1> QED BY <1>1, <1>5, <1>6, <1>7, <1>9, LookupKept, Zenon DEF LoadsInv

\* cxpr_context_set.
LEMMA SetKeepsLoads ==
    ASSUME MapFacts, LoadsInv, NEW c \in Addresses, NEW n \in DOMAIN HostValues, NEW v \in HostValues[n],
           SetNumberIn(c, n, v)
    PROVE  LoadsInv'
<1> DEFINE m == table[c]
           q == SetEntry(m, n, v)
           b == bools[c] \ {n}
           w == IF Found(m, n) THEN version[c] ELSE version[c] + 1
<1>1. /\ c \in Live /\ n \in Names /\ v \in Values \cup {NoValue} /\ WellKept(m) /\ bools[c] \in SUBSET Names
      /\ version[c] \in Nat \ {0} /\ (version[c] = 1 => m.count = 0)
    BY LoadsAssumption, Zenon DEF SetNumberIn, LoadsInv, ContextsType, FirstVersions
<1>2. /\ UNCHANGED <<state, parent, free, lookup, walk, aliased>> /\ table' = [table EXCEPT ![c] = q]
      /\ bools' = [bools EXCEPT ![c] = b] /\ version' = [version EXCEPT ![c] = w]
    BY Zenon DEF SetNumberIn
<1>3. b \in SUBSET Names /\ b \subseteq bools[c] /\ w \in Nat
    BY <1>1
<1> HIDE DEF m, b
<1>4. CASE Found(m, n)
    <2> DEFINE s == FindSlot(m, n)
    <2>1. s \in 0 .. m.cap - 1 /\ m.cells[s].name = n
        BY <1>1, <1>4, SlotFound, Zenon DEF Found
    <2>2. q = [m EXCEPT !.cells[s].value = v]
        BY <1>4, Zenon DEF SetEntry
    <2>3. m.count # 0
        BY <1>1, <1>4, TableKept DEF Found
    <2> HIDE DEF s, q
    <2>4. WellKept(q) /\ q.cap = m.cap /\ \A j \in 0 .. m.cap - 1 : q.cells[j].name = m.cells[j].name
        BY <1>1, <2>1, <2>2, ValueStored
    <2>5. w = version[c] /\ version[c] # 1
        BY <1>1, <1>4, <2>3, Zenon
    <2> HIDE DEF w
    <2> QED BY <1>1, <1>2, <1>3, <2>4, <2>5, WriteKeepsLoads, Zenon DEF m
<1>5. CASE ~Found(m, n)
    <2>1. Absent(m, n)
        BY <1>1, <1>5, SlotFound, Zenon DEF Absent
    <2>2. WellKept(q)
        BY <1>1, <2>1, EntryPlaced, Zenon
    <2>3. w = version[c] + 1
        BY <1>5, Zenon
    <2> HIDE DEF q, w
    <2> QED BY <1>1, <1>2, <1>3, <2>2, <2>3, WriteKeepsLoads, Zenon
<1> QED BY <1>4, <1>5, Zenon

\* cxpr_context_set_bool.
LEMMA SetBoolKeepsLoads ==
    ASSUME MapFacts, LoadsInv, NEW c \in Addresses, SetBoolIn(c, Loaded)
    PROVE  LoadsInv'
<1>1. /\ c \in Live /\ WellKept(table[c]) /\ bools[c] \cup {Loaded} \in SUBSET Names
      /\ version[c] + 1 \in Nat /\ table = [table EXCEPT ![c] = table[c]]
    <2>1. version[c] \in Nat /\ bools[c] \in SUBSET Names /\ table = [table EXCEPT ![c] = table[c]]
        BY Zenon DEF LoadsInv, ContextsType
    <2>2. c \in Live /\ Loaded \in Names /\ WellKept(table[c])
        BY LoadsAssumption, Zenon DEF SetBoolIn, LoadsInv, ContextsType
    <2> QED BY <2>1, <2>2
<1>2. /\ UNCHANGED <<state, parent, free, lookup, walk, aliased>> /\ table' = [table EXCEPT ![c] = table[c]]
      /\ bools' = [bools EXCEPT ![c] = bools[c] \cup {Loaded}]
      /\ version' = [version EXCEPT ![c] = version[c] + 1]
    BY <1>1, Zenon DEF SetBoolIn
<1> QED BY <1>1, <1>2, WriteKeepsLoads, Zenon

\* cxpr_context_clear.
LEMMA ClearKeepsLoads ==
    ASSUME MapFacts, LoadsInv, NEW c \in Addresses, ClearContext(c)
    PROVE  LoadsInv'
<1>1. c \in Live /\ WellKept(table[c]) /\ version[c] + 1 \in Nat
    BY DEF ClearContext, LoadsInv, ContextsType
<1>2. /\ UNCHANGED <<state, parent, free, lookup, walk, aliased>> /\ table' = [table EXCEPT ![c] = ClearMap(table[c])]
      /\ bools' = [bools EXCEPT ![c] = {}] /\ version' = [version EXCEPT ![c] = version[c] + 1]
    BY Zenon DEF ClearContext
<1>3. WellKept(ClearMap(table[c]))
    BY <1>1, TableKept, Zenon
<1> QED BY <1>1, <1>2, <1>3, WriteKeepsLoads, Zenon

\* An evaluation of the program.
LEMMA LoadKeepsLoads ==
    ASSUME MapFacts, LoadsInv, NEW c \in Addresses, Load(c)
    PROVE  LoadsInv'
<1> DEFINE o == Nearest(c)
           A == Ancestry(c)
<1>1. c \in Live /\ UNCHANGED <<state, parent, table, bools, version, free>>
    BY Zenon DEF Load
<1>2. ContextsType /\ Layered /\ FirstVersions
    BY Zenon DEF LoadsInv
<1>3. ContextsType' /\ Layered' /\ FirstVersions'
    BY <1>1, <1>2, Zenon DEF ContextsType, Layered, Live, Low, FirstVersions
<1>5. PICK n \in 1 .. 3 :
         /\ A \in Seq(Addresses) /\ DOMAIN A = 1 .. n /\ Len(A) = n
         /\ \A i \in 1 .. n : A[i] \in Live /\ A[i] \in Addresses
         /\ \A i, j \in 1 .. n : A[i] = A[j] => i = j
         /\ A[1] = c
         /\ \A i \in 1 .. n - 1 : parent[A[i]] = A[i + 1]
    BY <1>1, <1>2, AncestryIs, Zenon
<1>6. CASE lookup' = NotCached
    BY <1>3, <1>6, Zenon DEF NotCached, LookupRight, LoadsInv
<1>7. CASE lookup' # NotCached
    <2>1. /\ ~BindsBool(c) /\ o # NoContext /\ ~BindsBool(o)
          /\ lookup' = [request |-> c, owner |-> o, rooted |-> parent[c] = NoContext,
                        slot |-> FindSlot(table[o], Loaded), shadow |-> Shadow(c, o)]
          /\ walk' = SubSeq(A, 1, Len(Shadow(c, o)))
        BY <1>7, Zenon DEF Load
    <2>3. PICK k \in 1 .. n : /\ Binds(A[k]) /\ o = A[k]
                              /\ \A i \in 1 .. k - 1 : ~Binds(A[i])
        BY <1>5, <2>1, NearestIs, Zenon
    <2>4. Shadow(c, o) = [i \in 1 .. k |-> version[A[i]]]
        <3>1. k \in DOMAIN A
            BY <1>5, <2>3, Zenon
        <3>2. Shadow(c, A[k]) = [i \in 1 .. k |-> version[A[i]]]
            BY <1>1, <1>2, <3>1, ShadowIs, Zenon
        <3> QED BY <2>3, <3>2, Zenon
    <2>2. A' = A
        BY <1>1, Zenon DEF Ancestry
    <2> HIDE DEF o, A
    <2>5. o \in Addresses
        BY <1>5, <2>3, Zenon
    <2>6. ASSUME NEW i \in 1 .. k
          PROVE  version[A[i]] \in Nat /\ Noted(A[i], version[A[i]])'
        <3>1. A[i] \in Addresses /\ state[A[i]] = "live" /\ version[A[i]] \in Nat
            <4>1. A[i] \in Live /\ A[i] \in Addresses
                BY <1>5
            <4> QED BY <1>2, <4>1, Zenon DEF ContextsType, Live
        <3>2. FoundOut(A[i])'
            <4>1. CASE i = k
                <5>1. IsCellOf(table[o], FindSlot(table[o], Loaded), Loaded)
                    BY <1>2, <2>1, <2>3, <2>5, TableAnswers, Zenon DEF Binds
                <5> QED BY <1>1, <2>1, <2>2, <2>3, <4>1, <5>1, Zenon DEF FoundOut, BindsBool
            <4>2. CASE i # k
                <5>1. A[i] # o
                    BY <1>5, <2>3, <4>2
                <5>2. ~Binds(A[i])
                    BY <2>3, <4>2
                <5>3. Absent(table[A[i]], Loaded) /\ Loaded \notin bools[A[i]]
                    BY <1>2, <3>1, <5>2, TableAnswers, Zenon DEF Binds, BindsBool
                <5> QED BY <1>1, <2>1, <2>2, <5>1, <5>3, Zenon DEF FoundOut
            <4> QED BY <4>1, <4>2, Zenon
        <3> QED BY <1>1, <2>2, <3>1, <3>2 DEF Noted
    <2>7. lookup'.request = c /\ lookup'.owner = o /\ lookup'.shadow = [i \in 1 .. k |-> version[A[i]]]
        BY <2>1, <2>4, Zenon
    <2>8. lookup'.shadow \in [1 .. k -> Nat] /\ \A i \in 1 .. k : lookup'.shadow[i] = version[A[i]]
        BY <2>6, <2>7, Zenon
    <2>9. walk' \in [1 .. k -> Addresses] /\ \A i \in 1 .. k : walk'[i] = A[i]
        <3>1. Len(Shadow(c, o)) = k
            BY <2>4
        <3>2. walk' = SubSeq(A, 1, k)
            BY <2>1, <3>1, Zenon
        <3>3. Len(walk') = k /\ walk' \in Seq(Addresses) /\ \A i \in 1 .. k : walk'[i] = A[i]
            BY <1>5, <3>2
        <3> QED BY <3>3
    <2>10. \A i \in 1 .. k : Noted(walk[i], lookup.shadow[i])'
        BY <1>1, <2>2, <2>6, <2>8, <2>9, Zenon
    <2>11. /\ 1 \in 1 .. k /\ k \in 1 .. k /\ k \in 1 .. 3
           /\ \A i \in 1 .. k - 1 : i \in 1 .. k /\ i + 1 \in 1 .. k /\ i \in 1 .. n - 1
        OBVIOUS
    <2>12. \A i \in 1 .. k - 1 : parent'[walk'[i]] = walk'[i + 1]
        BY <1>1, <1>5, <2>9, <2>11, Zenon
    <2>13. walk'[1] = lookup'.request /\ walk'[k] = lookup'.owner
        BY <1>5, <2>3, <2>7, <2>9, <2>11, Zenon
    <2>14. Walks(k)'
        BY <2>8, <2>9, <2>10, <2>12, <2>13, Zenon DEF Walks
    <2> QED BY <1>3, <2>11, <2>14, Zenon DEF LookupRight, LoadsInv
<1> QED BY <1>6, <1>7, Zenon

\* A step of the host or of the program keeps the invariant.
LEMMA LoadsStep == ASSUME MapFacts PROVE LoadsInv /\ [LoadsNext]_loadVars => LoadsInv'
<1> SUFFICES ASSUME LoadsInv, [LoadsNext]_loadVars PROVE LoadsInv'
    OBVIOUS
<1>1. CASE UNCHANGED loadVars
    <2>1. ContextsType' /\ Layered' /\ FirstVersions'
        BY <1>1, Zenon DEF loadVars, LoadsInv, ContextsType, Layered, Live, Low, FirstVersions
    <2>2. aliased' \/ LookupRight'
        BY <1>1, Zenon DEF loadVars, LoadsInv, LookupRight, Walks, Noted, FoundOut
    <2> QED BY <2>1, <2>2, Zenon DEF LoadsInv
<1>2. ASSUME NEW c \in Addresses, ContextNew(c) PROVE LoadsInv'
    BY <1>2, NewKeepsLoads, Zenon
<1>3. ASSUME NEW c \in Addresses, ContextFree(c) PROVE LoadsInv'
    BY <1>3, FreeKeepsLoads, Zenon
<1>4. ASSUME NEW c \in Addresses, NEW n \in DOMAIN HostValues, NEW v \in HostValues[n],
             SetNumberIn(c, n, v)
      PROVE  LoadsInv'
    BY <1>4, SetKeepsLoads, Zenon
<1>5. ASSUME NEW c \in Addresses, SetBoolIn(c, Loaded) PROVE LoadsInv'
    BY <1>5, SetBoolKeepsLoads, Zenon
<1>8. ASSUME NEW c \in Addresses, NEW p \in Addresses, OverlayNew(c, p) PROVE LoadsInv'
    BY <1>8, OverlayKeepsLoads, Zenon
<1>6. ASSUME NEW c \in Addresses, ClearContext(c) PROVE LoadsInv'
    BY <1>6, ClearKeepsLoads, Zenon
<1>7. ASSUME NEW c \in Addresses, Load(c) PROVE LoadsInv'
    BY <1>7, LoadKeepsLoads, Zenon
<1> QED BY <1>1, <1>2, <1>3, <1>4, <1>5, <1>6, <1>7, <1>8, Zenon DEF LoadsNext

\* Over tables with these facts, a compiled LOAD_VAR reads through its cache what
\* a walk of the chain finds, unless the cached walk met an address that has been
\* given to another context or over another parent since
\* (cxpr_ir_lookup_cached_scalar).
THEOREM LoadsFollowTables == ASSUME MapFacts PROVE LoadsSpec => []LoadsAreLookups
<1>1. LoadsInit => LoadsInv
    BY LoadsStart, Zenon
<1>2. LoadsInv /\ [LoadsNext]_loadVars => LoadsInv'
    BY LoadsStep, Zenon
<1>3. LoadsInv => LoadsAreLookups
    BY LoadsCorrect, Zenon
<1> QED BY <1>1, <1>2, <1>3, PTL DEF LoadsSpec

----------------------------------------------------------------------------
(* The tables behind the caches are those of OpenMapProofs. *)

VARIABLES kind, map, ideal

Proved == INSTANCE OpenMapProofs

\* Tables have what the caches in front of them rely on.
LEMMA TablesServe == MapFacts
<1>1. /\ Proved!KeptTables /\ Proved!FoundCells /\ Proved!SetValues /\ Proved!FreeWrites
      /\ Proved!NewEntries /\ Proved!NewTables
    BY Proved!MapFactsHold, TableAssumption, Zenon DEF Proved!MapFacts
<1>3. /\ \A m, n : Proved!FindSlot(m, n) = FindSlot(m, n)
      /\ \A m, n : Proved!Found(m, n) <=> Found(m, n)
      /\ \A m, n : Proved!Lookup(m, n) = Lookup(m, n)
    BY Zenon DEF FindSlot, ProbeLength, Found, Lookup,
       Proved!FindSlot, Proved!ProbeLength, Proved!Found, Proved!Lookup
<1>4. Proved!Table = Table
    BY Zenon DEF Table, Tables, Cell, Proved!Table, Proved!Tables, Proved!Cell
<1>5. \A m : Proved!WellKept(m) <=> WellKept(m)
    BY Zenon DEF WellKept, Sound, Table, Tables, Cell, Single, Reached, Before, Home, Free, Occupied,
       Cardinality, IsFiniteSet, Proved!WellKept, Proved!Sound, Proved!Table, Proved!Tables,
       Proved!Cell, Proved!Single, Proved!Reached, Proved!Before, Proved!Home, Proved!Free,
       Proved!Occupied, Proved!Cardinality, Proved!IsFiniteSet
<1>6. /\ \A m, n : Proved!Absent(m, n) <=> Absent(m, n)
      /\ \A m, f : Proved!Stands(m, f) <=> Stands(m, f)
    BY Zenon DEF Absent, Stands, Free, Proved!Absent, Proved!Stands, Proved!Free
<1>7. Proved!Binding = Binding /\ Proved!Empty = Empty
    BY Zenon DEF Binding, Empty, Proved!Binding, Proved!Empty
<1>8. /\ \A cap : Proved!NewMap(cap) = NewMap(cap)
      /\ \A m : Proved!ClearMap(m) = ClearMap(m)
    BY Zenon DEF NewMap, ClearMap, FreeCells, FreeCell,
       Proved!NewMap, Proved!ClearMap, Proved!FreeCells, Proved!FreeCell
<1>9. \A m, n, v : Proved!SetEntry(m, n, v) = SetEntry(m, n, v)
    BY SMTT(30) DEF SetEntry, Grow, Regrown, Put, Overloaded, NewMap, FreeCells, FreeCell, FindSlot,
       ProbeLength, Found, Proved!SetEntry, Proved!Grow, Proved!Regrown, Proved!Put,
       Proved!Overloaded, Proved!NewMap, Proved!FreeCells, Proved!FreeCell, Proved!FindSlot,
       Proved!ProbeLength, Proved!Found
<1>10. KeptTables
    <2> SUFFICES ASSUME NEW m, WellKept(m)
                 PROVE  /\ m \in Table /\ m.cap \in Nat \ {0} /\ m.count \in Nat
                        /\ WellKept(ClearMap(m)) /\ Stands(ClearMap(m), Empty)
        BY Zenon DEF KeptTables
    <2>1. Proved!WellKept(m)
        BY <1>5, Zenon
    <2>2. /\ m \in Proved!Table /\ m.cap \in Nat \ {0} /\ m.count \in Nat
          /\ Proved!WellKept(Proved!ClearMap(m)) /\ Proved!Stands(Proved!ClearMap(m), Proved!Empty)
        BY <1>1, <2>1, Zenon DEF Proved!KeptTables
    <2>3. Proved!WellKept(ClearMap(m)) /\ Proved!Stands(ClearMap(m), Empty)
        BY <1>7, <1>8, <2>2, Zenon
    <2> QED BY <1>4, <1>5, <1>6, <2>2, <2>3, Zenon
<1>11. FoundCells
    <2> SUFFICES ASSUME NEW m, NEW n \in Names, WellKept(m)
                 PROVE  /\ FindSlot(m, n) \in 0 .. m.cap - 1 /\ m.cells[FindSlot(m, n)].name \in {n, NoName}
                        /\ \A i \in 0 .. m.cap - 1 : m.cells[i].name = n =>
                              Found(m, n) /\ FindSlot(m, n) = i /\ Lookup(m, n) = m.cells[i].value
                        /\ Absent(m, n) => ~Found(m, n) /\ Lookup(m, n) = NoValue
        BY Zenon DEF FoundCells
    <2>1. /\ Proved!FindSlot(m, n) \in 0 .. m.cap - 1
          /\ m.cells[Proved!FindSlot(m, n)].name \in {n, NoName}
          /\ \A i \in 0 .. m.cap - 1 : m.cells[i].name = n =>
                /\ Proved!Found(m, n) /\ Proved!FindSlot(m, n) = i
                /\ Proved!Lookup(m, n) = m.cells[i].value
          /\ Proved!Absent(m, n) => ~Proved!Found(m, n) /\ Proved!Lookup(m, n) = NoValue
        BY <1>1, <1>5, Zenon DEF Proved!FoundCells
    <2>2. /\ Proved!FindSlot(m, n) = FindSlot(m, n) /\ Proved!Lookup(m, n) = Lookup(m, n)
          /\ Proved!Found(m, n) <=> Found(m, n)
          /\ Proved!Absent(m, n) <=> Absent(m, n)
        BY <1>3, <1>6, Zenon
    <2>3. FindSlot(m, n) \in 0 .. m.cap - 1 /\ m.cells[FindSlot(m, n)].name \in {n, NoName}
        BY <2>1, <2>2, Zenon
    <2>4. \A i \in 0 .. m.cap - 1 : m.cells[i].name = n =>
             Found(m, n) /\ FindSlot(m, n) = i /\ Lookup(m, n) = m.cells[i].value
        BY <2>1, <2>2, Zenon
    <2>5. Absent(m, n) => ~Found(m, n) /\ Lookup(m, n) = NoValue
        BY <2>1, <2>2, Zenon
    <2> QED BY <2>3, <2>4, <2>5, Zenon
<1>12. /\ \A m, q, n, v : Proved!Rebinds(m, q, n, v) <=> Rebinds(m, q, n, v)
       /\ \A m, n : Proved!HasCell(m, n) <=> HasCell(m, n)
       /\ \A m, q : Proved!CellsStay(m, q) <=> CellsStay(m, q)
       /\ \A m, i, n : Proved!IsCellOf(m, i, n) <=> IsCellOf(m, i, n)
    <2>1. \A m, q, n, v : Proved!Rebinds(m, q, n, v) <=> Rebinds(m, q, n, v)
        BY <1>5, <1>6, <1>7, Zenon DEF Rebinds, Proved!Rebinds
    <2>2. \A m, n : Proved!HasCell(m, n) <=> HasCell(m, n)
        BY Zenon DEF HasCell, FindSlot, ProbeLength, Proved!HasCell, Proved!FindSlot, Proved!ProbeLength
    <2>3. \A m, q : Proved!CellsStay(m, q) <=> CellsStay(m, q)
        BY Zenon DEF CellsStay, Free, Proved!CellsStay, Proved!Free
    <2>4. \A m, i, n : Proved!IsCellOf(m, i, n) <=> IsCellOf(m, i, n)
        BY Zenon DEF IsCellOf, Proved!IsCellOf
    <2> QED BY <2>1, <2>2, <2>3, <2>4, Zenon
<1>13. SetValues /\ NewEntries
    <2>1. ASSUME NEW m, NEW n, NEW i, NEW v, WellKept(m), IsCellOf(m, i, n), v \in Values \cup {NoValue}
          PROVE  Rebinds(m, [m EXCEPT !.cells[i].value = v], n, v)
        <3>1. Proved!WellKept(m) /\ Proved!IsCellOf(m, i, n)
            BY <1>5, <1>12, <2>1, Zenon
        <3>2. Proved!Rebinds(m, [m EXCEPT !.cells[i].value = v], n, v)
            BY <1>1, <2>1, <3>1, Zenon DEF Proved!SetValues
        <3> QED BY <1>12, <3>2, Zenon
    <2>2. ASSUME NEW m, NEW n \in Names, NEW v \in Values \cup {NoValue}, WellKept(m), Absent(m, n)
          PROVE  /\ Rebinds(m, SetEntry(m, n, v), n, v)
                 /\ HasCell(SetEntry(m, n, v), n) /\ CellsStay(m, SetEntry(m, n, v))
        <3> DEFINE q == SetEntry(m, n, v)
                   p == Proved!SetEntry(m, n, v)
        <3>1. Proved!WellKept(m) /\ Proved!Absent(m, n) /\ p = q
            BY <1>5, <1>6, <1>9, <2>2, Zenon
        <3>2. Proved!Rebinds(m, p, n, v) /\ Proved!HasCell(p, n) /\ Proved!CellsStay(m, p)
            BY <1>1, <2>2, <3>1, Zenon DEF Proved!NewEntries
        <3> HIDE DEF p, q
        <3>3. Rebinds(m, q, n, v) /\ HasCell(q, n) /\ CellsStay(m, q)
            BY <1>12, <3>1, <3>2, Zenon
        <3> QED BY <3>3, Zenon DEF q
    <2> QED BY <2>1, <2>2, Zenon DEF SetValues, NewEntries
<1>15. FreeWrites
    <2> SUFFICES ASSUME NEW m, NEW i, NEW v, WellKept(m), i \in 0 .. m.cap - 1, Free(m, i),
                        v \in Values \cup {NoValue}
                 PROVE  /\ WellKept([m EXCEPT !.cells[i].value = v])
                        /\ \A f \in Binding : Stands(m, f) => Stands([m EXCEPT !.cells[i].value = v], f)
        BY Zenon DEF FreeWrites
    <2>1. Proved!WellKept(m) /\ Proved!Free(m, i)
        BY <1>5, Zenon DEF Free, Proved!Free
    <2>2. /\ Proved!WellKept([m EXCEPT !.cells[i].value = v])
          /\ \A f \in Proved!Binding :
                Proved!Stands(m, f) => Proved!Stands([m EXCEPT !.cells[i].value = v], f)
        BY <1>1, <2>1, Zenon DEF Proved!FreeWrites
    <2> QED BY <1>5, <1>6, <1>7, <2>2, Zenon
<1>14. NewTables
    <2> SUFFICES ASSUME NEW cap \in Nat \ {0}
                 PROVE  WellKept(NewMap(cap)) /\ Stands(NewMap(cap), Empty)
        BY Zenon DEF NewTables
    <2>1. Proved!WellKept(Proved!NewMap(cap)) /\ Proved!Stands(Proved!NewMap(cap), Proved!Empty)
        BY <1>1, Zenon DEF Proved!NewTables
    <2>2. Proved!WellKept(NewMap(cap)) /\ Proved!Stands(NewMap(cap), Empty)
        BY <1>7, <1>8, <2>1, Zenon
    <2> QED BY <1>5, <1>6, <2>2, Zenon
<1> QED BY <1>10, <1>11, <1>13, <1>14, <1>15, Zenon DEF MapFacts

\* For every set of addresses, names and hashes, with contexts made at any of
\* them and overlays over any live context up to two above a root: a compiled
\* LOAD_VAR reads, through the cache of its instruction, what a walk of the
\* chain finds, whatever was set, cleared, freed or evaluated before, unless an
\* address of the cached walk now is an overlay over another parent or another
\* context (cxpr_ir_lookup_cached_scalar).
THEOREM LookupTransparent == LoadsSpec => []LoadsAreLookups
BY TablesServe, LoadsFollowTables, Zenon
=============================================================================
