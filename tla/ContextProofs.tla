--------------------------- MODULE ContextProofs ---------------------------
(***************************************************************************)
(* That a context reads what was set: the typed maps behind their setters, *)
(* and the caches and handles in front of the numeric table, for every     *)
(* table size, cache size and placement of the names.  The caches are      *)
(* shown to be transparent over tables that look up what was stored        *)
(* (MapFacts of OpenMap), which is what OpenMapProofs shows of them.       *)
(***************************************************************************)
EXTENDS ContextNumbers, ContextBindings, Integers, TLAPS

----------------------------------------------------------------------------
(* What the caches rely on in the tables behind them. *)

\* A well kept table is a table, and well kept after a clear.
LEMMA TableKept ==
    ASSUME MapFacts, NEW m, WellKept(m)
    PROVE  /\ m \in Table /\ m.cap \in Nat \ {0} /\ m.count \in Nat
           /\ WellKept(ClearMap(m)) /\ Stands(ClearMap(m), Empty)
BY Zenon DEF MapFacts, KeptTables

\* A probe stops at the cell of the name, or at a free one if it has none.
LEMMA SlotFound ==
    ASSUME MapFacts, NEW m, WellKept(m), NEW n \in Names
    PROVE  /\ FindSlot(m, n) \in 0 .. m.cap - 1 /\ m.cells[FindSlot(m, n)].name \in {n, NoName}
           /\ \A i \in 0 .. m.cap - 1 : m.cells[i].name = n => /\ Found(m, n) /\ FindSlot(m, n) = i
                                                             /\ Lookup(m, n) = m.cells[i].value
           /\ Absent(m, n) => ~Found(m, n) /\ Lookup(m, n) = NoValue
BY Zenon DEF MapFacts, FoundCells

\* A value written into the cell of a name changes what the name is bound to.
LEMMA ValueStored ==
    ASSUME MapFacts, NEW m, WellKept(m), NEW i \in 0 .. m.cap - 1, NEW n \in Names,
           m.cells[i].name = n, NEW v \in Values \cup {NoValue}
    PROVE  LET q == [m EXCEPT !.cells[i].value = v] IN
           /\ WellKept(q) /\ q.cap = m.cap
           /\ \A j \in 0 .. m.cap - 1 : q.cells[j].name = m.cells[j].name
           /\ \A f \in Binding : Stands(m, f) => Stands(q, [f EXCEPT ![n] = v])
<1>1. SetValues
    BY Zenon DEF MapFacts
<1> DEFINE q == [m EXCEPT !.cells[i].value = v]
<1>2. Rebinds(m, q, n, v)
    BY <1>1, Zenon DEF SetValues, IsCellOf
<1>3. m.cap \in Nat /\ m \in Tables(m.cap)
    BY TableKept DEF Table, Tables
<1>4. q.cap = m.cap /\ \A j \in 0 .. m.cap - 1 : q.cells[j].name = m.cells[j].name
    BY <1>3, Zenon DEF Tables, Cell
<1> QED BY <1>2, <1>4, Zenon DEF Rebinds

\* A value written into a free cell, through a slot whose variable is gone,
\* binds nothing.
LEMMA ValueLost ==
    ASSUME MapFacts, NEW m, WellKept(m), NEW i \in 0 .. m.cap - 1, Free(m, i),
           NEW v \in Values \cup {NoValue}
    PROVE  LET q == [m EXCEPT !.cells[i].value = v] IN
           /\ WellKept(q) /\ q.cap = m.cap
           /\ \A j \in 0 .. m.cap - 1 : q.cells[j].name = m.cells[j].name
           /\ \A f \in Binding : Stands(m, f) => Stands(q, f)
<1>1. FreeWrites
    BY Zenon DEF MapFacts
<1> DEFINE q == [m EXCEPT !.cells[i].value = v]
<1>2. WellKept(q) /\ \A f \in Binding : Stands(m, f) => Stands(q, f)
    BY <1>1, Zenon DEF FreeWrites
<1>3. m.cap \in Nat /\ m \in Tables(m.cap)
    BY TableKept DEF Table, Tables
<1>4. q.cap = m.cap /\ \A j \in 0 .. m.cap - 1 : q.cells[j].name = m.cells[j].name
    BY <1>3, Zenon DEF Tables, Cell
<1> QED BY <1>2, <1>4, Zenon

\* A value written into any cell binds the name in it, if there is one.
LEMMA ValueWritten ==
    ASSUME MapFacts, NEW m, WellKept(m), NEW i \in 0 .. m.cap - 1, NEW v \in Values \cup {NoValue}
    PROVE  LET q == [m EXCEPT !.cells[i].value = v] IN
           /\ WellKept(q) /\ q.cap = m.cap
           /\ \A j \in 0 .. m.cap - 1 : q.cells[j].name = m.cells[j].name
           /\ \A f \in Binding : Stands(m, f) =>
                 Stands(q, [n \in Names |-> IF m.cells[i].name = n THEN v ELSE f[n]])
<1> DEFINE q == [m EXCEPT !.cells[i].value = v]
           New(f) == [n \in Names |-> IF m.cells[i].name = n THEN v ELSE f[n]]
<1>1. CASE Free(m, i)
    <2>1. /\ WellKept(q) /\ q.cap = m.cap
          /\ \A j \in 0 .. m.cap - 1 : q.cells[j].name = m.cells[j].name
          /\ \A f \in Binding : Stands(m, f) => Stands(q, f)
        BY <1>1, ValueLost, Zenon
    <2>2. \A f \in Binding : New(f) = f
        BY <1>1, TableAssumption, Zenon DEF Free, Binding
    <2> QED BY <2>1, <2>2, Zenon
<1>2. CASE ~Free(m, i)
    <2> DEFINE k == m.cells[i].name
    <2>1. k \in Names
        <3>1. m \in Table /\ m.cap \in Nat \ {0}
            BY TableKept, Zenon
        <3> QED BY <1>2, <3>1 DEF Table, Tables, Cell, Free
    <2>2. /\ WellKept(q) /\ q.cap = m.cap
          /\ \A j \in 0 .. m.cap - 1 : q.cells[j].name = m.cells[j].name
          /\ \A f \in Binding : Stands(m, f) => Stands(q, [f EXCEPT ![k] = v])
        BY <2>1, ValueStored
    <2>3. \A f \in Binding : New(f) = [f EXCEPT ![k] = v]
        BY <2>1, Zenon DEF Binding
    <2> QED BY <2>2, <2>3, Zenon
<1> QED BY <1>1, <1>2, Zenon

\* A new name gets a cell; the others keep theirs unless the table grows.
LEMMA EntryPlaced ==
    ASSUME MapFacts, NEW m, WellKept(m), NEW n \in Names, Absent(m, n),
           NEW v \in Values \cup {NoValue}
    PROVE  LET q == SetEntry(m, n, v) IN
           /\ WellKept(q)
           /\ FindSlot(q, n) \in 0 .. q.cap - 1 /\ q.cells[FindSlot(q, n)].name = n
           /\ \A f \in Binding : Stands(m, f) => Stands(q, [f EXCEPT ![n] = v])
           /\ q.cap >= m.cap
           /\ q.cap = m.cap => \A j \in 0 .. m.cap - 1 : ~Free(m, j) => q.cells[j] = m.cells[j]
<1>1. NewEntries
    BY Zenon DEF MapFacts
<1>2. /\ Rebinds(m, SetEntry(m, n, v), n, v) /\ HasCell(SetEntry(m, n, v), n)
      /\ CellsStay(m, SetEntry(m, n, v))
    BY <1>1, Zenon DEF NewEntries
<1> QED BY <1>2, Zenon DEF Rebinds, HasCell, CellsStay

\* A new table is well kept and empty.
LEMMA NewIsKept ==
    ASSUME MapFacts, NEW cap \in Nat \ {0}
    PROVE  WellKept(NewMap(cap)) /\ Stands(NewMap(cap), Empty)
BY Zenon DEF MapFacts, NewTables

----------------------------------------------------------------------------
(* The numeric table, its caches and the slot of a host. *)

BucketIds == 0 .. CacheSize - 1

BaseType == Bases \cup {NoBase}

CacheType == [key : Names \cup {NoName}, hash : Nat, slot : Nat, base : BaseType]

PointerCacheType == [ptr : Pointers \cup {NoName}, slot : Nat, base : BaseType]

SlotType == [name : Names \cup {NoName}, slot : Nat, base : BaseType]

NumbersType ==
  /\ base \in Bases
  /\ cache \in [BucketIds -> CacheType]
  /\ pcache \in [BucketIds -> PointerCacheType]
  /\ slot \in SlotType
  /\ WellKept(variables) /\ assigned \in Binding

\* Tables only grow, so that an index that was one of a cell still is.
InTable ==
  /\ \A b \in BucketIds : cache[b].slot < variables.cap /\ pcache[b].slot < variables.cap
  /\ slot.slot < variables.cap

\* What the hash cache has under the address of the present table is right
\* about it.
CacheRight == \A b \in BucketIds : cache[b].base = base => IsCellOf(variables, cache[b].slot, cache[b].key)

NumbersInv == NumbersType /\ InTable /\ (reused \/ (Stands(variables, assigned) /\ CacheRight))

----------------------------------------------------------------------------
\* The bucket of a name is one of the cache.
LEMMA BucketIs == ASSUME NEW n \in Names PROVE Bucket(n) \in BucketIds
BY TableAssumption, NumbersAssumption DEF Bucket, BucketIds

\* An index below the capacity is one of a cell.
LEMMA CellIs == ASSUME MapFacts, NumbersInv, NEW i \in Nat, i < variables.cap
                PROVE  i \in 0 .. variables.cap - 1
<1>1. variables.cap \in Nat \ {0}
    BY TableKept, Zenon DEF NumbersInv, NumbersType
<1> QED BY <1>1

\* However a call finds its entry, it is a cell, and the one of the name unless
\* the cache has been misled; a call that finds none asks for a name that is
\* not set.
LEMMA EntryIs ==
    ASSUME MapFacts, NumbersInv, NEW p \in Pointers, NEW n \in Names
    PROVE  /\ Entry(p, n) = {} => Absent(variables, n) /\ ~PointerHit(p, n) /\ ~HashHit(n)
           /\ \A i \in Entry(p, n) : /\ Entry(p, n) = {i} /\ i \in 0 .. variables.cap - 1
                                     /\ CacheRight => IsCellOf(variables, i, n)
<1>1. /\ PointerBucket[p] \in BucketIds /\ Bucket(n) \in BucketIds
      /\ cache[Bucket(n)].slot \in Nat /\ pcache[PointerBucket[p]].slot \in Nat
    <2>1. PointerBucket[p] \in BucketIds /\ Bucket(n) \in BucketIds
        BY BucketIs, NumbersAssumption, Zenon DEF BucketIds
    <2> QED BY <2>1, Zenon DEF NumbersInv, NumbersType, CacheType, PointerCacheType
<1>2. CASE PointerHit(p, n)
    <2>1. Entry(p, n) = {pcache[PointerBucket[p]].slot}
        BY <1>2, Zenon DEF Entry
    <2>2. pcache[PointerBucket[p]].slot \in 0 .. variables.cap - 1
        BY <1>1, CellIs, Zenon DEF NumbersInv, InTable
    <2>3. IsCellOf(variables, pcache[PointerBucket[p]].slot, n)
        BY <1>2, <2>2, Zenon DEF PointerHit, IsCellOf
    <2> QED BY <2>1, <2>2, <2>3, Zenon
<1>3. CASE ~PointerHit(p, n) /\ HashHit(n)
    <2>1. Entry(p, n) = {cache[Bucket(n)].slot}
        BY <1>3, Zenon DEF Entry
    <2>2. cache[Bucket(n)].slot \in 0 .. variables.cap - 1
        BY <1>1, CellIs, Zenon DEF NumbersInv, InTable
    <2>3. CacheRight => IsCellOf(variables, cache[Bucket(n)].slot, n)
        BY <1>1, <1>3, Zenon DEF CacheRight, HashHit
    <2> QED BY <2>1, <2>2, <2>3, Zenon
<1>4. CASE ~PointerHit(p, n) /\ ~HashHit(n)
    <2>1. Entry(p, n) = IF Found(variables, n) THEN {FindSlot(variables, n)} ELSE {}
        BY <1>4, Zenon DEF Entry
    <2>2. WellKept(variables)
        BY Zenon DEF NumbersInv, NumbersType
    <2>3. CASE Found(variables, n)
        <3>1. IsCellOf(variables, FindSlot(variables, n), n)
            BY <2>2, <2>3, SlotFound, Zenon DEF IsCellOf, Found
        <3> QED BY <2>1, <2>3, <3>1, Zenon DEF IsCellOf
    <2>4. CASE ~Found(variables, n)
        <3>1. Absent(variables, n)
            BY <2>2, <2>4, SlotFound, Zenon DEF Absent
        <3> QED BY <1>4, <2>1, <2>4, <3>1, Zenon
    <2> QED BY <2>3, <2>4, Zenon
<1> QED BY <1>2, <1>3, <1>4, Zenon

\* The invariant implies the property.
LEMMA NumbersCorrect == ASSUME MapFacts PROVE NumbersInv => ReadsAreSets
<1> SUFFICES ASSUME NumbersInv, ~reused, NEW p \in Pointers, NEW n \in Names
             PROVE  ReadNumber(p, n) = assigned[n]
    BY Zenon DEF ReadsAreSets
<1>1. Stands(variables, assigned) /\ CacheRight
    BY Zenon DEF NumbersInv
<1>2. CASE Entry(p, n) = {}
    BY <1>1, <1>2, EntryIs, Zenon DEF ReadNumber, Stands
<1>3. CASE Entry(p, n) # {}
    <2>1. PICK i \in Entry(p, n) : TRUE
        BY <1>3, Zenon
    <2>2. Entry(p, n) = {i} /\ IsCellOf(variables, i, n)
        BY <1>1, <2>1, EntryIs, Zenon
    <2>3. ReadNumber(p, n) = variables.cells[i].value
        BY <2>2, Zenon DEF ReadNumber
    <2>4. ~Free(variables, i)
        BY <2>2, TableAssumption, Zenon DEF IsCellOf, Free
    <2> QED BY <1>1, <2>2, <2>3, <2>4, Zenon DEF Stands, IsCellOf
<1> QED BY <1>2, <1>3, Zenon

\* A new context satisfies the invariant.
LEMMA NumbersStart == ASSUME MapFacts PROVE NumbersInit => NumbersInv
<1> SUFFICES ASSUME NumbersInit PROVE NumbersInv
    OBVIOUS
<1> USE DEF NumbersInit
<1>1. base \in Bases /\ base # NoBase
    BY NumbersAssumption, Zenon
<1>2. WellKept(variables) /\ Stands(variables, assigned) /\ assigned \in Binding
    <2>1. WellKept(variables) /\ Stands(variables, assigned)
        BY TableAssumption, NewIsKept, Zenon DEF Empty
    <2> QED BY <2>1, Zenon DEF Binding
<1>3. Unused \in CacheType /\ UnusedPointer \in PointerCacheType /\ NoSlot \in SlotType
    BY DEF Unused, UnusedPointer, NoSlot, CacheType, PointerCacheType, SlotType, BaseType
<1>4. \A b \in BucketIds : cache[b] = Unused /\ pcache[b] = UnusedPointer
    BY Zenon DEF BucketIds
<1>5. /\ Unused.base = NoBase /\ Unused.slot = 0 /\ UnusedPointer.slot = 0 /\ slot.slot = 0
    BY Zenon DEF Unused, UnusedPointer, NoSlot
<1>6. NumbersType
    BY <1>1, <1>2, <1>3, Zenon DEF NumbersType, BucketIds
<1>7. InTable
    <2>1. 0 < variables.cap
        BY <1>2, TableKept
    <2> QED BY <1>4, <1>5, <2>1, Zenon DEF InTable
<1> QED BY <1>1, <1>2, <1>4, <1>5, <1>6, <1>7, Zenon DEF NumbersInv, CacheRight

\* The table is where it was, and no cell has been given to another name.
Stayed == /\ base' = base
          /\ variables'.cap = variables.cap
          /\ \A j \in 0 .. variables.cap - 1 :
                ~Free(variables, j) => variables'.cells[j].name = variables.cells[j].name

\* No bucket but that of n has the address of the table.
Unknown(n) == \A b \in BucketIds : b # Bucket(n) => cache[b].base # base'

\* The caches after a step that leaves them alone or gives the bucket of n, or
\* of p, to cell i, which is the cell of n unless the cache has been misled.
LEMMA CachesKeep ==
    ASSUME NumbersInv, NEW p \in Pointers, NEW n \in Names, NEW i \in Nat,
           base' \in Bases, WellKept(variables'), assigned' \in Binding, UNCHANGED slot,
           variables'.cap \in Nat, variables.cap \in Nat, variables'.cap >= variables.cap,
           i < variables'.cap,
           UNCHANGED cache \/ CacheEntry(n, i, base'),
           UNCHANGED pcache \/ CachePointer(p, i, base'),
           \/ reused'
           \/ /\ ~reused /\ Stands(variables, assigned)' /\ IsCellOf(variables', i, n)
              /\ Stayed \/ (Unknown(n) /\ CacheEntry(n, i, base'))
    PROVE  NumbersInv'
<1> DEFINE e == [key |-> n, hash |-> Hash[n], slot |-> i, base |-> base']
           pe == [ptr |-> p, slot |-> i, base |-> base']
<1>2. e \in CacheType /\ pe \in PointerCacheType
    BY TableAssumption, Zenon DEF CacheType, PointerCacheType, BaseType
<1>3. Bucket(n) \in BucketIds /\ PointerBucket[p] \in BucketIds
    BY BucketIs, NumbersAssumption, Zenon DEF BucketIds
<1>4. /\ cache \in [BucketIds -> CacheType] /\ pcache \in [BucketIds -> PointerCacheType]
      /\ slot \in SlotType
    BY Zenon DEF NumbersInv, NumbersType
<1>5. /\ cache' \in [BucketIds -> CacheType]
      /\ \A b \in BucketIds : cache'[b] = cache[b] \/ (b = Bucket(n) /\ cache'[b] = e)
      /\ CacheEntry(n, i, base') => cache'[Bucket(n)] = e
    BY <1>2, <1>3, <1>4, Zenon DEF CacheEntry
<1>6. /\ pcache' \in [BucketIds -> PointerCacheType]
      /\ \A b \in BucketIds : pcache'[b] = pcache[b] \/ pcache'[b] = pe
    BY <1>2, <1>3, <1>4, Zenon DEF CachePointer
<1>7. NumbersType'
    BY <1>4, <1>5, <1>6, Zenon DEF NumbersType, BucketIds
<1>8. InTable'
    <2>1. ASSUME NEW b \in BucketIds PROVE cache'[b].slot < variables'.cap /\ pcache'[b].slot < variables'.cap
        <3>1. /\ cache[b].slot \in Nat /\ pcache[b].slot \in Nat
              /\ cache[b].slot < variables.cap /\ pcache[b].slot < variables.cap
            BY <1>4, Zenon DEF CacheType, PointerCacheType, NumbersInv, InTable
        <3>2. e.slot = i /\ pe.slot = i
            OBVIOUS
        <3>3. /\ cache'[b].slot = cache[b].slot \/ cache'[b].slot = i
              /\ pcache'[b].slot = pcache[b].slot \/ pcache'[b].slot = i
            <4> HIDE DEF e, pe
            <4> QED BY <1>5, <1>6, <3>2, Zenon
        <3> QED BY <3>1, <3>3
    <2>2. slot'.slot < variables'.cap
        <3>1. slot.slot \in Nat /\ slot.slot < variables.cap /\ slot' = slot
            BY <1>4, Zenon DEF SlotType, NumbersInv, InTable
        <3> QED BY <3>1
    <2> QED BY <2>1, <2>2, Zenon DEF InTable, BucketIds
<1>9. ASSUME ~reused' PROVE CacheRight'
    <2> SUFFICES ASSUME NEW b \in BucketIds, cache'[b].base = base'
                 PROVE  IsCellOf(variables', cache'[b].slot, cache'[b].key)
        BY Zenon DEF CacheRight, BucketIds
    <2>1. CASE cache'[b] = e
        <3>1. e.slot = i /\ e.key = n
            OBVIOUS
        <3> HIDE DEF e
        <3> QED BY <1>9, <2>1, <3>1, Zenon
    <2>2. CASE cache'[b] = cache[b] /\ cache'[b] # e
        <3>1. Stayed
            BY <1>5, <1>9, <2>2, Zenon DEF Unknown
        <3>2. IsCellOf(variables, cache[b].slot, cache[b].key)
            BY <1>9, <2>2, <3>1, Zenon DEF NumbersInv, CacheRight, Stayed
        <3>3. ~Free(variables, cache[b].slot)
            BY <3>2, TableAssumption, Zenon DEF IsCellOf, Free
        <3> QED BY <2>2, <3>1, <3>2, <3>3, Zenon DEF IsCellOf, Stayed
    <2> QED BY <1>5, <2>1, <2>2, Zenon
<1> QED BY <1>7, <1>8, <1>9, Zenon DEF NumbersInv

\* cxpr_context_set.
LEMMA SetKeepsNumbers ==
    ASSUME MapFacts, NumbersInv, NEW p \in Pointers, NEW n \in Names, NEW v \in Values, SetNumber(p, n, v)
    PROVE  NumbersInv'
<1>1. WellKept(variables) /\ assigned \in Binding /\ variables.cap \in Nat \ {0} /\ base \in Bases
    BY TableKept, Zenon DEF NumbersInv, NumbersType
<1>2. assigned' = [assigned EXCEPT ![n] = v] /\ assigned' \in Binding /\ UNCHANGED slot
    BY <1>1, Zenon DEF SetNumber, Binding
<1>3. CASE Entry(p, n) # {}
    <2>1. PICK i \in Entry(p, n) :
              /\ variables' = [variables EXCEPT !.cells[i].value = v]
              /\ UNCHANGED <<base, reused>>
              /\ UNCHANGED cache \/ CacheEntry(n, i, base)
              /\ UNCHANGED pcache \/ CachePointer(p, i, base)
        BY <1>3, Zenon DEF SetNumber
    <2>2. i \in 0 .. variables.cap - 1 /\ (CacheRight => IsCellOf(variables, i, n))
        BY EntryIs, Zenon
    <2>3. /\ WellKept(variables') /\ variables'.cap = variables.cap
          /\ \A j \in 0 .. variables.cap - 1 : variables'.cells[j].name = variables.cells[j].name
          /\ \A f \in Binding : Stands(variables, f) =>
                Stands(variables', [k \in Names |-> IF variables.cells[i].name = k THEN v ELSE f[k]])
        BY <1>1, <2>1, <2>2, ValueWritten
    <2>4. i \in Nat /\ i < variables'.cap /\ variables'.cap \in Nat /\ variables'.cap >= variables.cap
        BY <1>1, <2>2, <2>3
    <2>5. Stayed
        BY <2>1, <2>3, Zenon DEF Stayed
    <2>6. ASSUME ~reused PROVE Stands(variables, assigned)' /\ IsCellOf(variables', i, n)
        <3>1. Stands(variables, assigned) /\ IsCellOf(variables, i, n)
            BY <2>2, <2>6, Zenon DEF NumbersInv
        <3>2. [k \in Names |-> IF variables.cells[i].name = k THEN v ELSE assigned[k]] = assigned'
            BY <1>1, <1>2, <3>1, Zenon DEF IsCellOf, Binding
        <3> QED BY <1>1, <2>3, <3>1, <3>2, Zenon DEF IsCellOf
    <2>7. /\ UNCHANGED cache \/ CacheEntry(n, i, base')
          /\ UNCHANGED pcache \/ CachePointer(p, i, base')
        BY <2>1, Zenon
    <2> QED BY <1>1, <1>2, <2>1, <2>3, <2>4, <2>5, <2>6, <2>7, CachesKeep, Zenon
<1>4. CASE Entry(p, n) = {}
    <2> DEFINE i == FindSlot(variables', n)
    <2>1. /\ variables' = SetEntry(variables, n, v)
          /\ IF variables'.cap = variables.cap THEN base' = base ELSE base' \in NewBases
          /\ CacheEntry(n, i, base') /\ CachePointer(p, i, base')
          /\ reused' = (reused \/ /\ base' # base
                                  /\ \E b \in BucketIds : b # Bucket(n) /\ cache[b].base = base')
        BY <1>4, Zenon DEF SetNumber, BucketIds
    <2>2. Absent(variables, n)
        BY <1>4, EntryIs, Zenon
    <2>3. /\ WellKept(variables')
          /\ i \in 0 .. variables'.cap - 1 /\ variables'.cells[i].name = n
          /\ \A f \in Binding : Stands(variables, f) => Stands(variables', [f EXCEPT ![n] = v])
          /\ variables'.cap >= variables.cap
          /\ variables'.cap = variables.cap
               => \A j \in 0 .. variables.cap - 1 :
                     ~Free(variables, j) => variables'.cells[j] = variables.cells[j]
        BY <1>1, <2>1, <2>2, EntryPlaced
    <2> HIDE DEF i
    <2>4. base' \in Bases /\ (base' = base => variables'.cap = variables.cap)
        BY <1>1, <2>1, Zenon DEF NewBases
    <2>5. variables'.cap \in Nat /\ i \in Nat /\ i < variables'.cap
        <3>1. variables'.cap \in Nat \ {0}
            BY <2>3, TableKept, Zenon
        <3> QED BY <2>3, <3>1
    <2>6. IsCellOf(variables', i, n)
        BY <2>3, Zenon DEF IsCellOf
    <2>7. CASE reused'
        BY <1>1, <1>2, <2>1, <2>3, <2>4, <2>5, <2>7, CachesKeep, Zenon
    <2>8. CASE ~reused'
        <3>1. ~reused /\ Stands(variables, assigned)'
            BY <1>1, <1>2, <2>1, <2>3, <2>8, Zenon DEF NumbersInv
        <3>2. Stayed \/ Unknown(n)
            BY <2>1, <2>3, <2>4, <2>8, Zenon DEF Stayed, Unknown
        <3> QED BY <1>1, <1>2, <2>1, <2>3, <2>4, <2>5, <2>6, <3>1, <3>2, CachesKeep, Zenon
    <2> QED BY <2>7, <2>8, Zenon
<1> QED BY <1>3, <1>4, Zenon

\* cxpr_context_get_typed.
LEMMA GetKeepsNumbers ==
    ASSUME MapFacts, NumbersInv, NEW p \in Pointers, NEW n \in Names, GetNumber(p, n)
    PROVE  NumbersInv'
<1>1. UNCHANGED <<variables, base, slot, assigned, reused>> /\ Stayed
    BY Zenon DEF GetNumber, Stayed
<1>2. /\ WellKept(variables) /\ assigned \in Binding /\ variables.cap \in Nat \ {0} /\ base \in Bases
      /\ variables.cap >= variables.cap
    <2>1. WellKept(variables) /\ assigned \in Binding /\ variables.cap \in Nat \ {0} /\ base \in Bases
        BY TableKept, Zenon DEF NumbersInv, NumbersType
    <2> QED BY <2>1
<1>3. CASE Entry(p, n) # {}
    <2>1. PICK i \in Entry(p, n) : /\ UNCHANGED cache \/ CacheEntry(n, i, base)
                                   /\ CachePointer(p, i, base)
        BY <1>3, Zenon DEF GetNumber
    <2>2. i \in 0 .. variables.cap - 1 /\ (CacheRight => IsCellOf(variables, i, n))
        BY EntryIs, Zenon
    <2>3. i \in Nat /\ i < variables.cap
        BY <1>2, <2>2
    <2>4. reused \/ (Stands(variables, assigned) /\ IsCellOf(variables, i, n))
        BY <2>2, Zenon DEF NumbersInv
    <2> QED BY <1>1, <1>2, <2>1, <2>3, <2>4, CachesKeep, Zenon
<1>4. CASE Entry(p, n) = {}
    <2>1. cache' = [cache EXCEPT ![Bucket(n)] = Unused] /\ UNCHANGED pcache
        BY <1>4, Zenon DEF GetNumber
    <2>2. Unused \in CacheType /\ Unused.base = NoBase /\ Unused.slot = 0
        BY DEF Unused, CacheType, BaseType
    <2>3. cache \in [BucketIds -> CacheType] /\ Bucket(n) \in BucketIds
        BY BucketIs, Zenon DEF NumbersInv, NumbersType
    <2>4. /\ cache' \in [BucketIds -> CacheType]
          /\ \A b \in BucketIds : cache'[b] = cache[b] \/ cache'[b] = Unused
        BY <2>1, <2>2, <2>3, Zenon
    <2>5. NumbersType'
        BY <1>1, <2>1, <2>4, Zenon DEF NumbersInv, NumbersType, BucketIds
    <2>6. InTable'
        <3>1. 0 < variables.cap
            BY <1>2
        <3> QED BY <1>1, <2>1, <2>2, <2>4, <3>1, Zenon DEF NumbersInv, InTable, BucketIds
    <2>7. CacheRight => CacheRight'
        <3>1. base # NoBase
            BY <1>2, NumbersAssumption, Zenon
        <3> QED BY <1>1, <2>2, <2>4, <3>1, Zenon DEF CacheRight, BucketIds
    <2> QED BY <1>1, <2>5, <2>6, <2>7, Zenon DEF NumbersInv
<1> QED BY <1>3, <1>4, Zenon

\* cxpr_context_slot_bind.
LEMMA BindKeepsNumbers ==
    ASSUME MapFacts, NumbersInv, NEW n \in SlotNames, SlotBind(n)
    PROVE  NumbersInv'
<1>1. UNCHANGED <<variables, base, cache, pcache, assigned, reused>>
    BY Zenon DEF SlotBind
<1>2. base \in Bases /\ WellKept(variables) /\ variables.cap \in Nat \ {0} /\ n \in Names
    BY TableKept, NumbersAssumption, Zenon DEF NumbersInv, NumbersType
<1>3. slot' \in SlotType /\ slot'.slot < variables.cap
    <2>1. CASE Found(variables, n)
        <3> DEFINE i == FindSlot(variables, n)
        <3>1. i \in 0 .. variables.cap - 1
            BY <1>2, SlotFound, Zenon
        <3>2. slot' = [name |-> n, slot |-> i, base |-> base]
            BY <2>1, Zenon DEF SlotBind
        <3> HIDE DEF i
        <3> QED BY <1>2, <3>1, <3>2 DEF SlotType, BaseType
    <2>2. CASE ~Found(variables, n)
        <3>1. slot' = NoSlot
            BY <2>2, Zenon DEF SlotBind
        <3> QED BY <1>2, <3>1 DEF NoSlot, SlotType, BaseType
    <2> QED BY <2>1, <2>2, Zenon
<1>4. NumbersType' /\ InTable'
    BY <1>1, <1>3, Zenon DEF NumbersInv, NumbersType, InTable, BucketIds
<1> QED BY <1>1, <1>4, Zenon DEF NumbersInv, CacheRight, BucketIds

\* cxpr_context_slot_set through a slot that cxpr_context_slot_valid accepts.
LEMMA SlotSetKeepsNumbers ==
    ASSUME MapFacts, NumbersInv, NEW v \in Values, SlotSet(v)
    PROVE  NumbersInv'
<1> DEFINE i == slot.slot
<1>1. /\ variables' = [variables EXCEPT !.cells[i].value = v]
      /\ assigned' = [n \in Names |-> IF variables.cells[i].name = n THEN v ELSE assigned[n]]
      /\ UNCHANGED <<base, cache, pcache, slot, reused>>
    BY Zenon DEF SlotSet
<1>2. WellKept(variables) /\ assigned \in Binding
    BY Zenon DEF NumbersInv, NumbersType
<1>3. i \in 0 .. variables.cap - 1
    BY CellIs, Zenon DEF NumbersInv, NumbersType, InTable, SlotType
<1> HIDE DEF i
<1>4. /\ WellKept(variables') /\ variables'.cap = variables.cap
      /\ \A j \in 0 .. variables.cap - 1 : variables'.cells[j].name = variables.cells[j].name
      /\ Stands(variables, assigned) => Stands(variables', assigned')
    BY <1>1, <1>2, <1>3, ValueWritten
<1>5. NumbersType'
    <2>1. assigned' \in Binding
        BY <1>1, <1>2, Zenon DEF Binding
    <2> QED BY <1>1, <1>4, <2>1, Zenon DEF NumbersInv, NumbersType, BucketIds
<1>6. InTable' /\ (CacheRight => CacheRight')
    BY <1>1, <1>4, Zenon DEF NumbersInv, InTable, CacheRight, IsCellOf, BucketIds
<1> QED BY <1>1, <1>4, <1>5, <1>6, Zenon DEF NumbersInv

\* cxpr_context_clear.
LEMMA ClearKeepsNumbers == ASSUME MapFacts, NumbersInv, ClearNumbers PROVE NumbersInv'
<1>1. /\ base' = base /\ slot' = slot /\ variables' = ClearMap(variables) /\ assigned' = Empty
      /\ cache' = [b \in BucketIds |-> Unused] /\ pcache' = [b \in BucketIds |-> UnusedPointer]
    BY Zenon DEF ClearNumbers, BucketIds, Empty
<1>2. /\ base \in Bases /\ base # NoBase /\ slot \in SlotType /\ WellKept(variables)
      /\ variables.cap \in Nat \ {0}
    BY TableKept, NumbersAssumption, Zenon DEF NumbersInv, NumbersType
<1>3. /\ Unused \in CacheType /\ UnusedPointer \in PointerCacheType
      /\ Unused.base = NoBase /\ Unused.slot = 0 /\ UnusedPointer.slot = 0
    BY DEF Unused, UnusedPointer, CacheType, PointerCacheType, BaseType
<1>4. WellKept(variables') /\ Stands(variables, assigned)' /\ assigned' \in Binding
    BY <1>1, <1>2, TableKept, Zenon DEF Binding, Empty
<1>5. variables'.cap = variables.cap
    <2>1. variables \in Tables(variables.cap)
        BY <1>2, TableKept DEF Table, Tables
    <2> QED BY <1>1, <2>1 DEF ClearMap, Tables
<1>6. NumbersType'
    BY <1>1, <1>2, <1>3, <1>4, Zenon DEF NumbersType, BucketIds
<1>7. InTable'
    <2>1. 0 < variables.cap
        BY <1>2
    <2> QED BY <1>1, <1>3, <1>5, <2>1, Zenon DEF NumbersInv, InTable, BucketIds
<1>8. CacheRight'
    BY <1>1, <1>2, <1>3, Zenon DEF CacheRight, BucketIds
<1> QED BY <1>4, <1>6, <1>7, <1>8, Zenon DEF NumbersInv

\* A step of the context or of its host keeps the invariant.
LEMMA NumbersStep == ASSUME MapFacts PROVE NumbersInv /\ [NumbersNext]_numberVars => NumbersInv'
<1> SUFFICES ASSUME NumbersInv, [NumbersNext]_numberVars PROVE NumbersInv'
    OBVIOUS
<1>1. CASE UNCHANGED numberVars
    BY <1>1, Zenon DEF numberVars, NumbersInv, NumbersType, InTable, CacheRight, BucketIds
<1>2. ASSUME NEW p \in Pointers, NEW n \in Names, NEW v \in Values, SetNumber(p, n, v)
      PROVE  NumbersInv'
    BY <1>2, SetKeepsNumbers, Zenon
<1>3. ASSUME NEW p \in Pointers, NEW n \in Names, GetNumber(p, n) PROVE NumbersInv'
    BY <1>3, GetKeepsNumbers, Zenon
<1>4. ASSUME NEW n \in SlotNames, SlotBind(n) PROVE NumbersInv'
    BY <1>4, BindKeepsNumbers, Zenon
<1>5. ASSUME NEW v \in Values, SlotSet(v) PROVE NumbersInv'
    BY <1>5, SlotSetKeepsNumbers, Zenon
<1>6. CASE ClearNumbers
    BY <1>6, ClearKeepsNumbers, Zenon
<1> QED BY <1>1, <1>2, <1>3, <1>4, <1>5, <1>6, Zenon DEF NumbersNext

\* Over tables with these facts, a read through either cache (cxpr_context_get)
\* returns the value set last, unless a bucket still points where a table was
\* placed anew.
THEOREM CachesFollowTable == ASSUME MapFacts PROVE NumbersSpec => []ReadsAreSets
<1>1. NumbersInit => NumbersInv
    BY NumbersStart, Zenon
<1>2. NumbersInv /\ [NumbersNext]_numberVars => NumbersInv'
    BY NumbersStep, Zenon
<1>3. NumbersInv => ReadsAreSets
    BY NumbersCorrect, Zenon
<1> QED BY <1>1, <1>2, <1>3, PTL DEF NumbersSpec

----------------------------------------------------------------------------
(* The typed bindings. *)

BindableValues == {Unset} \cup UNION {UNION {u.values[c] : c \in Contexts} : u \in Uses}

MapsType == [Contexts -> [Types -> [BoundNames -> BindableValues]]]

LastType == [Contexts -> [BoundNames -> [t : Types \cup {"none"}, v : BindableValues]]]

BindingsType ==
  /\ use \in Uses
  /\ var \in MapsType /\ param \in MapsType
  /\ scope \in [Contexts -> [BoundNames -> BindableValues]]
  /\ last \in LastType /\ lastp \in LastType

\* The maps that a typed read of a scalar would find the name in first.
Earlier(t) == CASE t = "bool" -> {}
                [] t = "int64" -> {"bool"}
                [] t = "number" -> {"bool", "int64", "string", "array"}

\* The scalar noted in l is in its map and in none that is read earlier.
InFront(maps, l, n) ==
  l.t \in Scalars => /\ l.v # Unset /\ maps[l.t][n] = l.v
                     /\ \A s \in Earlier(l.t) : maps[s][n] = Unset

ScalarsInFront ==
  \A c \in Contexts, n \in BoundNames : /\ InFront(var[c], last[c][n], n)
                                        /\ InFront(param[c], lastp[c][n], n)

BindingsInv == BindingsType /\ ScalarsInFront

\* What a typed read takes when the first map that binds n is the i-th.
LEMMA FirstOfIs ==
    ASSUME NEW order, DOMAIN order \subseteq Int, NEW maps, NEW n, NEW i \in DOMAIN order,
           maps[order[i]][n] # Unset, \A j \in DOMAIN order : j < i => maps[order[j]][n] = Unset
    PROVE  FirstOf(order, maps, n) = [t |-> order[i], v |-> maps[order[i]][n]]
<1> DEFINE hits == {j \in DOMAIN order : maps[order[j]][n] # Unset}
           first == CHOOSE j \in hits : \A k \in hits : j <= k
<1>1. i \in hits /\ \A k \in hits : i <= k /\ k \in Int
    OBVIOUS
<1>2. first = i
    <2>1. \A j \in hits : (\A k \in hits : j <= k) => j = i
        BY <1>1
    <2> HIDE DEF hits
    <2> QED BY <1>1, <2>1, Zenon
<1>3. FirstOf(order, maps, n) = IF hits = {} THEN Nothing
                                ELSE [t |-> order[first], v |-> maps[order[first]][n]]
    BY Zenon DEF FirstOf
<1> HIDE DEF hits, first
<1> QED BY <1>1, <1>2, <1>3, Zenon

\* A name that no map binds is not found.
LEMMA FirstOfNothing ==
    ASSUME NEW order, NEW maps, NEW n, \A j \in DOMAIN order : maps[order[j]][n] = Unset
    PROVE  FirstOf(order, maps, n) = Nothing
BY Zenon DEF FirstOf

\* A typed read of a variable finds the scalar in front.
LEMMA FrontIsRead ==
    ASSUME NEW c, NEW n, NEW l, InFront(var[c], l, n), l.t \in Scalars, l = [t |-> l.t, v |-> l.v]
    PROVE  LocalTyped(c, n) = l
<1> DEFINE order == <<"bool", "int64", "string", "array", "number", "struct">>
<1>1. /\ 1 \in DOMAIN order /\ 2 \in DOMAIN order /\ 5 \in DOMAIN order /\ DOMAIN order \subseteq Int
      /\ DOMAIN order = 1 .. 6 /\ order[1] = "bool" /\ order[2] = "int64" /\ order[3] = "string"
      /\ order[4] = "array" /\ order[5] = "number"
    OBVIOUS
<1>2. LocalTyped(c, n) = FirstOf(order, var[c], n)
    BY Zenon DEF LocalTyped
<1> HIDE DEF order
<1>3. CASE l.t = "bool"
    <2>1. var[c][order[1]][n] # Unset /\ \A j \in DOMAIN order : j < 1 => var[c][order[j]][n] = Unset
        BY <1>1, <1>3 DEF InFront
    <2>2. FirstOf(order, var[c], n) = [t |-> order[1], v |-> var[c][order[1]][n]]
        BY <1>1, <2>1, FirstOfIs
    <2> QED BY <1>1, <1>2, <1>3, <2>2, Zenon DEF InFront
<1>4. CASE l.t = "int64"
    <2>1. var[c][order[2]][n] # Unset /\ \A j \in DOMAIN order : j < 2 => var[c][order[j]][n] = Unset
        BY <1>1, <1>4 DEF InFront, Earlier
    <2>2. FirstOf(order, var[c], n) = [t |-> order[2], v |-> var[c][order[2]][n]]
        BY <1>1, <2>1, FirstOfIs
    <2> QED BY <1>1, <1>2, <1>4, <2>2, Zenon DEF InFront
<1>5. CASE l.t = "number"
    <2>1. var[c][order[5]][n] # Unset /\ \A j \in DOMAIN order : j < 5 => var[c][order[j]][n] = Unset
        BY <1>1, <1>5 DEF InFront, Earlier
    <2>2. FirstOf(order, var[c], n) = [t |-> order[5], v |-> var[c][order[5]][n]]
        BY <1>1, <2>1, FirstOfIs
    <2> QED BY <1>1, <1>2, <1>5, <2>2, Zenon DEF InFront
<1> QED BY <1>3, <1>4, <1>5, Zenon DEF Scalars

\* A typed read of a $param finds the scalar in front, or none of its local
\* maps binds it and the nearest number of the chain is its own.
LEMMA FrontParamIsRead ==
    ASSUME NEW c \in Contexts, NEW n, NEW l, InFront(param[c], l, n), l.t \in Scalars,
           l = [t |-> l.t, v |-> l.v], param[c] \in [Types -> [BoundNames -> BindableValues]],
           var[c]["struct"][n] = Unset
    PROVE  \/ LocalParamTyped(c, n) = l
           \/ LocalParamTyped(c, n) = Nothing /\ ParamNumber(c, n) = l
<1> DEFINE order == <<"bool", "int64", "string", "array", "struct">>
           maps == [param[c] EXCEPT !["struct"] = var[c]["struct"]]
<1>1. /\ 1 \in DOMAIN order /\ 2 \in DOMAIN order /\ DOMAIN order \subseteq Int
      /\ DOMAIN order = 1 .. 5 /\ order[1] = "bool" /\ order[2] = "int64" /\ order[3] = "string"
      /\ order[4] = "array" /\ order[5] = "struct"
    OBVIOUS
<1>2. LocalParamTyped(c, n) = FirstOf(order, maps, n)
    BY Zenon DEF LocalParamTyped
<1>3. maps["struct"][n] = Unset /\ \A t \in Types \ {"struct"} : maps[t] = param[c][t]
    BY Zenon DEF Types
<1> HIDE DEF order, maps
<1>4. /\ maps["bool"] = param[c]["bool"] /\ maps["int64"] = param[c]["int64"]
      /\ maps["string"] = param[c]["string"] /\ maps["array"] = param[c]["array"]
    BY <1>3, Zenon DEF Types
<1>5. CASE l.t = "bool"
    <2>1. maps[order[1]][n] # Unset /\ \A j \in DOMAIN order : j < 1 => maps[order[j]][n] = Unset
        BY <1>1, <1>4, <1>5 DEF InFront
    <2>2. FirstOf(order, maps, n) = [t |-> order[1], v |-> maps[order[1]][n]]
        BY <1>1, <2>1, FirstOfIs
    <2> QED BY <1>1, <1>2, <1>4, <1>5, <2>2, Zenon DEF InFront
<1>6. CASE l.t = "int64"
    <2>1. maps[order[2]][n] # Unset /\ \A j \in DOMAIN order : j < 2 => maps[order[j]][n] = Unset
        BY <1>1, <1>4, <1>6 DEF InFront, Earlier
    <2>2. FirstOf(order, maps, n) = [t |-> order[2], v |-> maps[order[2]][n]]
        BY <1>1, <2>1, FirstOfIs
    <2> QED BY <1>1, <1>2, <1>4, <1>6, <2>2, Zenon DEF InFront
<1>7. CASE l.t = "number"
    <2>1. \A j \in DOMAIN order : maps[order[j]][n] = Unset
        BY <1>1, <1>3, <1>4, <1>7 DEF InFront, Earlier
    <2>2. LocalParamTyped(c, n) = Nothing
        BY <1>2, <2>1, FirstOfNothing, Zenon
    <2> DEFINE ch == Chain(c)
               hits == {i \in DOMAIN ch : param[ch[i]]["number"][n] # Unset}
               first == CHOOSE j \in hits : \A k \in hits : j <= k
    <2>3. DOMAIN ch \subseteq 1 .. 2 /\ 1 \in DOMAIN ch /\ ch[1] = c
        <3>1. CASE Parent[c] = NoParent
            BY <3>1 DEF Chain
        <3>2. CASE Parent[c] # NoParent
            BY <3>2 DEF Chain
        <3> QED BY <3>1, <3>2, Zenon
    <2>4. ParamNumber(c, n) = IF hits = {} THEN Nothing
                              ELSE [t |-> "number", v |-> param[ch[first]]["number"][n]]
        BY Zenon DEF ParamNumber
    <2> HIDE DEF ch
    <2>5. 1 \in hits /\ \A k \in hits : 1 <= k /\ k \in Int
        BY <1>7, <2>3 DEF InFront
    <2>6. first = 1
        <3>1. \A j \in hits : (\A k \in hits : j <= k) => j = 1
            BY <2>5
        <3> HIDE DEF hits
        <3> QED BY <2>5, <3>1, Zenon
    <2> HIDE DEF hits, first
    <2> QED BY <1>7, <2>2, <2>3, <2>4, <2>5, <2>6, Zenon DEF InFront
<1> QED BY <1>5, <1>6, <1>7, Zenon DEF Scalars

\* The invariant implies the property.
LEMMA BindingsCorrect == BindingsInv => ScalarWritesWin
<1> SUFFICES ASSUME BindingsInv, NEW c \in Contexts, NEW n \in BoundNames
             PROVE  /\ last[c][n].t \in Scalars /\ scope[c][n] = Unset => GetTyped(c, n) = last[c][n]
                    /\ lastp[c][n].t \in Scalars /\ var[c]["struct"][n] = Unset
                         => GetParamTyped(c, n) = lastp[c][n]
                    /\ Parent[c] # NoParent /\ ~Bound(c, n)
                         => GetTyped(c, n) = GetTyped(Parent[c], n)
    BY Zenon DEF ScalarWritesWin
<1>1. /\ last[c][n] \in [t : Types \cup {"none"}, v : BindableValues]
      /\ lastp[c][n] \in [t : Types \cup {"none"}, v : BindableValues]
      /\ param[c] \in [Types -> [BoundNames -> BindableValues]]
      /\ InFront(var[c], last[c][n], n) /\ InFront(param[c], lastp[c][n], n)
    BY Zenon DEF BindingsInv, BindingsType, ScalarsInFront, LastType, MapsType
<1>2. \A l \in [t : Types \cup {"none"}, v : BindableValues] :
          l = [t |-> l.t, v |-> l.v] /\ (l.t \in Scalars => l # Nothing)
    BY DEF Scalars, Nothing
<1>3. ASSUME last[c][n].t \in Scalars, scope[c][n] = Unset PROVE GetTyped(c, n) = last[c][n]
    <2>1. LocalTyped(c, n) = last[c][n] /\ last[c][n] # Nothing
        BY <1>1, <1>2, <1>3, FrontIsRead, Zenon
    <2> QED BY <1>3, <2>1, Zenon DEF GetTyped
<1>4. ASSUME lastp[c][n].t \in Scalars, var[c]["struct"][n] = Unset
      PROVE  GetParamTyped(c, n) = lastp[c][n]
    <2>1. lastp[c][n] # Nothing
        BY <1>1, <1>2, <1>4, Zenon
    <2>2. \/ LocalParamTyped(c, n) = lastp[c][n]
          \/ LocalParamTyped(c, n) = Nothing /\ ParamNumber(c, n) = lastp[c][n]
        BY <1>1, <1>2, <1>4, FrontParamIsRead, Zenon
    <2> QED BY <2>1, <2>2, Zenon DEF GetParamTyped
<1>5. ASSUME Parent[c] # NoParent, ~Bound(c, n) PROVE GetTyped(c, n) = GetTyped(Parent[c], n)
    <2>1. Parent[Parent[c]] = NoParent
        BY <1>5, BindingsAssumption, Zenon
    <2>2. LocalTyped(c, n) = Nothing /\ scope[c][n] = Unset
        <3> DEFINE order == <<"bool", "int64", "string", "array", "number", "struct">>
        <3>1. \A j \in DOMAIN order : order[j] \in Types
            BY DEF Types
        <3>2. LocalTyped(c, n) = FirstOf(order, var[c], n)
            BY Zenon DEF LocalTyped
        <3> HIDE DEF order
        <3>3. \A j \in DOMAIN order : var[c][order[j]][n] = Unset
            BY <1>5, <3>1, Zenon DEF Bound
        <3> QED BY <1>5, <3>2, <3>3, FirstOfNothing, Zenon DEF Bound
    <2> QED BY <1>5, <2>1, <2>2, Zenon DEF GetTyped
<1> QED BY <1>3, <1>4, <1>5, Zenon

\* Unset is one of the values a map may hold.
LEMMA UnsetBindable == Unset \in BindableValues
BY Zenon DEF BindableValues

\* The bindings after a store.
LEMMA StoredIs ==
    ASSUME NEW maps \in [Types -> [BoundNames -> BindableValues]], NEW t \in Types, NEW n \in BoundNames,
           NEW v \in BindableValues, NEW removed
    PROVE  /\ Stored(maps, t, n, v, removed) \in [Types -> [BoundNames -> BindableValues]]
           /\ Stored(maps, t, n, v, removed)[t][n] = v
           /\ \A s \in removed \cap Types : s # t => Stored(maps, t, n, v, removed)[s][n] = Unset
           /\ \A s \in Types, k \in BoundNames :
                 k # n => Stored(maps, t, n, v, removed)[s][k] = maps[s][k]
<1> DEFINE q == Stored(maps, t, n, v, removed)
           M == [BoundNames -> BindableValues]
           With(f, x) == [f EXCEPT ![n] = x]
<1>1. Unset \in BindableValues
    BY UnsetBindable, Zenon
<1>2. q = [s \in Types |-> IF s = t THEN With(maps[s], v)
                          ELSE IF s \in removed THEN With(maps[s], Unset) ELSE maps[s]]
    BY Zenon DEF Stored
<1>3. \A s \in Types : maps[s] \in M
    OBVIOUS
<1>4. \A f \in M, x \in BindableValues :
          /\ With(f, x) \in M /\ With(f, x)[n] = x
          /\ \A k \in BoundNames : k # n => With(f, x)[k] = f[k]
    OBVIOUS
<1> HIDE DEF q, M, With
<1>5. \A s \in Types : q[s] = IF s = t THEN With(maps[s], v)
                             ELSE IF s \in removed THEN With(maps[s], Unset) ELSE maps[s]
    BY <1>2, Zenon
<1>6. ASSUME NEW s \in Types
      PROVE  /\ q[s] \in M /\ (s = t => q[s][n] = v) /\ (s # t /\ s \in removed => q[s][n] = Unset)
             /\ \A k \in BoundNames : k # n => q[s][k] = maps[s][k]
    <2>1. CASE s = t
        <3>1. q[s] = With(maps[s], v) /\ maps[s] \in M
            BY <1>3, <1>5, <2>1, Zenon
        <3> QED BY <1>4, <2>1, <3>1
    <2>2. CASE s # t /\ s \in removed
        <3>1. q[s] = With(maps[s], Unset) /\ maps[s] \in M
            BY <1>3, <1>5, <2>2, Zenon
        <3> QED BY <1>1, <1>4, <2>2, <3>1
    <2>3. CASE s # t /\ s \notin removed
        BY <1>3, <1>5, <2>3, Zenon
    <2> QED BY <2>1, <2>2, <2>3, Zenon
<1>7. q \in [Types -> M]
    BY <1>2, <1>6, Zenon
<1>8. q[t][n] = v /\ \A s \in removed \cap Types : s # t => q[s][n] = Unset
    BY <1>6, Zenon
<1>9. \A s \in Types, k \in BoundNames : k # n => q[s][k] = maps[s][k]
    BY <1>6, Zenon
<1> QED BY <1>7, <1>8, <1>9, Zenon DEF q, M

\* What a setter removes includes what is read before what it stores.
LEMMA RemovesEarlier ==
    ASSUME NEW t \in Scalars
    PROVE  Earlier(t) \subseteq VariableRemoves(t) \cap Types /\ Earlier(t) \subseteq ParamRemoves(t) \cap Types
           /\ t \notin Earlier(t) /\ t \in Types /\ "struct" \notin Earlier(t) /\ t # "struct"
BY Zenon DEF Scalars, Earlier, VariableRemoves, ParamRemoves, Types

\* New contexts satisfy the invariant.
LEMMA BindingsStart == BindingsInit => BindingsInv
<1> SUFFICES ASSUME BindingsInit PROVE BindingsInv
    OBVIOUS
<1>1. Unset \in BindableValues
    BY UnsetBindable, Zenon
<1>2. BindingsType
    BY <1>1, Zenon DEF BindingsInit, BindingsType, MapsType, LastType, NoBindings, Unbound, Nothing
<1>3. ScalarsInFront
    BY Zenon DEF BindingsInit, ScalarsInFront, InFront, Nothing, Scalars
<1> QED BY <1>2, <1>3, Zenon DEF BindingsInv

\* cxpr_context_set and its typed variants.
LEMMA SetKeepsBindings ==
    ASSUME BindingsInv, NEW c \in Contexts, NEW n \in BoundNames, NEW t \in Types,
           NEW v \in BindableValues \ {Unset}, SetVariable(c, t, n, v)
    PROVE  BindingsInv'
<1> DEFINE q == Stored(var[c], t, n, v, VariableRemoves(t))
           l == [t |-> t, v |-> v]
<1>1. /\ var' = [var EXCEPT ![c] = q] /\ last' = [last EXCEPT ![c][n] = l]
      /\ UNCHANGED <<use, param, scope, lastp>>
    BY Zenon DEF SetVariable
<1>2. BindingsType /\ ScalarsInFront /\ var[c] \in [Types -> [BoundNames -> BindableValues]]
    BY Zenon DEF BindingsInv, BindingsType, MapsType
<1>3. /\ q \in [Types -> [BoundNames -> BindableValues]] /\ q[t][n] = v
      /\ \A s \in VariableRemoves(t) \cap Types : s # t => q[s][n] = Unset
      /\ \A s \in Types, k \in BoundNames : k # n => q[s][k] = var[c][s][k]
    BY <1>2, StoredIs
<1>4. l \in [t : Types \cup {"none"}, v : BindableValues] /\ l.t = t /\ l.v = v
    OBVIOUS
<1> HIDE DEF q, l
<1>5. BindingsType'
    BY <1>1, <1>2, <1>3, <1>4, Zenon DEF BindingsType, MapsType, LastType
<1>6. var'[c] = q /\ last'[c][n] = l /\ (\A k \in BoundNames : k # n => last'[c][k] = last[c][k])
      /\ \A d \in Contexts : d # c => var'[d] = var[d] /\ last'[d] = last[d]
    BY <1>1, <1>2, Zenon DEF BindingsType, MapsType, LastType
<1>7. InFront(q, l, n)
    BY <1>3, <1>4, RemovesEarlier, Zenon DEF InFront
<1>8. ASSUME NEW k \in BoundNames, k # n PROVE InFront(q, last[c][k], k)
    <2>1. InFront(var[c], last[c][k], k)
        BY <1>2, Zenon DEF ScalarsInFront
    <2> QED BY <1>3, <1>8, <2>1, RemovesEarlier, Zenon DEF InFront
<1>9. ScalarsInFront'
    BY <1>1, <1>2, <1>6, <1>7, <1>8, Zenon DEF ScalarsInFront
<1> QED BY <1>5, <1>9, Zenon DEF BindingsInv

\* A context whose scalar maps keep their names keeps what is in front.
LEMMA FrontKept ==
    ASSUME NEW maps, NEW q, NEW l, NEW n, InFront(maps, l, n),
           \A s \in Types \ {"struct"} : q[s][n] = maps[s][n]
    PROVE  InFront(q, l, n)
<1>1. \A t \in Scalars : /\ t \in Types \ {"struct"} /\ Earlier(t) \subseteq Types \ {"struct"}
    BY RemovesEarlier, Zenon
<1> QED BY <1>1, Zenon DEF InFront

\* cxpr_context_set_param and its typed variants.
LEMMA SetParamKeepsBindings ==
    ASSUME BindingsInv, NEW c \in Contexts, NEW n \in BoundNames, NEW t \in Types,
           NEW v \in BindableValues \ {Unset}, SetParam(c, t, n, v)
    PROVE  BindingsInv'
<1> DEFINE m == [param[c] EXCEPT !["struct"] = var[c]["struct"]]
           q == Stored(m, t, n, v, ParamRemoves(t))
           p == [q EXCEPT !["struct"] = Unbound]
           l == [t |-> t, v |-> v]
           M == [Types -> [BoundNames -> BindableValues]]
<1>1. /\ param' = [param EXCEPT ![c] = p] /\ lastp' = [lastp EXCEPT ![c][n] = l]
      /\ var' = [var EXCEPT ![c]["struct"] = q["struct"]]
      /\ UNCHANGED <<use, scope, last>>
    BY Zenon DEF SetParam
<1>2. /\ BindingsType /\ ScalarsInFront /\ var[c] \in M /\ param[c] \in M
      /\ "struct" \in Types /\ Unbound \in [BoundNames -> BindableValues]
    BY UnsetBindable, Zenon DEF BindingsInv, BindingsType, MapsType, Types, Unbound
<1>3. m \in M /\ \A s \in Types \ {"struct"} : m[s] = param[c][s]
    BY <1>2, Zenon
<1> HIDE DEF m
<1>4. /\ q \in M /\ q[t][n] = v
      /\ \A s \in ParamRemoves(t) \cap Types : s # t => q[s][n] = Unset
      /\ \A s \in Types, k \in BoundNames : k # n => q[s][k] = m[s][k]
    BY <1>3, StoredIs
<1> HIDE DEF q
<1>5. p \in M /\ \A s \in Types \ {"struct"} : p[s] = q[s]
    BY <1>2, <1>4, Zenon
<1>6. l \in [t : Types \cup {"none"}, v : BindableValues] /\ l.t = t /\ l.v = v
    OBVIOUS
<1> HIDE DEF p, l
<1>7. BindingsType'
    <2>1. q["struct"] \in [BoundNames -> BindableValues]
        BY <1>2, <1>4, Zenon
    <2>2. var' \in MapsType /\ param' \in MapsType
        BY <1>1, <1>2, <1>5, <2>1, Zenon DEF BindingsType, MapsType
    <2>3. lastp' \in LastType
        BY <1>1, <1>2, <1>6, Zenon DEF BindingsType, LastType
    <2> QED BY <1>1, <1>2, <2>2, <2>3, Zenon DEF BindingsType
<1>8. /\ param'[c] = p /\ lastp'[c][n] = l /\ (\A k \in BoundNames : k # n => lastp'[c][k] = lastp[c][k])
      /\ \A d \in Contexts : d # c => param'[d] = param[d] /\ lastp'[d] = lastp[d]
    BY <1>1, <1>2, Zenon DEF BindingsType, MapsType, LastType
<1>9. \A d \in Contexts, s \in Types \ {"struct"} : var'[d][s] = var[d][s]
    BY <1>1, <1>2, Zenon DEF BindingsType, MapsType
<1>10. InFront(p, l, n)
    BY <1>4, <1>5, <1>6, RemovesEarlier DEF InFront
<1>11. ASSUME NEW k \in BoundNames, k # n PROVE InFront(p, lastp[c][k], k)
    <2>1. InFront(param[c], lastp[c][k], k)
        BY <1>2, Zenon DEF ScalarsInFront
    <2>2. \A s \in Types \ {"struct"} : p[s][k] = param[c][s][k]
        BY <1>3, <1>4, <1>5, <1>11, Zenon
    <2> QED BY <2>1, <2>2, FrontKept, Zenon
<1>12. \A d \in Contexts, k \in BoundNames : InFront(var'[d], last[d][k], k)
    BY <1>2, <1>9, FrontKept DEF ScalarsInFront
<1>13. ASSUME NEW d \in Contexts, NEW k \in BoundNames PROVE InFront(param'[d], lastp'[d][k], k)
    <2>1. CASE d # c
        <3>1. InFront(param[d], lastp[d][k], k)
            BY <1>2, Zenon DEF ScalarsInFront
        <3> QED BY <1>8, <2>1, <3>1, Zenon
    <2>2. CASE d = c /\ k = n
        BY <1>8, <1>10, <2>2, Zenon
    <2>3. CASE d = c /\ k # n
        BY <1>8, <1>11, <2>3, Zenon
    <2> QED BY <2>1, <2>2, <2>3, Zenon
<1>14. ScalarsInFront'
    BY <1>1, <1>12, <1>13, Zenon DEF ScalarsInFront
<1> QED BY <1>7, <1>14, Zenon DEF BindingsInv

\* cxpr_context_set_struct.
LEMMA SetStructKeepsBindings ==
    ASSUME BindingsInv, NEW c \in Contexts, NEW n \in BoundNames, NEW v \in BindableValues,
           SetStruct(c, n, v)
    PROVE  BindingsInv'
<1> DEFINE l == [t |-> "struct", v |-> v]
<1>1. /\ var' = [var EXCEPT ![c]["struct"][n] = v] /\ last' = [last EXCEPT ![c][n] = l]
      /\ UNCHANGED <<use, param, scope, lastp>>
    BY Zenon DEF SetStruct
<1>2. BindingsType /\ ScalarsInFront /\ "struct" \in Types
    BY Zenon DEF BindingsInv, Types
<1>3. l \in [t : Types \cup {"none"}, v : BindableValues] /\ l.t = "struct"
    BY <1>2, Zenon
<1> HIDE DEF l
<1>4. BindingsType'
    BY <1>1, <1>2, <1>3, Zenon DEF BindingsType, MapsType, LastType
<1>5. \A d \in Contexts, s \in Types \ {"struct"} : var'[d][s] = var[d][s]
    BY <1>1, <1>2, Zenon DEF BindingsType, MapsType
<1>6. \A d \in Contexts, k \in BoundNames : last'[d][k] = IF d = c /\ k = n THEN l ELSE last[d][k]
    BY <1>1, <1>2, Zenon DEF BindingsType, LastType
<1>7. ASSUME NEW d \in Contexts, NEW k \in BoundNames PROVE InFront(var'[d], last'[d][k], k)
    <2>1. CASE d = c /\ k = n
        BY <1>3, <1>6, <2>1, Zenon DEF InFront, Scalars
    <2>2. CASE ~(d = c /\ k = n)
        BY <1>2, <1>5, <1>6, <2>2, FrontKept DEF ScalarsInFront
    <2> QED BY <2>1, <2>2, Zenon
<1>8. ScalarsInFront'
    BY <1>1, <1>2, <1>7, Zenon DEF ScalarsInFront
<1> QED BY <1>4, <1>8, Zenon DEF BindingsInv

\* cxpr_context_clear.
LEMMA ClearKeepsBindings ==
    ASSUME BindingsInv, NEW c \in Contexts, ClearBindings(c)
    PROVE  BindingsInv'
<1> DEFINE N == [n \in BoundNames |-> Nothing]
<1>1. /\ var' = [var EXCEPT ![c] = NoBindings] /\ param' = [param EXCEPT ![c] = NoBindings]
      /\ last' = [last EXCEPT ![c] = N] /\ lastp' = [lastp EXCEPT ![c] = N]
      /\ UNCHANGED <<use, scope>>
    BY Zenon DEF ClearBindings
<1>2. BindingsType /\ ScalarsInFront
    BY Zenon DEF BindingsInv
<1>3. /\ NoBindings \in [Types -> [BoundNames -> BindableValues]]
      /\ N \in [BoundNames -> [t : Types \cup {"none"}, v : BindableValues]]
      /\ \A n \in BoundNames : N[n].t \notin Scalars
    BY UnsetBindable, Zenon DEF NoBindings, Unbound, Nothing, Scalars
<1> HIDE DEF N
<1>4. BindingsType'
    BY <1>1, <1>2, <1>3, Zenon DEF BindingsType, MapsType, LastType
<1>5. \A d \in Contexts : /\ var'[d] = IF d = c THEN NoBindings ELSE var[d]
                          /\ param'[d] = IF d = c THEN NoBindings ELSE param[d]
                          /\ last'[d] = IF d = c THEN N ELSE last[d]
                          /\ lastp'[d] = IF d = c THEN N ELSE lastp[d]
    BY <1>1, <1>2, Zenon DEF BindingsType, MapsType, LastType
<1>6. ASSUME NEW d \in Contexts, NEW k \in BoundNames
      PROVE  InFront(var'[d], last'[d][k], k) /\ InFront(param'[d], lastp'[d][k], k)
    <2>1. CASE d = c
        BY <1>3, <1>5, <2>1, Zenon DEF InFront
    <2>2. CASE d # c
        BY <1>2, <1>5, <2>2, Zenon DEF ScalarsInFront
    <2> QED BY <2>1, <2>2, Zenon
<1>7. ScalarsInFront'
    BY <1>6, Zenon DEF ScalarsInFront
<1> QED BY <1>4, <1>7, Zenon DEF BindingsInv

\* A call of the host keeps the invariant.
LEMMA BindingsStep == BindingsInv /\ [BindingsNext]_bindVars => BindingsInv'
<1> SUFFICES ASSUME BindingsInv, [BindingsNext]_bindVars PROVE BindingsInv'
    OBVIOUS
<1>1. CASE UNCHANGED bindVars
    BY <1>1, Zenon DEF bindVars, BindingsInv, BindingsType, ScalarsInFront
<1>2. ASSUME NEW c \in Contexts
      PROVE  use.types[c] \subseteq Types /\ use.values[c] \subseteq BindableValues \ {Unset}
    BY BindingsAssumption DEF BindingsInv, BindingsType, BindableValues
<1>3. ASSUME NEW c \in Contexts, NEW n \in BoundNames, NEW t \in use.types[c], NEW v \in use.values[c],
             SetVariable(c, t, n, v)
      PROVE  BindingsInv'
    BY <1>2, <1>3, SetKeepsBindings, Zenon
<1>4. ASSUME NEW c \in Contexts, NEW n \in BoundNames, NEW t \in use.types[c], NEW v \in use.values[c],
             SetParam(c, t, n, v)
      PROVE  BindingsInv'
    BY <1>2, <1>4, SetParamKeepsBindings, Zenon
<1>5. ASSUME NEW c \in Contexts, NEW n \in BoundNames, NEW v \in use.values[c], SetStruct(c, n, v)
      PROVE  BindingsInv'
    BY <1>2, <1>5, SetStructKeepsBindings, Zenon
<1>6. ASSUME NEW c \in Contexts, NEW n \in BoundNames, NEW v \in use.values[c] \cup {Unset},
             SetScope(c, n, v)
      PROVE  BindingsInv'
    <2>1. v \in BindableValues
        BY <1>2, UnsetBindable, Zenon
    <2>2. BindingsType'
        BY <1>6, <2>1, UnsetBindable, Zenon DEF SetScope, BindingsInv, BindingsType, Unbound
    <2> QED BY <1>6, <2>2, Zenon DEF SetScope, BindingsInv, ScalarsInFront
<1>7. ASSUME NEW c \in Contexts, ClearBindings(c) PROVE BindingsInv'
    BY <1>7, ClearKeepsBindings, Zenon
<1> QED BY <1>1, <1>3, <1>4, <1>5, <1>6, <1>7, Zenon DEF BindingsNext

\* For every set of names, values and contexts up to one above another, and
\* every use the host makes of the setters: a typed read returns the number,
\* bool or int64 set last, and a context without a binding reads its parent's
\* (cxpr_context_get_typed, cxpr_context_get_param_typed).
THEOREM ScalarsRead == BindingsSpec => []ScalarWritesWin
<1>1. BindingsInit => BindingsInv
    BY BindingsStart, Zenon
<1>2. BindingsInv /\ [BindingsNext]_bindVars => BindingsInv'
    BY BindingsStep, Zenon
<1>3. BindingsInv => ScalarWritesWin
    BY BindingsCorrect, Zenon
<1> QED BY <1>1, <1>2, <1>3, PTL DEF BindingsSpec

----------------------------------------------------------------------------
(* The tables behind the caches are those of OpenMapProofs. *)

VARIABLES kind, map, ideal

Proved == INSTANCE OpenMapProofs

\* Tables have what the caches in front of them rely on.
LEMMA TablesServe == MapFacts
<1>1. /\ Proved!KeptTables /\ Proved!FoundCells /\ Proved!SetValues /\ Proved!FreeWrites
      /\ Proved!NewEntries /\ Proved!NewTables
    BY Proved!MapFactsHold, TableAssumption, Zenon DEF Proved!MapFacts
<1>3. /\ \A m, n : Proved!FindSlot(m, n) = FindSlot(m, n)
      /\ \A m, n : Proved!Found(m, n) <=> Found(m, n)
      /\ \A m, n : Proved!Lookup(m, n) = Lookup(m, n)
    BY Zenon DEF FindSlot, ProbeLength, Found, Lookup,
       Proved!FindSlot, Proved!ProbeLength, Proved!Found, Proved!Lookup
<1>4. Proved!Table = Table
    BY Zenon DEF Table, Tables, Cell, Proved!Table, Proved!Tables, Proved!Cell
<1>5. \A m : Proved!WellKept(m) <=> WellKept(m)
    BY Zenon DEF WellKept, Sound, Table, Tables, Cell, Single, Reached, Before, Home, Free, Occupied,
       Cardinality, IsFiniteSet, Proved!WellKept, Proved!Sound, Proved!Table, Proved!Tables,
       Proved!Cell, Proved!Single, Proved!Reached, Proved!Before, Proved!Home, Proved!Free,
       Proved!Occupied, Proved!Cardinality, Proved!IsFiniteSet
<1>6. /\ \A m, n : Proved!Absent(m, n) <=> Absent(m, n)
      /\ \A m, f : Proved!Stands(m, f) <=> Stands(m, f)
    BY Zenon DEF Absent, Stands, Free, Proved!Absent, Proved!Stands, Proved!Free
<1>7. Proved!Binding = Binding /\ Proved!Empty = Empty
    BY Zenon DEF Binding, Empty, Proved!Binding, Proved!Empty
<1>8. /\ \A cap : Proved!NewMap(cap) = NewMap(cap)
      /\ \A m : Proved!ClearMap(m) = ClearMap(m)
    BY Zenon DEF NewMap, ClearMap, FreeCells, FreeCell,
       Proved!NewMap, Proved!ClearMap, Proved!FreeCells, Proved!FreeCell
<1>9. \A m, n, v : Proved!SetEntry(m, n, v) = SetEntry(m, n, v)
    BY SMTT(30) DEF SetEntry, Grow, Regrown, Put, Overloaded, NewMap, FreeCells, FreeCell, FindSlot,
       ProbeLength, Found, Proved!SetEntry, Proved!Grow, Proved!Regrown, Proved!Put,
       Proved!Overloaded, Proved!NewMap, Proved!FreeCells, Proved!FreeCell, Proved!FindSlot,
       Proved!ProbeLength, Proved!Found
<1>10. KeptTables
    <2> SUFFICES ASSUME NEW m, WellKept(m)
                 PROVE  /\ m \in Table /\ m.cap \in Nat \ {0} /\ m.count \in Nat
                        /\ WellKept(ClearMap(m)) /\ Stands(ClearMap(m), Empty)
        BY Zenon DEF KeptTables
    <2>1. Proved!WellKept(m)
        BY <1>5, Zenon
    <2>2. /\ m \in Proved!Table /\ m.cap \in Nat \ {0} /\ m.count \in Nat
          /\ Proved!WellKept(Proved!ClearMap(m)) /\ Proved!Stands(Proved!ClearMap(m), Proved!Empty)
        BY <1>1, <2>1, Zenon DEF Proved!KeptTables
    <2>3. Proved!WellKept(ClearMap(m)) /\ Proved!Stands(ClearMap(m), Empty)
        BY <1>7, <1>8, <2>2, Zenon
    <2> QED BY <1>4, <1>5, <1>6, <2>2, <2>3, Zenon
<1>11. FoundCells
    <2> SUFFICES ASSUME NEW m, NEW n \in Names, WellKept(m)
                 PROVE  /\ FindSlot(m, n) \in 0 .. m.cap - 1 /\ m.cells[FindSlot(m, n)].name \in {n, NoName}
                        /\ \A i \in 0 .. m.cap - 1 : m.cells[i].name = n =>
                              Found(m, n) /\ FindSlot(m, n) = i /\ Lookup(m, n) = m.cells[i].value
                        /\ Absent(m, n) => ~Found(m, n) /\ Lookup(m, n) = NoValue
        BY Zenon DEF FoundCells
    <2>1. /\ Proved!FindSlot(m, n) \in 0 .. m.cap - 1
          /\ m.cells[Proved!FindSlot(m, n)].name \in {n, NoName}
          /\ \A i \in 0 .. m.cap - 1 : m.cells[i].name = n =>
                /\ Proved!Found(m, n) /\ Proved!FindSlot(m, n) = i
                /\ Proved!Lookup(m, n) = m.cells[i].value
          /\ Proved!Absent(m, n) => ~Proved!Found(m, n) /\ Proved!Lookup(m, n) = NoValue
        BY <1>1, <1>5, Zenon DEF Proved!FoundCells
    <2>2. /\ Proved!FindSlot(m, n) = FindSlot(m, n) /\ Proved!Lookup(m, n) = Lookup(m, n)
          /\ Proved!Found(m, n) <=> Found(m, n)
          /\ Proved!Absent(m, n) <=> Absent(m, n)
        BY <1>3, <1>6, Zenon
    <2>3. FindSlot(m, n) \in 0 .. m.cap - 1 /\ m.cells[FindSlot(m, n)].name \in {n, NoName}
        BY <2>1, <2>2, Zenon
    <2>4. \A i \in 0 .. m.cap - 1 : m.cells[i].name = n =>
             Found(m, n) /\ FindSlot(m, n) = i /\ Lookup(m, n) = m.cells[i].value
        BY <2>1, <2>2, Zenon
    <2>5. Absent(m, n) => ~Found(m, n) /\ Lookup(m, n) = NoValue
        BY <2>1, <2>2, Zenon
    <2> QED BY <2>3, <2>4, <2>5, Zenon
<1>12. /\ \A m, q, n, v : Proved!Rebinds(m, q, n, v) <=> Rebinds(m, q, n, v)
       /\ \A m, n : Proved!HasCell(m, n) <=> HasCell(m, n)
       /\ \A m, q : Proved!CellsStay(m, q) <=> CellsStay(m, q)
       /\ \A m, i, n : Proved!IsCellOf(m, i, n) <=> IsCellOf(m, i, n)
    <2>1. \A m, q, n, v : Proved!Rebinds(m, q, n, v) <=> Rebinds(m, q, n, v)
        BY <1>5, <1>6, <1>7, Zenon DEF Rebinds, Proved!Rebinds
    <2>2. \A m, n : Proved!HasCell(m, n) <=> HasCell(m, n)
        BY Zenon DEF HasCell, FindSlot, ProbeLength, Proved!HasCell, Proved!FindSlot, Proved!ProbeLength
    <2>3. \A m, q : Proved!CellsStay(m, q) <=> CellsStay(m, q)
        BY Zenon DEF CellsStay, Free, Proved!CellsStay, Proved!Free
    <2>4. \A m, i, n : Proved!IsCellOf(m, i, n) <=> IsCellOf(m, i, n)
        BY Zenon DEF IsCellOf, Proved!IsCellOf
    <2> QED BY <2>1, <2>2, <2>3, <2>4, Zenon
<1>13. SetValues /\ NewEntries
    <2>1. ASSUME NEW m, NEW n, NEW i, NEW v, WellKept(m), IsCellOf(m, i, n), v \in Values \cup {NoValue}
          PROVE  Rebinds(m, [m EXCEPT !.cells[i].value = v], n, v)
        <3>1. Proved!WellKept(m) /\ Proved!IsCellOf(m, i, n)
            BY <1>5, <1>12, <2>1, Zenon
        <3>2. Proved!Rebinds(m, [m EXCEPT !.cells[i].value = v], n, v)
            BY <1>1, <2>1, <3>1, Zenon DEF Proved!SetValues
        <3> QED BY <1>12, <3>2, Zenon
    <2>2. ASSUME NEW m, NEW n \in Names, NEW v \in Values \cup {NoValue}, WellKept(m), Absent(m, n)
          PROVE  /\ Rebinds(m, SetEntry(m, n, v), n, v)
                 /\ HasCell(SetEntry(m, n, v), n) /\ CellsStay(m, SetEntry(m, n, v))
        <3> DEFINE q == SetEntry(m, n, v)
                   p == Proved!SetEntry(m, n, v)
        <3>1. Proved!WellKept(m) /\ Proved!Absent(m, n) /\ p = q
            BY <1>5, <1>6, <1>9, <2>2, Zenon
        <3>2. Proved!Rebinds(m, p, n, v) /\ Proved!HasCell(p, n) /\ Proved!CellsStay(m, p)
            BY <1>1, <2>2, <3>1, Zenon DEF Proved!NewEntries
        <3> HIDE DEF p, q
        <3>3. Rebinds(m, q, n, v) /\ HasCell(q, n) /\ CellsStay(m, q)
            BY <1>12, <3>1, <3>2, Zenon
        <3> QED BY <3>3, Zenon DEF q
    <2> QED BY <2>1, <2>2, Zenon DEF SetValues, NewEntries
<1>15. FreeWrites
    <2> SUFFICES ASSUME NEW m, NEW i, NEW v, WellKept(m), i \in 0 .. m.cap - 1, Free(m, i),
                        v \in Values \cup {NoValue}
                 PROVE  /\ WellKept([m EXCEPT !.cells[i].value = v])
                        /\ \A f \in Binding : Stands(m, f) => Stands([m EXCEPT !.cells[i].value = v], f)
        BY Zenon DEF FreeWrites
    <2>1. Proved!WellKept(m) /\ Proved!Free(m, i)
        BY <1>5, Zenon DEF Free, Proved!Free
    <2>2. /\ Proved!WellKept([m EXCEPT !.cells[i].value = v])
          /\ \A f \in Proved!Binding :
                Proved!Stands(m, f) => Proved!Stands([m EXCEPT !.cells[i].value = v], f)
        BY <1>1, <2>1, Zenon DEF Proved!FreeWrites
    <2> QED BY <1>5, <1>6, <1>7, <2>2, Zenon
<1>14. NewTables
    <2> SUFFICES ASSUME NEW cap \in Nat \ {0}
                 PROVE  WellKept(NewMap(cap)) /\ Stands(NewMap(cap), Empty)
        BY Zenon DEF NewTables
    <2>1. Proved!WellKept(Proved!NewMap(cap)) /\ Proved!Stands(Proved!NewMap(cap), Proved!Empty)
        BY <1>1, Zenon DEF Proved!NewTables
    <2>2. Proved!WellKept(NewMap(cap)) /\ Proved!Stands(NewMap(cap), Empty)
        BY <1>7, <1>8, <2>1, Zenon
    <2> QED BY <1>5, <1>6, <2>2, Zenon
<1> QED BY <1>10, <1>11, <1>13, <1>14, <1>15, Zenon DEF MapFacts

\* For every table size, cache size and placement of names and pointers, and
\* wherever tables are allocated: a read through either cache returns the value
\* set last under the name, unless a table has been placed where a bucket of the
\* hash cache still points and the context has not been cleared since
\* (cxpr_context_lookup_cached_entry).
THEOREM CachesTransparent == NumbersSpec => []ReadsAreSets
BY TablesServe, CachesFollowTable, Zenon

============================================================================
