------------------------------ MODULE OpenMap ------------------------------
(***************************************************************************)
(* The open-addressing tables of cxpr contexts: the string-to-double map   *)
(* (src/hashmap/hashmap.c) and the owned struct and array maps             *)
(* (src/struct.c, the two differ only in the payload).  A table is its     *)
(* capacity, its count and its cells; a cell holds a name and a value or   *)
(* is free.  Probing is linear from the name's hash and stops at the name  *)
(* or at the first free cell.                                              *)
(***************************************************************************)
EXTENDS Naturals, FiniteSets

CONSTANTS Names,     \* the names that are bound
          Values,    \* what they are bound to
          NoName,    \* the NULL key of a free cell
          NoValue,   \* what a free cell holds (0.0, NULL)
          Hash,      \* cxpr_hash_string: Names -> Nat
          InitialCapacity  \* CXPR_HASHMAP_INITIAL_CAPACITY

ASSUME TableAssumption == /\ Hash \in [Names -> Nat]
                          /\ InitialCapacity \in Nat \ {0}
                          /\ NoName \notin Names

FreeCell == [name |-> NoName, value |-> NoValue]

FreeCells(cap) == [i \in 0..cap - 1 |-> FreeCell]

\* cxpr_hashmap_init with InitialCapacity; a struct or array map gets the same
\* on its first store.
NewMap(cap) == [cap |-> cap, count |-> 0, cells |-> FreeCells(cap)]

\* How many cells a probe for n passes before it stops.
ProbeLength(cells, cap, n) ==
  CHOOSE d \in 0..cap - 1 :
     /\ cells[(Hash[n] + d) % cap].name \in {n, NoName}
     /\ \A e \in 0..d - 1 : cells[(Hash[n] + e) % cap].name \notin {n, NoName}

\* cxpr_struct_map_find_slot: the cell of n, or the free cell n would take.
FindSlot(m, n) == (Hash[n] + ProbeLength(m.cells, m.cap, n)) % m.cap

Found(m, n) == m.count > 0 /\ m.cells[FindSlot(m, n)].name = n

Lookup(m, n) == IF Found(m, n) THEN m.cells[FindSlot(m, n)].value ELSE NoValue

\* A full table has no cell at which the probe of an absent name stops.
ProbeStops(m) == \E i \in 0..m.cap - 1 : m.cells[i].name = NoName

Put(m, cell) ==
  [m EXCEPT !.cells[FindSlot(m, cell.name)] = cell]

\* The larger table after each of the cells of m, in the order of the C loop.
Regrown(m) ==
  LET t[i \in 0..m.cap] ==
        IF i = 0 THEN [NewMap(2 * m.cap) EXCEPT !.count = m.count]
        ELSE IF m.cells[i - 1].name = NoName THEN t[i - 1]
        ELSE Put(t[i - 1], m.cells[i - 1])
  IN  t

\* cxpr_hashmap_grow: every cell is placed again in a table twice the size.
Grow(m) == Regrown(m)[m.cap]

\* (count + 1) / capacity > CXPR_HASHMAP_LOAD_FACTOR, which is 0.75.
Overloaded(m) == 4 * (m.count + 1) > 3 * m.cap

\* cxpr_hashmap_set: grows only when the name is new.
SetEntry(m, n, v) ==
  IF Found(m, n)
    THEN [m EXCEPT !.cells[FindSlot(m, n)].value = v]
    ELSE LET g == IF Overloaded(m) THEN Grow(m) ELSE m
         IN  [Put(g, [name |-> n, value |-> v]) EXCEPT !.count = @ + 1]

\* A store that counts a name it overwrites.
StoreEntryCounting(m, n, v, grows) ==
  IF Overloaded(m) /\ ~grows
    THEN m
    ELSE LET g == IF Overloaded(m) THEN Grow(m) ELSE m
         IN  [Put(g, [name |-> n, value |-> v]) EXCEPT !.count = @ + 1]

\* cxpr_context_store_struct, cxpr_context_store_array: the load is tested
\* before the name is looked up, and a failed growth gives the store up.
StoreEntry(m, n, v, grows) ==
  IF Overloaded(m) /\ ~grows
    THEN m
    ELSE LET g == IF Overloaded(m) THEN Grow(m) ELSE m
             new == g.cells[FindSlot(g, n)].name = NoName
         IN  [Put(g, [name |-> n, value |-> v]) EXCEPT !.count = @ + (IF new THEN 1 ELSE 0)]

\* The cell at i is taken out and placed again where its probe now stops.
Replace(m, i) ==
  LET cell == m.cells[i]
  IN  Put([m EXCEPT !.cells[i] = FreeCell], cell)

\* A removal that leaves the rest of the cluster where it is.
RemoveEntryOnly(m, n) ==
  IF Found(m, n)
    THEN [m EXCEPT !.cells[FindSlot(m, n)] = FreeCell, !.count = @ - 1]
    ELSE m

\* The table from whose cell s a name was taken, after each of the cells that
\* follow: a cell is placed again, until the first free one stops the loop.
Refilled(m, s) ==
  LET r[d \in 0..m.cap - 1] ==
        IF d = 0 THEN [map |-> m, stopped |-> FALSE]
        ELSE LET acc == r[d - 1]
                 i == (s + d) % m.cap
             IN  IF acc.stopped \/ acc.map.cells[i].name = NoName
                   THEN [acc EXCEPT !.stopped = TRUE]
                   ELSE [acc EXCEPT !.map = Replace(acc.map, i)]
  IN  r

\* cxpr_context_remove_struct, cxpr_context_remove_array: after the name's cell
\* is freed the cells that follow it are placed again.
RemoveEntry(m, n) ==
  IF ~Found(m, n)
    THEN m
    ELSE LET s == FindSlot(m, n)
             hole == [m EXCEPT !.cells[s] = FreeCell, !.count = @ - 1]
         IN  Refilled(hole, s)[m.cap - 1].map

\* cxpr_hashmap_clear, cxpr_struct_map_clear: the capacity is kept.
ClearMap(m) == [m EXCEPT !.count = 0, !.cells = FreeCells(m.cap)]

\* cxpr_hashmap_clone copies the cells where they are.
CloneMap(m) == m

\* The clone after each of the cells of m.
Recloned(m) ==
  LET t[i \in 0..m.cap] ==
        IF i = 0 THEN NewMap(InitialCapacity)
        ELSE IF m.cells[i - 1].name = NoName THEN t[i - 1]
        ELSE StoreEntry(t[i - 1], m.cells[i - 1].name, m.cells[i - 1].value, TRUE)
  IN  t

\* cxpr_struct_map_clone, cxpr_array_map_clone store the cells again, in
\* order, in a table of the initial capacity; an empty map stays unallocated,
\* which reads like an empty table.
CloneByStoring(m) == Recloned(m)[m.cap]

\* The mapping a table stands for.
Bindings(m) == [n \in Names |-> Lookup(m, n)]

----------------------------------------------------------------------------
(* Tables: what makes one well kept, what it stands for, and what the caches in
   front of it rely on.  That every table has these is shown in OpenMapProofs. *)

Cell == [name : Names \cup {NoName}, value : Values \cup {NoValue}]

Tables(cap) == [cap : {cap}, count : Nat, cells : [0 .. cap - 1 -> Cell]]

Table == UNION {Tables(cap) : cap \in Nat \ {0}}

\* Going round from h, j is met before i.
Before(h, j, i) == IF h <= i THEN h <= j /\ j < i ELSE h <= j \/ j < i

Home(n, cap) == Hash[n] % cap

Free(m, i) == m.cells[i].name = NoName

Occupied(m) == {i \in 0 .. m.cap - 1 : ~Free(m, i)}

\* No name has two cells.
Single(m) ==
  \A i, j \in 0 .. m.cap - 1 : ~Free(m, i) /\ m.cells[i].name = m.cells[j].name => i = j

\* A probe for the name in cell i arrives there.
Reached(m, i) ==
  \A j \in 0 .. m.cap - 1 : Before(Home(m.cells[i].name, m.cap), j, i) => ~Free(m, j)

Sound(m) == /\ m \in Table
            /\ Single(m)
            /\ \A i \in 0 .. m.cap - 1 : ~Free(m, i) => Reached(m, i)

Roomy(m) == \E i \in 0 .. m.cap - 1 : Free(m, i)

\* A table that is sound, counts its cells and is at most three quarters full.
WellKept(m) == /\ Sound(m)
               /\ m.count = Cardinality(Occupied(m))
               /\ 4 * m.count <= 3 * m.cap

\* The name has no cell.
Absent(m, n) == \A i \in 0 .. m.cap - 1 : m.cells[i].name # n

\* Cell i of the table is the one of n.
IsCellOf(m, i, n) == n \in Names /\ i \in 0 .. m.cap - 1 /\ m.cells[i].name = n

Binding == [Names -> Values \cup {NoValue}]

\* The names that have a cell are bound to its value, the others to nothing.
Stands(m, f) ==
  /\ \A i \in 0 .. m.cap - 1 : ~Free(m, i) => m.cells[i].value = f[m.cells[i].name]
  /\ \A n \in Names : Absent(m, n) => f[n] = NoValue

Empty == [n \in Names |-> NoValue]

KeptTables ==
  \A m : WellKept(m) =>
     /\ m \in Table /\ m.cap \in Nat \ {0} /\ m.count \in Nat
     /\ WellKept(ClearMap(m)) /\ Stands(ClearMap(m), Empty)

FoundCells ==
  \A m, n : WellKept(m) /\ n \in Names =>
     /\ FindSlot(m, n) \in 0 .. m.cap - 1 /\ m.cells[FindSlot(m, n)].name \in {n, NoName}
     /\ \A i \in 0 .. m.cap - 1 : m.cells[i].name = n => /\ Found(m, n) /\ FindSlot(m, n) = i
                                                       /\ Lookup(m, n) = m.cells[i].value
     /\ Absent(m, n) => ~Found(m, n) /\ Lookup(m, n) = NoValue

\* Table q is table m with n bound to v.
Rebinds(m, q, n, v) ==
  WellKept(q) /\ \A f \in Binding : Stands(m, f) => Stands(q, [f EXCEPT ![n] = v])

HasCell(m, n) == FindSlot(m, n) \in 0 .. m.cap - 1 /\ m.cells[FindSlot(m, n)].name = n

\* No cell of m moved, or the table grew.
CellsStay(m, q) ==
  /\ q.cap >= m.cap
  /\ q.cap = m.cap => \A j \in 0 .. m.cap - 1 : ~Free(m, j) => q.cells[j] = m.cells[j]

SetValues ==
  \A m, n, i, v : WellKept(m) /\ IsCellOf(m, i, n) /\ v \in Values \cup {NoValue} =>
     Rebinds(m, [m EXCEPT !.cells[i].value = v], n, v)

\* A value written into a free cell, through a handle to what it once was.
FreeWrites ==
  \A m, i, v : WellKept(m) /\ i \in 0 .. m.cap - 1 /\ Free(m, i) /\ v \in Values \cup {NoValue} =>
     /\ WellKept([m EXCEPT !.cells[i].value = v])
     /\ \A f \in Binding : Stands(m, f) => Stands([m EXCEPT !.cells[i].value = v], f)

NewEntries ==
  \A m, n, v : WellKept(m) /\ n \in Names /\ Absent(m, n) /\ v \in Values \cup {NoValue} =>
     /\ Rebinds(m, SetEntry(m, n, v), n, v)
     /\ HasCell(SetEntry(m, n, v), n) /\ CellsStay(m, SetEntry(m, n, v))

NewTables ==
  \A cap \in Nat \ {0} : WellKept(NewMap(cap)) /\ Stands(NewMap(cap), Empty)

MapFacts == KeptTables /\ FoundCells /\ SetValues /\ FreeWrites /\ NewEntries /\ NewTables
=============================================================================
