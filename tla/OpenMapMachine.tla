-------------------------- MODULE OpenMapMachine --------------------------
(***************************************************************************)
(* The operations of a context table as a state machine.  A table is       *)
(* either the numeric map, which only grows and is cleared, or an owned    *)
(* map, from which names are also removed and whose growth may fail.       *)
(* "ideal" is what the caller stored last under each name.                 *)
(***************************************************************************)
EXTENDS OpenMap

VARIABLES kind, map, ideal

mapVars == <<kind, map, ideal>>

Kinds == {"numeric", "owned"}

MapInit ==
  /\ kind \in Kinds
  /\ map = NewMap(InitialCapacity)
  /\ ideal = [n \in Names |-> NoValue]

\* cxpr_hashmap_set, cxpr_hashmap_set_prehashed.
MapSet(n, v) ==
  /\ kind = "numeric"
  /\ map' = SetEntry(map, n, v)
  /\ ideal' = [ideal EXCEPT ![n] = v]
  /\ UNCHANGED kind

\* cxpr_context_store_struct; when the table cannot grow nothing is stored.
MapStore(n, v, grows) ==
  /\ kind = "owned"
  /\ map' = StoreEntry(map, n, v, grows)
  /\ ideal' = IF Overloaded(map) /\ ~grows THEN ideal ELSE [ideal EXCEPT ![n] = v]
  /\ UNCHANGED kind

MapRemove(n) ==
  /\ kind = "owned"
  /\ map' = RemoveEntry(map, n)
  /\ ideal' = [ideal EXCEPT ![n] = NoValue]
  /\ UNCHANGED kind

MapClear ==
  /\ map' = ClearMap(map)
  /\ ideal' = [n \in Names |-> NoValue]
  /\ UNCHANGED kind

\* A context is cloned and the clone is used from then on.
MapClone ==
  /\ map' = IF kind = "numeric" THEN CloneMap(map) ELSE CloneByStoring(map)
  /\ UNCHANGED <<kind, ideal>>

MapNext ==
  \/ \E n \in Names, v \in Values : MapSet(n, v)
  \/ \E n \in Names, v \in Values, grows \in BOOLEAN : MapStore(n, v, grows)
  \/ \E n \in Names : MapRemove(n)
  \/ MapClear
  \/ MapClone

MapSpec == MapInit /\ [][MapNext]_mapVars

\* Every lookup returns what was stored last under the name: neither a
\* collision, a growth, the re-placing of a cluster after a removal nor a
\* clone loses, hides or revives a binding.  The count is the number of
\* occupied cells and stays within the load factor, so that a probe for an
\* absent name stops (the loops of find_prehashed_slot and find_slot have no
\* other bound).
LookupsAreStores == /\ Bindings(map) = ideal
                    /\ map.count = Cardinality({i \in 0..map.cap - 1 : map.cells[i].name # NoName})
                    /\ 4 * map.count <= 3 * map.cap
                    /\ ProbeStops(map)
=============================================================================
