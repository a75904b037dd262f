--------------------------- MODULE ContextNumbers ---------------------------
(***************************************************************************)
(* The numeric bindings of one context (src/context/values.c, cache.c,     *)
(* slot.c): the open-addressing table, the two direct-mapped caches in     *)
(* front of it, the slot handle a host binds for its hot loop, and clear.  *)
(*                                                                         *)
(* The hash cache is indexed by the name's hash and trusts its slot once   *)
(* the base, hash and name agree.  The pointer cache is indexed by the     *)
(* address of the caller's string and compares the name in the cell.  A    *)
(* caller may pass the same buffer with another name in it (set_fields     *)
(* does), so a call is a pointer and a name.                               *)
(*                                                                         *)
(* A table is told from another by its address only.  A grown table may be *)
(* placed at the address of an earlier one, which is free by then; the     *)
(* history variable "reused" records that a bucket of the hash cache still *)
(* carries the address a table was given.  A clear leaves the table where  *)
(* it is, and the host's slot as it was.                                   *)
(***************************************************************************)
EXTENDS OpenMap

CONSTANTS Pointers,     \* addresses of the callers' name strings
          CacheSize,    \* CXPR_CONTEXT_ENTRY_CACHE_SIZE
          PointerBucket, \* the pointer-cache bucket of an address
          SlotNames,    \* the names the host binds its slot to
          Bases,        \* the addresses at which calloc places a table
          NoBase        \* NULL

ASSUME NumbersAssumption == /\ CacheSize \in Nat \ {0}
                            /\ PointerBucket \in [Pointers -> 0..CacheSize - 1]
                            /\ SlotNames \subseteq Names
                            /\ Bases # {} /\ NoBase \notin Bases

VARIABLES variables,  \* ctx->variables
          base,       \* ctx->variables.entries, as an address
          cache,      \* ctx->variable_cache
          pcache,     \* ctx->variable_ptr_cache
          slot,       \* the host's cxpr_context_slot
          assigned,   \* what was set last under each name, NoValue if nothing
          reused      \* a table was placed where a bucket still points

numberVars == <<variables, base, cache, pcache, slot, assigned, reused>>

Unused == [key |-> NoName, hash |-> 0, slot |-> 0, base |-> NoBase]

UnusedPointer == [ptr |-> NoName, slot |-> 0, base |-> NoBase]

NoSlot == [name |-> NoName, slot |-> 0, base |-> NoBase]

NumbersInit ==
  /\ variables = NewMap(InitialCapacity)
  /\ base = CHOOSE b \in Bases : TRUE
  /\ cache = [b \in 0..CacheSize - 1 |-> Unused]
  /\ pcache = [b \in 0..CacheSize - 1 |-> UnusedPointer]
  /\ slot = NoSlot
  /\ assigned = [n \in Names |-> NoValue]
  /\ reused = FALSE

\* cxpr_context_cache_bucket: hash & (CXPR_CONTEXT_ENTRY_CACHE_SIZE - 1).
Bucket(n) == Hash[n] % CacheSize

\* A pointer cache that takes an equal address for an equal name.
PointerHitUnchecked(p, n) ==
  LET b == pcache[PointerBucket[p]]
  IN  b.base = base /\ b.ptr = p

\* cxpr_context_lookup_pointer_cached_entry: the address may carry another
\* name by now, so the name in the cell is compared.
PointerHit(p, n) ==
  LET b == pcache[PointerBucket[p]]
  IN  b.base = base /\ b.ptr = p /\ variables.cells[b.slot].name = n

\* A hash cache that does not ask which table its slot is of.
HashHitAnyTable(n) ==
  LET b == cache[Bucket(n)]
  IN  b.base # NoBase /\ b.hash = Hash[n] /\ b.key = n

\* The bucket test of cxpr_context_lookup_cached_entry.
HashHit(n) ==
  LET b == cache[Bucket(n)]
  IN  b.base = base /\ b.hash = Hash[n] /\ b.key = n

\* Where a call with pointer p and name n finds its entry, if it does.
Entry(p, n) ==
  CASE PointerHit(p, n) -> {pcache[PointerBucket[p]].slot}
    [] ~PointerHit(p, n) /\ HashHit(n) -> {cache[Bucket(n)].slot}
    [] OTHER -> IF Found(variables, n) THEN {FindSlot(variables, n)} ELSE {}

\* What cxpr_context_get_typed reads as the number of n.
ReadNumber(p, n) ==
  IF Entry(p, n) = {} THEN NoValue
                      ELSE variables.cells[CHOOSE i \in Entry(p, n) : TRUE].value

\* cxpr_context_refresh_cache, and the fill of lookup_cached_entry.
CacheEntry(n, i, b) ==
  cache' = [cache EXCEPT ![Bucket(n)] = [key |-> n, hash |-> Hash[n], slot |-> i, base |-> b]]

\* cxpr_context_refresh_pointer_cache.
CachePointer(p, i, b) ==
  pcache' = [pcache EXCEPT ![PointerBucket[p]] = [ptr |-> p, slot |-> i, base |-> b]]

\* The addresses calloc may return for the new table: the old one is freed
\* only after the copy.
NewBases == Bases \ {base}

\* cxpr_context_set through cxpr_context_set_hashed: pointer cache, hash
\* cache, then the table, which may grow.
SetNumber(p, n, v) ==
  /\ assigned' = [assigned EXCEPT ![n] = v]
  /\ UNCHANGED slot
  /\ IF Entry(p, n) # {}
       THEN \E i \in Entry(p, n) :
              /\ variables' = [variables EXCEPT !.cells[i].value = v]
              /\ UNCHANGED <<base, reused>>
              /\ IF PointerHit(p, n)
                   THEN UNCHANGED <<cache, pcache>>
                   ELSE /\ CachePointer(p, i, base)
                        /\ IF HashHit(n) THEN UNCHANGED cache ELSE CacheEntry(n, i, base)
       ELSE /\ variables' = SetEntry(variables, n, v)
            /\ IF variables'.cap = variables.cap THEN base' = base ELSE base' \in NewBases
            /\ CacheEntry(n, FindSlot(variables', n), base')
            /\ CachePointer(p, FindSlot(variables', n), base')
            /\ reused' = (reused \/ /\ base' # base
                                    /\ \E b \in 0..CacheSize - 1 : b # Bucket(n) /\ cache[b].base = base')

\* cxpr_context_get_typed on a name that is bound as a number or not at all;
\* a miss empties the bucket.
GetNumber(p, n) ==
  /\ UNCHANGED <<variables, base, slot, assigned, reused>>
  /\ ~PointerHit(p, n)
  /\ IF Entry(p, n) = {}
       THEN /\ cache' = [cache EXCEPT ![Bucket(n)] = Unused]
            /\ UNCHANGED pcache
       ELSE \E i \in Entry(p, n) :
              /\ IF HashHit(n) THEN UNCHANGED cache ELSE CacheEntry(n, i, base)
              /\ CachePointer(p, i, base)

\* cxpr_context_slot_bind.
SlotBind(n) ==
  /\ slot' = IF Found(variables, n) THEN [name |-> n, slot |-> FindSlot(variables, n), base |-> base]
                              ELSE NoSlot
  /\ UNCHANGED <<variables, base, cache, pcache, assigned, reused>>

\* cxpr_context_slot_valid compares base pointers and nothing else.
SlotValid == slot # NoSlot /\ slot.base = base

\* cxpr_context_slot_set, by a host that checks cxpr_context_slot_valid first:
\* the variable whose cell it is by now is set, or none if the cell is free.
SlotSet(v) ==
  /\ SlotValid
  /\ variables' = [variables EXCEPT !.cells[slot.slot].value = v]
  /\ assigned' = [n \in Names |-> IF variables.cells[slot.slot].name = n THEN v ELSE assigned[n]]
  /\ UNCHANGED <<base, cache, pcache, slot, reused>>

\* cxpr_context_clear: the table stays where it is, and bound slots stay bound.
ClearNumbers ==
  /\ variables' = ClearMap(variables)
  /\ cache' = [b \in 0..CacheSize - 1 |-> Unused]
  /\ pcache' = [b \in 0..CacheSize - 1 |-> UnusedPointer]
  /\ assigned' = [n \in Names |-> NoValue]
  /\ reused' = FALSE
  /\ UNCHANGED <<base, slot>>

NumbersNext ==
  \/ \E p \in Pointers, n \in Names, v \in Values : SetNumber(p, n, v)
  \/ \E p \in Pointers, n \in Names : GetNumber(p, n)
  \/ \E n \in SlotNames : SlotBind(n)
  \/ \E v \in Values : SlotSet(v)
  \/ ClearNumbers

NumbersSpec == NumbersInit /\ [][NumbersNext]_numberVars

----------------------------------------------------------------------------
\* Whatever pointer the caller passes, and whatever the two caches hold, a
\* read of a name returns the value set last under it, and NoValue after a
\* clear (cxpr_context_get_typed, structs.c:89-107).  The one exception is a
\* table that calloc places where a bucket of the hash cache still points
\* (cache.c:46 compares the address and not the cell); a clear ends it.  The
\* pointer cache, which compares the name in the cell, needs no exception.
ReadsAreSets ==
  reused \/ \A p \in Pointers, n \in Names : ReadNumber(p, n) = assigned[n]

\* A slot that cxpr_context_slot_valid accepts is the cell of the variable it
\* was bound to (context.h:187: "True when the slot is still safe to use").
ValidSlotIsSafe ==
  SlotValid => variables.cells[slot.slot].name = slot.name
=============================================================================
