---------------------------- MODULE LookupCache ----------------------------
(***************************************************************************)
(* The per-instruction lookup cache of a compiled expression               *)
(* (src/ir/program.c, src/ir/exec/fast.c) together with what it depends    *)
(* on: the contexts it is evaluated against, their version counters, and   *)
(* the free list from which empty overlays are recycled                    *)
(* (src/context/lifecycle.c).                                              *)
(*                                                                         *)
(* The program has one LOAD_VAR of the name Loaded.  A context is its      *)
(* address.  The address of an entry table is not kept: it changes when    *)
(* the table grows, and the growth bumps the version that the cache        *)
(* compares too.  A context is made at any address that holds none; an     *)
(* overlay is made over any live context, at most two above a root, at the *)
(* head of the free list when that is not empty.  Either address may be    *)
(* one the cache still remembers.  The version fingerprint is the sequence *)
(* of versions it hashes; of a root the version itself is kept, which      *)
(* "rooted" tells from a fingerprint.                                      *)
(*                                                                         *)
(* Two history variables, "walk" and "aliased", record the contexts the    *)
(* cached walk went through, and whether a context has been made since at  *)
(* one of them that is not what the walk met there.                        *)
(***************************************************************************)
EXTENDS OpenMap, Sequences

CONSTANTS Addresses,   \* where contexts are allocated
          Loaded,      \* the name the instruction loads
          HostValues,  \* the names the host sets -> what it sets them to
          FreeListMax, \* CXPR_OVERLAY_CONTEXT_CACHE_MAX
          MaxChanges,  \* bound on the changes that live contexts have seen
          NoContext, TrueValue

ASSUME LoadsAssumption ==
  /\ NoContext \notin Addresses
  /\ Loaded \in Names /\ DOMAIN HostValues \subseteq Names
  /\ \A n \in DOMAIN HostValues : HostValues[n] \subseteq Values \cup {NoValue}
  /\ MaxChanges \in Nat /\ FreeListMax \in Nat

VARIABLES state,    \* address -> "unused", "live" or "listed"
          parent,   \* address -> the parent context
          table,    \* address -> its variables
          bools,    \* address -> the names bound as bool
          version,  \* address -> variables_version
          free,     \* the thread's list of empty overlays
          lookup,   \* program->lookup_cache[ip]
          walk,     \* the contexts from the cached request to its owner
          aliased   \* one of them is a context the walk did not meet

loadVars == <<state, parent, table, bools, version, free, lookup, walk, aliased>>

NotCached == [request |-> NoContext, owner |-> NoContext, rooted |-> FALSE, slot |-> 0,
              shadow |-> <<>>]

LoadsInit ==
  /\ state = [c \in Addresses |-> "unused"]
  /\ parent = [c \in Addresses |-> NoContext]
  /\ table = [c \in Addresses |-> NewMap(InitialCapacity)]
  /\ bools = [c \in Addresses |-> {}]
  /\ version = [c \in Addresses |-> 1]
  /\ free = <<>>
  /\ lookup = NotCached /\ walk = <<>> /\ aliased = FALSE

Live == {c \in Addresses : state[c] = "live"}

\* The changes that the contexts have counted, one less than its version each.
Changes == UNION {{<<c, k>> : k \in 1..version[c] - 1} : c \in Addresses}

\* The variables of the context at c as they are when it is just made.
Reset(c) ==
  /\ table' = [table EXCEPT ![c] = NewMap(InitialCapacity)]
  /\ bools' = [bools EXCEPT ![c] = {}]
  /\ version' = [version EXCEPT ![c] = 1]

\* A context made at c with parent p is not the one of the cached walk: it is a
\* new one, or a recycled one over another parent than the walk went to.
Aliases(c, p) ==
  \E i \in DOMAIN walk : /\ walk[i] = c
                         /\ state[c] = "unused" \/ (i < Len(walk) /\ walk[i + 1] # p)

\* A context at c with parent p, NoContext for none.
Make(c, p) ==
  /\ state' = [state EXCEPT ![c] = "live"]
  /\ parent' = [parent EXCEPT ![c] = p]
  /\ Reset(c)
  /\ aliased' = (aliased \/ Aliases(c, p))
  /\ UNCHANGED <<lookup, walk>>

\* cxpr_context_new.
ContextNew(c) ==
  /\ state[c] = "unused"
  /\ Make(c, NoContext)
  /\ UNCHANGED free

\* cxpr_context_overlay_new: the head of the free list, reset, or a new one.
OverlayNew(c, p) ==
  /\ IF free # <<>> THEN c = Head(free) ELSE state[c] = "unused"
  /\ p \in Live
  /\ parent[p] # NoContext => parent[parent[p]] = NoContext
  /\ Make(c, p)
  /\ free' = IF free # <<>> THEN Tail(free) ELSE free

\* cxpr_context_can_cache_empty_overlay, and room in the list.
Recyclable(c) ==
  /\ parent[c] # NoContext
  /\ version[c] = 1 /\ table[c].count = 0 /\ bools[c] = {}
  /\ Len(free) < FreeListMax

\* cxpr_context_free of a context nothing is layered over; what a destroyed
\* one held is gone with it.
ContextFree(c) ==
  /\ c \in Live
  /\ \A d \in Live : parent[d] # c
  /\ state' = [state EXCEPT ![c] = IF Recyclable(c) THEN "listed" ELSE "unused"]
  /\ free' = IF Recyclable(c) THEN <<c>> \o free ELSE free
  /\ parent' = [parent EXCEPT ![c] = NoContext]
  /\ Reset(c)
  /\ UNCHANGED <<lookup, walk, aliased>>

\* cxpr_context_set: the version counts insertions, not updates.
SetNumberIn(c, n, v) ==
  /\ c \in Live
  /\ Found(table[c], n) \/ Cardinality(Changes) < MaxChanges
  /\ table' = [table EXCEPT ![c] = SetEntry(@, n, v)]
  /\ bools' = [bools EXCEPT ![c] = @ \ {n}]
  /\ version' = [version EXCEPT ![c] = IF Found(table[c], n) THEN @ ELSE @ + 1]
  /\ UNCHANGED <<state, parent, free, lookup, walk, aliased>>

\* cxpr_context_set_bool: the version counts every call.
SetBoolIn(c, n) ==
  /\ c \in Live
  /\ Cardinality(Changes) < MaxChanges
  /\ bools' = [bools EXCEPT ![c] = @ \cup {n}]
  /\ version' = [version EXCEPT ![c] = @ + 1]
  /\ UNCHANGED <<state, parent, table, free, lookup, walk, aliased>>

\* cxpr_context_clear: the table keeps its base.
ClearContext(c) ==
  /\ c \in Live
  /\ Cardinality(Changes) < MaxChanges
  /\ table' = [table EXCEPT ![c] = ClearMap(@)]
  /\ bools' = [bools EXCEPT ![c] = {}]
  /\ version' = [version EXCEPT ![c] = @ + 1]
  /\ UNCHANGED <<state, parent, free, lookup, walk, aliased>>

\* A context and its ancestors, itself first.
Ancestry(c) ==
  IF parent[c] = NoContext THEN <<c>>
  ELSE IF parent[parent[c]] = NoContext THEN <<c, parent[c]>>
  ELSE <<c, parent[c], parent[parent[c]]>>

BindsBool(d) == Loaded \in bools[d]

Binds(d) == BindsBool(d) \/ Found(table[d], Loaded)

\* The nearest context of the chain that binds the name.
Nearest(c) ==
  LET ch == Ancestry(c)
      hits == {i \in DOMAIN ch : Binds(ch[i])}
  IN  IF hits = {} THEN NoContext ELSE ch[CHOOSE i \in hits : \A j \in hits : i <= j]

\* A fingerprint of the request context's own version.
ShadowTop(c, owner) == <<version[c]>>

\* cxpr_ir_lookup_shadow_version: the versions from the request context up to
\* the owner, or up to the root when the owner is not met.
Shadow(c, owner) ==
  LET ch == Ancestry(c)
      stop == {i \in DOMAIN ch : ch[i] = owner}
      last == IF stop = {} THEN Len(ch) ELSE CHOOSE i \in stop : \A j \in stop : i <= j
  IN  [i \in 1..last |-> version[ch[i]]]

\* The hit conditions of cxpr_ir_exec_lookup_root_cached and of the root case
\* of cxpr_ir_lookup_cached_scalar, and its two overlay hits: the request
\* context, the owner's table and the versions are the cached ones.
Hit(c) ==
  /\ lookup.request = c
  /\ lookup.owner # NoContext
  /\ lookup.rooted = (parent[c] = NoContext)
  /\ parent[c] = NoContext => lookup.owner = c
  /\ lookup.shadow = Shadow(c, lookup.owner)

\* What a walk of the chain finds for LOAD_VAR.
Walked(c) ==
  LET o == Nearest(c)
  IN  IF o = NoContext THEN <<"missing">>
      ELSE IF BindsBool(o) THEN <<"found", TrueValue>>
      ELSE <<"found", Lookup(table[o], Loaded)>>

\* What LOAD_VAR pushes; an empty cell is a found 0.0, modelled by NoValue
\* under a name of its own.
LoadedValue(c) ==
  IF BindsBool(c) THEN <<"found", TrueValue>>
  ELSE IF Hit(c) THEN <<"found", table[lookup.owner].cells[lookup.slot].value>>
  ELSE Walked(c)

\* Evaluate the program against c: the cache is filled by a numeric hit of
\* the walk and emptied by a miss or a bool.  When the cached owner is gone the
\* comparison of its table reads freed memory and may go either way.
Load(c) ==
  /\ c \in Live
  /\ ~Hit(c) \/ BindsBool(c) \/ lookup.owner \notin Live
  /\ LET o == Nearest(c)
         numeric == ~BindsBool(c) /\ o # NoContext /\ ~BindsBool(o)
     IN  /\ lookup' = IF numeric
                        THEN [request |-> c, owner |-> o, rooted |-> parent[c] = NoContext,
                              slot |-> FindSlot(table[o], Loaded), shadow |-> Shadow(c, o)]
                        ELSE NotCached
         /\ walk' = IF numeric THEN SubSeq(Ancestry(c), 1, Len(Shadow(c, o))) ELSE <<>>
  /\ aliased' = FALSE
  /\ UNCHANGED <<state, parent, table, bools, version, free>>

LoadsNext ==
  \/ \E c \in Addresses : ContextNew(c)
  \/ \E c, p \in Addresses : OverlayNew(c, p)
  \/ \E c \in Addresses : ContextFree(c)
  \/ \E c \in Addresses, n \in DOMAIN HostValues : \E v \in HostValues[n] : SetNumberIn(c, n, v)
  \/ \E c \in Addresses : SetBoolIn(c, Loaded)
  \/ \E c \in Addresses : ClearContext(c)
  \/ \E c \in Addresses : Load(c)

LoadsSpec == LoadsInit /\ [][LoadsNext]_loadVars

----------------------------------------------------------------------------
\* An overlay in which nothing was set reads what its parent reads, whatever
\* the program was evaluated against before (context.h:32-33: "Create an overlay
\* context with a parent fallback", "Parent context used for misses").
OverlaysFallBack ==
  \A c \in Live : parent[c] # NoContext /\ version[c] = 1 => LoadedValue(c) = Walked(parent[c])

\* Evaluating the compiled program against any live context loads what a walk
\* of that context's chain finds, whatever was set, cleared, freed, recycled
\* over the same parent or evaluated before (program.c:609-637).  The exception
\* is the one the versions cannot tell: a context of the cached walk has been
\* freed and its address is now an overlay over another parent, or another
\* context.  The next evaluation that walks ends it.
LoadsAreLookups == aliased \/ \A c \in Live : LoadedValue(c) = Walked(c)
=============================================================================
