------------------------------ MODULE Registry ------------------------------
(***************************************************************************)
(* The function registry (src/registry/): entries that hold one or more    *)
(* callbacks, the userdata they are called with and who frees it, the      *)
(* version that call nodes use to cache a lookup, the lookback resolver    *)
(* and the index capabilities.                                             *)
(*                                                                         *)
(* A registration hands over a userdata that the registry has not seen, or *)
(* the one that is installed.  Names of parameters and fields, arities and *)
(* types are data that no property here tells apart.                       *)
(***************************************************************************)
EXTENDS Integers, Sequences, FiniteSets

CONSTANTS
    Functions,    \* function names
    Userdata,     \* userdata pointers of the host
    None,         \* the null pointer
    Targets,      \* index targets
    Capacity0,    \* CXPR_REGISTRY_INITIAL_CAPACITY
    Uses          \* how a host may use the registry: a set of [operations,
                  \* newOnly, maxVersion]: the operations it calls, those it calls
                  \* only for names without callbacks, and a bound on its changes

Plain == {"sync", "value", "typed", "ast"}
Callbacks == Plain \cup {"struct", "handler", "codegen", "body", "record"}
Slots == {"main", "handler", "codegen"}

ASSUME RegistryAssumption ==
    /\ None \notin Userdata
    /\ Capacity0 \in Nat \ {0}
    /\ \A u \in Uses : u.newOnly \subseteq u.operations /\ u.maxVersion \in Nat

VARIABLES
    use,        \* what this host does
    entries,    \* reg->entries[0..count-1]
    capacity,   \* reg->capacity
    version,    \* reg->version
    lookback,   \* the lookback resolver's userdata and whether it is owned
    index,      \* reg->index_capabilities
    cached,     \* call node of a name -> its cached lookup
    given,      \* history variable: userdata handed over so far
    owned,      \* history variable: userdata handed over with a cleanup
    freed,      \* history variable: how often each was cleaned up
    alive       \* the registry has not been freed

registryVars == <<use, entries, capacity, version, lookback, index, cached,
                  given, owned, freed, alive>>

-----------------------------------------------------------------------------
(* Entries *)

(* Mutant: one userdata slot for all callbacks. *)
SlotOfShared(k) == "main"

(* Which userdata a callback is called with. *)
SlotOf(k) == IF k \in {"handler", "codegen"} THEN k ELSE "main"

(* cxpr_registry_prepare_entry; `by` and `last` are history: the userdata each
   callback came with, and the last registration that was not a handler. *)
NewEntry(n) ==
    [name |-> n, installed |-> {}, ud |-> [s \in Slots |-> None],
     owns |-> [s \in Slots |-> FALSE], by |-> [k \in Callbacks |-> None], last |-> "none"]

Position(n) == {i \in DOMAIN entries : entries[i].name = n}   \* cxpr_registry_find
Find(n) == entries[CHOOSE i \in Position(n) : TRUE]
Current(n) == IF Position(n) = {} THEN NewEntry(n) ELSE Find(n)

(* How often cxpr_registry_clear_owned_entry cleans u up. *)
Cleanups(e, u) == Cardinality({s \in Slots : e.owns[s] /\ e.ud[s] = u})

Install(e, k, u, o) ==
    [e EXCEPT !.installed = @ \cup {k}, !.by[k] = u,
              !.ud[SlotOf(k)] = u, !.owns[SlotOf(k)] = o]

(* Mutants: what was cleaned up stays in the entry; ast_func stays. *)
ClearedKeepsOwner(e) == [NewEntry(e.name) EXCEPT !.owns = e.owns, !.ud = e.ud]
ClearedKeepsAst(e) ==
    [NewEntry(e.name) EXCEPT !.installed = e.installed \cap {"ast"}]

(* cxpr_registry_clear_owned_entry, and what cxpr_registry_replace_entry or
   cxpr_registry_define_record_fn clear after it: every callback. *)
Cleared(e) == NewEntry(e.name)

(* What cxpr_registry_define_fn clears: it leaves ast_func and struct_producer. *)
ClearedForBody(e) == [Cleared(e) EXCEPT !.installed = e.installed \cap {"ast", "struct"}, !.by = e.by]

(* An entry is updated in place, or appended after growing the array. *)
Put(n, e) ==
    IF Position(n) # {}
    THEN entries' = [i \in DOMAIN entries |-> IF i \in Position(n) THEN e ELSE entries[i]]
         /\ UNCHANGED capacity
    ELSE /\ entries' = Append(entries, e)
         /\ capacity' = IF Len(entries) >= capacity THEN 2 * capacity ELSE capacity

(* Mutant: a new entry does not bump the version. *)
BumpReplaced(n) == version' = IF Position(n) = {} THEN version ELSE version + 1
Bump(n) == version' = version + 1

(* The host hands over u, and its cleanup if o. *)
Take(u, o) == given' = given \cup {u} /\ owned' = IF o THEN owned \cup {u} ELSE owned
TakeNone == UNCHANGED <<given, owned>>

Freeing(times(_)) == freed' = [u \in Userdata |-> freed[u] + times(u)]
FreeingNone == UNCHANGED freed

Can(op, n) ==
    /\ alive /\ op \in use.operations /\ version < use.maxVersion
    /\ op \in use.newOnly => Current(n).installed \subseteq {"handler"}

Rest == UNCHANGED <<use, lookback, index, cached, alive>>

(* cxpr_registry_add_numeric, _add_value, _add_typed, _add_ast and the wrappers
   over them; _add_fn also stores field names. *)
Add(kind, n, u, o) ==
    /\ Can(kind, n)
    /\ Put(n, [Install(Cleared(Current(n)), kind, u, o) EXCEPT !.last = kind])
    /\ Freeing(LAMBDA v : Cleanups(Current(n), v))
    /\ Bump(n) /\ Take(u, o) /\ Rest

(* Mutant: the handler's userdata is overwritten without cleanup. *)
AddHandlerKeeps(n, u, o) ==
    /\ Can("handler", n)
    /\ Put(n, Install(Current(n), "handler", u, o))
    /\ FreeingNone
    /\ Bump(n) /\ Take(u, o) /\ Rest

(* cxpr_registry_add_ast_handler: laid over what the entry has. *)
AddHandler(n, u, o) ==
    /\ Can("handler", n)
    /\ Put(n, Install(Current(n), "handler", u, o))
    /\ Freeing(LAMBDA v : IF Current(n).owns["handler"] /\ Current(n).ud["handler"] = v
                          THEN 1 ELSE 0)
    /\ Bump(n) /\ Take(u, o) /\ Rest

(* cxpr_registry_add_struct: laid over an existing entry too, and the userdata
   is stored only when no scalar callback uses that slot. *)
AddStruct(n, u, o) ==
    LET e == Current(n)
    IN  /\ Can("struct", n)
        /\ Put(n, IF e.installed \cap {"sync", "value", "typed"} = {}
                  THEN [Install(e, "struct", u, o) EXCEPT !.last = "struct"]
                  ELSE [e EXCEPT !.installed = @ \cup {"struct"}, !.by["struct"] = u])
        /\ FreeingNone
        /\ Bump(n) /\ Take(u, o) /\ Rest

(* Mutant: the installed userdata is cleaned up when it is registered again. *)
SetCodegenFrees(n, u, o) ==
    LET e == Find(n)
    IN  /\ Can("codegen", n) /\ Position(n) # {} /\ "struct" \in e.installed
        /\ Put(n, Install(e, "codegen", u, o))
        /\ Freeing(LAMBDA v : IF e.owns["codegen"] /\ e.ud["codegen"] = v THEN 1 ELSE 0)
        /\ Bump(n) /\ Take(u, o) /\ Rest

(* cxpr_registry_set_struct_codegen *)
SetCodegen(n, u, o) ==
    LET e == Find(n)
        same == e.ud["codegen"] = u
    IN  /\ Can("codegen", n) /\ Position(n) # {} /\ "struct" \in e.installed
        /\ Put(n, Install(e, "codegen", u, o \/ (same /\ e.owns["codegen"])))
        /\ Freeing(LAMBDA v : IF ~same /\ e.owns["codegen"] /\ e.ud["codegen"] = v
                              THEN 1 ELSE 0)
        /\ Bump(n) /\ Take(u, o) /\ Rest

(* cxpr_registry_define_fn *)
Define(n) ==
    /\ Can("body", n)
    /\ Put(n, [ClearedForBody(Current(n)) EXCEPT !.installed = @ \cup {"body"}, !.last = "body"])
    /\ Freeing(LAMBDA v : Cleanups(Current(n), v))
    /\ Bump(n) /\ TakeNone /\ Rest

(* cxpr_registry_define_record_fn *)
DefineRecord(n) ==
    /\ Can("record", n)
    /\ Put(n, [Cleared(Current(n)) EXCEPT !.installed = {"record"}, !.last = "record"])
    /\ Freeing(LAMBDA v : Cleanups(Current(n), v))
    /\ Bump(n) /\ TakeNone /\ Rest

(* cxpr_registry_set_param_names: names are left out, the version moves. *)
SetParamNames(n) ==
    /\ Can("names", n) /\ Position(n) # {}
    /\ Bump(n) /\ TakeNone /\ FreeingNone /\ Rest
    /\ UNCHANGED <<entries, capacity>>

-----------------------------------------------------------------------------
(* Mutants: the installed userdata is cleaned up when it is registered again; a
   null cleanup takes its cleanup away. *)
SetLookbackFrees(u, o) ==
    /\ alive /\ "lookback" \in use.operations
    /\ lookback' = [ud |-> u, owns |-> o]
    /\ Freeing(LAMBDA v : IF lookback.owns /\ lookback.ud = v THEN 1 ELSE 0)
    /\ Take(u, o)
    /\ UNCHANGED <<use, entries, capacity, version, index, cached, alive>>

SetLookbackForgets(u, o) ==
    /\ alive /\ "lookback" \in use.operations
    /\ lookback' = [ud |-> u, owns |-> o]
    /\ Freeing(LAMBDA v : IF lookback.ud # u /\ lookback.owns /\ lookback.ud = v THEN 1 ELSE 0)
    /\ Take(u, o)
    /\ UNCHANGED <<use, entries, capacity, version, index, cached, alive>>

(* cxpr_registry_set_lookback_resolver: the version does not change. *)
SetLookback(u, o) ==
    LET same == lookback.ud = u
    IN  /\ alive /\ "lookback" \in use.operations
        /\ lookback' = [ud |-> u, owns |-> o \/ (same /\ lookback.owns)]
        /\ Freeing(LAMBDA v : IF ~same /\ lookback.owns /\ lookback.ud = v THEN 1 ELSE 0)
        /\ Take(u, o)
        /\ UNCHANGED <<use, entries, capacity, version, index, cached, alive>>

Claimed == {index[i].target : i \in DOMAIN index}

MayClaim(targets) == \A i \in DOMAIN targets : targets[i] \notin Claimed

(* cxpr_registry_add_index_capability_targets: all targets or none, and the
   cleanup goes to the entry of the first one. *)
AddIndex(targets, u, o) ==
    /\ alive /\ "index" \in use.operations
    /\ MayClaim(targets)
    /\ index' = index \o [i \in DOMAIN targets |->
                             [target |-> targets[i], ud |-> u, owns |-> o /\ i = 1]]
    /\ Take(u, o)
    /\ FreeingNone
    /\ UNCHANGED <<use, entries, capacity, version, lookback, cached, alive>>

(* cxpr_eval_cached_function_entry for the call node of n. *)
Lookup(n) ==
    /\ alive
    /\ ~(cached[n].valid /\ cached[n].version = version)
    /\ cached' = [cached EXCEPT ![n] =
                     [valid |-> TRUE, version |-> version,
                      index |-> IF Position(n) = {} THEN 0 ELSE CHOOSE i \in Position(n) : TRUE]]
    /\ UNCHANGED <<use, entries, capacity, version, lookback, index, given, owned, freed, alive>>

(* Mutant: the cleanup of an index capability is run for every target. *)
IndexCleanupsAll(u) == Cardinality({i \in DOMAIN index : index[i].ud = u /\ u \in owned})
IndexCleanups(u) == Cardinality({i \in DOMAIN index : index[i].ud = u /\ index[i].owns})

EntryCleanups(u) ==
    Cardinality({p \in (1..Len(entries)) \X Slots :
                    entries[p[1]].owns[p[2]] /\ entries[p[1]].ud[p[2]] = u})

(* cxpr_registry_free *)
Free ==
    /\ alive
    /\ Freeing(LAMBDA v :
          (IF lookback.owns /\ lookback.ud = v THEN 1 ELSE 0)
          + EntryCleanups(v) + IndexCleanups(v))
    /\ alive' = FALSE
    /\ UNCHANGED <<use, entries, capacity, version, lookback, index, cached, given, owned>>

-----------------------------------------------------------------------------
(* cxpr_registry_new *)
RegistryInit ==
    /\ use \in Uses
    /\ entries = <<>> /\ capacity = Capacity0 /\ version = 1
    /\ lookback = [ud |-> None, owns |-> FALSE]
    /\ index = <<>>
    /\ cached = [n \in Functions |-> [valid |-> FALSE, version |-> 0, index |-> 0]]
    /\ given = {} /\ owned = {} /\ freed = [u \in Userdata |-> 0]
    /\ alive = TRUE

Fresh == Userdata \ given

RegistryNext ==
    \/ \E n \in Functions, o \in BOOLEAN :
         \/ \E u \in Fresh : \/ \E kind \in Plain : Add(kind, n, u, o)
                             \/ AddHandler(n, u, o)
                             \/ AddStruct(n, u, o)
         \/ \E u \in Fresh \cup ({Current(n).ud["codegen"]} \ {None}) : SetCodegen(n, u, o)
    \/ \E n \in Functions : Define(n) \/ DefineRecord(n) \/ SetParamNames(n) \/ Lookup(n)
    \/ \E u \in Fresh \cup ({lookback.ud} \ {None}), o \in BOOLEAN : SetLookback(u, o)
    \/ \E a, b \in Targets, u \in Fresh, o \in BOOLEAN :
         AddIndex(IF a = b THEN <<a>> ELSE <<a, b>>, u, o)
    \/ Free

RegistrySpec == RegistryInit /\ [][RegistryNext]_registryVars

-----------------------------------------------------------------------------
(* What a call reaches: cxpr_eval_node and cxpr_registry_call_typed. *)
Dispatch(e) ==
    IF "handler" \in e.installed THEN "handler"
    ELSE IF "ast" \in e.installed THEN "ast"
    ELSE IF "struct" \in e.installed /\ e.installed \cap {"sync", "value"} = {} THEN "struct"
    ELSE IF "body" \in e.installed THEN "body"
    ELSE IF "record" \in e.installed THEN "record"
    ELSE IF "typed" \in e.installed THEN "typed"
    ELSE IF "value" \in e.installed THEN "value"
    ELSE IF "sync" \in e.installed THEN "sync"
    ELSE "none"

(* Callbacks that a call, or a field access for a producer, can reach. *)
Reachable(e) == ({Dispatch(e)} \cup (e.installed \cap {"struct", "codegen"}))
                    \ {"none", "body", "record"}

(* A userdata is cleaned up at most once, and only if its cleanup was handed
   over, however registrations replace and overlay each other; freeing the
   registry leaves none behind. *)
FreedOnce ==
    /\ \A u \in Userdata : freed[u] <= IF u \in owned THEN 1 ELSE 0
    /\ ~alive => \A u \in owned : freed[u] = 1

(* No callback that can still be called holds a userdata that was cleaned up. *)
HeldAlive ==
    alive =>
        /\ \A i \in DOMAIN entries : \A k \in Reachable(entries[i]) :
              LET u == entries[i].ud[SlotOf(k)] IN u # None => freed[u] = 0
        /\ lookback.ud # None => freed[lookback.ud] = 0
        /\ \A i \in DOMAIN index : freed[index[i].ud] = 0

(* Every callback is called with the userdata it was registered with. *)
CalledWithOwnUserdata ==
    \A i \in DOMAIN entries : \A k \in Reachable(entries[i]) :
        entries[i].ud[SlotOf(k)] = entries[i].by[k]

(* A call of a name reaches what was registered last under it, or the handler
   laid over it. *)
LastRegistrationAnswers ==
    \A i \in DOMAIN entries :
        Dispatch(entries[i]) =
            IF "handler" \in entries[i].installed THEN "handler" ELSE entries[i].last

(* A cached lookup that the version still vouches for is what a search of the
   entries would find. *)
CachedEntryCurrent ==
    \A n \in Functions :
        cached[n].valid /\ cached[n].version = version =>
            IF cached[n].index = 0 THEN Position(n) = {} ELSE cached[n].index \in Position(n)
=============================================================================
