--------------------------- MODULE EngineResolver ---------------------------
(***************************************************************************)
(* Engine programs sharing one injected registry (src/engine/lookback.c,   *)
(* src/engine/program.c, src/registry/helpers.c).                          *)
(*                                                                         *)
(* Building a program installs the engine's lookback resolver on the       *)
(* registry, remembering the host's, and registers every callable source   *)
(* name as a function whose userdata is a string owned by the program.     *)
(* Installs are counted in a process-wide list; the last release puts the  *)
(* host's resolver back.                                                   *)
(*                                                                         *)
(* One registry is modelled: the reference list is keyed by registry, so   *)
(* two registries never touch the same entry.                              *)
(***************************************************************************)
EXTENDS Integers, FiniteSets

CONSTANTS
    Programs,   \* engine programs that may be built on the registry
    Names,      \* source names
    SourcesOf,  \* [Programs -> SUBSET Names]: the program's non-column sources
    UserData,   \* userdata pointers of host resolvers
    HostOwns,   \* subset of BOOLEAN: may the host pass a cleanup function
    Null        \* the NULL pointer / no program

ASSUME ProgramsAssumption == IsFiniteSet(Programs)
ASSUME NullAssumption == Null \notin UserData \cup Programs
ASSUME HostOwnsAssumption == HostOwns \subseteq BOOLEAN
ASSUME SourcesAssumption == SourcesOf \in [Programs -> SUBSET Names]

VARIABLES
    reg,        \* resolver slot of the registry, reference entry, freed userdata
    live,       \* programs that were built and not yet freed
    delegate,   \* [Programs -> resolver]: prog->delegate_lookback_fn / _ud
    callee,     \* [Names -> Programs \cup {Null}]: owner of the entry's userdata
    hostSet,    \* history variable: the resolver the host installed last
    over,       \* history variable: the host installed over a live program
    stolen      \* history variable: a failed build released a live program's reference

vars == <<reg, live, delegate, callee, hostSet, over, stolen>>

NoResolver == [fn |-> "none", ud |-> Null]
Engine == [fn |-> "engine", ud |-> Null]

(* cxpr_registry_set_lookback_resolver: replacing userdata frees the old one;
   the same userdata keeps its cleanup function when none is passed. *)
SetResolver(r, new, owned) ==
    IF r.cur.ud = new.ud
    THEN [r EXCEPT !.cur = new, !.owned = r.owned \/ owned]
    ELSE [r EXCEPT !.cur = new, !.owned = owned,
                   !.freed = IF r.owned /\ r.cur.ud # Null
                             THEN @ \cup {r.cur.ud} ELSE @]

PriorOf(cur) == IF cur = Engine THEN NoResolver ELSE cur

(* Mutant: every acquire captures the current resolver again. *)
AcquireRecapturing(r) ==
    SetResolver([r EXCEPT !.count = r.count + 1, !.prior = r.cur],
                Engine, FALSE)

(* engine_registry_resolver_acquire *)
Acquire(r) ==
    IF r.count > 0
    THEN [r EXCEPT !.count = @ + 1]
    ELSE SetResolver([r EXCEPT !.count = 1, !.prior = PriorOf(r.cur)],
                     Engine, FALSE)

(* Mutant: the last release restores over a resolver the host installed. *)
ReleaseOverHost(r) ==
    IF r.count > 1 THEN [r EXCEPT !.count = @ - 1]
    ELSE IF r.count = 0 THEN r
    ELSE [SetResolver(r, r.prior, FALSE) EXCEPT !.count = 0, !.prior = NoResolver]

(* Mutant: any release drops the entry, whatever its count. *)
ReleaseUncounted(r) ==
    IF r.count = 0 THEN r
    ELSE [(IF r.cur = Engine THEN SetResolver(r, r.prior, FALSE) ELSE r)
              EXCEPT !.count = 0, !.prior = NoResolver]

(* engine_registry_resolver_release *)
Release(r) ==
    IF r.count > 1 THEN [r EXCEPT !.count = @ - 1]
    ELSE IF r.count = 0 THEN r
    ELSE [(IF r.cur = Engine THEN SetResolver(r, r.prior, FALSE) ELSE r)
              EXCEPT !.count = 0, !.prior = NoResolver]

(* Mutant: column sources are registered too. *)
RegisterColumns(p) == callee' = [n \in Names |-> p]

(* cxpr_engine_program_new, first half: every source that is not a column is
   registered, replacing an entry of the same name. *)
Register(p) == callee' = [n \in Names |-> IF n \in SourcesOf[p] THEN p ELSE callee[n]]

-----------------------------------------------------------------------------

Init ==
    /\ reg = [cur |-> NoResolver, owned |-> FALSE, count |-> 0, prior |-> NoResolver, freed |-> {}]
    /\ live = {}
    /\ delegate = [p \in Programs |-> NoResolver]
    /\ callee = [n \in Names |-> Null]
    /\ hostSet = NoResolver
    /\ over = FALSE
    /\ stolen = FALSE

(* The host installs a resolver of its own, possibly while programs are live. *)
HostInstall(u, owned) ==
    /\ u \notin reg.freed
    /\ reg' = SetResolver(reg, [fn |-> "host", ud |-> u], owned)
    /\ hostSet' = [fn |-> "host", ud |-> u]
    /\ over' = (live # {})
    /\ UNCHANGED <<live, delegate, callee, stolen>>

(* cxpr_engine_program_new succeeds. *)
ProgramNew(p) ==
    /\ p \notin live
    /\ Register(p)
    /\ reg' = Acquire(reg)
    /\ delegate' = [delegate EXCEPT ![p] = Acquire(reg).prior]
    /\ live' = live \cup {p}
    /\ over' = (over /\ live # {})
    /\ UNCHANGED <<hostSet, stolen>>

(* It fails after the resolver was acquired: the validation compile. *)
ProgramNewFailsLate(p) ==
    /\ p \notin live
    /\ Register(p)
    /\ reg' = Release(Acquire(reg))
    /\ UNCHANGED <<live, delegate, hostSet, over, stolen>>

(* It fails before the acquire (unknown watch, watch that does not parse or is
   not boolean, out of memory, possibly before the sources are registered):
   engine_program_free_internals still releases. *)
ProgramNewFailsEarly(p) ==
    /\ p \notin live
    /\ Register(p) \/ UNCHANGED callee
    /\ reg' = Release(reg)
    /\ stolen' = (live # {})
    /\ UNCHANGED <<live, delegate, hostSet, over>>

(* cxpr_engine_program_free: the registered source functions stay behind. *)
ProgramFree(p) ==
    /\ p \in live
    /\ live' = live \ {p}
    /\ reg' = Release(reg)
    /\ stolen' = (stolen /\ live' # {})
    /\ UNCHANGED <<delegate, callee, hostSet, over>>

Next ==
    \/ \E u \in UserData \cup {Null}, o \in HostOwns : HostInstall(u, o)
    \/ \E p \in Programs : \/ ProgramNew(p)
                          \/ ProgramNewFailsLate(p)
                          \/ ProgramNewFailsEarly(p)
                          \/ ProgramFree(p)

Spec == Init /\ [][Next]_vars

-----------------------------------------------------------------------------

Resolvers == [fn : {"none", "host", "engine"}, ud : UserData \cup {Null}]

(* Type correctness of the registry's resolver slot and the reference entry. *)
TypeOK ==
    /\ reg \in [cur : Resolvers, owned : BOOLEAN, freed : SUBSET UserData,
                count : Nat, prior : Resolvers]
    /\ live \subseteq Programs
    /\ delegate \in [Programs -> Resolvers]
    /\ callee \in [Names -> Programs \cup {Null}]
    /\ hostSet \in Resolvers
    /\ over \in BOOLEAN
    /\ stolen \in BOOLEAN

(* Whatever mix of successful builds, failed builds (early ones included),
   frees and host installs happened, once no program is live the registry
   holds exactly the resolver the host installed last
   (engine_registry_resolver_release, lookback.c). *)
HostResolverRestored == live = {} => reg.cur = hostSet /\ reg.count = 0

(* The engine's own resolver is never remembered as the one to delegate to:
   delegation from engine_lookback_resolver cannot call itself. *)
NeverDelegatesToItself ==
    /\ reg.prior # Engine
    /\ \A p \in live : delegate[p] # Engine

(* Unless a build that failed early gave back a live program's reference, the
   reference count is the number of live programs, so the resolver leaves with
   the last program and not before; and once the last program is freed the
   count is right again. *)
RefCountExact == stolen \/ reg.count = Cardinality(live)

(* While a program is live and the host did not install over it, lookbacks on
   the shared registry reach the engine's resolver (program.c: "restore the
   host resolver only when the last program is freed"). *)
ResolverKept == live # {} => reg.cur = Engine \/ over

(* The same, but for builds that fail before the acquire. *)
EngineServesLivePrograms == stolen \/ ResolverKept

(* A source call made by a live program under a name that no other program
   declares reaches a name string that is still allocated: the entry's userdata
   belongs to a live program, whoever else was built, failed and freed. *)
SourceCallsReachLiveProgram ==
    \A p \in live : \A n \in SourcesOf[p] :
        (\A q \in Programs \ {p} : n \notin SourcesOf[q]) => callee[n] \in live
=============================================================================
