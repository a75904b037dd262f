# cxpr: a TLA+ verification project

cxpr is an embeddable expression library in C. A host parses expressions, compiles
them, and evaluates them against a *context* of variables and `$param`s with the
functions of a *registry*. On top of that sit an *evaluator* for sets of named
expressions, a tick-driven *engine* with lookback (`close[2]`) and edge watches, and
*models*: documents of inputs, states, bindings and outputs that are compiled once and
then ticked as sessions, as a fused program, or as generated C over many agents.

Except for bulk execution the library is single-threaded per object, and it keeps
nothing on disk, so the hard cases are neither messages nor crashes. They are sequences
of legal calls that nobody wrote a test for: a failing tick between two good ones, a
build that fails half way on a registry others share, a name set as another type, a
cache or handle that outlives what it was filled from, a ring at its wrap-around, two
backends that must agree. The modules below take those calls as actions. TLC looks for
the sequences on small instances, and TLAPS proves the properties that matter most for
every instance.

## 1. The parts of the system

| part | state | operations | what is hard |
|---|---|---|---|
| engine programs (`src/engine/program.c`, `lookback.c`) | resolver slot of the registry, process-wide reference list, registered source calls | build, failing build, free, host installs a resolver | shared registry, clean-up of a build that failed anywhere, who is restored |
| engine rings and sessions (`src/engine/source.c`, `session.c`) | head, count, cells; cursor, results, watch state, parameters | tick, tick_at, fallback ticks, reset, set_param | wrap-around, ticks that fail in the middle, alignment of all rings, edges across failures |
| engine evaluation (`source.c`, `lookback.c`) | tick memo, argument rings, tracked expressions | scan at build, resolver, inline evaluation | nested and compound lookbacks, memo at its limit, repositioned cursor |
| evaluator (`src/expression/`) | entries, order, compiled flag, results | add, batch add, compile, eval, instruction count | cycles, order, partial batches, partial evaluations |
| context tables (`src/hashmap/`, `src/struct.c`, `src/context/`) | cells, hash and pointer cache, slots, one map per type | set, get, remove, grow, clear, clone, slot bind/get/set | collisions, deletion inside a probe cluster, stale caches and handles, which type a read prefers |
| IR lookup cache (`src/ir/program.c`, `src/ir/exec/fast.c`) | owner, slot and version fingerprint per instruction | load, overlay create/free/recycle, set | shadowing, recycled overlays |
| registry (`src/registry/`) | entries, userdata and cleanups, version, resolver, index capabilities | every `add`, `define`, `set_*`, lookup, free | replacement of one kind by another, ownership, cached entries |
| lexer, parser, printer (`src/lexer/`, `src/parser/`, `src/ast/`) | — (pure) | parse, print | precedence, pipes, windows, words glued to signs |
| expressions (`src/eval/`, `src/ir/`, `src/typecheck.c`) | memo, prepared programs, registered functions | compile, evaluate by tree, by number, by bool, by program, at an offset | five evaluators that must agree, unchecked stacks, changes between compile and run |
| model sessions (`src/model/session.c`, `fused.c`) | context, staged updates, rings, buffers, slots, outputs, child sessions | tick, tick_fast, input writes, producer calls | atomic updates, failing ticks, two backends, lifetimes of children |
| model compile and series (`src/model/lookback/`, `window/`, `src/timeseries.c`, `src/history.c`, `src/model/codegen/`) | planned histories, rolling rings | compile, tick, generated tick, history adapter | is the planned history deep enough for everything a tick may read |
| bulk execution (`src/bulk*.c`) | ordered ids, state blocks, views, ranges | add, remove, launch, workers, reset, snapshot, restore | rows that move, workers in any interleaving, damaged snapshots |

`PROJECT.json` lists every part with its source files, the lines each definition
translates, and the hazards with the line where each one bites and the properties that
watch it.

## 2. Modules

**Engine.** `EngineRing` has the circular buffer as operators. A new cell holds
`Garbage`, since the buffers are not cleared. `EngineSession` is one session. A tick is
one action, as it is one call: `TickEvaluates` hydrates every source, reserves a cell in
every expression ring, fills it with the result and runs the watches; `TickFails` stops
at the k-th expression with the reserved cells left NaN. `Tick`, `TickAt` and `Reset`
are the host's calls. `pulled`, `produced` and `told` record what the rings and watches
are supposed to remember and are read by the properties only. `EngineHistory` is the
abstract specification: a sliding window per target that all advance together, and the
last truth value of each watch. `EngineEval` opens the evaluation that `EngineSession`
abstracts (scan, resolver, memo, argument rings, inline re-evaluation); its values are
the lists of samples they were read from, so two values are equal exactly when they come
from the same places. `EngineParams` has the `$param`s and the fallback ticks, which
succeed or fail; `given` records which parameters the session was ever handed.
`EngineResolver` has the resolver slot of a shared registry, the reference list behind
it and the registered source calls; builds that fail before the acquire and after it are
separate actions, since the clean-up is the same code and what it finds is not.

**Evaluator.** `Evaluator` has entries with their references, `Compile` with the cycle
search and the sort, `Eval` that stops at any entry, and batches that are rolled back.

**Context.** `OpenMap` has the open-addressing table as operators (linear probing,
growth, removal that re-places the cluster, clear, clone), with what makes a table well
kept and what the parts in front of it rely on (`MapFacts`), and `OpenMapMachine` drives
them beside `ideal`, the last value stored under each name. `ContextNumbers` puts the
hash cache, the pointer cache and a host slot in front of a table; a table that grows goes
to any address but its own, also one an earlier table had, and a clear leaves the slot
bound, as the code does. `reused` records that the address of a new table is one a hash
bucket still holds. `ContextBindings` has one map per type, for variables and params, in a
chain of contexts. `LookupCache` has the cache of a compiled `LOAD_VAR` over such a chain
and the free list of empty overlays; contexts are made at any free address and over any
live parent, and `walk` and `aliased` record whether an address the cached walk went
through has become another context since.

**Registry.** `Registry` has entries with a set of installed callbacks and a userdata per
slot, the version, the resolver, the index capabilities and one cached call node per
name. What a host does is a record of the constant `Uses`, chosen at the start.

**Language.** `Ast` has the nodes. `Parser` has the lexer, the recursive-descent parser
and the printer over pieces of text; `Syntax` writes expressions by the productions of
the language and compares. `ExprValues` has typed values, their operators and the typed
context. `ExprTree` is the tree evaluator with argument binding, defined functions,
producers and the type checker. `IRCompile` is the compiler with its validators,
`IRExec` the three executors, one instruction per step. `FastStack` is the abstract
specification of an executor that does not check its stacks. `ExprMachine` is a host that
compiles one expression, binds names, registers functions anew and evaluates by every
entry point in any order.

**Models.** `ModelProgram` has a compiled program as what each binding reads, at which
offset, and the value it gives for what it read, which may be a fault. `ModelTick` is
the abstract specification of a session: every binding is computed from the inputs, the
states of the start of the tick and earlier samples, all updates take effect together, a
failed tick changes nothing. `ModelSession` is the reference session (staged updates,
rings, state buffers, output records), `ModelBackends` the fused backend (slots,
exports, fast ticks) and both in lockstep. The loops of a tick (commit, bindings,
capture, the fused program) are functions of the number of turns taken. A captured
target is evaluated over the rings as the capture loop has left them so far, which is
why its order matters. `ModelChild` has producer calls of imported models under the
lifetimes singleton, scoped and transient.

**Series.** `Series` has the series functions, what an offset means to each resolver, and
the plan a compile makes: bounds of index expressions, window periods, the depth of every
history. `GeneratedTick` has what the generated C computes. `SeriesMachine` is a host
that records samples and asks for expressions over their past, by a session, by the
generated C, or by the history adapter over its own columns.

**Bulk.** `Bulk` has the store of ids and state blocks side by side, ranges ticked by
workers row after row, snapshots and restores; `BulkPopulation` is the abstract
specification, a population in which each agent has a state of its own.

Modules named `MC...` give the constants values. They run components that share no
variable as alternatives of one specification: a behaviour exercises the part chosen at
the start. Definitions whose comment says they are a slightly wrong form of an operation
are the variants with which the properties are shown to be able to fail; no specification
uses them.

## 3. Runs

Every configuration is run with `tlc -config X.cfg MODULE`; a passing run takes between
half a minute and two and a half minutes. Counts are distinct states.

| run | configuration, module | states | what it shows |
|---|---|---|---|
| `resolver` | `EngineResolver.cfg`, `MCEngineResolver` | 377,315 | Three programs, two source names, host resolvers owned or not: once no program is live the host's last resolver is back; the engine never delegates to itself; the reference count is exact until an early failure takes a reference; a source name only one program declares reaches a live program. Every registration of the registry: userdata is freed exactly once and never while it can be used, a callback gets its own userdata, the last registration answers, cached entries are current. |
| `engine` | `EngineSession.cfg`, `MCEngineSession` | 138,515 | Source and expression lookback give the sample of n ticks ago through failed ticks, repositioning and resets; events are the transitions since the last tick that evaluated the watch; the session refines `EngineHistory`; a plain tick, also after a failed fallback tick, reads only parameters the session was given. A corpus of nested and compound lookbacks evaluates to its meaning. Every set of up to three named expressions is ordered by dependency, cycles are reported exactly when they exist, a stopped evaluation leaves a closed set of results. |
| `context` | `ContextTables.cfg`, `MCContextTables` | 471,687 | Lookups return what was stored last and probes stop; reads through both caches agree with a search until a table is placed where a hash bucket still points; compiled loads agree with a walk of the chain, over contexts and overlays made, freed and recycled at any address, until one of the cached walk is another context; a typed read returns the scalar written last. |
| `model` | `ModelBackends.cfg`, `MCModelBackends` | 252,109 | Five parts. The reference session, for every dependency order, and the fused session, for every mix of tick kinds, refine `ModelTick`; both agree on verdict, outputs and previous outputs; histories stay aligned; a child advances once per tick and distinct call, and calls of scoped and transient children are independent. Models ticked in a session or by generated C over every short feed, and expressions over host columns at every cursor and bounds policy, give what the expression means over the samples: the planned histories are deep enough. Agents come and go, two workers tick their ranges in any interleaving, blocks are reset, snapshotted and restored from whole or damaged bytes: the store refines `BulkPopulation`. |
| `expr` | `MCExpr.cfg`, `MCExpr` | 110,453 | Five hundred expressions: the compiled program gives what the tree gives, the number shortcut agrees with the typed one, the type checker predicts the type, defined functions are called by value, an evaluation at an offset is the evaluation in the past, stacks stay at the depth the validator computed, and each executor refines `FastStack`. Expressions written by the productions of the language are parsed to the tree the grammar gives, whatever separates their tokens, and the printed text of a tree is read back as that tree. |

Seven runs end in a violation; section 6 says what each one shows: `resolver_failed_build`
(`ResolverKept`), `engine_params_refreshed` (`ParamsAreFixed`), `context_slot_cleared`
(`ValidSlotIsSafe`), `context_overlay_recycled` (`OverlaysFallBack`),
`model_backends_forward` (`BackendsAgree`), `syntax_printed` (`OutputParsesBack`) and
`series_documented` (`DocumentedLookbacks`).

### Bounds

- Rings of capacity two and three and four ticks (`MaxTicks`, `EvalTicks`): a ring wraps,
  and is read at, below and beyond its count after the wrap. A watch needs three ticks
  for every kind of edge and a fourth for a failed tick in between. Indices 0 and 2 put a
  repositioned tick before, at and after the running cursor.
- Two expressions suffice in `EngineEval`: one is the target of lookbacks, the other
  looks back. Depth two nests brackets in brackets; a memo of one entry is full at once.
- `MaxRefs` is two and reference lists are at most two long: the buffer is filled and not
  overrun. Three entries give every shape of cycle that the search tells apart.
- Tables start with two cells: they grow twice, two names share a home cell, a third
  lies in their cluster and one probe wraps around. Three addresses for tables (`Bases`)
  let the second growth return to the first. Three addresses for contexts are two roots
  and an overlay, or a root and two overlays; `MaxChanges` is the number of insertions,
  bools and clears that the versions of live contexts have counted.
- Three programs are the fewest with which one can be built, one freed and one left.
- Model values are integers modulo three; a binding is the sum of what it reads plus one,
  so a read of the wrong tick or name shows. A fault happens when a dividing binding
  meets zero. Six ticks wrap a ring of two and put a failure between good ticks.
- Registry versions up to five: two names, each replaced and overlaid. Capacity starts
  at one, so the second name makes the entries move.
- An `int64` has eight bits, so that the corpus of expressions reaches the overflow; the
  limits of inlining (three for 8), of inference (four for 32), of the arguments of a
  fast call (three for 32) and of the stack (six for 64) are reached by expressions of
  the corpus. The host changes a binding or a registration at most twice between compile
  and evaluation (`MaxChanges`).
- Four or five samples (`MaxSamples`, `MaxGenerated`) are more than every history the
  corpus of series plans, so each one wraps. `DefaultPeriod` is six instead of 512,
  the deepest history that is shifted (`ShiftDepth`) one instead of four, and the largest
  capacity with counters of one byte (`NarrowMax`) three instead of 255, so that both
  sides of each limit occur.
- An author of an expression applies two productions to a primary: one inside the other
  is what decides a precedence. Three agents, two workers and four changes of the store
  put an insertion before, between and behind others, between two launches.

Symmetry is declared over sets of values, names, userdata and targets that the
specification compares only for equality. Deadlock is not checked where a bound on ticks,
versions or steps ends a behaviour (`CHECK_DEADLOCK FALSE`), and is checked in `context`.

### Fairness

No specification assumes fairness. The library does nothing by itself: every step is a
call of the host, which owes it none, and the loop of a bulk range
(`src/bulk.c:73`) is a counted loop without a wait in it. What a call must eventually do
inside (stop probing, stop walking a cycle) is stated as safety: a probe meets a free
cell, a cycle is reported.

## 4. Proofs

Eight modules hold theorems, checked by TLAPS. They hold for all values of the constants,
not for the instances of section 3. Each proof module needs between half a minute and eight
minutes of `tlapm`. A leaf names Zenon wherever first-order reasoning is enough, because
translating these large contexts for SMT is what takes the time.

**`EngineSessionProofs`** (assumes `SessionAssumption`: depths are naturals, tracked names
are expressions). A ring *serves* a history, `Serves(r, cap, hist, x)`, when its count is
the length of the history cut at the capacity and the cell `d` before the head holds the
entry `d` from the end. A new ring and a reset ring serve the empty history whatever
their cells hold, an append serves the extended history (with the modular arithmetic of
the wrap), reserving a cell and filling it is one append (`FillReserved`), a read of any
depth is the sample or NaN (`ReadServes`). The inductive invariant is that every ring
serves its column of the recorded history and that the histories have the same length;
it gives `TypeCorrect`, `SourceLookbackCorrect`, `ExprLookbackCorrect` and
`RingsAlignedCorrect`. With the previous truth value of every watch in the invariant too
(`Remembered`), `EventsCorrect` proves `EventsAreTransitions` for programs whose watched
expressions yield bools (`WatchesYieldBools`), and `HistoryImplemented` proves the
refinement of `EngineHistory`, one step per action.

**`RegistryProofs`**, first part. `FreedOnce` is not inductive: that a userdata will be
freed once depends on where it is held. The invariant says that a userdata is in at most
one place (`Apart`), that exactly the owned ones carry an owner mark (`OwnedInPlace`), and
that one was freed exactly if it is owned and no longer in place (`FreedWhenDisplaced`).
Each registration replaces an entry by one that `Replaces` it, which is one lemma.
`OwnershipExact`, `NothingDangles`, `OwnUserdata` and `LastAnswers` hold for hosts that
register struct producers and bodies under names without callbacks (`OverlaysNewNames`;
section 6 says why that is needed); `CacheCurrent` holds for every host.
Second part, about `EngineResolver` (assumes finitely many programs and a `Null` apart).
`HostResolverRestored` says nothing while programs are live, so `ResolverInv` adds what the
release relies on: when the engine's resolver is in the slot, the count is positive and
the saved resolver is the host's; when it is not, the slot is the host's choice; without
a count nothing is saved. It gives `ResolverTypeCorrect`, `HostRestored` and
`NoSelfDelegation`. The exact count needs the ghost `stolen`: `CountExact`,
`EngineServes`. `SourceCallsReach` is about names only one program declares.

**`OpenMapProofs`** (assumes hashes are naturals and the capacity is positive). A table is
*sound* when no name has two cells and every cell that is taken can be reached from the
home of its name without crossing a free one; it is *well kept* when moreover the count is
right and at most three quarters are taken, and it *stands for* a function when its cells
hold it. Stores, growth, clear and both clones are one lemma each. Removal is the hard
one: after the d-th turn of the loop behind the hole, the cells up to d are reachable and
those beyond are as before (`Mended`), and the loop may stop at the first free cell
(`MendedStops`) because no probe crosses it (`RoundTrip`). Result: `TablesHoldStores`.
`MapFactsHold` collects what the caches in front of a table rely on: a probe ends at the
cell of the name or at a free one, a value written into a cell changes that name only, a
new name moves no other cell unless the table grows.

**`ContextProofs`**. `ScalarsRead`: the invariant says that no map read before the one of
the last scalar still holds the name (`ScalarsInFront`), although a setter removes a name
from some of the other maps only. `CachesTransparent`: unless `reused` is
set, a hash bucket that carries the present base points at the cell of its name
(`CacheRight`); a pointer bucket points only inside the table (`PointersRight`), which is
enough at any address because the code compares the name there. The theorem has no
assumption on where tables are allocated.

**`IRProofs`**. `LookupTransparent`: unless `aliased` is set, a cache entry carries for
every context before the owner the version at which the name was not found there, and
the version of the owner (`LookupRight`); every change that could shadow the name or
move it raises one of these, and a recycled overlay over the same parent is what it was.
Chains are at most three contexts long; there is no assumption on addresses or parents.
About `FastStack` it proves, of every program the validator accepts, that an executor
which checks nothing is at every instruction at the depths the validator counted there,
and so stays inside its two stacks (`FastExecutorStaysInItsStacks`), whichever way its
jumps go. `expr` shows that the executors of `IRExec` refine it.

The last two modules prove their caches over any tables with `MapFacts`
(`CachesFollowTable`, `LoadsFollowTables`). Their last sections instantiate
`OpenMapProofs` (`Proved`), show that the definitions of the instance are those of
`OpenMap` (`TablesServe`), and drop the hypothesis. This keeps the many lemmas about
tables out of the obligations about caches.

**`ModelProofs`, `ModelSessionProofs`** (hypotheses `ProgramAssumption`: the names of a
program are distinct and finitely many; `CaptureAssumption`: every history is captured
once, and no captured target looks back at a history that is captured before it
(`CapturesReadAhead`), since the capture loop evaluates a target over rings it has already
pushed; `CapturesSucceed`: the capture that ends a tick cannot fail). `ModelProofs` shows
what the rings hold, that a program in dependency order has exactly one meaning
(`MeaningIs`), and that the binding loop computes it: after k turns the names of the first
k bindings have their meaning, and exactly the first k updates are staged (`Follows`).
`ModelSessionProofs` does the same for the commit and the capture loop, and relates the
session to `ModelTick` with the refinement mapping of `ModelSession` (`SessionInv`):
`SessionImplementsTick`, and `HistoriesStayAligned`.

**`ModelFusedProofs`** (hypotheses `ProgramAssumption`, `FusedAssumption`: the program is
fusible; `Topological(Source)`: bindings are written in dependency order;
`InputsNeeded`: every declared input is read). `FusedImplementsTick` is the refinement of
`ModelTick` for every mix of materializing and fast ticks. `BackendsInParity` follows from
the two refinements: both sessions map to the same state of `ModelTick`, whose next state
the inputs determine, so verdicts and outputs are equal after every tick.

The provers have no induction over data. Where a loop is to be followed to its end, the
proofs use that a set of numbers has a least element (`LeastNumber`), that a set which
holds 0 and with each number the next holds all of them (`UpTo`), and that a loop has a
sequence of states (`LoopRuns`), all in `OpenMapProofs` and `ModelProofs`; each loop of
the models is written as a function of the number of turns so that these apply.

**What is only model-checked.** What the recursive operators compute: `Evaluator`,
`EngineEval`, the parser, the evaluators, the compiler, the series and `Bulk`'s store
are written with recursive operators, which the provers cannot expand, so
`DependencyOrder`, `ResultsAreClosed`, `ResultsAreMeaning`, `SessionMeansPast`,
`GeneratedMeansPast`, `AdapterMeansPast`, `ImplementsPopulation` and all properties of
`expr` stay with TLC. `ModelChild` and `EngineParams` are small enough for their
instances to be representative.

## 5. What the modules assume

The passing runs and the theorems are about hosts and programs within these limits. Each
was drawn where the code outside it does something its documentation does not say, or
where the model stops; section 6 has the differences.

| module | assumption |
|---|---|
| `EngineResolver` | Properties over a source name are about names one program declares; `stolen` marks the states after an early build failure. A host resolver with a cleanup function is freed by the acquire, and the delegate captured from it is not called. |
| `EngineSession` | Watched expressions give bools (`ResultsOf`, `WatchesYieldBools`). |
| `EngineEval` | Argument calls are evaluated in every tick and ticks of programs with argument calls are not repositioned; a compound target names sources, not other expressions; a conditional's branches hold no argument call of their own. |
| `Evaluator` | No expression has more references than the buffer. |
| `OpenMap` | The growth of the numeric map succeeds; that of the owned maps may fail. |
| `ContextNumbers` | `ReadsAreSets` excepts the states with `reused`. |
| `LookupCache` | `LoadsAreLookups` excepts the states with `aliased`, until the next evaluation that walks; version counters do not wrap. |
| `ContextBindings` | The write properties are about numbers, bools and int64s, and for params about names without a struct. |
| `Registry` | Struct producers and expression bodies go to names that have no other callback (`newOnly`, `OverlaysNewNames`); allocations succeed. |
| `ExprMachine` | The corpus leaves out the forms listed under Expressions in section 6; a host registers functions anew with the signature they had. |
| `ModelBackends` | The bindings are written in dependency order (`Topological(Source)`), and every declared input is read by a binding (`InputsNeeded`). Outputs are numbers, and the host passes an error record. |
| `ModelSession` | The capture that ends a tick does not fail (`CapturesSucceed`), and captures a target before the histories it looks back at (`CapturesReadAhead`). |
| `ModelChild` | `OncePerTick` is about runs without failures, `CallsIndependent` about lifetimes with instances of their own. |
| `SeriesMachine` | A parameter without a maximum is not set above its default. The corpus leaves out the forms listed under Series in section 6. |
| `Bulk` | The host keeps to `docs/api/bulk.md`: it binds the view anew for every launch, hands out every row at most once, and changes the store only while no range runs. |

## 6. Where code and documentation differ

Seven are shown by runs of their own:

- **A failed build takes another program's reference** (`resolver_failed_build`).
  `engine_program_free_internals` (`src/engine/program.c:108`) releases the resolver also
  for a build that never acquired it, so a live program on the same registry loses its
  resolver, against "restore the host resolver only when the last program is freed"
  (`src/engine/program.c:386-388`). The damage ends with the last program
  (`HostResolverRestored` has no exception).
- **Fallback ticks rewrite parameters** (`engine_params_refreshed`).
  `src/engine/session.c:384-390` copies the parent's value of every parameter the program
  mentions over the session's own before each fallback tick, and it stays, against
  "Params are fixed for the life of a session unless changed by an explicit call to this
  setter; they are never re-hydrated per tick" (`include/cxpr/engine.h:459-460`).
- **A slot is valid after a clear** (`context_slot_cleared`). `cxpr_context_clear` keeps the
  table and `src/context/slot.c:51` compares only its address, so the slot may be an empty
  cell or that of another name, against "True when the slot is still safe to use"
  (`include/cxpr/context.h:187`).
- **A recycled overlay answers for its former parent** (`context_overlay_recycled`).
  `cxpr_context_overlay_new` returns the overlay freed last, at the same address and with
  version 1 again; over another parent of equal version a compiled program
  (`src/ir/program.c:626`) takes it for the old one and reads the old parent's variable,
  against "Parent context used for misses" (`include/cxpr/context.h:33`).
- **The fused program runs bindings as written** (`model_backends_forward`).
  `src/model/fused.c:337` lists them in source order, so a binding written before one it
  reads gets the value of the previous tick, against "The compiled model stores
  dependency order once" (`include/cxpr/model/model.h:276`).
- **The printer binds `not` too tightly** (`syntax_printed`). `src/ast/printer.c:98` gives
  every prefix operator the precedence of a sign, the parser reads `not` below the
  comparisons: `a == (not b)` is printed as `a == not b`, which does not parse, and
  `(not a) == b` as `not a == b`, which means something else, against "valid cxpr source
  that can be parsed back into an equivalent AST" (`include/cxpr/expr/ast.h:442`).
- **A lookback alone may find no resolver** (`series_documented`). A model whose only
  lookback is `x[0]` or `(x + y)[2]` plans no history, installs no resolver, and fails at
  every tick (`src/eval/tree.c:804`), against `docs/api/language.md:209-211`.

The rest were met while modelling and are the reason for the assumptions of section 5.

**Engine and evaluator**

| source | the code | the documentation |
|---|---|---|
| `src/engine/program.c:230` | A second program with the same source name takes over its registered call; freeing it leaves the first with a freed name. | "typically built once and shared across many programs" (`include/cxpr/engine.h:257`) |
| `src/engine/lookback.c:41` | The acquire frees userdata the registry owned for the host's resolver and keeps it as delegate. | "unrelated targets are delegated to it and the prior resolver is restored" (`docs/api/engine.md:73`) |
| `src/engine/session.c:310` | A watch that is no bool fails the tick after earlier watches moved on; their edge is lost. | "Fires on a false→true transition." (`engine.h:95`) |
| `src/engine/lookback.c:396` | A named expression inside a compound target is read at its present value. | "historical compound expression" (`docs/api/language.md:211`) |
| `src/engine/source.c:245` | A call's ring advances only in ticks that evaluate it, and not at all in a tick at the cursor of the previous one. | "previous sample" (`docs/api/language.md:210`) |
| `src/engine/source.c:276` | A call read at two depths is pulled twice in a tick; `price[0]` of a source without a ring is pulled again after hydration. | "at most once per tick per referenced source" (`engine.h:105`) |
| `src/expression/expression.c:73` | References beyond 256 order nothing. | "in dependency order" (`include/cxpr/evaluator.h:35`) |

**Context and registry**

| source | the code | the documentation |
|---|---|---|
| `src/context/values.c:275` | A string, struct or array set over an int64 is hidden by it. | "Set a typed runtime variable." (`include/cxpr/context.h:82`) |
| `src/context/values.c:246` | Struct variables and struct params share a map. | "Set a typed `$param`." (`context.h:151`) |
| `src/context/structs.c:193` | A param's number is sought along the whole chain before the parent's own typed value. | "Parent context used for misses" (`context.h:32`) |
| `src/context/values.c:336` | `cxpr_context_get` without a found flag returns 0. | "Optional success flag output." (`context.h:93`) |
| `src/context/cache.c:46` | A bucket is trusted if the base address recurs, whatever name its cell has now. | "Variable value, or `0.0` on miss." (`context.h:91`) |
| `src/registry/add.c:402` | A struct producer over a scalar function is called with the scalar's userdata. | "User pointer passed to `func`." (`include/cxpr/registry.h:497`) |
| `src/registry/add.c:407` | A struct producer over another entry drops that entry's cleanup. | "transfers userdata cleanup to the registry" (`docs/api/embedding.md:108`) |
| `src/registry/define.c:317` | A definition over an AST function leaves the function in place, without userdata. | "User pointer passed to `func`." (`registry.h:344`) |

**Models**

| source | the code | the documentation |
|---|---|---|
| `src/model/session.c:1276` | A producer that faults during capture fails the tick after its outputs were refreshed and its updates staged, with earlier histories advanced: the failed tick takes effect. | "atomic across a tick" (`docs/api/documents-models.md:98`) |
| `src/model/session.c:241` | A target is captured over histories already advanced by the same capture, so one captured after a history it looks back at reads it one tick too new. | "atomic across a tick" (`documents-models.md:98`) |
| `src/model/session.c:411` | A bool output has no number in a fused session; the reference session reports the number its context has under the name. | "a useful parity oracle" (`documents-models.md:104`) |
| `src/model/session.c:1146` | Without an error record a failed fused program counts as run and the tick succeeds. | "a useful parity oracle" (`documents-models.md:104`) |
| `src/model/fused.c:246` | The fused tick copies every declared input, so one that no binding reads and the host did not set fails a fused tick and not a reference tick. | "a useful parity oracle" (`documents-models.md:104`) |
| `src/model/session.c:1082` | After a failing fast tick the context keeps the older state. | "for host input writes and output reads" (`include/cxpr/model/model.h:596`) |
| `src/model/session.c:1013` | A child commits in a tick its parent loses. | "atomic across a tick" (`documents-models.md:98`) |

**Expressions**

- The memo of a number evaluation (`src/eval/api.c:571`) and the program of a defined
  function (`src/ir/exec/api.c:28`) outlive a registration that changes what they call;
  so does an opcode chosen for `abs` or `clamp` when the host registers its own.
- `cxpr_eval_ast_number` of `zz + d()` with `zz` unset succeeds with NaN when `d` is a
  defined function: the pending error is dropped (`include/cxpr/eval.h:33` promises the
  error).
- A function that is substituted into its caller sees the caller's names; beyond the
  inline limit it does not. `clamp` with swapped bounds differs between tree and program.
- The references of a tree (`src/ast/references.c:57-104`) do not look into the base of a
  field of an expression: with `a = q * 2` and `b = ({v = a}).v + 1` nothing orders `a`
  before `b`.

**Series**

- Session: nested windows are right over plain names only; `cross_above(x[1], y[1])`,
  `rising(x[1], 2)` and `cross_above(x + 1, y)` are always 0; a window over `x[k]` reads
  `k` now; `max(window(cross_above(x, y) ? 1 : 0, 2))` plans depth 1 and reads 2; `x[$n]`
  beyond the planned bound is NaN; a call as series target is not shifted when a resolver
  is installed.
- Generated C: `sum(window(x, $n + 1))` keeps the default period; a window over
  `x * $n` is rejected; a `sum(window(x, 3))` that appears both alone and in a binding
  advances their shared ring twice; an infinite sample leaves a rolling sum NaN.
  `roc(x, k)` of a literal period is in percent, and 0 for a missing or zero sample, where
  the session gives a fraction and NaN; `max(x, y)` and `min(x, y)` of two take the second
  when either is NaN, where the session keeps the first; `(highest + lowest) * 0.5` over
  two different series leaves out the offsets at which either is missing. A window whose
  period is a parameter without a maximum is planned for the default of the parameter, and
  a larger value is cut to it.
- Adapter: offsets add up where each should start from its own sample:
  `(x[1] + x)[1]`, `((x + y)[1] + x)[1]` and `delta(x, 2)[1]` differ from
  `include/cxpr/history.h:57-58`.

**Bulk**: a snapshot holds no ids, so a restore is by rank.

## 7. What is not modelled

- C and CUDA text as text (`src/ir/codegen.c`, `plugins/`): its correctness needs a
  semantics of those languages; `GeneratedTick` models what the text of a model computes.
- Numeric bodies of most built-in functions (`src/registry/defaults.c`): floating point.
  `min`, `max`, `mean`, `abs`, `nan`, `if`, `clamp` and `within` are modelled over small
  integers.
- A failing growth of the numeric map, and the slot that the tree evaluator keeps in an
  identifier node (`src/eval/api.c:238-267`), which reads what the map of `ExprValues`
  holds.
- Providers, sources, baskets, scopes and resampling; documents with spans; JSON and
  diagnostic snapshots; command-line and editor tools. They read the state of the parts
  above or keep none the library depends on. Source plans are the part of these with
  state of its own.
- Two hazards have no property: a NaN argument of a source call, which equals nothing
  (`src/engine/source.c:127`), and a pull callback that ticks another session on the same
  thread (`src/engine/session.c:235`); both are noted in `PROJECT.json`.
