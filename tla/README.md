# The backtracking core of CVC4 in TLA+

CVC4 decides satisfiability modulo theories. Everything it derives is derived
under assumptions that it may take back: decisions of the SAT search, and
assertions of the user between `push` and `pop`. This project specifies the
parts that make taking back safe and the parts that are hard to test because
many things happen between cause and effect: memory, reference counts, the SAT
search, the command interface, the exchange between theories, limits, threads.
TLC checks them on small instances; TLAPS proves the two lowest layers, the command
interface, the limits and the exchange between threads for every size.

Paths below are relative to the directory `src/` of the repository, so
`context/context.cpp` is `src/context/context.cpp` there.

## 1. Inventory

### Components, their state and their operations

| Component | State | Operations | Properties that make it correct |
|---|---|---|---|
| `Context`, `Scope`, `ContextObj`, `CDO` (`context/context.*`, `cdo.h`) | stack of scopes, one linked list of object versions per scope, saved copies per object, lists of objects to notify | `push`, `pop`, `popto`, construction, write, destruction, `contextNotifyPop` | a pop gives back exactly the state of the matching push; no version is lost, restored twice or left linked after it is freed; every notified object is told once |
| `ContextMemoryManager` (`context/context_mm.*`) | chunks in use, free chunks, next free byte, three stacks | `newData`, `push`, `pop`, destructor | live blocks never overlap or outlive their chunk; no chunk leaks or is freed twice |
| Context-dependent collections (`cdhashmap.h`, `cdlist.h`, ...) | table, list of elements, trash | `insert`, `insertAtContextLevelZero`, `obliterate`, restore | a map that backtracks |
| `NodeManager`, reference counts, attributes (`expr/`) | pool, saturating counts, zombies | `inc`, `dec`, `constructNV`, `reclaimZombies`, `setAttribute`, destructor | no node is freed while it is referenced; equal nodes are one |
| SAT solver (`prop/minisat/core/Solver.*`) and `TheoryProxy` | trail, watches, clauses with user levels, pending lemmas, decision heap, queue of theory facts | `addClause_`, `push`, `pop`, `solve_`/`search`, `propagate`, `updateLemmas`, `analyze`, `cancelUntil`, `simplify`, `reduceDB` | right answers; learnt clauses survive a pop only if they do not rest on what was popped; the theories see the trail; every check ends |
| `PropEngine`, `CnfStream` (`prop/`) | literals of subformulas on the user context | `assertFormula`, `assertLemma`, `ensureLiteral`, conversions | clauses mean the formulas, also after pops and when lemmas arrive in the middle |
| `TheoryEngine`, `SharedTermsDatabase` (`theory/`) | propagation map with time stamps, shared terms, propagated literals, atom requests | `assertFact`, `propagate`, `conflict`, `getExplanation`, `ensureLemmaAtoms` | theories know what is known of the terms they share; explanations rest on earlier literals |
| Equality engine (`theory/uf/equality_engine.*`) | union-find with undo trail, equality graph, trigger lists | `addTerm`, `assertEquality`, `addTriggerEquality`, `explainEquality`, `backtrack` | classes are those of the congruence closure; undo restores them; explanations are entailed |
| Bit-vector theory (`theory/bv/`, `util/bitvector.h`) | cache of circuits | bit-blasting strategies, constant evaluation, rewrite rules | the same value by every way |
| `SmtEngine` (`smt/smt_engine.cpp`) | modal state, user levels, pending pops, assertion queue | `assertFormula`, `checkSat`, `query`, `push`, `pop`, `resetAssertions`, `getModel` | every check is about exactly what is asserted |
| `ResourceManager` (`util/resource_manager.*`) | budgets per call and cumulative, timers | `beginCall`, `endCall`, `spendResource`, `out` | a check stops at its budget, and only then |
| Portfolio and lemma sharing (`main/portfolio*`, `util/channel.h`, `main/command_executor_portfolio.cpp`) | winner, mutexes, bounded channels, saved commands | `runPortfolio`, `sharingManager`, channel push and pop, `doCommand` | one winner, no thread left blocked, engines in step |
| Command loop (`main/driver_unified.cpp`) | commands to replay | `--tear-down-incremental` | a new engine has the assertions of the old one |
| Theory solvers, quantifiers, decision engine, `SimpSolver`, parsers, printers, options, proofs, bindings | - | - | not modelled, see section 7 |

### How they interact

Three stacks move together. The *user context* has a level per `push` of the
user, the *SAT context* a level per user level and per decision. `Solver` pushes
the SAT context in `newDecisionLevel` and `push`, and pops it in `cancelUntil`
and `pop`; all theory state, `TheoryProxy::d_queue` included, is made of
context-dependent objects and follows without being told. The solver calls the
theories only through `TheoryProxy` (`theoryCheck`, `theoryPropagate`,
`explainPropagation`, `variableNotify`); they answer by return values and by
calling back into `addClause_` while the solver is in the middle of
`propagate`, `cancelUntil` or `newVar`. Re-entrancy is handled by queueing: the
clause waits in `lemmas` until `updateLemmas` finds the decision level at which
it belongs. Between theories, `TheoryEngine` routes literals: from the SAT solver
to their owners and to the shared terms database, from the database to theories
that share a term, from theories back to both. `SmtEngine` is the only user of
all this: it checks at a user level of its own and pops it afterwards, but
late, so that the model can be read (`smt_engine.cpp` 4311-4376, 5291-5324).
`ResourceManager` is called by everybody and stops the search through a flag, or
by an exception if the limit is hard. The portfolio runs several engines, each in a
thread with its own `NodeManager`, that meet only in channels and in the race for
the winner.

### What is hard

* Lifetimes cross levels. Copies hold the place of objects in the lists of older
  scopes; blocks of one chunk belong to several pushes; literals at decision
  level 0 belong to several user levels; a clause may be learnt from clauses of
  several user levels; a node dies while the table that finds it still has it.
* Callbacks arrive at the wrong moment: a lemma that is unit at a lower level,
  lemmas sent while lemmas are being sorted or formulas converted, lemmas sent
  while an interrupted search unwinds, notifications that destroy their objects.
* Reasons are asked for long after the fact: explanations are put together from
  maps that have grown meanwhile, learnt clauses from reasons of several levels.
* Steps fail in the middle: `malloc` returns `NULL` after the index was
  incremented; an oversized request fails an assertion after the chunk was
  installed; a check gives up, is refused, or is left by an exception.
* Something must end: the loop of `~Scope`, the rounds of a full check, a search
  out of resources, the race of the portfolio.
* Threads, mutexes and condition variables, in the portfolio only.

PROJECT.json lists the hazards one by one, with the line where each bites and
the properties that catch it.

## 2. Plan

Modelled, lowest layer first because everything above rests on it:

1. `Snapshots`, `Context`, `ContextProofs`: the promise of the
   context, the algorithm with sets of versions, and the proof that it keeps
   the promise; `ContextObjList`, the linked lists of the code, proved to implement
   `Context`; `ContextNotify`; `ContextListProofs`, the proofs about both; `CDHashMap`, checked to implement
   `BacktrackableMap`.
2. `ContextMemoryManager`, `NodeManager`; `MemoryProofs`, the proofs about both.
3. `Solver`: the incremental CDCL(T) search on top of the SAT context; `SolverProofs`,
   `SolverSoundProofs`.
4. `CnfStream` and `TheoryEngine`: what `Solver` takes from outside, the clauses and the
   propagations with their explanations; `EqualityEngine`, on which the shared
   terms database and most theories rest; the bit-vector circuits and rules.
5. `SmtEngine` and `ResourceManager`: the commands above, with their limits;
   `SmtEngineProofs`, `ResourceManagerProofs`.
6. `SharedChannel` (proved to implement `BoundedQueue`), `Portfolio`, which uses
   `BoundedQueue`, `CommandExecutorPortfolio`, `DriverTearDown`;
   `PortfolioProofs`.

Next:

7. Proofs: for `Solver`, that an answer "sat" is right, the half of `AnswersRight` that is only
   model-checked. It rests on `NoMissedPropagation`, which needs an invariant of the watches: in each clause
   that is not removable and not satisfied, a watched literal that is false is the entry at `qhead` or later, or the
   other watched literal became true before it.
8. `combineTheories` with the care graph on top of `TheoryEngine`.
9. The lazy bit-blaster with its own SAT solver and its explanations.

## 3. Modules

| Module | Models | TLC harness |
|---|---|---|
| `Snapshots` | abstract: a store with a stack of saved states, as `context.h` promises | `MCContext` |
| `Context` | `Context`, `Scope`, `ContextObj`, `CDO`, with a set of versions per scope | `MCContext` |
| `ContextObjList` | the same with the pointers of the code | `MCObjects` |
| `ContextNotify` | the objects notified of a pop, and `~Context` | `MCObjects` |
| `CDHashMap`, `BacktrackableMap` | `cdhashmap.h`, and what it promises | `MCObjects` |
| `ContextMemoryManager` | `context_mm.cpp` | `MCMemory` |
| `NodeManager` | `node_value.h`, `node_manager.*`, `node_builder.h` | `MCMemory` |
| `Solver` | `Solver.cc` in incremental mode, `theory_proxy.cpp`; the theories are a set of valid clauses | `MCSolver` |
| `SmtEngine` | the assertion stack of `smt_engine.cpp` | `MCSmtEngine` |
| `ResourceManager` | `resource_manager.cpp` and a check that obeys it | `MCSmtEngine` |
| `CnfStream` | `cnf_stream.cpp`, `prop_engine.cpp`, preregistration | `MCSmtEngine` |
| `TheoryEngine` | sharing and explanations in `theory_engine.cpp`, `shared_terms_database.cpp` | `MCSmtEngine` |
| `SharedChannel`, `BoundedQueue` | `channel.h`, and what it promises | `MCDriver` |
| `Portfolio` | `portfolio.cpp`, `portfolio_util.h`, lemma channels | `MCDriver` |
| `CommandExecutorPortfolio` | `command_executor_portfolio.cpp` | `MCDriver` |
| `DriverTearDown` | `driver_unified.cpp` with `--tear-down-incremental` | `MCDriver` |
| `EqualityEngine` | `equality_engine.cpp` | `MCTheories` |
| `Bitblast`, `BitVector`, `BVRewriteRules`, `Bitblaster` | circuits, constants, rewrite rules, cache | `MCTheories` |
| `ContextProofs`, `ContextListProofs`, `MemoryProofs`, `SmtEngineProofs`, `ResourceManagerProofs`, `PortfolioProofs`, `SolverProofs`, `SolverSoundProofs` | proofs | - |

The harnesses `MCObjects`, `MCMemory`, `MCSmtEngine`, `MCDriver` and `MCTheories` hold several
instances of several modules. Their variable `part` says which instance a
behaviour belongs to and never changes; the variables of the others keep their
initial values. The state space is the disjoint union of those of the parts,
and a property of a part says nothing about the other ones. Where a theorem states
a property, the harness extends the component instead of instantiating it, so that
what TLC checks is the very definition that the theorem names. That is why `NodeManager`, `Portfolio`,
`CommandExecutorPortfolio` and `ResourceManager` have names of their own for `Init`, `Next`
and the like (`NodesInit`, `RaceInit`, `ExecutorInit`, `ManagerInit`). The constants of an extended
component are in the cfg.

Operators marked *Faulty variant of X* (or *Mutant*) are not part of any specification. Each
is a plausible mistake in the code X models; putting it in place of X makes TLC
report the property that PROJECT.json pairs it with, so that no property holds
vacuously.

### Context

A version `<<o, i>>` of an object is one of its saved copies (`i <= Len(saved[o])`)
or, last, the object itself. `chain[l]` holds the versions on the list of the
scope `l`. `pop()` is not atomic in the model: `PopTo` takes the top scope off,
`Restore` is one iteration of the loop of `~Scope`, in any order of the list,
and `ScopeDeleted` is what follows. Clients do not run in between.

`CDO(context, data)` is `ConstructWith`. `CDO(true, context, data)`, for objects in
context memory, is `Construct` followed by `Set` at the same level, and has no
action of its own. Objects in context memory are not deleted by clients.

### ContextObjList, ContextNotify

A node is a `ContextObj` in memory, `prev` is the *address* of the pointer that
points to the node, as in the code. The operations are functions on memories,
composed statement by statement; `absSaved`, `absChain` and `absDying` map a memory
to the variables of `Context`. `ContextNotify` has the two lists of objects to notify
in the same style; a callback may create objects in either list and may delete
its own object, and `pop()` keeps the next object in a local variable meanwhile
(`stored`). An access through a pointer to a deleted object sets `wild`.

### CDHashMap

An element (`CDOhash_map`) is a context-dependent object with copies, a member of
the circular list that gives the order of insertion, and a member of the list of the
bottom scope, which is modelled with its pointers because `obliterate()` unlinks
elements from it; of the other scopes' lists, see `ContextObjList`. An element removed by its
own `restore()` cannot be deleted there and goes to `d_trash`, which the next
operation empties. `ImplementsMap` maps all this to `BacktrackableMap`.

### ContextMemoryManager

An address is a chunk and an offset. After `bad_alloc` only destructors run
(`mode = "thrown"`): `pop` and the destructor, which call `free(NULL)`. After the
assertion on an oversized request, allocation goes on. `live` and `marks` are
history variables: which blocks the client may still use.

### NodeManager

Addresses are used again after `free`, so that a dangling reference is seen as
one to another node. `MAX_RC` (2^20 - 1) and the limit of 5000 zombies are scaled
to small constants. A collection is several steps (copy and clear the set of zombies,
free one, release its children), in the order of `reclaimZombies`, and the
destructor frees the full counts from the top down. `builder` is a
`NodeBuilder` between looking a node up and giving up its references. Where the code makes
several calls of `dec` in a row within one step (`decrRefCounts`, the destruction of the
attributes), the model says what they come to: `Lowered(rc, n)` is the count after `n`
calls, with the wrap of the bit field below 0. Not
modelled: type checking, weak and context-dependent attributes, cleanup functions
of attributes, the payload of constants, export to other managers.

### Solver

`pc` says where the thread is: `user` (outside of `solve`), `bool`
(`propagateBool`), `theory` and `output` (`theoryCheck`, and what the theories
send), `lemmas` and `attach` (the two loops of `updateLemmas`), `decide` and
`conflict` (the two branches of `search`). The state that `cancelUntil` restores
is one record `Core`, and the operations on it compose in the order of the code.
The variable `problem` is what is asked: input clauses, valid clauses of the
theories, and which behaviours are on. It never changes.

What is decided by heuristics is a free choice: which literal is decided, when
to restart or clean up, which blocker a watch has, the order of the watches.
What the theories do is as free as their contract allows: they send any valid
clause at any time, propagate any literal that a valid clause and their
facts force, and at full effort accept only consistent facts. They do not send
again what is already in the clause database, except as a conflict.

Details of the code worth knowing to a reader of the module:

* `reason()` means to drop literals of level 0 from explanations, but the
  parenthesis at line 263 makes the test false, so they stay. `Explain` keeps them.
* `propagate` has a branch that discharges lemmas after a Boolean conflict.
  There are never any at that point, and it is not modelled.
* A clause made from a late explanation can be unit and unnoticed after a
  backjump; `NoMissedPropagation` says so by asking less of removable clauses.
* `pop()` leaves `qhead` at the end of the trail. A removable lemma that was
  false at level 0 because of popped assertions is then not visited again
  (`Overlooked`). The theories find the conflict again and answers stay right.
* The model lets the user call `solve` at a level from which an inner level was
  popped; `SmtEngine` always opens a new one. This only adds behaviours.
* `addClause` after `ok` became false returns at once and has no action.

### SmtEngine

One record `smt` holds the fields of the engine, the user context as a stack of
sets of formulas, and the SAT solver's copy of it. A command is one action per
way in which it may end: normally, refused because a cumulative limit is spent,
or thrown out of by a hard limit. Formulas are opaque and preprocessing keeps
them; what matters is where a formula ends up and when it leaves. `session` is what a run is
like and does not change: `--incremental`, which faults it meets, what checks are about and
whether the assertions are ever reset; the constant `Sessions` says which runs there are.
`stack`, `asked` and
`decided` are history variables: what the user has asserted, what the last check should
have been about, and what it was about.

### ResourceManager

Limits per call and cumulative, in units and in milliseconds, on a wall clock and a
CPU clock. `hist` records what was asked for and what was really used; the properties
compare it with what the manager believed. `enable()` is not modelled. The
listeners are reduced to what they do: the soft one sets the interrupt flag of the
SAT solver. `MaxUsed` and `MaxTime` bound what is spent and how late it gets.

### CnfStream

Formulas are names with a kind and children; literals are integers. `toCNF` and its
handlers are functions on a record that holds the caches, the variables and
the clauses; registration of an atom is a call in the middle of `newLiteral`,
with the lemma that the theories answer given by `registrar`. `TranslationRight` says that
what is asserted and the clauses have the same models, that literals are found for
exactly the subformulas they stand for, and that no permanent conversion leaves
removable clauses, after any sequence of assertions, lemmas, pops and removals.
A removable lemma that is not a clause trips assertions in the code, and
lemmas are chosen accordingly.

### TheoryEngine

A theory is the set of models it allows, over which equalities and predicates have
truth values. It deduces what its facts entail, and explains by facts that it had
when the literal first followed, which is the contract of `Theory::explain`. The equality
engine of the shared terms database is such a theory, `BUILTIN`, that calls back
in the order of the code: disequalities, merged triggers, then trigger equalities for
the SAT solver. `d_propagationMap`, the time stamps, the rewriting of equalities to
false, atom requests and the pickup of propagations are as in the code; `Explanation` is
`getExplanation` with its test of the time stamp at line 2085, which is what keeps
explanations from going in circles. Restoring by the context is a stack of saved
states. A conflict that is sent as a lemma is kept in `conflict`, a history variable.

### SharedChannel, Portfolio

A step of `SharedChannel` is a stretch of code under the mutex, or one
`notify_one()` after it; waiting threads may also wake up by themselves. In
`Portfolio` every place where `runThread`, `runPortfolio` or `sharingManager` can be
overtaken is a step; the channels are `BoundedQueue`s. Assertions are off, as in a
release build. The test and setting of the interrupt flag in the engine are one
step; the flag stays set until the next check. That the sharing thread keeps each lemma
once is an abstraction of `d_shared`.

### CommandExecutorPortfolio, DriverTearDown

`ran[e]` is what engine `e` has executed; the winner of a race runs on, the others catch
up before the next query. `reset` under the portfolio leaves `d_smts[0]` dangling and is
not modelled, nor is the fallback for expressions that cannot be exported.
`DriverTearDown` compares the engine after each command with the assertions and
levels that the script has made.

### EqualityEngine

Applications are curried as in the code, with internal nodes of their own. An
operation of a client is `call`, which adds terms one by one, each followed by
propagation; a step of propagation is one merge with its congruences and
notifications. `ClassesRight` compares with the congruence closure computed from the
asserted literals by its definition. Not modelled: interpreted functions, predicates,
trigger terms (see `TheoryEngine`), the master engine, proofs.

### Bitblast, BitVector, BVRewriteRules, Bitblaster

A bit is the value its formula has under an assignment, so the circuits are
checked by trying all assignments. The division strategies put the other result
in the cache; the division rules are those under `--bv-div-zero-const`. The alternative
circuit for unsigned comparison (`AdderUltBB`) is included. Not modelled: bookkeeping of
the lazy and the AIG bit-blaster, n-ary versions of the associative strategies,
normalisation by coefficient maps, the subsolvers.

## 4. Runs

Times are on two cores, with coverage statistics.

| Run | Checks | States | Time |
|---|---|---|---|
| `context` | two objects, two values, levels 0..2: types, lists exact, versions right, refinement of `Snapshots`, pop terminates | 8,800 | 8 s |
| `objects` | the lists, notifications and maps on a context; `ContextObjList` implements `Context`, `CDHashMap` implements `BacktrackableMap` | 104,919 | 130 s |
| `memory` | context memory; reference counts and collection | 394,272 | 50 s |
| `solver` | four problems (`Lemmas`, `Ends`, `Interrupted`, `Units`): trail, watches, theories, conflicts, answers, every check ends | 489,244 | 149 s |
| `solver_learn` | two problems (`Learn`, `Minimise`): what stays in the database is entailed | 307,159 | 121 s |
| `smt` | commands, limits, translation to clauses, sharing between theories | 542,335 | 184 s |
| `driver` | channels, races, engines in step, replayed scripts | 205,615 | 70 s |
| `theories` | congruence closure; circuits, constants, rules | 476,996 | 80 s |
| `solver_pending`, `smt_refused`, `race_blocked`, `bits_self_division` | violations, see below | up to 119,313 | up to 24 s |

### What the properties say

* `context`, `objects`: `ImplementsSnapshots`, `ImplementsContext` and `ImplementsMap` are the
  refinements. `ListsExact`, `VersionsRight` and `ListsSound` say that the lists hold
  exactly the versions that must be restored; `NotifyRight` that lists of
  notified objects are walked safely and completely; `MapSound` that table, order, trash
  and list agree. `PopTerminates` is liveness.
* `memory`: `BlocksDisjoint`, `BlocksInChunks`, `ChunksOwned`; `ReferencesRight`
  (counts are the number of references, unless full; nothing refers to freed
  memory), `CollectionRight` (equal nodes are one, garbage is found by the next
  collection, the destructor frees all).
* `solver`: `TrailRight` (reasons precede, clauses that are reasons are kept, what is true at
  level 0 is entailed at its user level), `NoMissedPropagation`, `TheoryInSync`,
  `ConflictIsCurrent`, `AnswersRight`, `ChecksEnd`; `solver_learn`: `ClausesEntailed`.
* `smt`: `AnswersAboutAssertions`, `EngineInStep`, `StopsRight` (no check goes on beyond its
  limits, answers late, or is stopped without a reason), `SearchStops`,
  `TranslationRight`, `SharingRight`.
* `driver`: `NoMissedWakeup`, `IsFifo`, `RaceRight`, `LemmasInOrder`, `WaitingEnds`,
  `EnginesInStep`, `SameStack`.
* `theories`: `ClassesRight`, `Explained`, `TriggersRight`, `BitsRight`.

### Why the bounds are enough

*Context.* The code looks at one object and its neighbours in a list, and at two
adjacent scopes. Two objects over three levels give copies of copies, a pop of
several levels, and constructions between pushes; three objects give a
neighbour on both sides of every node. The bound `FewObjects` of the run `objects` leaves
three objects below one push, or two below two. Two keys and three elements let a key be
inserted again while its old element is in the trash. *Memory.* Three chunks allow
one in use below a mark, one above it and one free; a chunk of three units has
room for two blocks and can be filled exactly; a request of four units is larger
than a chunk. Three addresses hold a chain of three nodes, or a node with two equal
children next to another one. Two Nodes for each value and four as the greatest count let a value, its
parent, both or none be full when the destructor starts, and be given up afterwards. *Solver.* The problems are chosen by the behaviour they
must contain: an atom that only the theories know; interruption anywhere; two
user levels below a unit; a conflict over two decision levels; a redundant
literal, which needs four atoms. *SmtEngine.* Two formulas and two pushes let a formula be
asserted at the wrong level and be seen by a later check. *Limits.* Budgets of 2 and
3 units with steps of 1 and 2 are hit exactly and overshot; both kinds of limit are on or off.
*CnfStream.* Every connective occurs at the top, below another one and negated;
one level, and one lemma besides those of registration. *TheoryEngine.* Three terms allow
transitivity; `sharing` has two theories that deduce from each other's equalities, and
no decisions, so that everything happens in one level; `asked` has one decision, an equality
that rewrites to false, and a request for an equality written the other way round.
*Portfolio.* Two workers, with and without lemmas, and channels of one or two places; that the
race goes right with any number of workers is proved (`RaceCorrect`).
*Bits.* Sizes 1 to 3 with pairs of terms in the cache, 4 and 5 with one, which reach
all stages of the shifters.

Symmetry is used for chunks, addresses, objects and keys, which appear in no
property by name and in no liveness property.

### Fairness

`Context` assumes weak fairness of the steps of `pop()`, which is straight-line
code. `Solver` assumes that the thread goes on while it is inside `solve`, and
nothing of which alternative it takes: theories may never propagate, and
decisions may be the worst. `ChecksEnd` is checked on the problem `Ends`, without
restarts, because the model lets the search restart at every point, while the code
lets more and more conflicts pass before each restart; and not on `Units`, where the
theories of the model may send for ever a lemma that is a unit at level 0 and
therefore not recorded. `ResourceManager` assumes that the loop of the search comes
back to its test. `Portfolio` assumes weak fairness of every thread, and strong
fairness of taking a mutex, which others may hold again and again; a
worker's query ends by itself only for the threads in `Finishing`.
`SharedChannel` assumes weak fairness of threads that are inside `push` or `pop`.

## 5. Disagreements between the code and what it says

### With a run of their own

**`solver_pending`.** `lemmas` is emptied only by `updateLemmas`. An interrupted search
calls `cancelUntil(0)` (`Solver.cc:1275`), which registers atoms again, and a theory may
answer with a lemma; no `propagate` follows. `pop()` then deletes the variables
introduced at the popped level and leaves `lemmas` alone. The next check calls
`value()` on literals of variables that are gone, which the `assert` at
`Solver.h:525` forbids.

**`smt_refused`.** A check that finds the cumulative limit spent returns before the queue of
assertions is processed (`smt_engine.cpp:3703`). Its formula stays in the queue, is
asserted by the next command, and is part of the checks after it.

**`race_blocked`.** `push()` on a full channel waits (`channel.h:81`). When the race is
decided, the sharing thread, the only reader, leaves; a worker that waits there
never returns, and main, with `--wait-to-join`, waits for the worker.

**`bits_self_division`.** `UdivSelf` rewrites `a udiv a` to 1 also where `a` is 0
(`theory_bv_rewrite_rules_simplification.h:943`), though division by zero is
to give all ones.

### Seen while modelling

Each of these is in the model as the code has it. The runs that pass leave the
triggering inputs out, by the constant or the part that is named; with them, the
named property fails.

| Place | What the code does | What is said of it | Left out by |
|---|---|---|---|
| `util/resource_manager.cpp:220` | cumulative time that is used up sets the timer to 0, which switches it off | `AlwaysAssert(d_cumulativeTimer.on())`, line 214 | `CumulativeMillis <- {0}` |
| `util/resource_manager.cpp:216` | each `beginCall` forgets the time of earlier checks | "for all remaining calls", `smt_engine.h:679` | `CumulativeMillis <- {0}` |
| `util/resource_manager.cpp:225` | tests `d_thisCallResourceUsed`, just set to 0, so a limit per call is ignored while a cumulative limit is on | "min between per call budget and left-over", `resource_manager.h:98` | `StopsRight` asks for the per-call limit only without a cumulative one |
| `util/resource_manager.cpp:225` | the same return, under a cumulative time limit only, leaves the budget of units at 0, so a check with a limit of units per call is stopped before it has used any | "take min of what's left and per-call budget", line 230 | `CumulativeMillis <- {0}`; `OneLimit` in the proofs |
| `util/resource_manager.cpp:232` | takes the minimum with the budget of the previous call, so raising a limit has no effect | "replaces any per-call resource limit", `smt_engine.h:632` | one limit per call only (`PerCallUnits <- {0, 2}`) |
| `prop/minisat/minisat.cpp:180` | the interrupt flag is not cleared before the next check | "only cause the SmtEngine to stop ... when the limit expires", `smt_engine.h:641` | such a check ends as interrupted, of which no property speaks |
| `expr/node_manager_listeners.cpp:36,40` | a resource limit option calls `setTimeLimit` | the name of the listener | not modelled |
| `smt/smt_engine.cpp:4408` | the exception of a hard limit skips `internalPop`; the level stays open | "the current set of assertions", `smt_engine.h:485` | checks with a formula, in the part `faulty` |
| `smt/smt_engine.cpp:5349` | `resetAssertions` without user levels keeps the queue and the clauses of the lowest level | "Reset all assertions", `smt_engine.h:609` | `AnswersAboutAssertions` excludes sessions with resets |
| `smt/smt_engine.cpp:5353` | a pending pop makes the assertion in `resetAssertions` fail | the assertion | `NoAssertFails` excludes resets |
| `smt/smt_engine.cpp:4514` | `assertFormula` does not set `d_problemExtended`; models can be read after a further assertion | "whether or not we have added any assertions", `smt_engine.h:225` | no property on models |
| `prop/prop_engine.cpp:293` | `interrupt()` of an engine that is about to enter a query is lost | "Throws a ModalException if ... isn't currently in a query", `smt_engine.h:614` | `Finishing <- {0, 1}` where main waits |
| `main/portfolio_util.h:129` | the channel can be full when the sharing thread reads it | `assert(not channelsOut[t]->full())` | assertions are off |
| `main/driver_unified.cpp:402` | `(push 2)` is a `CommandSequence`; a single pop then closes the wrong list | the replayed levels | `Mixed <- FALSE` |
| `main/driver_unified.cpp:443` | the query that makes a new engine is not counted: N + 1 queries per engine | "every N queries", `options/main_options:57` | no property on the count |
| `smt/command.cpp:546` | an unsupported command ends the sequence in the engines that catch up, not in the winner | "to be run on all others", `command_executor_portfolio.cpp:192` | `Statuses <- {"success"}` |
| `context/cdhashmap.h:468` | an obliterated element in the trash is destroyed twice and writes through old pointers | "it does nothing", line 90 | `ObliterateAny <- FALSE` in the part with another object |
| `expr/node_manager.cpp:388` | a child that occurs twice is sorted twice | `Assert(order.size() == roots.size())`, line 395 | the destructor is called in the part `and` only when no count is full |
| `expr/node_manager.cpp:386` | the sort leaves out operators, which are then freed before their applications | "topological order", line 201 | `Parameterized <- {}` |
| `util/bitvector.h:181` | total division by zero gives all ones | "returns 0 when the denominator is 0", line 174 | - |
| `prop/cnf_stream.cpp:390` | `handleIff` lacks the assertion against removable definitions that the other handlers have | the other handlers | - |
| `prop/cnf_stream.cpp:123` | `ensureLiteral` of a Boolean variable stores no way back from the literal | the assertion at its end | `LiteralsRight` asks for theory atoms only |

The cumulative timer also runs between calls, though `smt_engine.h:667` says that it stands still.

## 6. Proofs

All proofs are for arbitrary constants. The assumptions on the constants
(`ContextAssumption`, `ContextObjAssumption`, `ContextNotifyAssumption`, `SolverAssumption`, `MemoryAssumption`, `ThreadsAssumption`,
`CapacityAssumption`, `WorkersAssumption`, `SharingAssumption`, `LimitAssumption`, `EngineAssumption`,
`EnginesAssumption`, `StatusAssumption`, `NodeManagerAssumption`) say that levels,
sizes and limits are naturals, that there are threads, that the memory of terms is finite, and that special values differ from
the others; the instances that TLC checks satisfy them. Some theorems have a
hypothesis besides, `OneLimit`, `PlainSessions`, `AllSucceed`, `Calm` or `Unforced`: each leaves out inputs
(`Unforced`: states) with which the property, or what its proof rests on, can fail in the code (section 5).

### The context

**`TypeCorrect`** is inductive by itself.

**`ScopeListsCorrect`** and **`VersionsCorrect`**: `Spec => []ListsExact` and
`Spec => []VersionsRight`, where `VersionsRight` says
that an object has one version per scope at most and none of a scope that is gone.
Neither is inductive. `Inv` adds `PopState` (the work list is empty
outside of `pop()`, the target is not above the level, and scopes above the
level list nothing), `Anchored` (a slot without an object has no copies, and
the first version of a heap object belongs to the bottom scope, so that
`RestoreNull` can only ever meet objects in context memory), `BelowTop` (no
version belongs to a scope that does not exist), and `Exact`, which is `ListsExact`
said of all pairs rather than of versions that exist. The step proof splits
the invariant by object (`InvByObject`): an operation touches one object and the
others are covered by one lemma (`OtherObject`).

**`ContextImplementsSnapshots`**: `Spec => ImplementsSnapshots`. The value of an
object at level `l` is that of its newest version not above `l`. Restoring
removes only versions above the current level and therefore changes nothing in
the snapshots; the whole effect of a pop happens when the scope is taken off.

**`NotifyCorrect`**: `Spec => []NotifyRight`. That the walk of `pop()` reaches every object is
a fact about a list as a whole, of which `prev` and `next` say nothing: a ring of
objects apart from the list is well linked too. The invariant `NotifyLinked` says
that the objects can be numbered so that each `next` leads to the largest number
below in the same list, and each head to the largest. A new object gets a number above
the others, a deleted one leaves a gap, so nothing is ever renumbered. What is
notified is then what is above the cursor (`Walked`). No induction along the
list is needed.

**`ListsCorrect`**: `Spec => []ListsSound`, for any objects and any bound on the levels, under
`ContextObjAssumption`: `NULL` is not the address of a node. `ListsSound` speaks of walks along the lists, and says too little of what a
step changes: `update()` may relink the neighbours of a node in the middle of a list. `Inv` says the
same of each node and its neighbours (`Linked`): the next one points back, the node before, or
the head of the scope, points here, and the numbers `r` decrease along `next`. A new node gets a number above
all others; a copy that takes the place of its object also takes its number, and gives it back. `Versioned` says
that the copies of an object are numbered without gaps, each restoring the one below, of ever
newer scopes, and that the nodes are finitely many; so `destroy()`, which restores and unlinks once per
copy, leaves none (`DestroyRelinks`, by least counterexample over the recursive function). That `Inv` gives `ListsSound` is a pigeonhole: a walk
that has not ended after as many steps as there are nodes would have met as many distinct
numbers (`WalkEnds`), and the largest number among the nodes of a scope that a walk misses would belong to
one that the head or a node on the walk points to.

**`ListsImplementSets`**: `Spec => ImplementsContext`, under the assumptions of both modules.
The mapping of `ContextObjList` walks lists and chains of copies. `Inv` makes it local
(`AbsState`): the list of a scope is the set of versions whose node has that scope (`ListOf`,
from the walks of `ListsCorrect`), the number of copies is what `Saves` counts, and the chain of
copies of an object is its copies in order (`ChainOfCopies`, by least counterexample).
Each operation on memories then has one lemma that says what becomes of data, scopes, copies
and lists of the object it works on, and that those of the others stay (`Changed`): `UpdateAbs`,
`RestoredAbs`, `CreatedAbs`, `GoneAbs`. Each action of the lists is one of
the sets: the two loops of the code, over the list in `~Scope` and over the copies in `destroy`,
restore the same versions. With `ContextImplementsSnapshots` the pointers keep the promise of
`Snapshots`.

**`MemoryTypeCorrect`, `BlocksSafe`, `BlocksContained`, `ChunksSafe`**: a position is the index of a
chunk in `d_chunkList` and an offset. `Inv` says that blocks lie at increasing
positions before the next free one (`Placed`), that each mark still bounds
the blocks older than it and names the chunk it was made in (`Marked`), and
that the current chunk is the last of the list (`StacksInStep`). It asks for the last
only in mode `run`: after `bad_alloc` a `NULL` is on top of the list and the next
free byte is still in the chunk below.

### The expressions

**`ReferencesStayRight`** and **`CollectionStaysRight`**: `NodesSpec => [](Unforced => ReferencesRight)`, and
the same for `CollectionRight`, for any finite memory, any kinds with any numbers of children, any maximum of
the count, limit of zombies and number of Nodes of the clients. `Unforced` holds as long as the manager
is used, and in its destructor unless the sort has visited a full count. What it leaves out is the forcing
of full counts: the order of the sort, on which it rests, is wrong when a value is a child twice, or an
operator (section 5), so that only the shapes that TLC checks are claimed there.

`NodesInv` is the inductive invariant. `Exact` says of each value that its count is the number of
references, or full and the value listed. The number is a sum of five: Nodes of clients, calls of `dec`
still to be made, children of the builder, attributes, and the places among the children of values, a set
of pairs (`Uses`), so that a child that occurs twice counts twice. `ReferencesChange` takes the sum apart,
`IncStep` and `DecStep` say that `inc` and any number of calls of `dec` change the counts as the step changes
the sum; each action then accounts for its own references. Three parts of the invariant are about the order
of the code:

* `ResultSafe`: what an operation is about to return survives the calls of `dec` before it, and a
  collection that they start, though it has no reference of its own yet. There are three reasons, one for
  each caller: the references given up are those to its children (`constructNV`), or the one to its
  parent, which is still there (`operator=`), or the client holds it (`setAttribute`).
* `ControlRight`: what is being collected has count 0 and is not among the new zombies, so that no
  value is freed twice.
* `Acyclic`: each set of values has one that no other of it refers to. When the destructor ends, such
  a one among what is left would have count 0, and by `NothingLost` it would be waiting for collection
  (`CollectionFollows`); hence nothing is left.

### The SAT solver

**`TheoriesInSync`**: `Spec => []TheoryInSync`, for any set of atoms, problems, theories and
bound on the levels. `TheoryInSync` speaks of the present only; a backjump brings back
a context that was pushed long ago, so `Sync` in `Inv` also says of each saved context what
it will be good for. `m` in `InStep` maps each context to the length of the trail when it
was pushed (`Marks`): for a decision level this is `trail_lim`, for a user level it separates
the entries of lower user levels from the others, which is why `pop()`, which drops
entries by their user level, and the context, which was pushed before any of them, come out
at the same place (`RemainingIsMark`). `Restores` says that the facts and the queue in a
saved context are the theory literals of the trail up to its mark. `Registered` says that an atom
that a context does not know is registered again by the `cancelUntil` that returns to it,
because `variables_to_register` still has it with a higher level, or is deleted by the
`pop()`. The operations (`newVar`, `uncheckedEnqueue`, `newDecisionLevel`, `cancelUntil`, ...) are
functions of a core, so each has a lemma that it keeps `Sync`, and each action is a
composition of them. Which literals, lemmas and levels the search picks plays no part: the proof uses
of `analyze` only that its backjump level is a natural number.

**`TrailStaysRight`**, **`ClausesStayEntailed`**, **`ConflictsAreCurrent`**, **`UnsatIsRight`**:
`Spec => []TrailRight`, `[]ClausesEntailed`, `[]ConflictIsCurrent`, and that the solver says "unsat"
of unsatisfiable assertions only, for any set of atoms, problems, theories and bound on the levels. None of
the four can be proved alone. A clause is learnt by resolving a conflict with the reasons
on the trail, so it is entailed, at its user level, only if the conflict and the reasons are, if each reason has its literal
and false ones before it, and if what was left out at decision level 0 is entailed at the level that
the clause gets; and a clause becomes a reason only if its other literals are false. `SoundInv` says it all at once:

* `Graph`: each entry of the trail rests on its reason, by literals that are false before it, in a clause
  of a level not above its own; user levels do not decrease along the trail.
* `Decisions`: each decision level begins before an entry, everything above level 0 that is no
  decision has a reason, and all levels but the last one are propagated.
* `Fixed` and `Database`: what is entailed, for the entries of level 0 and for the clauses.
* `Levels`: what `ok`, `trail_ok` and the answer say of the assertions.
* `Updating`: a lemma that waits is valid and about variables that exist, and one that was sorted
  is still in the right order (`InOrder`): its first literals are the ones to watch although others have been attached
  and have propagated since. This is what the index up to which the trail is compared is for: a literal after `index`
  is not looked at.
* `Searching`: for each `pc`, what is true there: a clause being visited watches the literal that became
  false, a conflict is false and has a literal of the last decision level (`ConflictIn`).

`SolverProofs` has what the operations on the trail, on the clauses and on lemmas do to these, and
`SolverSoundProofs` one lemma per action. The longest are those of `updateLemmas` (`SoundSortLemmas`,
`SoundAttachLemma`), of `pop()` (`SoundPop`, with the entries that survive moved down), and of `analyze`.
For the latter (`SoundConflict`), `Resolution` is a recursive function of the trail, unfolded by
steps (`ResolveStep`), and `Resolvent` says what is kept at each: the literals are false, not of level 0, and follow at the level counted
so far. That one literal of the current level remains is shown by counting (`ResolutionIs`); a literal that
`litRedundant` removes is implied by the others in each model, by induction along the trail (`RedundantImplied`), if the
level of the clause counts the user levels it met there (`LearntFollows`). Explanations are made into clauses while this goes on
(`SoundExplained`), and after the backjump the learnt clause implies its first literal (`Backjump`, `SoundLearns`).

`Calm` says that no theory answers a registration with a lemma in a check that may be interrupted. Without it a lemma
can be about variables that are gone, as `solver_pending` shows, and `Updating` is false: what
`value()` returns for them is not defined by the code.

### The engine

**`EngineCorrect`** and **`AnswersCorrect`**: `Spec => []EngineInStep` and
`Spec => []AnswersAboutAssertions`, under `PlainSessions`: no `resetAssertions`, and no formulas in
checks where commands of an incremental session may end early. `Good(smt, stack)` in `Inv` says how the
engine's stacks fit together once the pending pops are done (`Fits`) and
that the formulas of each user level, in the SAT solver or in the queue, are those
that the user asserted there (`Content`). A pending pop leaves a level in place that
the user has left; `Good` speaks of the levels that will remain, which makes it hold between
all commands, also after one that threw. Without incremental mode it holds until the one
check that is allowed.

**`LimitsCorrect`**: `Spec => []LimitsObeyed` and two action properties: a late answer is
forgotten, and a check times out only when its timer has expired; for all combinations of
limits. **`StopsCorrect`** adds the converse, that a check runs out of resources only
when a limit is spent (`StopsRight`), under `OneLimit`. `Inv` ties the manager's budgets
to the history `hist` of what was asked and used (`BudgetsSet`, `CallBudget`, `CallTimer`).
`OneLimit` is needed because of `resource_manager.cpp:225` and `:232`; `BudgetKept`, the
invariant added under it, says that what an earlier call left over is that one limit or 0.

### The threads

**`TypeCorrect`** and **`WakeupsNotMissed`**, `Spec => []NoMissedWakeup`. A thread
that sleeps though it could go on is no harm as long as somebody will wake it. One such
thread is not enough for an induction: it may wake another one than the one that
sleeps on. `EnoughComing` counts: as long as a producer waits, there are as many threads about to
notify or just woken as there are free places; as long as a consumer waits, as many as
there are unread items. This is where the threads have to be finitely many. **`ImplementsQueue`**,
`Spec => IsFifo`: every step of the channel is a step of `BoundedQueue` or none.

**`RaceCorrect`**, `Spec => []RaceRight`, and **`SharingCorrect`**, `Spec => []LemmasInOrder`, in
`PortfolioProofs`. The race: whoever holds the mutex is the only one in the section that sets
the winner, and main and the losers are where the flags say. Sharing: the
lemmas of `u` that are on their way to `t`, in its channel and in the sharing thread's
queue, are exactly those that the sharing thread has taken from `u` and `t` has not got,
in order (`InOrder`). It is said by positions and numbers, so that no filter over
sequences has to be reasoned about; with the types of the lemmas (`LemmaOK`) it is
inductive.

**`EnginesStayInStep`**: `Spec => []EnginesInStep` in `PortfolioProofs`, for every number of engines,
script and outcome of the races, under `AllSucceed`: an unsupported command stops the
engines that catch up, not the winner.

### Only model-checked

* Liveness (`PopTerminates`, `ChecksEnd`, `SearchStops`, `WaitingEnds`): the prover does not
  treat fairness.
* What folds compute would need induction over data: `emptyTrash` and `clear` in `MapSound` and
  `ImplementsMap`, and the replayed scripts in `SameStack`.
* `ReferencesRight` and `CollectionRight` in the destructor once it has full counts to force (not `Unforced`).
* `TranslationRight`, `SharingRight`, `ClassesRight`, `Explained` and `TriggersRight`: the operations call each other
  recursively. `BitsRight`: the circuits are recursive in the size.
* `NoMissedPropagation`, and that an answer "sat" is right (`AnswersRight`): they rest on the watches
  of all clauses through all steps, which `SoundInv` says nothing of.

## 7. Not modelled

* `makeSaveRestorePoint`; `CDList`, `CDQueue`, `CDInsertHashMap` and `CDTrailHashMap`, which
  keep a size that `Context` restores and drop what is behind it; the symbol table, a
  layer over `CDHashMap`.
* In `Solver`: assumptions and `analyzeFinal`, `flipDecision`, `CHECK_FINAL_FAKE`,
  `varTrue`/`varFalse`, the relevancy and `stopSearch` answers of the decision
  engine, activities and phases (every choice is allowed instead), garbage
  collection of clause memory, proofs, lemmas shared between threads,
  `UnsafeInterruptException` thrown in the middle of `propagate`, and lemmas sent while
  atoms are registered in `push`, `pop` or at the start of `solve`.
* `SimpSolver`: variable elimination is off in incremental mode.
* In `SmtEngine`: preprocessing, which rewrites terms; definitions, options, proofs,
  unsat cores, synthesis and quantifier elimination.
* In `TheoryEngine`: `combineTheories` and the care graph, preprocessing, models,
  quantifiers, and the mode without sharing, where explanations are the theory's own.
* The decision procedures of the theories (arithmetic, strings, sets, arrays, datatypes,
  quantifiers, ...), by far the largest part of the source: their soundness is mathematics about
  terms, not about states. They appear as sets of valid clauses in `Solver` and as
  sets of models in `TheoryEngine`. The decision engine only chooses among decisions that
  `Solver` allows anyway.
* `bvminisat`, a copy of Minisat without user levels, and the binding to cryptominisat.
* Input, output, options, language bindings, the compatibility layers and proof output.
