# Simetra: a verification project

Simetra is a TypeScript platform.  Metadata files describe catalogs, documents
and registers; a compiler turns them into SQL; the schema tier plans and applies
that SQL to a live Postgres database; the server tier runs commands against it;
the designer offers all of this as tools (CLI and MCP).  This directory holds TLA+
models of the parts in which ordering, failure and concurrency decide
correctness, the TLC runs that check them and the TLAPS proofs about them.
Comments in the source are Ukrainian; they are translated here where quoted.

Paths below are relative to `packages/`; `apply/` is `simetra/src/schema/apply/`,
`server/` is `simetra/src/server/`, `tools/` is `designer/src/tools/`.

## 1. Inventory

| Component | State | Operations | Interacts with | What makes it correct |
|---|---|---|---|---|
| Apply runner (`apply/{execute,state,retry,rehearsal}.ts`) | `simetra.marker`, `simetra.ledger`, attempts, the advisory lock | `executePlan`, `runAttempt`, `afterLostConnection` | the database port, plan and report files | an unbroken ledger, a true answer after any failure, no overwritten foreign DDL, a bounded number of attempts |
| Database port (`designer/src/schema-engine/apply-database.ts`) | one connection per transaction | `transaction` | Postgres | ROLLBACK or COMMIT, a lost connection told apart from an SQLSTATE |
| Planning (`apply/{plan,drift,fingerprint,steps}.ts`) | none; reads the target | `buildPlan`, `planPromotion`, `prove` | target, shadow, copy; writes `plans/*.plan.json` | a plan describes one moment of the target; drift is reported |
| Lock sets (`apply/locks.ts`) | none | the tables and modes of a plan | the runner | every table a step touches is locked before the fingerprint |
| Promotion (`apply/promotion/`) | records in `plans/` | transition, data steps, preservation, removals | plan and runner | no row lost; rehearsed on the rows there are |
| Rights maintenance (`apply/rights-maintenance.ts`) | rights tables | one transaction under the advisory lock | excludes the runner; the guards check its rows | access is restored only where nobody has it, once; the answer is true |
| Command runtime (`server/{transaction,hook-context,phase,port}.ts`) | a transaction, a queue and hook scopes per attempt | `runCommand`, phases, `ctx.run/read/reject/afterCommit`, retry | Postgres core functions, application hooks | at most one effect, whole commits, true answers, connections returned quiet |
| Runtime creation and reads (`server/{runtime,read,read-filter,decode,values}.ts`) | the catalog the runtime was created with | `createRuntime`, `read` | Postgres, the marker | the model is the one applied |
| Error mapping (`server/errors.ts`) | none | SQLSTATE to failure | the command runtime | the class decides on retry |
| Tool invocation (`tools/{invoke,queue}.ts`, `designer/src/io/metadata-dir.ts`) | a promise chain per directory, the directory | `invoke`, `queueFor`, `readMetadataDir`, `writeChanges`, artifacts | file system, every tool | no lost mutation, no half-read tree, only what was permitted, the record before the changes |
| Apply and rehearsal tools (`tools/{apply-tools,artifacts}.ts`) | files in `plans/` | plan, rehearse, apply | runner, `invoke` | only the report of this very plan counts |
| Metadata operations (`tools/{mutations,read}.ts`, compiler `operations/`) | none | add, create, rename, delete, fix, promote | through `invoke` | changes fit the tree that was read |
| Data and database tools (`tools/{data,database}-tools.ts`) | none | read, command, introspect, diff, roles | through `invoke` | permission |
| Order of creation (`compiler/sql/dependencies.ts`) | nodes, edges, counters, the ready list | edges of references, `requires`, extensions, grants; the sort; cycles | the rest of the compiler; the SQL is run in this order | every name reaches at creation what it reaches in the whole model but for the node created; a cycle is refused and named; the order depends on the model alone |
| Other passes of the compiler (`simetra/src/compiler`), model tier | none (pure) | parse, identity, links, integrity, SQL units | every tool | same input, same SQL |
| Generated core of a catalog (`compiler/{catalog-command,hierarchy-units,mechanics-units}`) | the table of a catalog and its lines, row locks, the hierarchy lock | `save`, `mark_deletion`, the hierarchy trigger, foreign keys | called by the command runtime, executed by Postgres | no lost update, a forest of parents, what was asked is saved, no deadlock between commands |
| Generated guards of the rights (`compiler/rights/{guard-units,holders,effects-units,admin-tables}.ts`) | roles, assignments, members, users; versions; the snapshot, journal and queue of a transaction | statement triggers, deferred checks at COMMIT | commands, maintenance and its tool, any other session | somebody keeps full access, nobody grants what he did not have, caches see every change |
| Other generated SQL (`compiler/access-units.ts`, `compiler/rights/command-units.ts`) | policies | text | Postgres | – |
| Schema engine adapter (`designer/src/schema-engine`) | none | extraction, diff | pg-delta | the library's |
| CLI, MCP server, `init` | none | transport | tools | – |
| Data, UI, shell entry points; `legacy/`; scripts, examples | – | placeholders, frozen code, scaffolding | – | – |

How they interact: a tool call goes through `invoke` and the directory's queue; the
apply tool hands a plan (and the rehearsal report beside it) to `executePlan`, which
uses the database port; `executePlan` leaves marker and ledger, which later plans
and the server's runtime read; commands run through `runCommand` on their own pool.

What is hard:

- *Two sides of a connection.*  A lost connection leaves a backend that may still
  commit.  The runner looks its `applyId` up under the same advisory lock; the
  command runtime answers `command.unavailable` and never retries.
- *Stale facts.*  Plans, rehearsal reports, fingerprints, the state of a queue
  checked before an `await` and used after it.
- *Application code inside the transaction.*  Hooks start phases concurrently,
  forget to await them, catch failures, and leave timers behind.
- *SQL under concurrency.*  Triggers and functions that read, wait for a row and go on:
  what they know was read before the wait, at an isolation level they do not choose.
- *Rights that change while they are used*, by the transaction that uses them too.
- *Calls in parallel on one directory*, writes that fail halfway, a crash between
  the record of a promotion and its changes, file systems that ignore case.

The hazards, each at its line, are listed in `PROJECT.json`.

## 2. Modules

| Module | Models |
|---|---|
| `ApplyRunner` | `executePlan` with its port, the reads of `buildPlan`, plan and report files, other sessions on the target |
| `ApplyLedger` | the contract of `executePlan`: an atomic compare-and-append and a true answer |
| `ApplyRunner_proofs` | proofs: one backend at a time, the chain, the answers |
| `ApplyPlan_proofs` | proofs: what a call relies on from its plan; refinement of `ApplyLedger` |
| `MCApplyRunner` | instances for TLC |
| `CommandTransaction` | `runCommand`, the `Transaction` object, phases, hooks |
| `CommandContract` | the contract of `runCommand`: one effect or none, what runs after it, one true answer |
| `CommandTransaction_proofs` | proofs for `CommandTransaction`; refinement of `CommandContract` |
| `MCCommandTransaction` | instances |
| `ToolInvoke` | `invoke`, `queueFor`, `readMetadataDir`, `writeChanges` |
| `ToolInvoke_proofs` | proofs: permission, the record of a promotion, the queue, the directory |
| `MCToolInvoke` | the tool catalog by its axes, options, directories |
| `CatalogCore` | the generated functions and triggers of a catalog as Postgres runs them |
| `CatalogCore_proofs` | proofs: types, the forest of parents, versions, lines |
| `CatalogLocks_proofs` | proofs: what is locked where; saves do what was asked; no deadlock |
| `MCCatalogCore` | rows, requests and contracts |
| `RightsGuard` | the triggers and deferred checks of the rights, the maintenance tool |
| `RightsGuard_proofs` | proofs for `RightsGuard` |
| `MCRightsGuard` | databases and programs of statements |
| `CreationOrder` | edges and sort of `orderUnits` |
| `CreationOrder_proofs` | proofs: the sort, its list and its cycles; what PostgreSQL makes of the order |
| `MCCreationOrder` | models of four and six nodes in two schemas; a grant and a REVOKE that differ in spelling |

`ApplyRunner`, `CommandTransaction` and `ToolInvoke` model processes of TypeScript;
`CatalogCore` and `RightsGuard` model what the compiler's templates do once
Postgres runs them, so their source lines are those of the templates.  A right is
held or not in `CatalogCore`; who may change it is `RightsGuard`.  The advisory lock
of the maintenance tool in `RightsGuard` is the one of `ApplyRunner`.

An operator under a comment "Mutant:" (`X_something`, `XSomething`) is a
deliberately wrong version of the operator `X` after it.  It is not used by any specification; replacing `X` by it must
break the property `PROJECT.json` pairs it with.

### ApplyRunner

*State.*  `marker`, `ledger`, `catalog`, `rows` are the target as committed; `plans`
and `reports` are the files; `planner` holds what each `buildPlan` has read so far.
For a call of `executePlan`, `pc` is the phase its client is in and `backend` its
server side; they are separate because a backend outlives its connection.
`advisory` is the holder of `APPLY_ADVISORY_LOCK`, `locked` the tables a backend
holds, `read` the fingerprints of phases 6 and 17.

*Actions*, by the numbers in the comments of `runAttempt`: `TryAdvisoryLock` (1),
`CheckChain` (4), `CheckTarget` (4e), `LockTables` (5), `CheckFingerprint` (6),
`CheckCopyRows` (6c), `RunSteps` (7–16), `Verify` (17), `SendCommit` (19–20).
`TargetRefuses`, `StepFails`, `Throws`, `LockConflict`, `ConnectionLost` are the
ways out; `StopAttempt` includes the ROLLBACK that fails and is swallowed.
`LookupLock`, `LookupFind`, `LookupTimeout`, `LookupLost` are `afterLostConnection`.
`ServerCommit`, `OrphanEnds` and `OrphanLookupEnds` are the server's; `ForeignDdl`
and `ForeignInsert` are other sessions, which respect table locks.

*Data.*  A catalog is one version per table, a metadata hash stands for its model,
`Desired[h]` is the catalog its SQL builds.  A fingerprint is the catalog itself:
hashes are taken as injective.  `Footprint` is the set of tables whose definition the
steps change.

*Left out.*  Proof mode (`prove` uses the runner on a throw-away copy); a corrupt
marker or ledger (a refusal before anything is done); the phases 7–16 one by one:
inside one transaction nobody sees them, and their failures are `StepFails`.

### CommandTransaction

*State.*  `pc`, `n`, `conn` are `runCommand` and its attempt; `tx` is the
`Transaction` object: the queue of units, where the running statement is
(`check`, `send`, `sent`: the two awaits of `enqueue`), `terminal`, `commitSent`, the
`afterCommit` list and the attempt's tasks.  A *task* is a phase or a read; its stage
says whether it waits for a unit, is in its hook, or waits for what the hook
started.  `srv` is the server's session, `orphan` holds COMMITs whose client is gone.

*Actions.*  The queue: `UnitCheck`, `BudgetOut`, `Send`, `Reply`, `ReplyCommit`,
`ServerError`, `SessionLost`.  Phases and hooks: `StartOp`, `CtxRun`, `CtxRead`,
`CtxReject`, `CtxAfterCommit`, `HookReturns`, `HookThrows`, `HookSettled`
(`callHook`'s `allSettled`), `HookSchedules` and `StrayActs` (code a hook leaves
behind uses its dead `ctx`).  The attempt and the loop: `Connect`, `User`,
`EnqueueCommit`, `OpFails`, `EndFailed`, `Retry`, `NoTimeToRetry`, `GiveUp`,
`RunAfterCommit`, `Succeed`.

*Data.*  A statement is kept by what it does to the session: it sets the command
context, writes for a phase, reads, or ends the transaction.  Drafts and values are
valid or not, by choice.  The four opening statements are one: no hook runs that
could enqueue between them.  `runRootPhase` calls two hooks on either side of its
core call; a phase here has one.  `ROLLBACK` and the release or destruction of the
client are one step, since nothing else uses that connection.

### ToolInvoke

*State.*  `status`, `request`, `answer` per call; `waits` and `tail` are the promise
chain and `tails.get(key)`; `unread`, `seen`, `todo`, `intended` are the work of a call;
`disk` is the directory.  `effects`, `accepted` and `damaged` are history variables.

*Actions.*  `Invoke` (all refusals before the queue, in order), `Start`, `Cleanup`,
`ReadFile` (file by file), `ToolFails`, `ToolReads`, `ToolWrites`, `WriteArtifacts`,
`CheckPaths`, `PathEscapes`, `WriteFile` (change by change, deletions first),
`Written`, `WriteFails`, `Crash`.

*Data.*  A file holds the call that wrote it.  An operation is *any* set of changes
that fits the tree read: what it decides is the compiler's business.  One directory,
because directories share nothing; one process, because the queue is a map in memory
and the code promises nothing across processes.  A write cut short sets `damaged`:
the code does not recover from it.

### CatalogCore

*State.*  `tab` are the committed rows and `lines` the owners of the lines; per transaction
`pc` is the statement it is at, `req` and `exp` what it was asked, `old` and `new` the rows
`v_old` and `v_new`, `held` and `own` the rows and lines it has locked; `adv` is the holder
of the hierarchy's advisory lock.  Locks have the modes of Postgres: KEY SHARE, NO KEY
UPDATE, UPDATE; `Strength` says which an UPDATE takes.

*Actions.*  The functions statement by statement: `Called`, `CheckNew`, `AdvisoryLock` (where
the contract takes the lock first), `LockedOld`, `CheckOld`, `HeaderWrite` and `Insert` with
their policy, `Keys` (foreign keys), `HierarchyTrigger` and `Walk` (isolation level, lock, the
way up the parents), `TabularLock`, `TabularWrite`, `TabularInsert`, `LineKeys`, `Commit`,
`Rollback`; `DirectWrite` is a session outside the commands.  A statement that waits
re-reads its row when it wakes, one under REPEATABLE READ reads its snapshot.
`Detect` ends one of those who wait for each other; `Revoke` withdraws the right.

*Data.*  A row has a parent, one reference to another row, a deletion mark and a
version; a request gives each of these or leaves it.  Checks of the input and of the
command context are a refusal, by choice; a right may be withdrawn at any moment.

*Left out.*  Creation of roots, copies, authors and carriers with their FOR SHARE
triggers; `p_mark = FALSE`; a second reference column.  Deadlocks are still possible where
a key value changes under mutual references, with writers outside the commands, and over
new line ids that owners share (with others behind them): `CommandsDoNotDeadlock` names
exactly these.

### RightsGuard

*State.*  `db` is the four tables as one function, `ver` the versions; per transaction
`own` its rows, `start` the snapshot of the actor, `jrn` the journal of first images,
`pend` and `exempt` the queue of checks, `seen` the database snapshot under REPEATABLE
READ.  `gone` and `first` are history variables.

*Actions.*  `Snapshot` (BEFORE), `Write`, `Trigger` (AFTER: refusals, journal), `Bump` (the
version row, where transactions wait or, under REPEATABLE READ, fail), `Check` (the
deferred triggers, which `SET CONSTRAINTS` may run early), `Commit`, `Rollback`.
`ToolStart`, `ToolHolders`, `ToolMember`, `ToolEffective` are `maintain` before its
statements, which then pass the same triggers.

A refusal of `Write` is the database's or a trigger's of the effects: the unique key, the
foreign key, a missing grant (`Ungranted`: a command deletes no member), `Effects`.  Outside
a command a member may be deleted (while no assignment refers to it) and inserted again.

*Data.*  A statement changes one row.  One scope; a right is a member of a small set; an
archetype has its grants, a custom role has the grants of its row.

*Left out.*  The global level, moves between scopes, creation and deletion of a root,
TRUNCATE, dimensions of access, adopted sources of membership; the two global actions
of the tool and its check of the model's hash.

### CreationOrder

*State.*  The graph of a model, `order`, `pending`, `ready` and `cycles` of `sort`.

*Actions.*  `Start` (extensions, counters, the ready list), `Shift` (one node emitted, those
it frees inserted by binary search), `Break` (nothing is ready: a cycle is found, named
and broken), `Finish`.  The edges (`Deps`) are operators: references by name, with or
without a schema, `requires`, extensions, default privileges, REVOKE before GRANT.  A target
of GRANT and REVOKE is an object and its spelling: the code relates the two statements by
the text `<objtype>|<name>` (`grantTargets`), and one object has several (TYPE and
DOMAIN, FUNCTION and ROUTINE, with or without arguments).  What the statements do in
PostgreSQL (`Granted`) goes by the object.  So `PrivilegesAsWritten` speaks of the grants whose
object every REVOKE spells as they do; that all grants stay is the finding of
`creation_spelling`.
`Sorted` is what `all.sort(compareNodes)` gives; the keys differ, so it does not
matter which algorithm sorts.

*Left out.*  The walk of the parse tree that finds the references of a node; foreign
keys, which are rendered behind the order; grants on all tables of a schema, which the
compiler refuses (`compiler/sql/units.ts:764`).

## 3. Runs

Every property has a mutant in `PROJECT.json` that breaks it.

A type invariant is checked by TLC only for `ApplyRunner`; that of `CatalogCore` is proved,
`InvokeInv`, `Inv` of the command runtime and `GuardInv` (all proved) contain the types of
their modules, and `ListIsExact` those of `CreationOrder`.  The inductive invariants other
than `RunnerInv` are properties of no run.

### ApplyRunner

Two calls are enough for every race on the one lock and the one ledger: a third
would wait or be refused as the second.  Three definitions of a table let foreign
DDL be neither where the plan starts nor where it ends.

| Run | Instance | Shows |
|---|---|---|
| `apply_applied` | 2 calls, 2 planners, 2 tables, 3 versions, 1 attempt, 1 foreign DDL, an apply already there | `TypeOK`, `ChainUnbroken`, `OutcomeTruth`, `DriftIsRecorded`, `NoLostForeignDdl`, `RefinesApplyLedger` |
| `apply_stale` | 2 calls, 2 planners, 1 table, 2 foreign DDL statements, promotions and copies, a fresh target or one with an apply | `RunnerInv`, the inductive invariant of the proofs; `HistoryAsPlanned` (ABA), `PromotionRehearsedOnRows` |
| `apply_answers` | 2 calls, 2 attempts, one planner | `EveryCallAnswers` |

The comment above the definition of a property says in a sentence what it states.  The
bound of 2 on foreign DDL in `apply_stale` lets the catalog leave the plan's start and
come back to it.

### CommandTransaction

| Run | Instance | Shows |
|---|---|---|
| `command_hooks` | 1 command, 2 operations, 2 attempts, 4 tasks, depth 2, width 2, 1 stray | `CommitIsWhole`, `QuietAfterRelease`, `CoreInOwnContext`, `EveryCommandAnswers` |
| `command_answers` | 2 commands on 1 connection, 2 attempts, 1 `afterCommit` | `AnswerTruth`, `AtMostOnce`, `RefinesCommandContract` |
| `command_late_failure` | violation | `command.internal` is answered for a COMMIT of unknown outcome |

Four tasks let the hooks of an operation start two phases or reads, side by side or one
inside the other (the bound keeps room for the operations still to come); depth and
width are reached and exceeded.  Hooks in `command_answers` leave nothing behind
(`MaxStrays = 0`): what strays do to the answer is the subject of
`command_late_failure`.  With strays, `command.internal` joins `command.unavailable`
among the answers `CommandContract` calls vague; that case is proved.

### ToolInvoke

| Run | Instance | Shows |
|---|---|---|
| `tool_queue` | 3 calls, 2 paths, compile and promote | `DirectoryIsLastResult`, `ReadsWholeTree`, `RecordBeforeChanges` |
| `tool_case` | 2 calls, a file system that ignores case, the whole catalog but promote, four sets of options | `DirectoryIsLastResult`, `EffectsArePermitted`, `EveryCallIsAnswered` |

Three calls are needed for the queue: one that ends, one that has joined it, and a
third that must not start beside the second.  The options of `tool_case` allow nothing,
everything, or everything in a dry run or a read-only server; that no combination of
options lets an effect through which is not permitted is proved (`EffectsPermitted`).

### CatalogCore, RightsGuard, CreationOrder

| Run | Instance | Distinct states | Shows |
|---|---|---|---|
| `catalog_core` | 2 transactions, 3 rows, 1 line, both isolation levels, contracts with and without a hierarchy | 361,851 | `HierarchyIsForest`, `CommandsDoNotDeadlock`, `NoLostUpdate`, `SavedAsAsked`, `LinesKeepOwner`, `EveryTransactionEnds` |
| `rights_guard` | 2 transactions of up to 3 statements, 3 users, 3 members, 3 assignments, 1 custom role, 2 rights | 195,502 | `LastHolderStays`, `NoEscalation`, `MarkedRoleUnused`, `RightsRaiseVersion`, `ToolRuns` |
| `creation_order` | 4 objects in 2 schemas, two of them homonyms, each with any two of 5 references; 2 objects with a grant, a REVOKE, default privileges and an extension, in any order of keys, of which one may be spelt in two ways | 472,576 | `ListIsExact`, `CyclesAreNamed`, `RefusedIffCyclic`, `LeastOrder`, `NamesMeanTheSame`, `PrivilegesAsWritten` |
| `creation_spelling` | a domain, a GRANT on it as a TYPE, a REVOKE on it as a DOMAIN | violation | the grant is lost: `GrantsStay` does not hold |

Two transactions suffice for a race on one row, one lock or one version; three rows
make a cycle of parents longer than a mutual one and let one row be predefined.  The
programs of `rights_guard` are chosen so that each pair meets on something: two removals
of the last two holders, a mark and an assignment of one role, a grant after a
promotion of oneself, an invitation that goes and comes back as somebody's, two runs of
the tool.  Four nodes that may all refer to each
other give a cycle with a tail and two cycles that share a node.

`SavedAsAsked` asks for the lines only while the actor still holds the right at COMMIT.
If it is withdrawn between the UPDATE of the header and the lock of the lines, a save
with an empty list deletes nothing and reports success: the policy hides the lines, and
there is no count that would notice.

Deadlock is not checked: each model is a fixed number of calls and stops when they
have been answered.  That none stops too early is what the liveness runs say.

## 4. Fairness

- *ApplyRunner*: the client's code runs on (`RunAttempt`, `AfterLost`), and the server
  answers a COMMIT and ends a backend without a client.  The attempt sets
  `statement_timeout`, `lock_timeout` and `idle_in_transaction_session_timeout`
  itself, so the server does not wait for ever.  No fairness on any failure.
- *CommandTransaction*: the event loop runs what is ready, and the server answers
  within the budget `enqueue` puts into `statement_timeout`.  That *hooks return* is an
  assumption about the application: nothing in the runtime cuts a hook off, so
  without it `EveryCommandAnswers` does not hold.  A pool slot that is free is given
  to a waiting command only by weak fairness on the waiting command's own flow: with
  one command in the liveness run nobody competes for it.
- *ToolInvoke*: tools return and the file system answers.
- *CatalogCore*: Postgres runs the statements, its deadlock detector wakes up, and the
  caller ends its transaction by COMMIT or ROLLBACK (the command runtime always does:
  `EveryCommandAnswers`).  `EveryTransactionEnds` then says that nobody waits for ever.

## 5. Proofs

TLAPS proves, for all values of the constants:

| Module | Theorem | States |
|---|---|---|
| `ApplyRunner_proofs` | `TypeCorrect`, `RunnerInvariant` | `Spec => []TypeOK`, `Spec => []RunnerInv` |
| | `ChainIsUnbroken`, `AnswersAreTrue` | `[]ChainUnbroken`, `[]OutcomeTruth` |
| `ApplyPlan_proofs` | `PlanInvariant` | `[]ApplyInv` (types, `RunnerInv`, `PlanInv`) |
| | `DriftIsAllowed` | `[]DriftIsRecorded` |
| | `HistoryKept`, `ForeignDdlKept`, `RehearsedOnRows` | `HistoryAsPlanned`, `NoLostForeignDdl`, `PromotionRehearsedOnRows` |
| | `Refines` | `Spec => RefinesApplyLedger` |
| `CommandTransaction_proofs` | `CommandInvariant` | `[]Inv` |
| | `EffectOnce`, `CommitsWhole` | `[]AtMostOnce`, `[]CommitIsWhole` |
| | `ReleasedQuiet` | `[]QuietAfterRelease` |
| | `AnswerIsTrue` | `[]AnswerTruth` where hooks leave nothing behind (`MaxStrays = 0`) |
| | `OtherAnswersAreTrue` | with anything left behind, every answer but `command.internal` is true |
| | `OwnContextKept` | `CoreInOwnContext` |
| | `RefinesContract` | `Spec => RefinesCommandContract` |
| `ToolInvoke_proofs` | `InvokeInvariant` | `[]InvokeInv` |
| | `EffectsPermitted`, `RecordIsFirst` | `[]EffectsArePermitted`, `[]RecordBeforeChanges` |
| | `DirectoryInvariant` | `[]DirectoryInv` |
| | `DirectoryIsWhole`, `WholeTreeIsRead` | `[]DirectoryIsLastResult`, `[]ReadsWholeTree` |
| `CatalogCore_proofs` | `TypeCorrect`, `CoreInvariant` | `[]TypeOK`, `[]CoreInv` |
| | `ForestHolds` | `[]HierarchyIsForest` |
| | `UpdatesAreNotLost`, `LinesStay` | `NoLostUpdate`, `LinesKeepOwner` |
| `CatalogLocks_proofs` | `LocksInvariant` | `[]LocksInv` |
| | `SavesAreTrue` | `SavedAsAsked` |
| | `CommandsLiveTogether` | `[]CommandsDoNotDeadlock` |
| `RightsGuard_proofs` | `GuardInvariant` | `[]GuardInv` |
| | `NoMarkedRoleUsed`, `ToolIsHonest` | `[]MarkedRoleUnused`, `[]ToolRuns` |
| | `LastHolderKept`, `VersionRaised` | `LastHolderStays`, `RightsRaiseVersion` |
| | `GrantInvariant` | `[]GrantInv` under `NobodyRestored` |
| | `PlainGrantsOwn` | each transaction of commands, or outside of them, grants nobody more, under `NobodyRestored` |
| | `NobodyEscalates` | `NoEscalation` under `NobodyRestored` and `KindsApart` |
| `CreationOrder_proofs` | `SortHolds` | `[]SortInv` |
| | `ListStaysExact`, `CyclesAreAlwaysNamed` | `[]ListIsExact`, `[]CyclesAreNamed` |
| | `RefusedExactly`, `OrderIsLeast` | `[]RefusedIffCyclic`, `[]LeastOrder` |
| | `NamesAlwaysMeanTheSame`, `PrivilegesStayAsWritten` | `[]NamesMeanTheSame`, `[]PrivilegesAsWritten` |

*The runner.*  `ChainUnbroken` and `OutcomeTruth` are not inductive: a backend about
to commit says nothing by itself about the marker.  `RunnerInv` adds, per call
(`CallInv`): a backend exists only while its session holds the advisory lock, so there
is at most one; from `CheckChain` on the marker is the plan's `from`, since only the
holder can move it; a lookup that has the lock has no backend of its call left; a
recorded call has no backend.  `ServerCommit` then extends the chain (`CommitKeeps`),
and `LookupFind` answers what will stay true.  The proof has one step per action; the
frame lemmas (`OthersKeep`, `FrameKeeps`, `AnswerKeeps`, `StopKeeps`) say what an
action of one call cannot disturb of another.

*The plan.*  `PlanInv` says what each phase leaves behind for the phases after it
(`HeldInv`): from 4e on the ledger head is the plan's, from 5 on the tables of the
footprint are locked, from 6 on their definitions are those of the plan, from 6c on the
rows of a promotion are among the rehearsed ones, after 17 the result is what the model
asks for.  Other sessions respect the table locks and other calls the advisory lock, so
it lasts until the COMMIT, also when the client has gone.  `DriftIsRecorded` needs that
the marker's fingerprint is that of its model (`MarkerFits`), which phase 17 ensures.
For the refinement, `AbstractLedger` projects the rows; `RefineCommit` shows that every
`ServerCommit` is the compare-and-append, `OneAnswer` and `RefineAnswer` that every other
step answers for one call or is not seen.

*The command runtime.*  `Inv` is about three sides at once.  What one `Transaction`
object may look like is a constant-level predicate of the record (`Good`): tasks are
numbered, form a tree in which a hook has not settled while a call it started is
unfinished, at most one operation is under way, a task waits for one unit only, and no
failure goes unnoticed.  One lemma for each operator on the object then serves all the
actions.  That nothing is under way once the operations are done (`RootsSettle`) follows
by the least-number principle: an unfinished task with the least number has an unfinished
parent with a smaller one.  `Server` relates the writes of the session to the stages of
the phases, `Effect` what may have been committed to the current attempt, `PoolInv` the
connections to each other.  The stage between "COMMIT sent" and its reply carries the
argument: nothing of the attempt is unfinished then, so only code left behind can still
close the queue, and only with `command.internal`; hence the two theorems about
the answer.  `RefinesContract` needs little beyond `Inv` in both states (`AllVisible`):
a step seen by the caller commits, answers or runs an `afterCommit` action (`SeenStep`),
and an answer is allowed by the contract because `Inv` holds after it.

*Tools.*  `InvokeInv` adds that a call beyond the refusals is one `Refusal` lets pass,
and which states a tool may write from.  `OneWriteAxis` is needed: a dry run of a tool
that writes both the directory and a database would still run against the database.
The code relies on it in so many words (`tools/invoke.ts`, comment at the dry run: "there
is no tool with both write axes").  `DirectoryInv` adds the queue: the calls that have
joined it can be numbered so that each waits for the one right before it, the active
one is first and the tail is last (`InOrder`).  So one call is active, the tree on the disk
and the changes still to be made give the tree it intends (`Pending`), file by file and
also where several paths are one file.

*The catalog core.*  That the parents form a forest is no property of one step: the walk
reads one parent after another while others commit.  `CoreInv` says of a transaction
(`TxnInv`) what it has read and still relies on: the row it changes is as it was locked
(`ReadInv`, with `Exclusive`: one owner per row); once the walk has accepted a move, the
transaction still holds the hierarchy's lock and the parents as they will be at its
COMMIT are acyclic (`MoveInv`), which stays true because nobody commits a changed parent
without that lock.  "Forest" is stated without recursion: every non-empty set
of rows has one whose parent is outside of it.  `WalkKeepsForest` is the step of the
argument about sets, `StrongGrant` and `ShareGrant` say who may hold a row beside whom,
`StepCore` and `CommitCore` are the induction; `LineInv`, `StepLines`, `CommitLines` are
the same for the lines.

*Locks.*  `LocksInv` says for every statement which locks a transaction has there: strong
ones only on its own row, FOR UPDATE only for a row that comes, goes or changes its key,
the hierarchy's lock before the row where a command may move it; that the row it will
write is the request applied to the row it has locked; and which lines it has.
A circle of waiting commands would then have to descend in the order hierarchy lock, own
row, references (KEY SHARE, which NO KEY UPDATE lets pass), lines.  Only
two kinds of wait are left at the end of it, for an inserted line and for a change of key.

*The guards of the rights.*  All writers of a scope meet at the row of its version
(`Locks`), and under REPEATABLE READ a snapshot is as good as the rows while the version
is the same (`Snap`).  `Judged` says that each check a transaction owes is still in its
queue or holds of the rows as they will be at COMMIT; `Prior` are the rows before
the statement under way, since the trigger judges after the write.  `Apart` keeps the
writes of two transactions disjoint.  Users are not covered by the version of the scope:
who became invalid meanwhile is in `gone`, and the properties except them.  Two runs
of the tool exclude each other by the advisory lock (`ToolInv`).

*Escalation.*  The guard compares the rows with a snapshot of the actor and with a journal,
`NoEscalation` the tables before and after.  `GrantInv` joins the two: the snapshot
is of the only actor the transaction has, at its first statement (`Snapped`); the journal
gives back the committed row of each role and assignment written (`Journaled`); each of these
rows is judged or its key is still in the queue (`Queues`).  A verdict lasts until the
COMMIT because the version row is the transaction's by then.  Rights also come with
a membership, so `Memberships` says that a member's user is filled only by that user or is
new with the member, and that a member deleted outside a command and inserted again has no
assignments until the COMMIT (`Unused`), `Linked` that an assignment's member is there, also
across two transactions (`LinkedBeside`), and `Invalid` that no user becomes valid.  At the COMMIT a
user is the actor (`ActorGain`) or somebody else (`OthersGain`).
What the theorems assume is about programs and is named.  `NobodyRestored`: no maintenance
makes a user valid again, which would give back rights nobody granted in the transaction under way.
`Plain`: a transaction is in commands from end to end, at READ COMMITTED, with its checks
at COMMIT, or it is outside of them at any level.  That is how the command runtime
runs (`server/transaction.ts`); SET CONSTRAINTS is issued by the apply only
(`apply/execute.ts:1198`), which is maintenance.  `PlainGrantsOwn` asks it of the one
transaction and lets the others be anything; `KindsApart` asks it of all programs without
maintenance, which are the ones `NoEscalation` speaks of.  All programs of the run satisfy
it but the one that runs its checks between two statements: that one is there for the
queue and the journal, and only TLC speaks of it.

*The order of creation.*  `CreationOrder` computes: it searches a list in halves, folds over
sequences and walks a graph, each by a recursive function.  A recursive function of TLA+ is
the choice of one that satisfies its equation, so each proof begins by showing that
there is one (`SearchExists`, `InsertingExists`, `WalkExists`, `GrantingExists`, all from
`RecursionExists`, which builds it up to any measure) and then says what each solution
computes, by the least argument at which it would be wrong (`LeastMember`, from the
well-foundedness of `<`).  So `InsertSortedIs` is proved for every list, `FoldInserts` for
every sequence of freed nodes, `FindCycleIs` for every graph in which each node that is left
needs another one: the walk closes because it has more steps than there are nodes.
`SortInv` adds to `ListIsExact` where the extensions are, that each node emitted
was then the least of those that waited for nothing (`Greedy`), and that a missing
dependency is excused by a named cycle (`Excused`).  `EmitList` and `EmitOrder` carry it
through `emit`; `Shift` and `Break` differ only in the node they emit.  `OrderIsLeast` compares
the order with another one at the first place they differ; `RefusedExactly` takes the
first node of a circle in the order, and the first cycle that was named.  `RevokeFirst` and
`RevokeSpares` are why a grant whose object every REVOKE spells alike is not lost in the
fold over the statements.

*Assumptions.*  Named, in the module that declares the constants, and evaluated by TLC:
`ApplyAssumption`, `CommandAssumption`, `InvokeAssumption`, `OneWriteAxis`,
`CatalogAssumption` (only `save` has a `p_item`, so a request to mark or delete changes
no reference, key or line; initial tables are forests), `RightsAssumption` (the keys of the four
tables are disjoint, as the tables are; programs are sequences of well-formed statements;
initial tables satisfy the foreign key and the check of marked roles), `CreationAssumption`
(a model has finitely many nodes with different keys; extensions refer to nothing; extensions,
GRANT, REVOKE and default privileges create no name, as `pgNamespaceKeys` has none for
them).  `None` and its kin
are not members of the sets they extend.

*What the attempts to prove showed.*  Two properties were true on the instances of the
runs and false in general; both are stated as they are now because of it.
`CommandsDoNotDeadlock` allowed only circles in which everybody inserts lines: with three
transactions the third may wait for the row of one of the two that have locked each
other out.  `ToolRuns` spoke of two runs of the tool without a third transaction that
makes a holder invalid.  `AnswerTruth` is provable only without code left behind by hooks,
which is the finding of `command_late_failure` seen from the other side.

*Only model-checked.*

- `NoEscalation` for commands with checks between the statements, commands under
  REPEATABLE READ and transactions that mix commands with statements outside of them: it
  is claimed for the programs of the run only.
- Liveness (`EveryCallAnswers`, `EveryCommandAnswers`, `EveryCallIsAnswered`,
  `EveryTransactionEnds`): fairness and `ENABLED` are out of this prover's reach.

## 6. Findings

`command_late_failure`.  `close` keeps the first failure (`transaction.ts:297`).  If
code left behind fails after COMMIT was sent and then the connection is lost, `run`
answers `command.internal` instead of `command.unavailable`: the caller is told of a
rollback that may not have happened (`transaction.ts:207`).

`creation_spelling`.  `grantTargets` keys the target of a GRANT or REVOKE by the text of the
statement (`compiler/sql/dependencies.ts:812`).  `GRANT USAGE ON TYPE a.d` and `REVOKE ... ON
DOMAIN a.d` have different keys and no edge; neither has a schema, so `grant:grant:` sorts
before `grant:revoke:` and the REVOKE takes the grant away.  The comment gives this loss as the
reason of the edge (`dependencies.ts:417-418`), and a test grants ON TYPE to a domain
(`compiler/__tests__/creation-order.test.ts:864-866`).

Two observations disagree with comments of the source as well, but no run states them:
they were met while the modules were written and are recorded here only.

- The state, the server facts and the ledger head of a plan are separate statements of a
  READ COMMITTED transaction (`apply/plan.ts:438-445`), so an apply may commit between
  them; the comment above says that they are of one moment (`apply/plan.ts:429-431`).
  When that apply has moved the marker, `checkChain` refuses the plan.  The model reads
  both in two steps, so `ChainUnbroken` and `HistoryAsPlanned` are checked with such plans.
- `enqueue` looks at `terminal`, then awaits its budget, then sends
  (`server/transaction.ts:225-229`).  A misuse of a dead `ctx` recorded in between does
  not stop COMMIT, although the comments say that the first failure closes the queue and
  the port then gets only ROLLBACK (`transaction.ts:189-190`, `hook-context.ts:115-116`).
  The command commits and answers success; what it commits is whole (`CommitIsWhole`).

## 7. Not modelled

The map covers a small part of the repository's lines, and most of the rest is
not for a model checker: the passes of the compiler and its tables of messages and
built-in functions are pure functions from files to diagnostics and text, with no
state to interleave, and their size is case analysis; `legacy/` is a frozen prototype
that the packages do not use.  The model tier is types.  The schema engine adapter is
pg-delta's behaviour.  CLI, MCP and `init` are transport.  `data/`, `ui/`, `shell/` are
placeholders.  Policies and handlers of events are taken by their effect (a right is held
or not, a refusal is possible).  What the modules leave out is listed with each.

## 8. Plan

Done, in the order of importance: `ApplyRunner` with `ApplyLedger`; `CommandTransaction`
with `CommandContract`;
`ToolInvoke`; `CatalogCore`; `RightsGuard`; `CreationOrder`, and the theorems of section 5.  Left:

1. `buildPlan` and `prove` whole: all reads at their moments, the shadow, the proof on a
   copy.
2. The phases 7–16 of an attempt in detail: triggers, deferred constraints, data steps
   and preservation; the promotion's transition and records.
3. The lattice of lock modes of `locks.ts`, as operators against a reference definition.
4. The global level of the rights, moves between scopes and the tool's global actions.
5. The server's runtime composed with the ledger: a runtime created before an apply
   and used after it.

Theorems left: none of the safety properties the passing runs check; `NoEscalation` could
be asked of more kinds of transactions than `Plain`.
