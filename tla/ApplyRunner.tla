----------------------------- MODULE ApplyRunner -----------------------------
(***************************************************************************)
(* One target database, the plan tool that reads it and the runner         *)
(* `executePlan` that applies a plan to it in one transaction.             *)
(*                                                                         *)
(* A call c \in Calls is one call of `executePlan`; it draws a fresh UUID,  *)
(* so c is also its `applyId`.  A call runs attempts; an attempt is one     *)
(* transaction, whose server side (the backend) may outlive the client's    *)
(* connection: that is why `backend` and `pc` are separate.                 *)
(*                                                                         *)
(* Data kept: the catalog is the version of every table, a metadata hash    *)
(* stands for the model with that hash, and Desired[h] is the catalog its   *)
(* generated SQL builds (the desired shadow).                               *)
(***************************************************************************)
EXTENDS Integers, Sequences, FiniteSets

CONSTANTS
  Calls,        \* calls of executePlan, each its own applyId
  Planners,     \* calls of buildPlan
  Tables,       \* tables within the scope of the plans
  Versions,     \* definitions a table can have
  Hashes,       \* hashes of compiled metadata
  Desired,      \* Desired[h]: the catalog the metadata h asks for
  Promotions,   \* the transitions <<from, to>> that need a promotion
  Start,        \* hashes the target may start from; None: never applied to
  Past,         \* applyId of the apply such a target already has
  MaxAttempts,  \* timeouts.attempts
  MaxForeignDdl,\* bound on DDL by other sessions
  Copies,       \* which tables have rows, for every copy there is to rehearse on
  None          \* null: no marker, no ledger head, no file, no holder

Catalogs == [Tables -> Versions]
Stems    == (Hashes \cup {None}) \X Hashes

ASSUME ApplyAssumption ==
  /\ Desired \in [Hashes -> Catalogs]
  /\ Promotions \subseteq Hashes \X Hashes
  /\ MaxAttempts \in Nat \ {0}
  /\ MaxForeignDdl \in Nat
  /\ Copies \subseteq SUBSET Tables
  /\ Start \subseteq Hashes \cup {None}
  /\ Past \notin Calls
  /\ None \notin Calls \cup Hashes \cup {Past}
  /\ None \notin Calls \X {"attempt", "lookup"}

VARIABLES
  marker,    \* the singleton row simetra.marker: [hash, fp]
  ledger,    \* the rows of simetra.ledger, in the order of their id
  catalog,   \* the committed catalog of the target
  rows,      \* the tables that have rows
  ddl,       \* DDL statements other sessions have committed so far
  advisory,  \* the session that holds APPLY_ADVISORY_LOCK, or None
  planner,   \* each buildPlan call: what it has read so far
  plans,     \* plans/<from>-<to>.plan.json
  reports,   \* plans/<from>-<to>.rehearsal.json
  pc,        \* where each executePlan call is
  job,       \* its arguments: plan, mode and rehearsal report
  attempt,   \* number of its current attempt
  backend,   \* the server side of its attempt: "none", "open" or "commit"
  locked,    \* the tables that backend holds locked
  read,      \* the fingerprints the attempt has read (phases 6 and 17)
  outcome    \* what the call has answered

target  == <<marker, ledger, catalog, rows, ddl>>
files   == <<plans, reports>>
session == <<backend, locked, advisory>>
client  == <<pc, job, attempt, read, outcome>>
vars    == <<target, files, session, client, planner>>

-----------------------------------------------------------------------------
(* Plans *)

Plan == [from: Hashes \cup {None}, to: Hashes, head: Calls \cup {Past, None},
         target: Catalogs, drift: BOOLEAN, promotion: BOOLEAN]
Stem(p) == <<p.from, p.to>>

\* The tables whose definition the steps change: the footprint LOCK TABLE takes.
Footprint(p) == {t \in Tables : p.target[t] # Desired[p.to][t]}

Report == [plan: Plan, rows: SUBSET Tables]
Job    == [plan: Plan, mode: {"apply", "rehearse"}, report: Report \cup {None}]
Row    == [id: Calls \cup {Past}, from: Hashes \cup {None}, to: Hashes, target: Catalogs,
           result: Catalogs, drift: BOOLEAN, promotion: BOOLEAN]

LedgerHead == IF ledger = <<>> THEN None ELSE ledger[Len(ledger)].id
Recorded(c) == \E i \in DOMAIN ledger : ledger[i].id = c

\* buildPlan reads the state, the ledger head and the live fingerprint with
\* statements of READ COMMITTED transactions: each sees its own moment.
PlanReadState(p) ==
  /\ planner[p].pc = "state"
  /\ planner' = [planner EXCEPT ![p] =
                   [pc |-> "head", from |-> marker.hash, fp |-> marker.fp,
                    head |-> None]]
  /\ UNCHANGED <<target, files, session, client>>

PlanReadHead(p) ==
  /\ planner[p].pc = "head"
  /\ planner' = [planner EXCEPT ![p].pc = "witness", ![p].head = LedgerHead]
  /\ UNCHANGED <<target, files, session, client>>

\* driftGate: the marker's fingerprint against the live one; a fresh target
\* has no marker and no drift.
DriftGate(from, fp, live) == from # None /\ live # fp

\* The artifact of the transition to the metadata `to`; nothing to apply only
\* when there are no steps, no new snapshot and no drift.
PlanWitness(p, to) ==
  LET q    == planner[p]
      plan == [from |-> q.from, to |-> to, head |-> q.head, target |-> catalog,
               drift |-> DriftGate(q.from, q.fp, catalog),
               promotion |-> <<q.from, to>> \in Promotions]
      unchanged == Footprint(plan) = {} /\ q.from = to /\ ~plan.drift
  IN  /\ q.pc = "witness"
      /\ planner' = [planner EXCEPT ![p].pc = "done"]
      /\ plans' = IF unchanged THEN plans
                               ELSE [plans EXCEPT ![Stem(plan)] = plan]
      /\ UNCHANGED <<target, reports, session, client>>

-----------------------------------------------------------------------------
(* Sessions on the server *)

Attempt(c) == <<c, "attempt">>
Lookup(c)  == <<c, "lookup">>

\* Phases in which the client still has the attempt's connection.
Attached == {"begin", "chain", "target", "lock", "fingerprint", "copyRows",
             "steps", "verify", "state", "reply"}

\* The end of a transaction frees its advisory lock and its table locks.
EndBackend(c) ==
  /\ backend' = [backend EXCEPT ![c] = "none"]
  /\ locked' = [locked EXCEPT ![c] = {}]
  /\ advisory' = IF advisory = Attempt(c) THEN None ELSE advisory

Unlocked(t) == \A c \in Calls : t \notin locked[c]

\* Without a client the backend ends by idle_in_transaction_session_timeout or
\* when the server notices; a COMMIT on its way may be lost with it.
OrphanEnds(c) ==
  /\ backend[c] # "none" /\ pc[c] \notin Attached
  /\ EndBackend(c)
  /\ UNCHANGED <<target, files, client, planner>>

ForeignDdl(t, v) ==
  /\ ddl < MaxForeignDdl /\ Unlocked(t) /\ catalog[t] # v
  /\ catalog' = [catalog EXCEPT ![t] = v]
  /\ ddl' = ddl + 1
  /\ UNCHANGED <<marker, ledger, rows, files, session, client, planner>>

ForeignInsert(t) ==
  /\ t \notin rows /\ Unlocked(t)
  /\ rows' = rows \cup {t}
  /\ UNCHANGED <<marker, ledger, catalog, ddl, files, session, client, planner>>

-----------------------------------------------------------------------------
(* executePlan *)

Goto(c, phase) == pc' = [pc EXCEPT ![c] = phase]

Answer(c, status) ==
  /\ Goto(c, "done")
  /\ outcome' = [outcome EXCEPT ![c] = status]
  /\ UNCHANGED <<job, attempt, read>>

\* The next phase of an attempt whose statements changed nothing else.
Proceed(c, phase) ==
  /\ Goto(c, phase)
  /\ UNCHANGED <<target, files, session, job, attempt, read, outcome, planner>>

\* AttemptStop: the port rolls back; a ROLLBACK that fails is swallowed and
\* leaves the backend to the server, and the answer is the same.
StopAttempt(c, status) ==
  /\ Answer(c, status)
  /\ EndBackend(c) \/ UNCHANGED session
  /\ UNCHANGED <<target, files, planner>>

\* rehearsalRefusals: only the report of this very plan counts.
ValidReport(p, report) == report # None /\ report.plan = p

\* Permissions and the rehearsal report are checked before any transaction.
ExecutePlan(c, stem, mode, allowed) ==
  LET p == plans[stem]
  IN  /\ pc[c] = "idle" /\ p # None
      /\ job' = [job EXCEPT ![c] =
                   [plan |-> p, mode |-> mode, report |-> reports[stem]]]
      /\ IF \/ p.drift /\ ~allowed
            \/ mode = "apply" /\ p.promotion /\ ~ValidReport(p, reports[stem])
         THEN /\ Goto(c, "done")
              /\ outcome' = [outcome EXCEPT ![c] = "refused"]
              /\ UNCHANGED attempt
         ELSE /\ Goto(c, "begin")
              /\ attempt' = [attempt EXCEPT ![c] = 1]
              /\ UNCHANGED outcome
      /\ UNCHANGED <<target, files, session, read, planner>>

\* Mutant: the answer of pg_try_advisory_xact_lock is not looked at.
TryAdvisoryLock_ignored(c) ==
  /\ pc[c] = "begin"
  /\ advisory' = IF advisory = None THEN Attempt(c) ELSE advisory
  /\ backend' = [backend EXCEPT ![c] = "open"]
  /\ Goto(c, "chain")
  /\ UNCHANGED <<target, files, locked, job, attempt, read, outcome, planner>>

\* 1. BEGIN and pg_try_advisory_xact_lock: busy is a refusal, not a wait.
TryAdvisoryLock(c) ==
  /\ pc[c] = "begin"
  /\ \/ /\ advisory = None
        /\ advisory' = Attempt(c)
        /\ backend' = [backend EXCEPT ![c] = "open"]
        /\ Goto(c, "chain")
        /\ UNCHANGED <<target, files, locked, job, attempt, read, outcome,
                       planner>>
     \/ /\ advisory # None
        /\ Answer(c, "refused")
        /\ UNCHANGED <<target, files, session, planner>>

\* Mutant: the marker is read but not compared with the plan's fromHash.
CheckChain_unchecked(c) == pc[c] = "chain" /\ Proceed(c, "target")

\* 4. The marker must be the state the plan starts from.
CheckChain(c) ==
  /\ pc[c] = "chain"
  /\ IF marker.hash = job[c].plan.from THEN Proceed(c, "target")
                                       ELSE StopAttempt(c, "refused")

\* Mutant: the head of the ledger is not compared.
CheckTarget_unchecked(c) == pc[c] = "target" /\ Proceed(c, "lock")

\* 4e. The head of the ledger is still the one the plan names.
CheckTarget(c) ==
  /\ pc[c] = "target"
  /\ IF LedgerHead = job[c].plan.head THEN Proceed(c, "lock")
                                      ELSE StopAttempt(c, "refused")

\* What else the plan relies on may have changed: server version, role (1a, 3),
\* provider tables, privileges, foreign keys, extension and server facts
\* (4a-4e), a vanished table or a lost right to lock it (5), triggers,
\* replication role or a temporary name the data steps need (8, 10).
TargetRefuses(c) ==
  /\ pc[c] \in {"chain", "target", "lock", "steps"}
  /\ StopAttempt(c, "refused")

\* Mutant: no LOCK TABLE before the fingerprint.
LockTables_none(c) == pc[c] = "lock" /\ Proceed(c, "fingerprint")

\* 5. LOCK TABLE over the footprint.
LockTables(c) ==
  /\ pc[c] = "lock"
  /\ locked' = [locked EXCEPT ![c] = Footprint(job[c].plan)]
  /\ Goto(c, "fingerprint")
  /\ UNCHANGED <<target, files, backend, advisory, job, attempt, read, outcome,
                 planner>>

\* Mutant: the target fingerprint is recorded but not compared with the plan's.
CheckFingerprint_unchecked(c) ==
  /\ pc[c] = "fingerprint"
  /\ read' = [read EXCEPT ![c].target = catalog]
  /\ Goto(c, "copyRows")
  /\ UNCHANGED <<target, files, session, job, attempt, outcome, planner>>

\* 6. The target is still the one the plan saw.
CheckFingerprint(c) ==
  /\ pc[c] = "fingerprint"
  /\ IF catalog = job[c].plan.target
     THEN /\ read' = [read EXCEPT ![c].target = catalog]
          /\ Goto(c, "copyRows")
          /\ UNCHANGED <<target, files, session, job, attempt, outcome, planner>>
     ELSE StopAttempt(c, "refused")

\* Mutant: the rows of the target are not compared with the copy's.
CheckCopyRows_skipped(c) == pc[c] = "copyRows" /\ Proceed(c, "steps")

\* 6c. A promotion needs a rehearsal on a copy that had rows wherever the
\* target has them.
CheckCopyRows(c) ==
  LET j == job[c]
  IN  /\ pc[c] = "copyRows"
      /\ IF /\ j.mode = "apply" /\ j.plan.promotion
            /\ ~(rows \cap Footprint(j.plan) \subseteq j.report.rows)
         THEN StopAttempt(c, "refused")
         ELSE Proceed(c, "steps")

\* 7-16. The steps between the baseline and the checks of data, deferred
\* constraints, preservation, function bodies and validity.
RunSteps(c) == pc[c] = "steps" /\ Proceed(c, "verify")

\* A measurement (6a), a step or one of those checks fails, or in a rehearsal
\* the engine's own proof (18).
StepFails(c) ==
  /\ \/ pc[c] \in {"copyRows", "steps"}
     \/ pc[c] = "state" /\ job[c].mode = "rehearse"
  /\ StopAttempt(c, "failed")

\* The catalog as the attempt sees it after its steps, and as COMMIT leaves it.
Applied(c) == [t \in Tables |-> IF t \in Footprint(job[c].plan)
                                THEN Desired[job[c].plan.to][t]
                                ELSE catalog[t]]

\* 17. The result is the desired catalog.
Verify(c) ==
  /\ pc[c] = "verify"
  /\ IF Applied(c) = Desired[job[c].plan.to]
     THEN /\ read' = [read EXCEPT ![c].result = Applied(c)]
          /\ Goto(c, "state")
          /\ UNCHANGED <<target, files, session, job, attempt, outcome, planner>>
     ELSE StopAttempt(c, "failed")

\* 19. The ledger row, written with the marker in the same transaction.
LedgerRow(c) ==
  LET p == job[c].plan
  IN  [id |-> c, from |-> p.from, to |-> p.to,
       target |-> read[c].target, result |-> read[c].result,
       drift |-> p.drift, promotion |-> p.promotion]

\* 20. The port sends COMMIT.
SendCommit(c) ==
  /\ pc[c] = "state" /\ job[c].mode = "apply"
  /\ backend' = [backend EXCEPT ![c] = "commit"]
  /\ Goto(c, "reply")
  /\ UNCHANGED <<target, files, locked, advisory, job, attempt, read, outcome,
                 planner>>

\* 20. A rehearsal ends in ROLLBACK and its report is written next to the plan.
EndRehearsal(c) ==
  LET p == job[c].plan
  IN  /\ pc[c] = "state" /\ job[c].mode = "rehearse"
      /\ EndBackend(c)
      /\ reports' = [reports EXCEPT ![Stem(p)] =
                       [plan |-> p, rows |-> rows \cap Footprint(p)]]
      /\ Answer(c, "rolledBack")
      /\ UNCHANGED <<target, plans, planner>>

\* The usual rehearsal: on a copy of the target, another database with rows of
\* its own.  Of it only the report reaches the project's files, and only the
\* report of a promotion is ever read.
RehearseOnCopy(stem, filled) ==
  LET p == plans[stem]
  IN  /\ p # None /\ p.promotion
      /\ reports' = [reports EXCEPT ![stem] =
                       [plan |-> p, rows |-> filled \cap Footprint(p)]]
      /\ UNCHANGED <<target, plans, session, client, planner>>

\* The server commits: everything the transaction wrote becomes visible and
\* only then are its locks free.
ServerCommit(c) ==
  /\ backend[c] = "commit"
  /\ marker' = [hash |-> job[c].plan.to, fp |-> read[c].result]
  /\ ledger' = Append(ledger, LedgerRow(c))
  /\ catalog' = Applied(c)
  /\ EndBackend(c)
  /\ UNCHANGED <<rows, ddl, files, client, planner>>

CommitReply(c) ==
  /\ pc[c] = "reply" /\ backend[c] = "none"
  /\ Answer(c, "committed")
  /\ UNCHANGED <<target, files, session, planner>>

\* COMMIT or any other statement fails with an SQLSTATE that is neither a lock
\* conflict nor a lost connection: rolled back and thrown as it is.
Throws(c) ==
  /\ pc[c] \in Attached
  /\ pc[c] = "reply" => backend[c] = "commit"
  /\ EndBackend(c)
  /\ Answer(c, "thrown")
  /\ UNCHANGED <<target, files, planner>>

\* Mutant: one attempt too many.
LockConflict_offByOne(c) ==
  /\ pc[c] \in {"lock", "copyRows", "steps"}
  /\ EndBackend(c)
  /\ IF attempt[c] > MaxAttempts
     THEN Answer(c, "failed")
     ELSE Goto(c, "backoff") /\ UNCHANGED <<job, attempt, read, outcome>>
  /\ UNCHANGED <<target, files, planner>>

\* lock_timeout or deadlock: the transaction is aborted and the whole attempt
\* is repeated, at most MaxAttempts times.
LockConflict(c) ==
  /\ pc[c] \in {"lock", "copyRows", "steps"}
  /\ EndBackend(c)
  /\ IF attempt[c] >= MaxAttempts
     THEN Answer(c, "failed")
     ELSE Goto(c, "backoff") /\ UNCHANGED <<job, attempt, read, outcome>>
  /\ UNCHANGED <<target, files, planner>>

\* Mutant: the attempt counter is not advanced.
Backoff_uncounted(c) == pc[c] = "backoff" /\ Proceed(c, "begin")

Backoff(c) ==
  /\ pc[c] = "backoff"
  /\ attempt' = [attempt EXCEPT ![c] = @ + 1]
  /\ Goto(c, "begin")
  /\ UNCHANGED <<target, files, session, job, read, outcome, planner>>

\* The connection is lost: never a retry.  A rehearsal has nothing to look up.
ConnectionLost(c) ==
  /\ pc[c] \in Attached
  /\ IF job[c].mode = "rehearse"
     THEN Answer(c, "notApplied")
     ELSE Goto(c, "lookup") /\ UNCHANGED <<job, attempt, read, outcome>>
  /\ UNCHANGED <<target, files, session, planner>>

\* Mutant: the lookup does not wait for the lock and may overtake COMMIT.
LookupLock_noWait(c) ==
  /\ pc[c] = "lookup"
  /\ advisory' = IF advisory = None THEN Lookup(c) ELSE advisory
  /\ Goto(c, "find")
  /\ UNCHANGED <<target, files, backend, locked, job, attempt, read, outcome,
                 planner>>

\* afterLostConnection: a new transaction waits for the same advisory lock ...
LookupLock(c) ==
  /\ pc[c] = "lookup" /\ advisory = None
  /\ advisory' = Lookup(c)
  /\ Goto(c, "find")
  /\ UNCHANGED <<target, files, backend, locked, job, attempt, read, outcome,
                 planner>>

\* ... and only then, with a snapshot of its own, looks for its applyId.
FindApply(c) == IF Recorded(c) THEN "committed" ELSE "notApplied"

LookupFind(c) ==
  /\ pc[c] = "find"
  /\ Answer(c, FindApply(c))
  /\ advisory' = None
  /\ UNCHANGED <<target, files, backend, locked, planner>>

\* Mutant: an expired wait is answered as "not applied".
LookupTimeout_guessed(c) ==
  /\ pc[c] = "lookup" /\ advisory # None
  /\ Answer(c, "notApplied")
  /\ UNCHANGED <<target, files, session, planner>>

\* The wait is bounded, and an expired bound is an honest "unknown" ...
LookupTimeout(c) ==
  /\ pc[c] = "lookup" /\ advisory # None
  /\ Answer(c, "unknown")
  /\ UNCHANGED <<target, files, session, planner>>

\* ... and so is any failure of the lookup's own connection.
LookupLost(c) ==
  /\ pc[c] \in {"lookup", "find"}
  /\ Answer(c, "unknown")
  /\ UNCHANGED <<target, files, session, planner>>

\* The backend of a failed lookup keeps the lock until the server ends it.
OrphanLookupEnds(c) ==
  /\ advisory = Lookup(c) /\ pc[c] = "done"
  /\ advisory' = None
  /\ UNCHANGED <<target, files, backend, locked, client, planner>>

-----------------------------------------------------------------------------
\* A target nothing was applied to, whatever its catalog, or one as an earlier
\* apply left it.
Init ==
  /\ \E h \in Start :
       /\ catalog \in IF h = None THEN Catalogs ELSE {Desired[h]}
       /\ marker = [hash |-> h, fp |-> catalog]
       /\ ledger = IF h = None THEN <<>> ELSE
            <<[id |-> Past, from |-> None, to |-> h, target |-> catalog,
               result |-> catalog, drift |-> FALSE, promotion |-> FALSE]>>
  /\ rows = {}
  /\ ddl = 0
  /\ advisory = None
  /\ planner = [p \in Planners |-> [pc |-> "state", from |-> None,
                                    fp |-> catalog, head |-> None]]
  /\ plans = [s \in Stems |-> None]
  /\ reports = [s \in Stems |-> None]
  /\ pc = [c \in Calls |-> "idle"]
  /\ job = [c \in Calls |-> None]
  /\ attempt = [c \in Calls |-> 0]
  /\ backend = [c \in Calls |-> "none"]
  /\ locked = [c \in Calls |-> {}]
  /\ read = [c \in Calls |-> [target |-> catalog, result |-> catalog]]
  /\ outcome = [c \in Calls |-> "none"]

\* What the runner's own code does next for the call c.
RunAttempt(c) ==
  \/ TryAdvisoryLock(c) \/ CheckChain(c) \/ CheckTarget(c) \/ LockTables(c)
  \/ CheckFingerprint(c) \/ CheckCopyRows(c) \/ RunSteps(c) \/ Verify(c)
  \/ SendCommit(c) \/ EndRehearsal(c) \/ CommitReply(c) \/ Backoff(c)
AfterLost(c) == LookupLock(c) \/ LookupFind(c) \/ LookupTimeout(c)
Failure(c) == TargetRefuses(c) \/ StepFails(c) \/ Throws(c) \/ LockConflict(c)
              \/ ConnectionLost(c) \/ LookupLost(c)
Server(c) == ServerCommit(c) \/ OrphanEnds(c) \/ OrphanLookupEnds(c)

Next ==
  \/ \E p \in Planners : PlanReadState(p) \/ PlanReadHead(p)
  \/ \E p \in Planners, h \in Hashes : PlanWitness(p, h)
  \/ \E c \in Calls, s \in Stems, m \in {"apply", "rehearse"}, a \in BOOLEAN :
       ExecutePlan(c, s, m, a)
  \/ \E c \in Calls : RunAttempt(c) \/ AfterLost(c) \/ Failure(c) \/ Server(c)
  \/ \E t \in Tables, v \in Versions : ForeignDdl(t, v)
  \/ \E t \in Tables : ForeignInsert(t)
  \/ \E s \in Stems, f \in Copies : RehearseOnCopy(s, f)

Spec == Init /\ [][Next]_vars

\* A call runs until it answers; the server ends every transaction whose client
\* is gone and answers every COMMIT.
Fairness == \A c \in Calls : /\ WF_vars(RunAttempt(c))
                             /\ WF_vars(AfterLost(c))
                             /\ WF_vars(Server(c))
FairSpec == Spec /\ Fairness

-----------------------------------------------------------------------------
(* Properties *)

Holders == Calls \X {"attempt", "lookup"}
Outcomes == {"none", "refused", "failed", "thrown", "rolledBack", "committed",
             "notApplied", "unknown"}

\* The types of the state: marker and ledger rows, files, sessions and calls.
TypeOK ==
  /\ marker \in [hash: Hashes \cup {None}, fp: Catalogs]
  /\ ledger \in Seq(Row)
  /\ catalog \in Catalogs
  /\ rows \in SUBSET Tables
  /\ ddl \in 0..MaxForeignDdl
  /\ advisory \in Holders \cup {None}
  /\ planner \in [Planners -> [pc: {"state", "head", "witness", "done"},
                               from: Hashes \cup {None}, fp: Catalogs,
                               head: Calls \cup {Past, None}]]
  /\ plans \in [Stems -> Plan \cup {None}]
  /\ reports \in [Stems -> Report \cup {None}]
  /\ pc \in [Calls -> Attached \cup {"idle", "backoff", "lookup", "find",
                                      "done"}]
  /\ job \in [Calls -> Job \cup {None}]
  /\ \A c \in Calls : pc[c] \notin {"idle", "done"} => job[c] \in Job
  /\ \A c \in Calls : backend[c] # "none" => job[c] \in Job
  /\ \A c \in Calls : pc[c] = "backoff" => attempt[c] < MaxAttempts
  /\ attempt \in [Calls -> 0..MaxAttempts]
  /\ backend \in [Calls -> {"none", "open", "commit"}]
  /\ locked \in [Calls -> SUBSET Tables]
  /\ read \in [Calls -> [target: Catalogs, result: Catalogs]]
  /\ outcome \in [Calls -> Outcomes]

\* The ledger is one unbroken chain of transitions from the fresh state, and
\* the marker is its last row (checkChain and phase 19): no apply, retry or
\* COMMIT of an orphaned backend starts from a state another one has replaced.
ChainUnbroken ==
  /\ \A i \in DOMAIN ledger :
       ledger[i].from = IF i = 1 THEN None ELSE ledger[i - 1].to
  /\ IF ledger = <<>>
     THEN marker.hash = None
     ELSE /\ marker.hash = ledger[Len(ledger)].to
          /\ marker.fp = ledger[Len(ledger)].result

\* What a call answers is the truth, then and ever after: "committed" exactly
\* when its row is in the ledger, any other definite answer only when no row of
\* it is there and none will be; a rehearsal never leaves one.  After a lost
\* connection the lookup must not overtake a COMMIT still on its way
\* (afterLostConnection).
OutcomeTruth ==
  \A c \in Calls :
    /\ outcome[c] = "committed" => Recorded(c)
    /\ outcome[c] \in {"refused", "failed", "thrown", "rolledBack",
                       "notApplied"} => ~Recorded(c)
    /\ Recorded(c) => job[c].mode = "apply"

\* Why the two hold, as an inductive invariant.  A backend exists only while its
\* session holds the advisory lock, so nobody else can move the marker between
\* checkChain and COMMIT, and a lookup that has the lock knows that no backend
\* of its call is left to commit.
CallInv(c) ==
  /\ backend[c] # "none" => advisory = Attempt(c)
  /\ pc[c] = "find" => advisory = Lookup(c)
  /\ pc[c] \in {"idle", "begin", "backoff"} => backend[c] = "none"
  /\ pc[c] \in Attached \ {"begin", "reply"} => backend[c] = "open"
  /\ pc[c] = "reply" => backend[c] # "open"
  /\ backend[c] = "commit" => /\ pc[c] \in {"reply", "lookup", "done"}
                              /\ outcome[c] \in {"none", "unknown"}
                              /\ job[c].mode = "apply"
  /\ \/ backend[c] = "commit"
     \/ pc[c] \in Attached \ {"begin", "chain", "reply"}
     => marker.hash = job[c].plan.from
  /\ pc[c] # "done" => outcome[c] = "none"
  /\ Recorded(c) => /\ pc[c] \in {"reply", "lookup", "find", "done"}
                    /\ backend[c] = "none"
                    /\ job[c].mode = "apply"
  /\ pc[c] = "reply" /\ backend[c] = "none" => Recorded(c)

RunnerInv == ChainUnbroken /\ OutcomeTruth /\ \A c \in Calls : CallInv(c)

\* An apply that starts from a catalog other than the one the previous apply
\* left carries that drift in its row, so someone has allowed it: neither DDL
\* between plan and apply nor DDL during an apply is adopted silently.
DriftIsRecorded ==
  \A i \in DOMAIN ledger :
    i > 1 /\ ledger[i].target # ledger[i - 1].result => ledger[i].drift

\* A COMMIT of an apply replaces a definition of a table only if it is the one
\* the plan was built against: DDL of another session is never overwritten
\* (LOCK TABLE before the fingerprint, phases 5 and 6).
NoLostForeignDdl ==
  [][\A c \in Calls, t \in Tables :
       ledger' # ledger /\ LedgerHead' = c /\ catalog'[t] # catalog[t]
         => catalog[t] = job[c].plan.target[t]]_vars

\* An apply commits onto the very history its plan was built on.  A marker and a
\* catalog that are back where the plan starts are not enough: other applies
\* may have come in between (ABA; the ledger head of phase 4e).
HistoryAsPlanned ==
  [][\A c \in Calls : ledger' # ledger /\ LedgerHead' = c
       => LedgerHead = job[c].plan.head]_vars

\* A promotion commits only on tables whose rows its rehearsal also had: rows
\* that appear after the rehearsal are seen under the locks (phase 6c).
PromotionRehearsedOnRows ==
  [][\A c \in Calls :
       /\ ledger' # ledger /\ LedgerHead' = c /\ job[c].plan.promotion
       => rows \cap Footprint(job[c].plan) \subseteq job[c].report.rows]_vars

\* Seen from outside, an apply is an atomic compare-and-append on the ledger and
\* a truthful answer: the specification ApplyLedger.
AbstractLedger == [i \in DOMAIN ledger |->
                     [id |-> ledger[i].id, from |-> ledger[i].from,
                      to |-> ledger[i].to]]
AbstractAnswer == [c \in Calls |->
                     CASE outcome[c] = "none" -> "pending"
                       [] outcome[c] \in {"committed", "unknown"} -> outcome[c]
                       [] OTHER -> "notApplied"]
Abstract == INSTANCE ApplyLedger WITH
              ledger <- AbstractLedger, answer <- AbstractAnswer

\* Attempts, retries, lost connections, orphaned backends and lookups implement
\* that specification (executePlan's contract towards the apply tool).
RefinesApplyLedger == Abstract!Spec

\* Every call of executePlan answers: neither a lost connection nor the lock of
\* an orphaned backend leaves it waiting for ever.
EveryCallAnswers ==
  \A c \in Calls : pc[c] # "idle" ~> pc[c] = "done"

=============================================================================
