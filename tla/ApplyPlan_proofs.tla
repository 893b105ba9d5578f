--------------------------- MODULE ApplyPlan_proofs ---------------------------
(***************************************************************************)
(* What an apply relies on from its plan is still so when it commits: the   *)
(* ledger head (phase 4e), the definitions of the tables it changes (5, 6), *)
(* the rows of a promotion (6c) and the drift somebody has allowed.  And    *)
(* ApplyRunner implements ApplyLedger.                                      *)
(***************************************************************************)
EXTENDS ApplyRunner_proofs

\* A plan against a catalog that is not the one its starting model asks for says
\* so (driftGate: the fingerprint of the marker is that of the model applied).
DriftDeclared(p) == p.from # None /\ p.target # Desired[p.from] => p.drift

\* The marker, and what a planner has read of it: its fingerprint is that of the
\* catalog its hash stands for, since phase 17 let nothing else be recorded.
MarkerFits(hash, fp) == hash # None => fp = Desired[hash]

\* The attempt of c has passed the phases before S, or its COMMIT is on its way.
From(c, S) == pc[c] \in S \/ backend[c] = "commit"

\* What phases 4e, 5, 6, 6c and 17 established for the call c, for as long as its
\* backend may still commit.
HeldInv(c) ==
  /\ From(c, {"lock", "fingerprint", "copyRows", "steps", "verify", "state"})
       => LedgerHead = job[c].plan.head
  /\ From(c, {"fingerprint", "copyRows", "steps", "verify", "state"})
       => locked[c] = Footprint(job[c].plan)
  /\ From(c, {"copyRows", "steps", "verify", "state"})
       => /\ read[c].target = job[c].plan.target
          /\ \A t \in Footprint(job[c].plan) : catalog[t] = job[c].plan.target[t]
  /\ From(c, {"steps", "verify", "state"}) /\ job[c].mode = "apply" /\ job[c].plan.promotion
       => rows \cap Footprint(job[c].plan) \subseteq job[c].report.rows
  /\ From(c, {"state"}) => read[c].result = Desired[job[c].plan.to]

PlanInv ==
  /\ MarkerFits(marker.hash, marker.fp)
  /\ \A p \in Planners : planner[p].pc # "state" => MarkerFits(planner[p].from, planner[p].fp)
  /\ \A s \in Stems : plans[s] # None => DriftDeclared(plans[s])
  /\ \A c \in Calls : pc[c] # "idle" => DriftDeclared(job[c].plan)
  /\ \A c \in Calls : HeldInv(c)
  /\ DriftIsRecorded

-----------------------------------------------------------------------------
(* The plan and the target stay together *)

Phases == {"lock", "fingerprint", "copyRows", "steps", "verify", "state"}

\* A step leaves alone all that HeldInv says of the call d.
Same(d) ==
  /\ pc'[d] = pc[d] /\ backend'[d] = backend[d] /\ job'[d] = job[d]
  /\ locked'[d] = locked[d] /\ read'[d] = read[d]

\* A step of the call c that leaves target, planners and plans alone.
StepOf(c) ==
  /\ UNCHANGED <<marker, ledger, catalog, rows, planner, plans>>
  /\ \A d \in Calls : d # c => Same(d)

\* What a call holds survives a step that touches neither it nor the target.
LEMMA SameHeld ==
  ASSUME NEW d \in Calls, HeldInv(d), Same(d), UNCHANGED <<ledger, catalog, rows>>
  PROVE  HeldInv(d)'
BY DEF HeldInv, Same, From, LedgerHead

\* A call that leaves the phases, its COMMIT on its way or not, holds no more than before.
LEMMA LeaveHeld ==
  ASSUME NEW c \in Calls, HeldInv(c), UNCHANGED <<ledger, catalog, rows>>,
         pc'[c] \notin Phases, job'[c] = job[c], read'[c] = read[c],
         backend'[c] = "commit" => backend[c] = "commit" /\ locked'[c] = locked[c]
  PROVE  HeldInv(c)'
BY DEF HeldInv, From, LedgerHead, Phases

\* So for a step of c only its own part of the invariant is left to show.
LEMMA StepKeeps ==
  ASSUME PlanInv, NEW c \in Calls, StepOf(c), HeldInv(c)',
         pc'[c] # "idle" => DriftDeclared(job'[c].plan)
  PROVE  PlanInv'
<1>1. \A d \in Calls : HeldInv(d)'
    BY SameHeld DEF StepOf, PlanInv
<1>2. \A d \in Calls : pc'[d] # "idle" => DriftDeclared(job'[d].plan)
    BY DEF StepOf, Same, PlanInv
<1> QED
    BY <1>1, <1>2 DEF PlanInv, StepOf, DriftIsRecorded, DriftDeclared, MarkerFits

\* The ways a call ends or leaves its attempt.
LEMMA LeaveKeeps ==
  ASSUME TypeOK, PlanInv, NEW c \in Calls, StepOf(c), pc[c] # "idle",
         pc'[c] \notin Phases, job'[c] = job[c], read'[c] = read[c],
         backend'[c] = "commit" => backend[c] = "commit" /\ locked'[c] = locked[c]
  PROVE  PlanInv'
<1>1. HeldInv(c)'
    BY LeaveHeld DEF StepOf, PlanInv
<1> QED
    BY <1>1, StepKeeps DEF PlanInv

\* An answer with or without the end of the backend.
LEMMA AnswerLeaves ==
  ASSUME TypeOK, PlanInv, NEW c \in Calls, NEW st, Answer(c, st), pc[c] # "idle",
         EndBackend(c) \/ UNCHANGED session, UNCHANGED <<target, planner, plans>>
  PROVE  PlanInv'
<1>1. StepOf(c)
    BY DEF StepOf, Same, Answer, Goto, EndBackend, session, target, TypeOK
<1>2. /\ pc'[c] \notin Phases /\ job'[c] = job[c] /\ read'[c] = read[c]
      /\ backend'[c] = "commit" => backend[c] = "commit" /\ locked'[c] = locked[c]
    BY DEF Answer, Goto, EndBackend, session, TypeOK, Phases
<1> QED
    BY <1>1, <1>2, LeaveKeeps

\* An attempt that ends (StopAttempt) keeps the invariant: its call relies on nothing any more.
LEMMA StopLeaves ==
  ASSUME TypeOK, PlanInv, NEW c \in Calls, NEW st, StopAttempt(c, st), pc[c] # "idle"
  PROVE  PlanInv'
BY AnswerLeaves DEF StopAttempt, files

\* A phase that changes only where the call is.
LEMMA ProceedHeld ==
  ASSUME TypeOK, PlanInv, NEW c \in Calls, NEW ph, Proceed(c, ph), pc[c] # "idle", HeldInv(c)'
  PROVE  PlanInv'
<1>1. StepOf(c)
    BY DEF StepOf, Same, Proceed, Goto, session, target, files, TypeOK
<1>2. job' = job
    BY DEF Proceed
<1> QED
    BY <1>1, <1>2, StepKeeps DEF PlanInv

\* DDL and rows of other sessions stay away from the locked tables.
LEMMA OthersRespectLocks ==
  ASSUME TypeOK, RunnerInv, PlanInv, NEW d \in Calls, NEW t \in Tables, Unlocked(t),
         UNCHANGED <<marker, ledger, session, client>>,
         \A u \in Tables : u # t => catalog'[u] = catalog[u],
         rows' \subseteq rows \cup {t}
  PROVE  HeldInv(d)'
<1>1. t \notin locked[d]
    BY DEF Unlocked
<1>2. Same(d) /\ HeldInv(d)
    BY DEF Same, session, client, PlanInv
<1>3. From(d, {"fingerprint", "copyRows", "steps", "verify", "state"})
        => t \notin Footprint(job[d].plan)
    BY <1>1, <1>2 DEF HeldInv
<1>4. \A S : From(d, S)' <=> From(d, S)
    BY <1>2 DEF From, Same
<1>5. LedgerHead' = LedgerHead
    BY DEF LedgerHead
<1>6. Footprint(job[d].plan) \subseteq Tables
    BY FootprintType
<1>7. From(d, {"copyRows", "steps", "verify", "state"})
        => From(d, {"fingerprint", "copyRows", "steps", "verify", "state"})
    BY DEF From
<1>8. From(d, {"steps", "verify", "state"})
        => From(d, {"fingerprint", "copyRows", "steps", "verify", "state"})
    BY DEF From
<1>9. job'[d] = job[d] /\ locked'[d] = locked[d] /\ read'[d] = read[d]
    BY <1>2 DEF Same
<1>10. From(d, {"copyRows", "steps", "verify", "state"})
        => \A u \in Footprint(job[d].plan) : catalog'[u] = job[d].plan.target[u]
    BY <1>2, <1>3, <1>6, <1>7 DEF HeldInv
<1>11. From(d, {"steps", "verify", "state"}) /\ job[d].mode = "apply" /\ job[d].plan.promotion
        => rows' \cap Footprint(job[d].plan) \subseteq job[d].report.rows
    BY <1>2, <1>3, <1>8 DEF HeldInv
<1> QED
    BY <1>2, <1>4, <1>5, <1>9, <1>10, <1>11 DEF HeldInv

\* COMMIT: no other call holds anything, and the row declares its drift.
LEMMA CommitPlan ==
  ASSUME TypeOK, RunnerInv, PlanInv, NEW c \in Calls, ServerCommit(c)
  PROVE  PlanInv'
<1> DEFINE n == Len(ledger)
           p == job[c].plan
<1>1. /\ job[c] \in Job /\ backend[c] = "commit" /\ pc[c] # "idle" /\ advisory = Attempt(c)
      /\ marker.hash = p.from
    BY DEF ServerCommit, TypeOK, RunnerInv, CallInv
<1>2. /\ read[c].target = p.target /\ read[c].result = Desired[p.to]
      /\ DriftDeclared(p)
    BY <1>1, ApplyAssumption DEF PlanInv, HeldInv, From, Job
<1>3. /\ job' = job /\ pc' = pc /\ planner' = planner /\ plans' = plans
      /\ backend' = [backend EXCEPT ![c] = "none"]
      /\ marker' = [hash |-> p.to, fp |-> read[c].result]
    BY DEF ServerCommit, EndBackend, client, files
<1>4. \A d \in Calls : d # c => backend[d] = "none"
    BY <1>1, HoldersDiffer DEF RunnerInv, CallInv, TypeOK
<1>5. \A d \in Calls : pc[d] \notin Phases
    BY <1>1, <1>4 DEF RunnerInv, CallInv, Phases, Attached
<1>6. \A d \in Calls : backend'[d] = "none"
    BY <1>3, <1>4 DEF TypeOK
<1>7. \A d \in Calls : HeldInv(d)'
    BY <1>3, <1>5, <1>6 DEF HeldInv, From, Phases
<1>8. MarkerFits(marker'.hash, marker'.fp)
    BY <1>2, <1>3 DEF MarkerFits
<1>9. DriftIsRecorded'
  <2>1. /\ ledger \in Seq(Row) /\ n \in Nat /\ DOMAIN ledger = 1..n
        /\ LedgerRow(c) \in Row /\ ledger' = Append(ledger, LedgerRow(c))
    <3>1. LedgerRow(c) \in Row
        BY <1>1 DEF LedgerRow, Row, Job, Plan, TypeOK
    <3> QED
        BY <3>1, LenProperties DEF TypeOK, ServerCommit
  <2>2. /\ DOMAIN ledger' = 1..(n + 1) /\ ledger'[n + 1] = LedgerRow(c)
        /\ \A i \in 1..n : ledger'[i] = ledger[i]
      BY <2>1, AppendProperties, LenProperties
  <2>3. LedgerRow(c).target = p.target /\ LedgerRow(c).drift = p.drift
      BY <1>2 DEF LedgerRow
  <2>4. n # 0 => p.from # None /\ ledger[n].result = Desired[p.from]
    <3> SUFFICES ASSUME n # 0 PROVE p.from # None /\ ledger[n].result = Desired[p.from]
        OBVIOUS
    <3>1. ledger # <<>> /\ ledger[n] \in Row
        BY <2>1, LastElement, EmptySeq
    <3>2. marker.hash = ledger[n].to /\ marker.fp = ledger[n].result
        BY <3>1 DEF RunnerInv, ChainUnbroken
    <3>3. marker.hash # None
        BY <3>1, <3>2, ApplyAssumption DEF Row
    <3> QED
        BY <1>1, <3>2, <3>3 DEF PlanInv, MarkerFits
  <2>5. ASSUME NEW i \in 1..(n + 1), i > 1, ledger'[i].target # ledger'[i - 1].result
        PROVE  ledger'[i].drift
    <3>1. CASE i = n + 1
      <4>1. n # 0 /\ i - 1 = n /\ n \in 1..n
        <5>1. n \in Nat /\ i = n + 1 /\ i > 1
            BY <2>1, <2>5, <3>1
        <5> HIDE DEF n
        <5> QED
            BY <5>1
      <4>2. p.target # Desired[p.from] /\ p.from # None
          BY <2>2, <2>3, <2>4, <2>5, <3>1, <4>1
      <4> QED
          BY <1>2, <2>2, <2>3, <3>1, <4>2 DEF DriftDeclared
    <3>2. CASE i # n + 1
      <4>1. i \in 1..n /\ i - 1 \in 1..n
          BY <2>1, <2>5, <3>2
      <4>2. ledger[i].target # ledger[i - 1].result
          BY <2>2, <2>5, <4>1
      <4> QED
          BY <2>1, <2>2, <2>5, <4>1, <4>2 DEF PlanInv, DriftIsRecorded
    <3> QED
        BY <3>1, <3>2
  <2> QED
      BY <2>2, <2>5 DEF DriftIsRecorded
<1> QED
    BY <1>3, <1>7, <1>8, <1>9 DEF PlanInv, DriftDeclared, MarkerFits

\* Initially no plan is built and no call runs; the marker is that of Desired[h].
LEMMA PlanInit == Init => PlanInv
<1> SUFFICES ASSUME Init PROVE PlanInv
    OBVIOUS
<1>1. PICK h \in Start :
       /\ catalog \in IF h = None THEN Catalogs ELSE {Desired[h]}
       /\ marker = [hash |-> h, fp |-> catalog]
       /\ ledger = IF h = None THEN <<>> ELSE
            <<[id |-> Past, from |-> None, to |-> h, target |-> catalog,
               result |-> catalog, drift |-> FALSE, promotion |-> FALSE]>>
    BY DEF Init
<1>2. DriftIsRecorded
    BY <1>1 DEF DriftIsRecorded
<1>3. MarkerFits(marker.hash, marker.fp)
    BY <1>1 DEF MarkerFits
<1> QED
    BY <1>2, <1>3 DEF Init, PlanInv, HeldInv, From

\* Every step keeps it: one case per action of Next.
LEMMA PlanStep == TypeOK /\ RunnerInv /\ PlanInv /\ [Next]_vars => PlanInv'
<1> SUFFICES ASSUME TypeOK, RunnerInv, PlanInv, [Next]_vars PROVE PlanInv'
    OBVIOUS
<1>0. ASSUME UNCHANGED <<target, session, client>>
      PROVE  \A d \in Calls : HeldInv(d)'
    BY <1>0, SameHeld DEF Same, target, session, client, PlanInv
<1>1. ASSUME NEW p \in Planners, PlanReadState(p) PROVE PlanInv'
    BY <1>0, <1>1 DEF PlanReadState, PlanInv, TypeOK, target, files, client,
                      DriftIsRecorded, DriftDeclared, MarkerFits
<1>2. ASSUME NEW p \in Planners, PlanReadHead(p) PROVE PlanInv'
    BY <1>0, <1>2 DEF PlanReadHead, PlanInv, TypeOK, target, files, client,
                      DriftIsRecorded, DriftDeclared, MarkerFits
<1>3. ASSUME NEW p \in Planners, NEW h \in Hashes, PlanWitness(p, h) PROVE PlanInv'
  <2> DEFINE q == planner[p]
             plan == [from |-> q.from, to |-> h, head |-> q.head, target |-> catalog,
                      drift |-> DriftGate(q.from, q.fp, catalog),
                      promotion |-> <<q.from, h>> \in Promotions]
  <2>1. MarkerFits(q.from, q.fp)
      BY <1>3 DEF PlanWitness, PlanInv
  <2>2. DriftDeclared(plan)
      BY <2>1 DEF DriftDeclared, DriftGate, MarkerFits
  <2>3. plans' = plans \/ plans' = [plans EXCEPT ![Stem(plan)] = plan]
      BY <1>3 DEF PlanWitness
  <2>4. \A s \in Stems : plans'[s] # None => DriftDeclared(plans'[s])
      BY <2>2, <2>3 DEF PlanInv, TypeOK
  <2>5. \A r \in Planners : planner'[r].pc # "state" =>
                              MarkerFits(planner'[r].from, planner'[r].fp)
      BY <1>3, <2>1 DEF PlanWitness, PlanInv, TypeOK
  <2> QED
      BY <1>0, <1>3, <2>4, <2>5 DEF PlanWitness, PlanInv, target, client,
                      DriftIsRecorded, DriftDeclared, MarkerFits
<1>4. ASSUME NEW c \in Calls, NEW s \in Stems, NEW m \in {"apply", "rehearse"},
             NEW a \in BOOLEAN, ExecutePlan(c, s, m, a)
      PROVE  PlanInv'
  <2>1. StepOf(c) /\ pc[c] = "idle" /\ pc'[c] \in {"begin", "done"}
        /\ backend'[c] = backend[c]
      BY <1>4 DEF ExecutePlan, StepOf, Same, Goto, target, files, session, TypeOK
  <2>2. backend'[c] = "none"
      BY <2>1 DEF RunnerInv, CallInv
  <2>3. HeldInv(c)'
      BY <2>1, <2>2 DEF HeldInv, From
  <2>4. DriftDeclared(job'[c].plan)
    <3>1. job'[c] = [plan |-> plans[s], mode |-> m, report |-> reports[s]] /\ plans[s] # None
        BY <1>4 DEF ExecutePlan, TypeOK
    <3> QED
        BY <3>1 DEF PlanInv
  <2> QED
      BY <2>1, <2>3, <2>4, StepKeeps
<1>5. ASSUME NEW c \in Calls, RunAttempt(c) PROVE PlanInv'
  <2>h. HeldInv(c) /\ CallInv(c)
      BY DEF PlanInv, RunnerInv
  <2>p. pc[c] # "idle"
      BY <1>5 DEF RunAttempt, TryAdvisoryLock, CheckChain, CheckTarget, LockTables,
                  CheckFingerprint, CheckCopyRows, RunSteps, Verify, SendCommit,
                  EndRehearsal, CommitReply, Backoff
  <2>1. CASE TryAdvisoryLock(c)
    <3>1. CASE advisory = None
      <4>1. StepOf(c) /\ pc'[c] = "chain" /\ backend'[c] = "open" /\ job' = job
          BY <2>1, <3>1 DEF TryAdvisoryLock, Goto, StepOf, Same, target, files, TypeOK
      <4>2. HeldInv(c)'
          BY <4>1 DEF HeldInv, From
      <4> QED
          BY <4>1, <4>2, <2>p, StepKeeps DEF PlanInv
    <3>2. CASE advisory # None
        BY <2>1, <3>2, <2>p, AnswerLeaves DEF TryAdvisoryLock, files
    <3> QED
        BY <3>1, <3>2
  <2>2. CASE CheckChain(c)
    <3>1. CASE Proceed(c, "target")
      <4>1. HeldInv(c)'
          BY <2>2, <3>1, <2>h
          DEF CheckChain, Proceed, Goto, session, HeldInv, From, CallInv, Attached, TypeOK
      <4> QED
          BY <3>1, <4>1, <2>p, ProceedHeld
    <3> QED
        BY <2>2, <3>1, <2>p, StopLeaves DEF CheckChain
  <2>3. CASE CheckTarget(c)
    <3>1. CASE LedgerHead = job[c].plan.head
      <4>1. HeldInv(c)'
          BY <2>3, <3>1, <2>h
          DEF CheckTarget, Proceed, Goto, session, target, HeldInv, From, LedgerHead,
              CallInv, Attached, TypeOK
      <4> QED
          BY <2>3, <3>1, <4>1, <2>p, ProceedHeld DEF CheckTarget
    <3> QED
        BY <2>3, <3>1, <2>p, StopLeaves DEF CheckTarget
  <2>4. CASE LockTables(c)
    <3>1. StepOf(c) /\ job' = job
        BY <2>4 DEF LockTables, Goto, StepOf, Same, target, files, TypeOK
    <3>2. HeldInv(c)'
        BY <2>4, <2>h
        DEF LockTables, Goto, target, HeldInv, From, LedgerHead, CallInv, Attached, TypeOK
    <3> QED
        BY <3>1, <3>2, <2>p, StepKeeps DEF PlanInv
  <2>5. CASE CheckFingerprint(c)
    <3>1. CASE catalog = job[c].plan.target
      <4>1. StepOf(c) /\ job' = job
          BY <2>5, <3>1
          DEF CheckFingerprint, Goto, StepOf, Same, target, files, session, TypeOK
      <4>2. HeldInv(c)'
          BY <2>5, <3>1, <2>h
          DEF CheckFingerprint, Goto, target, session, HeldInv, From, LedgerHead, CallInv,
              Attached, TypeOK
      <4> QED
          BY <4>1, <4>2, <2>p, StepKeeps DEF PlanInv
    <3> QED
        BY <2>5, <3>1, <2>p, StopLeaves DEF CheckFingerprint
  <2>6. CASE CheckCopyRows(c)
    <3>1. CASE Proceed(c, "steps") /\ (job[c].mode = "apply" /\ job[c].plan.promotion =>
                 rows \cap Footprint(job[c].plan) \subseteq job[c].report.rows)
      <4>1. HeldInv(c)'
          BY <2>6, <3>1, <2>h
          DEF CheckCopyRows, Proceed, Goto, target, session, HeldInv, From, LedgerHead,
              CallInv, Attached, TypeOK
      <4> QED
          BY <3>1, <4>1, <2>p, ProceedHeld
    <3> QED
        BY <2>6, <3>1, <2>p, StopLeaves DEF CheckCopyRows
  <2>7. CASE RunSteps(c)
    <3>1. HeldInv(c)'
        BY <2>7, <2>h
        DEF RunSteps, Proceed, Goto, target, session, HeldInv, From, LedgerHead, CallInv,
            Attached, TypeOK
    <3> QED
        BY <2>7, <3>1, <2>p, ProceedHeld DEF RunSteps
  <2>8. CASE Verify(c)
    <3>1. CASE Applied(c) = Desired[job[c].plan.to]
      <4>1. StepOf(c) /\ job' = job
          BY <2>8, <3>1 DEF Verify, Goto, StepOf, Same, target, files, session, TypeOK
      <4>2. HeldInv(c)'
          BY <2>8, <3>1, <2>h
          DEF Verify, Goto, target, session, HeldInv, From, LedgerHead, CallInv, Attached,
              TypeOK
      <4> QED
          BY <4>1, <4>2, <2>p, StepKeeps DEF PlanInv
    <3> QED
        BY <2>8, <3>1, <2>p, StopLeaves DEF Verify
  <2>9. CASE SendCommit(c)
    <3>1. StepOf(c) /\ job' = job
        BY <2>9 DEF SendCommit, Goto, StepOf, Same, target, files, TypeOK
    <3>2. HeldInv(c)'
        BY <2>9, <2>h
        DEF SendCommit, Goto, target, HeldInv, From, LedgerHead, CallInv, Attached, TypeOK
    <3> QED
        BY <3>1, <3>2, <2>p, StepKeeps DEF PlanInv
  <2>10. CASE EndRehearsal(c)
      BY <2>10, <2>p, AnswerLeaves DEF EndRehearsal
  <2>11. CASE CommitReply(c)
      BY <2>11, <2>p, AnswerLeaves DEF CommitReply, files
  <2>12. CASE Backoff(c)
    <3>1. StepOf(c) /\ pc[c] # "idle" /\ pc'[c] \notin Phases /\ job'[c] = job[c] /\ read'[c] = read[c]
          /\ backend'[c] = backend[c] /\ locked'[c] = locked[c]
        BY <2>12 DEF Backoff, Goto, StepOf, Same, target, files, session, TypeOK, Phases
    <3> QED
        BY <3>1, LeaveKeeps
  <2> QED
      BY <1>5, <2>1, <2>2, <2>3, <2>4, <2>5, <2>6, <2>7, <2>8, <2>9, <2>10,
         <2>11, <2>12 DEF RunAttempt
<1>6. ASSUME NEW c \in Calls, AfterLost(c) PROVE PlanInv'
  <2>1. CASE LookupLock(c)
    <3>1. StepOf(c) /\ pc[c] # "idle" /\ pc'[c] \notin Phases /\ job'[c] = job[c] /\ read'[c] = read[c]
          /\ backend'[c] = backend[c] /\ locked'[c] = locked[c]
        BY <2>1 DEF LookupLock, Goto, StepOf, Same, target, files, TypeOK, Phases
    <3> QED
        BY <3>1, LeaveKeeps
  <2>2. CASE LookupFind(c)
    <3>1. StepOf(c) /\ pc[c] # "idle" /\ pc'[c] \notin Phases /\ job'[c] = job[c] /\ read'[c] = read[c]
          /\ backend'[c] = backend[c] /\ locked'[c] = locked[c]
        BY <2>2 DEF LookupFind, Answer, Goto, StepOf, Same, target, files, TypeOK, Phases
    <3> QED
        BY <3>1, LeaveKeeps
  <2>3. CASE LookupTimeout(c)
      BY <2>3, AnswerLeaves DEF LookupTimeout, files
  <2> QED
      BY <1>6, <2>1, <2>2, <2>3 DEF AfterLost
<1>7. ASSUME NEW c \in Calls, Failure(c) PROVE PlanInv'
  <2>1. CASE TargetRefuses(c)
      BY <2>1, StopLeaves DEF TargetRefuses
  <2>2. CASE StepFails(c)
      BY <2>2, StopLeaves DEF StepFails
  <2>3. CASE Throws(c)
      BY <2>3, AnswerLeaves DEF Throws, files, Attached
  <2>4. CASE LockConflict(c)
    <3>1. CASE Answer(c, "failed")
        BY <2>4, <3>1, AnswerLeaves DEF LockConflict, files
    <3>2. CASE Goto(c, "backoff") /\ UNCHANGED <<job, attempt, read, outcome>>
      <4>1. StepOf(c) /\ pc[c] # "idle" /\ pc'[c] \notin Phases /\ job'[c] = job[c] /\ read'[c] = read[c]
            /\ backend'[c] = "none"
          BY <2>4, <3>2
          DEF LockConflict, EndBackend, Goto, StepOf, Same, target, files, TypeOK, Phases
      <4> QED
          BY <4>1, LeaveKeeps
    <3> QED
        BY <2>4, <3>1, <3>2 DEF LockConflict
  <2>5. CASE ConnectionLost(c)
    <3>1. CASE Answer(c, "notApplied")
        BY <2>5, <3>1, AnswerLeaves DEF ConnectionLost, files, Attached
    <3>2. CASE Goto(c, "lookup") /\ UNCHANGED <<job, attempt, read, outcome>>
      <4>1. StepOf(c) /\ pc[c] # "idle" /\ pc'[c] \notin Phases /\ job'[c] = job[c] /\ read'[c] = read[c]
            /\ backend'[c] = backend[c] /\ locked'[c] = locked[c]
          BY <2>5, <3>2
          DEF ConnectionLost, Goto, StepOf, Same, target, files, session, TypeOK, Phases,
              Attached
      <4> QED
          BY <4>1, LeaveKeeps
    <3> QED
        BY <2>5, <3>1, <3>2 DEF ConnectionLost
  <2>6. CASE LookupLost(c)
      BY <2>6, AnswerLeaves DEF LookupLost, files
  <2> QED
      BY <1>7, <2>1, <2>2, <2>3, <2>4, <2>5, <2>6 DEF Failure
<1>8. ASSUME NEW c \in Calls, Server(c) PROVE PlanInv'
  <2>1. CASE ServerCommit(c)
      BY <2>1, CommitPlan
  <2>2. CASE OrphanEnds(c)
    <3>1. StepOf(c) /\ pc[c] # "idle" /\ pc'[c] \notin Phases /\ job'[c] = job[c] /\ read'[c] = read[c]
          /\ backend'[c] = "none"
        BY <2>2 DEF OrphanEnds, EndBackend, StepOf, Same, target, files, client, TypeOK,
                    Phases, Attached, RunnerInv, CallInv
    <3> QED
        BY <3>1, LeaveKeeps
  <2>3. CASE OrphanLookupEnds(c)
    <3>1. StepOf(c) /\ pc[c] # "idle" /\ pc'[c] \notin Phases /\ job'[c] = job[c] /\ read'[c] = read[c]
          /\ backend'[c] = backend[c] /\ locked'[c] = locked[c]
        BY <2>3 DEF OrphanLookupEnds, StepOf, Same, target, files, client, Phases
    <3> QED
        BY <3>1, LeaveKeeps
  <2> QED
      BY <1>8, <2>1, <2>2, <2>3 DEF Server
<1>9. ASSUME NEW t \in Tables, NEW v \in Versions, ForeignDdl(t, v) PROVE PlanInv'
  <2>1. \A d \in Calls : HeldInv(d)'
      BY <1>9, OthersRespectLocks DEF ForeignDdl, TypeOK, Catalogs
  <2> QED
      BY <1>9, <2>1 DEF ForeignDdl, PlanInv, files, client, DriftIsRecorded, DriftDeclared,
                        MarkerFits
<1>10. ASSUME NEW t \in Tables, ForeignInsert(t) PROVE PlanInv'
  <2>1. \A d \in Calls : HeldInv(d)'
      BY <1>10, OthersRespectLocks DEF ForeignInsert
  <2> QED
      BY <1>10, <2>1 DEF ForeignInsert, PlanInv, files, client, DriftIsRecorded,
                         DriftDeclared, MarkerFits
<1>11. ASSUME NEW s \in Stems, NEW f \in Copies, RehearseOnCopy(s, f) PROVE PlanInv'
    BY <1>0, <1>11 DEF RehearseOnCopy, PlanInv, target, client, DriftIsRecorded,
                       DriftDeclared, MarkerFits
<1>12. CASE UNCHANGED vars
    BY <1>0, <1>12 DEF vars, PlanInv, target, files, client, DriftIsRecorded,
                       DriftDeclared, MarkerFits
<1> QED
    BY <1>1, <1>2, <1>3, <1>4, <1>5, <1>6, <1>7, <1>8, <1>9, <1>10, <1>11, <1>12
    DEF Next


\* What every step keeps, together.
ApplyInv == TypeOK /\ RunnerInv /\ PlanInv

\* The three invariants of the runner hold in every reachable state: what a call
\* has checked against its plan stays so until its backend is gone (phases 4e to 17).
THEOREM PlanInvariant == Spec => []ApplyInv
<1>1. Init => ApplyInv
    BY TypeInit, InvInit, PlanInit DEF ApplyInv
<1>2. ApplyInv /\ [Next]_vars => ApplyInv'
    BY TypeStep, InvStep, PlanStep DEF ApplyInv
<1> QED
    BY <1>1, <1>2, PTL DEF Spec

\* Every apply onto a catalog other than the one its predecessor left carries the
\* drift in its ledger row (driftGate, and the permission executePlan asks for).
THEOREM DriftIsAllowed == Spec => []DriftIsRecorded
<1>1. ApplyInv => DriftIsRecorded
    BY DEF ApplyInv, PlanInv
<1> QED
    BY <1>1, PlanInvariant, PTL

-----------------------------------------------------------------------------
(* What a COMMIT may do to the target *)

\* Only the server's COMMIT of an apply moves the ledger.
LEMMA LedgerMoves ==
  ASSUME [Next]_vars, ledger' # ledger
  PROVE  \E c \in Calls : ServerCommit(c)
<1>1. ASSUME NEW c \in Calls, RunAttempt(c) PROVE FALSE
    BY <1>1 DEF RunAttempt, TryAdvisoryLock, CheckChain, CheckTarget, LockTables,
                CheckFingerprint, CheckCopyRows, RunSteps, Verify, SendCommit,
                EndRehearsal, CommitReply, Backoff, Proceed, StopAttempt, target
<1>2. ASSUME NEW c \in Calls, AfterLost(c) \/ Failure(c) PROVE FALSE
    BY <1>2 DEF AfterLost, LookupLock, LookupFind, LookupTimeout, Failure, TargetRefuses,
                StepFails, Throws, LockConflict, ConnectionLost, LookupLost, StopAttempt,
                target
<1>3. ASSUME NEW c \in Calls, Server(c) PROVE ServerCommit(c)
    BY <1>3 DEF Server, OrphanEnds, OrphanLookupEnds, target
<1> QED
    BY <1>1, <1>2, <1>3 DEF Next, PlanReadState, PlanReadHead, PlanWitness, ExecutePlan,
                            ForeignDdl, ForeignInsert, RehearseOnCopy, target, vars

\* The row of the call that commits is the new head.
LEMMA CommitHead ==
  ASSUME TypeOK, NEW c \in Calls, ServerCommit(c)
  PROVE  /\ LedgerHead' = c /\ job[c] \in Job
         /\ LedgerRow(c) \in Row /\ ledger' = Append(ledger, LedgerRow(c))
<1>1. /\ job[c] \in Job /\ ledger \in Seq(Row)
      /\ ledger' = Append(ledger, LedgerRow(c))
    BY DEF TypeOK, ServerCommit
<1>2. LedgerRow(c) \in Row /\ LedgerRow(c).id = c
    BY <1>1 DEF LedgerRow, Row, Job, Plan, TypeOK
<1>3. ledger' # <<>> /\ ledger'[Len(ledger')] = LedgerRow(c)
    BY <1>1, <1>2, AppendProperties
<1> QED
    BY <1>1, <1>2, <1>3 DEF LedgerHead

\* So a step that makes c the head is the COMMIT of c, with all that c holds.
LEMMA HeadIsCommit ==
  ASSUME ApplyInv, [Next]_vars, NEW c \in Calls, ledger' # ledger, LedgerHead' = c
  PROVE  ServerCommit(c) /\ backend[c] = "commit" /\ HeldInv(c) /\ CallInv(c)
<1>1. PICK d \in Calls : ServerCommit(d)
    BY LedgerMoves
<1>2. d = c
    BY <1>1, CommitHead DEF ApplyInv
<1> QED
    BY <1>1, <1>2 DEF ApplyInv, PlanInv, RunnerInv, ServerCommit

\* An apply commits onto the ledger head its plan was built on (phase 4e under
\* the advisory lock), however many applies the target has seen in between.
THEOREM HistoryKept == Spec => HistoryAsPlanned
<1>1. ApplyInv /\ [Next]_vars =>
        [\A c \in Calls : ledger' # ledger /\ LedgerHead' = c
           => LedgerHead = job[c].plan.head]_vars
    BY HeadIsCommit DEF HeldInv, From
<1> QED
    BY <1>1, PlanInvariant, PTL DEF Spec, HistoryAsPlanned

\* A COMMIT replaces only definitions the plan has seen: the locks of phase 5 come
\* before the fingerprint of phase 6 and outlive it.
THEOREM ForeignDdlKept == Spec => NoLostForeignDdl
<1>1. ApplyInv /\ [Next]_vars =>
        [\A c \in Calls, t \in Tables :
           ledger' # ledger /\ LedgerHead' = c /\ catalog'[t] # catalog[t]
             => catalog[t] = job[c].plan.target[t]]_vars
  <2> SUFFICES ASSUME ApplyInv, [Next]_vars, NEW c \in Calls, NEW t \in Tables,
                      ledger' # ledger, LedgerHead' = c, catalog'[t] # catalog[t]
               PROVE  catalog[t] = job[c].plan.target[t]
      OBVIOUS
  <2>1. ServerCommit(c) /\ backend[c] = "commit" /\ HeldInv(c)
      BY HeadIsCommit
  <2>2. t \in Footprint(job[c].plan)
      BY <2>1 DEF ServerCommit, Applied
  <2> QED
      BY <2>1, <2>2 DEF HeldInv, From
<1> QED
    BY <1>1, PlanInvariant, PTL DEF Spec, NoLostForeignDdl

\* A promotion commits only onto rows its rehearsal had as well (phase 6c, under
\* the locks of phase 5).
THEOREM RehearsedOnRows == Spec => PromotionRehearsedOnRows
<1>1. ApplyInv /\ [Next]_vars =>
        [\A c \in Calls :
           /\ ledger' # ledger /\ LedgerHead' = c /\ job[c].plan.promotion
           => rows \cap Footprint(job[c].plan) \subseteq job[c].report.rows]_vars
  <2> SUFFICES ASSUME ApplyInv, [Next]_vars, NEW c \in Calls,
                      ledger' # ledger, LedgerHead' = c, job[c].plan.promotion
               PROVE  rows \cap Footprint(job[c].plan) \subseteq job[c].report.rows
      OBVIOUS
  <2>1. backend[c] = "commit" /\ HeldInv(c) /\ job[c].mode = "apply"
      BY HeadIsCommit DEF CallInv
  <2> QED
      BY <2>1 DEF HeldInv, From
<1> QED
    BY <1>1, PlanInvariant, PTL DEF Spec, PromotionRehearsedOnRows


-----------------------------------------------------------------------------
(* ApplyRunner implements ApplyLedger *)

AbstractRow == [id: Calls \cup {Past}, from: Hashes \cup {None}, to: Hashes]

\* What of a row ApplyLedger speaks of.
Seen(r) == [id |-> r.id, from |-> r.from, to |-> r.to]

\* A ledger as ApplyLedger sees it: a sequence of the same length.
LEMMA AbstractSeq ==
  ASSUME NEW l \in Seq(Row), NEW s, s = [i \in DOMAIN l |-> Seen(l[i])]
  PROVE  /\ s \in Seq(AbstractRow)
         /\ Len(s) = Len(l) /\ DOMAIN s = 1..Len(l)
         /\ DOMAIN l = 1..Len(l) /\ Len(l) \in Nat
         /\ \A i \in 1..Len(l) : s[i] = Seen(l[i])
<1>1. Len(l) \in Nat /\ DOMAIN l = 1..Len(l)
    BY LenProperties
<1>2. \A i \in 1..Len(l) : l[i] \in Row
    BY ElementOfSeq
<1>3. \A i \in 1..Len(l) : Seen(l[i]) \in AbstractRow
    BY <1>2 DEF Seen, Row, AbstractRow
<1>4. s \in [1..Len(l) -> AbstractRow]
    BY <1>1, <1>3
<1>5. s \in Seq(AbstractRow) /\ Len(s) = Len(l)
    BY <1>1, <1>4
<1> QED
    BY <1>1, <1>5

\* The ledger of the target, seen that way.
LEMMA AbstractIsSeq ==
  ASSUME ledger \in Seq(Row)
  PROVE  /\ AbstractLedger \in Seq(AbstractRow)
         /\ Len(AbstractLedger) = Len(ledger) /\ DOMAIN AbstractLedger = 1..Len(ledger)
         /\ DOMAIN ledger = 1..Len(ledger) /\ Len(ledger) \in Nat
         /\ \A i \in 1..Len(ledger) : AbstractLedger[i] = Seen(ledger[i])
<1>1. AbstractLedger = [i \in DOMAIN ledger |-> Seen(ledger[i])]
    BY DEF AbstractLedger, Seen
<1> QED
    BY <1>1, AbstractSeq

\* COMMIT appends the row of the call to what ApplyLedger sees.
LEMMA AbstractAppend ==
  ASSUME ledger \in Seq(Row), NEW r \in Row, ledger' = Append(ledger, r)
  PROVE  AbstractLedger' = Append(AbstractLedger, Seen(r))
<1> DEFINE n == Len(ledger)
           s == Append(AbstractLedger, Seen(r))
<1>1. /\ AbstractLedger \in Seq(AbstractRow) /\ Len(AbstractLedger) = n /\ n \in Nat
      /\ \A i \in 1..n : AbstractLedger[i] = Seen(ledger[i])
    BY AbstractIsSeq
<1>2. Seen(r) \in AbstractRow
    BY DEF Seen, Row, AbstractRow
<1>3. /\ s \in Seq(AbstractRow) /\ Len(s) = n + 1 /\ s[n + 1] = Seen(r)
      /\ \A i \in 1..n : s[i] = Seen(ledger[i])
    BY <1>1, <1>2, AppendProperties
<1>4. /\ ledger' \in Seq(Row) /\ Len(ledger') = n + 1 /\ ledger'[n + 1] = r
      /\ \A i \in 1..n : ledger'[i] = ledger[i]
    BY AppendProperties
<1>5. /\ AbstractLedger' \in Seq(AbstractRow) /\ Len(AbstractLedger') = n + 1
      /\ \A i \in 1..(n + 1) : AbstractLedger'[i] = Seen(ledger'[i])
  <2>1. AbstractLedger' = [i \in DOMAIN ledger' |-> Seen(ledger'[i])]
      BY DEF AbstractLedger, Seen
  <2> QED
      BY <1>4, <2>1, AbstractSeq
<1>6. \A i \in 1..(n + 1) : AbstractLedger'[i] = s[i]
  <2> SUFFICES ASSUME NEW i \in 1..(n + 1) PROVE AbstractLedger'[i] = s[i]
      OBVIOUS
  <2>1. CASE i = n + 1
      BY <1>3, <1>4, <1>5, <2>1
  <2>2. CASE i # n + 1
    <3>1. i \in 1..n
        BY <1>1, <2>2
    <3> QED
        BY <1>3, <1>4, <1>5, <3>1
  <2> QED
      BY <2>1, <2>2
<1> HIDE DEF s
<1>7. AbstractLedger' = s
    BY <1>3, <1>5, <1>6, SeqEqual
<1> QED
    BY <1>7 DEF s

\* A call is recorded in the one ledger when it is in the other.
LEMMA AbstractRecorded ==
  ASSUME ledger \in Seq(Row), NEW c PROVE Abstract!Recorded(c) <=> Recorded(c)
BY AbstractIsSeq DEF Abstract!Recorded, Recorded, Seen

\* The state the last row left is the marker.
LEMMA AbstractReached ==
  ASSUME ledger \in Seq(Row), ChainUnbroken PROVE Abstract!Reached = marker.hash
<1>1. CASE ledger = <<>>
  <2>1. AbstractLedger = <<>>
      BY <1>1, AbstractIsSeq, EmptySeq
  <2> QED
      BY <1>1, <2>1 DEF Abstract!Reached, ChainUnbroken
<1>2. CASE ledger # <<>>
  <2>1. Len(ledger) \in 1..Len(ledger)
      BY <1>2, LastElement, AbstractIsSeq
  <2>2. AbstractLedger # <<>>
      BY <2>1, AbstractIsSeq, EmptySeq
  <2>3. AbstractLedger[Len(AbstractLedger)].to = ledger[Len(ledger)].to
      BY <2>1, AbstractIsSeq DEF Seen
  <2> QED
      BY <1>2, <2>2, <2>3 DEF Abstract!Reached, ChainUnbroken
<1> QED
    BY <1>1, <1>2

\* An initial state of the runner is one of ApplyLedger.
LEMMA RefineInit == Init => Abstract!Init
<1> SUFFICES ASSUME Init PROVE Abstract!Init
    OBVIOUS
<1>1. PICK h \in Start :
        ledger = IF h = None THEN <<>> ELSE
            <<[id |-> Past, from |-> None, to |-> h, target |-> catalog,
               result |-> catalog, drift |-> FALSE, promotion |-> FALSE]>>
    BY DEF Init
<1>2. ledger \in Seq(Row)
    BY TypeInit DEF TypeOK
<1>3. AbstractAnswer = [c \in Calls |-> "pending"]
    BY DEF AbstractAnswer, Init
<1>4. CASE h = None
  <2>1. AbstractLedger = <<>>
      BY <1>1, <1>2, <1>4, AbstractIsSeq, EmptySeq
  <2> QED
      BY <1>3, <2>1 DEF Abstract!Init
<1>5. CASE h # None
  <2> DEFINE e == [id |-> Past, from |-> None, to |-> h]
  <2>1. h \in Hashes
      BY <1>5, ApplyAssumption
  <2>2. Len(ledger) = 1 /\ Seen(ledger[1]) = e
      BY <1>1, <1>5 DEF Seen
  <2>3. AbstractLedger \in Seq(AbstractRow) /\ Len(AbstractLedger) = 1 /\ AbstractLedger[1] = e
      BY <1>2, <2>2, AbstractIsSeq
  <2>4. <<e>> \in Seq(AbstractRow) /\ Len(<<e>>) = 1 /\ <<e>>[1] = e
      BY <2>1 DEF AbstractRow
  <2>5. AbstractLedger = <<e>>
      BY <2>3, <2>4, SeqEqual
  <2> QED
      BY <1>3, <2>1, <2>5 DEF Abstract!Init
<1> QED
    BY <1>4, <1>5

\* A COMMIT is the compare-and-append of ApplyLedger.
LEMMA RefineCommit ==
  ASSUME ApplyInv, NEW c \in Calls, ServerCommit(c)
  PROVE  Abstract!Commit(c)
<1>1. ledger \in Seq(Row) /\ ChainUnbroken /\ CallInv(c)
    BY DEF ApplyInv, TypeOK, RunnerInv
<1>2. /\ LedgerRow(c) \in Row /\ ledger' = Append(ledger, LedgerRow(c))
      /\ job[c].plan.to \in Hashes
    BY CommitHead DEF ApplyInv, Job, Plan
<1>3. Seen(LedgerRow(c)) = [id |-> c, from |-> marker.hash, to |-> job[c].plan.to]
    BY <1>1 DEF Seen, LedgerRow, CallInv, ServerCommit
<1>4. AbstractLedger' = Append(AbstractLedger,
         [id |-> c, from |-> Abstract!Reached, to |-> job[c].plan.to])
    BY <1>1, <1>2, <1>3, AbstractAppend, AbstractReached
<1>5. ~Abstract!Recorded(c)
    BY <1>1, AbstractRecorded DEF CallInv, ServerCommit
<1>6. AbstractAnswer' = AbstractAnswer /\ AbstractAnswer[c] \in {"pending", "unknown"}
    BY <1>1 DEF AbstractAnswer, ServerCommit, client, CallInv
<1> QED
    BY <1>2, <1>4, <1>5, <1>6 DEF Abstract!Commit

\* A call answers once.
Answers(c, st) == outcome[c] = "none" /\ outcome' = [outcome EXCEPT ![c] = st]

\* A step answers for one call, which has not answered before, or for none.
LEMMA OneAnswer ==
  ASSUME ApplyInv, [Next]_vars
  PROVE  outcome' = outcome \/ \E c \in Calls, st \in Outcomes : Answers(c, st)
<1>0. ASSUME NEW c \in Calls, pc[c] # "done" PROVE outcome[c] = "none"
    BY <1>0 DEF ApplyInv, RunnerInv, CallInv
<1>1. ASSUME NEW c \in Calls, NEW st \in Outcomes, Answer(c, st), pc[c] # "done"
      PROVE  \E d \in Calls, s \in Outcomes : Answers(d, s)
    BY <1>0, <1>1 DEF Answer, Answers
<1>2. ASSUME NEW c \in Calls, RunAttempt(c)
      PROVE  outcome' = outcome \/ \E d \in Calls, s \in Outcomes : Answers(d, s)
    BY <1>1, <1>2
    DEF RunAttempt, TryAdvisoryLock, CheckChain, CheckTarget, LockTables,
        CheckFingerprint, CheckCopyRows, RunSteps, Verify, SendCommit, EndRehearsal,
        CommitReply, Backoff, Proceed, StopAttempt, Outcomes
<1>3. ASSUME NEW c \in Calls, AfterLost(c)
      PROVE  outcome' = outcome \/ \E d \in Calls, s \in Outcomes : Answers(d, s)
    BY <1>1, <1>3
    DEF AfterLost, LookupLock, LookupFind, LookupTimeout, FindApply, Outcomes
<1>4. ASSUME NEW c \in Calls, Failure(c)
      PROVE  outcome' = outcome \/ \E d \in Calls, s \in Outcomes : Answers(d, s)
    BY <1>1, <1>4
    DEF Failure, TargetRefuses, StepFails, Throws, LockConflict, ConnectionLost,
        LookupLost, StopAttempt, Outcomes, Attached
<1>5. ASSUME NEW c \in Calls, Server(c) PROVE outcome' = outcome
    BY <1>5 DEF Server, ServerCommit, OrphanEnds, OrphanLookupEnds, client
<1>6. ASSUME NEW c \in Calls, NEW s \in Stems, NEW m \in {"apply", "rehearse"},
             NEW a \in BOOLEAN, ExecutePlan(c, s, m, a)
      PROVE  outcome' = outcome \/ \E d \in Calls, st \in Outcomes : Answers(d, st)
    BY <1>0, <1>6 DEF ExecutePlan, Answers, Outcomes
<1> QED
    BY <1>2, <1>3, <1>4, <1>5, <1>6
    DEF Next, PlanReadState, PlanReadHead, PlanWitness, ForeignDdl, ForeignInsert,
        RehearseOnCopy, client, vars

\* An answer that leaves the ledger alone is an answer of ApplyLedger: its truth is
\* OutcomeTruth after the step.
LEMMA RefineAnswer ==
  ASSUME ApplyInv, ApplyInv', ledger' = ledger, NEW c \in Calls, NEW st \in Outcomes,
         Answers(c, st)
  PROVE  Abstract!Answer(c) \/ UNCHANGED <<AbstractLedger, AbstractAnswer>>
<1>1. AbstractLedger' = AbstractLedger
    BY DEF AbstractLedger
<1>2. CASE st = "none"
    BY <1>1, <1>2 DEF AbstractAnswer, Answers, ApplyInv, TypeOK
<1>3. CASE st # "none"
  <2> DEFINE a == IF st \in {"committed", "unknown"} THEN st ELSE "notApplied"
  <2>1. outcome \in [Calls -> Outcomes] /\ outcome'[c] = st /\ Recorded(c)' = Recorded(c)
      BY DEF ApplyInv, TypeOK, Answers, Recorded
  <2>2. AbstractAnswer[c] = "pending"
      BY DEF AbstractAnswer, Answers
  <2>3. AbstractAnswer' = [AbstractAnswer EXCEPT ![c] = a]
      BY <1>3, <2>1 DEF AbstractAnswer, Answers
  <2>4. /\ st = "committed" => Recorded(c)
        /\ st \notin {"committed", "unknown"} => ~Recorded(c)
      BY <1>3, <2>1 DEF ApplyInv, RunnerInv, OutcomeTruth, Outcomes
  <2>5. a \in {IF Abstract!Recorded(c) THEN "committed" ELSE "notApplied", "unknown"}
      BY <1>3, <2>4, AbstractRecorded DEF ApplyInv, TypeOK
  <2> QED
      BY <1>1, <2>2, <2>3, <2>5 DEF Abstract!Answer
<1> QED
    BY <1>2, <1>3

\* Attempts, retries, lost connections, orphaned backends and lookups implement the
\* atomic compare-and-append with a truthful answer: every COMMIT is one, whoever
\* still listens, and every other step answers or is not seen.
THEOREM Refines == Spec => RefinesApplyLedger
<1>1. ApplyInv /\ ApplyInv' /\ [Next]_vars
        => [Abstract!Next]_<<AbstractLedger, AbstractAnswer>>
  <2> SUFFICES ASSUME ApplyInv, ApplyInv', [Next]_vars
               PROVE  [Abstract!Next]_<<AbstractLedger, AbstractAnswer>>
      OBVIOUS
  <2>1. CASE ledger' # ledger
      BY <2>1, LedgerMoves, RefineCommit DEF Abstract!Next
  <2>2. CASE ledger' = ledger /\ outcome' = outcome
      BY <2>2 DEF AbstractLedger, AbstractAnswer
  <2>3. CASE ledger' = ledger /\ outcome' # outcome
      BY <2>3, OneAnswer, RefineAnswer DEF Abstract!Next
  <2> QED
      BY <2>1, <2>2, <2>3
<1> QED
    BY <1>1, RefineInit, PlanInvariant, PTL DEF Spec, RefinesApplyLedger, Abstract!Spec
=============================================================================
