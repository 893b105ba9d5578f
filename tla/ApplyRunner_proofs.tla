-------------------------- MODULE ApplyRunner_proofs --------------------------
(***************************************************************************)
(* Theorems about ApplyRunner for every set of calls, planners, tables and  *)
(* hashes and every bound.                                                  *)
(***************************************************************************)
EXTENDS ApplyRunner, TLAPS, SequenceTheorems

-----------------------------------------------------------------------------
(* Types *)

\* The footprint of a plan is a set of tables.
LEMMA FootprintType ==
  ASSUME NEW p PROVE Footprint(p) \in SUBSET Tables
BY DEF Footprint

\* The catalog an attempt's COMMIT leaves is a catalog.
LEMMA AppliedType ==
  ASSUME TypeOK, NEW c \in Calls, job[c] \in Job
  PROVE  Applied(c) \in Catalogs
BY ApplyAssumption DEF TypeOK, Applied, Job, Plan, Catalogs

\* The last element of a non-empty sequence.
LEMMA LastElement ==
  ASSUME NEW S, NEW s \in Seq(S), s # <<>>
  PROVE  Len(s) \in DOMAIN s /\ s[Len(s)] \in S
BY EmptySeq, LenProperties, ElementOfSeq

\* readLedgerHead answers an applyId or null.
LEMMA LedgerHeadType ==
  ASSUME TypeOK PROVE LedgerHead \in Calls \cup {Past, None}
<1>1. CASE ledger = <<>>
    BY <1>1 DEF LedgerHead
<1>2. CASE ledger # <<>>
  <2>1. ledger[Len(ledger)] \in Row
      BY <1>2, LastElement DEF TypeOK
  <2> QED
      BY <2>1, <1>2 DEF LedgerHead, Row
<1> QED
    BY <1>1, <1>2

\* Phases that change nothing but pc keep the types.
LEMMA ProceedType ==
  ASSUME TypeOK, NEW c \in Calls, job[c] \in Job, NEW ph \in Attached,
         Proceed(c, ph)
  PROVE  TypeOK'
BY DEF TypeOK, Proceed, Goto, target, files, session, Attached

\* The end of a backend keeps the types of the session state.
LEMMA EndBackendType ==
  ASSUME TypeOK, NEW c \in Calls, EndBackend(c)
  PROVE  /\ backend' \in [Calls -> {"none", "open", "commit"}]
         /\ locked' \in [Calls -> SUBSET Tables]
         /\ advisory' \in Holders \cup {None}
         /\ \A d \in Calls : backend'[d] # "none" => backend[d] # "none"
BY DEF TypeOK, EndBackend

\* An answer, with the session ended or left to the server, keeps the types.
LEMMA AnswerType ==
  ASSUME TypeOK, NEW c \in Calls, NEW st \in Outcomes, Answer(c, st),
         EndBackend(c) \/ UNCHANGED session,
         UNCHANGED <<target, plans, planner>>,
         reports' \in [Stems -> Report \cup {None}]
  PROVE  TypeOK'
<1>1. /\ backend' \in [Calls -> {"none", "open", "commit"}]
      /\ locked' \in [Calls -> SUBSET Tables]
      /\ advisory' \in Holders \cup {None}
      /\ \A d \in Calls : backend'[d] # "none" => backend[d] # "none"
    BY EndBackendType DEF session, TypeOK
<1> QED
    BY <1>1 DEF TypeOK, Answer, Goto, target

\* A sequence of one element.
LEMMA SingletonSeq ==
  ASSUME NEW S, NEW e \in S PROVE <<e>> \in Seq(S)
OBVIOUS

\* Recording one fingerprint of an attempt keeps the types of the other.
LEMMA ReadType ==
  ASSUME TypeOK, NEW c \in Calls, NEW f \in Catalogs
  PROVE  /\ [read EXCEPT ![c].target = f]
              \in [Calls -> [target: Catalogs, result: Catalogs]]
         /\ [read EXCEPT ![c].result = f]
              \in [Calls -> [target: Catalogs, result: Catalogs]]
<1> DEFINE R == [target: Catalogs, result: Catalogs]
<1>1. read \in [Calls -> R] /\ read[c] \in R
    BY DEF TypeOK
<1>2. [read[c] EXCEPT !.target = f] \in R /\ [read[c] EXCEPT !.result = f] \in R
    BY <1>1
<1> QED
    BY <1>1, <1>2

\* The initial state, a fresh target or one an earlier apply left, has the types.
LEMMA TypeInit == Init => TypeOK
<1> SUFFICES ASSUME Init PROVE TypeOK
    OBVIOUS
<1> PICK h \in Start :
       /\ catalog \in IF h = None THEN Catalogs ELSE {Desired[h]}
       /\ marker = [hash |-> h, fp |-> catalog]
       /\ ledger = IF h = None THEN <<>> ELSE
            <<[id |-> Past, from |-> None, to |-> h, target |-> catalog,
               result |-> catalog, drift |-> FALSE, promotion |-> FALSE]>>
    BY DEF Init
<1>1. h \in Hashes \cup {None} /\ catalog \in Catalogs
    BY ApplyAssumption
<1>2. ledger \in Seq(Row)
  <2>1. CASE h = None
      BY <2>1
  <2>2. CASE h # None
    <3> DEFINE r == [id |-> Past, from |-> None, to |-> h, target |-> catalog,
                     result |-> catalog, drift |-> FALSE, promotion |-> FALSE]
    <3>1. r \in Row
        BY <1>1, <2>2 DEF Row
    <3>2. ledger = <<r>>
        BY <2>2
    <3> HIDE DEF r
    <3> QED
        BY <3>1, <3>2, SingletonSeq
  <2> QED
      BY <2>1, <2>2
<1> QED
    BY <1>1, <1>2, ApplyAssumption DEF Init, TypeOK, Holders, Outcomes, Attached

\* Every step keeps the types: one case per action of Next.
LEMMA TypeStep == TypeOK /\ [Next]_vars => TypeOK'
<1> SUFFICES ASSUME TypeOK, [Next]_vars PROVE TypeOK'
    OBVIOUS
<1> USE ApplyAssumption
<1>1. ASSUME NEW p \in Planners, PlanReadState(p) PROVE TypeOK'
    BY <1>1 DEF TypeOK, PlanReadState, target, files, session, client
<1>2. ASSUME NEW p \in Planners, PlanReadHead(p) PROVE TypeOK'
  <2> DEFINE PS == [pc: {"state", "head", "witness", "done"},
                    from: Hashes \cup {None}, fp: Catalogs,
                    head: Calls \cup {Past, None}]
  <2>1. planner \in [Planners -> PS] /\ planner[p] \in PS
      BY DEF TypeOK
  <2>2. [planner[p] EXCEPT !.pc = "witness", !.head = LedgerHead] \in PS
      BY <2>1, LedgerHeadType
  <2>3. planner' = [planner EXCEPT ![p] =
                      [planner[p] EXCEPT !.pc = "witness", !.head = LedgerHead]]
      BY <1>2, <2>1 DEF PlanReadHead
  <2>4. planner' \in [Planners -> PS]
      BY <2>1, <2>2, <2>3
  <2> QED
      BY <1>2, <2>4 DEF TypeOK, PlanReadHead, target, files, session, client
<1>3. ASSUME NEW p \in Planners, NEW h \in Hashes, PlanWitness(p, h)
      PROVE  TypeOK'
  <2> DEFINE q == planner[p]
             plan == [from |-> q.from, to |-> h, head |-> q.head,
                      target |-> catalog,
                      drift |-> DriftGate(q.from, q.fp, catalog),
                      promotion |-> <<q.from, h>> \in Promotions]
  <2>1. plan \in Plan /\ Stem(plan) \in Stems
      BY DEF TypeOK, Plan, DriftGate, Stem, Stems
  <2>2. plans' \in [Stems -> Plan \cup {None}]
      BY <1>3, <2>1 DEF PlanWitness, TypeOK
  <2> DEFINE PS == [pc: {"state", "head", "witness", "done"},
                    from: Hashes \cup {None}, fp: Catalogs,
                    head: Calls \cup {Past, None}]
  <2>3. planner \in [Planners -> PS] /\ planner[p] \in PS
      BY DEF TypeOK
  <2>4. planner' \in [Planners -> PS]
      BY <1>3, <2>3 DEF PlanWitness
  <2> QED
      BY <1>3, <2>2, <2>4 DEF TypeOK, PlanWitness, target, session, client
<1>4. ASSUME NEW c \in Calls, NEW s \in Stems, NEW m \in {"apply", "rehearse"},
             NEW a \in BOOLEAN, ExecutePlan(c, s, m, a)
      PROVE  TypeOK'
  <2>1. [plan |-> plans[s], mode |-> m, report |-> reports[s]] \in Job
      BY <1>4 DEF ExecutePlan, TypeOK, Job
  <2>2. /\ job' \in [Calls -> Job \cup {None}]
        /\ \A d \in Calls : job'[d] \in Job \/ job'[d] = job[d]
        /\ job'[c] \in Job
      BY <1>4, <2>1 DEF ExecutePlan, TypeOK
  <2>3. /\ pc' \in [Calls -> Attached \cup {"idle", "backoff", "lookup", "find",
                                            "done"}]
        /\ pc'[c] \in {"begin", "done"}
        /\ \A d \in Calls : d # c => pc'[d] = pc[d]
      BY <1>4, ZenonT(60) DEF ExecutePlan, TypeOK, Goto, Attached
  <2>4. /\ outcome' \in [Calls -> Outcomes]
        /\ attempt' \in [Calls -> 0..MaxAttempts]
        /\ \A d \in Calls : d # c => attempt'[d] = attempt[d]
    <3>1. 1 \in 0..MaxAttempts /\ "refused" \in Outcomes
        BY DEF Outcomes
    <3>2. \/ UNCHANGED attempt /\ outcome' = [outcome EXCEPT ![c] = "refused"]
          \/ attempt' = [attempt EXCEPT ![c] = 1] /\ UNCHANGED outcome
        BY <1>4 DEF ExecutePlan
    <3>3. outcome' \in [Calls -> Outcomes]
        BY <3>1, <3>2 DEF TypeOK
    <3>4. attempt \in [Calls -> 0..MaxAttempts]
        BY DEF TypeOK
    <3> QED
        BY <3>1, <3>2, <3>3, <3>4
  <2> QED
      BY <1>4, <2>2, <2>3, <2>4 DEF TypeOK, ExecutePlan, target, files, session
<1>5. ASSUME NEW c \in Calls, RunAttempt(c) PROVE TypeOK'
  <2>1. CASE TryAdvisoryLock(c)
    <3>1. CASE advisory = None
      <4>1. advisory' \in Holders \cup {None}
          BY <2>1, <3>1 DEF TryAdvisoryLock, Attempt, Holders
      <4> QED
          BY <2>1, <3>1, <4>1, ZenonT(60)
          DEF TypeOK, TryAdvisoryLock, Goto, target, files, Attached
    <3>2. CASE advisory # None
        BY <2>1, <3>2, AnswerType
        DEF TryAdvisoryLock, Outcomes, TypeOK, files
    <3> QED
        BY <3>1, <3>2
  <2>2. CASE CheckChain(c)
      BY <2>2, ProceedType, AnswerType
      DEF CheckChain, StopAttempt, Attached, Outcomes, TypeOK, files
  <2>3. CASE CheckTarget(c)
      BY <2>3, ProceedType, AnswerType
      DEF CheckTarget, StopAttempt, Attached, Outcomes, TypeOK, files
  <2>4. CASE LockTables(c)
      BY <2>4, FootprintType
      DEF TypeOK, LockTables, Goto, target, files, Attached
  <2>5. CASE CheckFingerprint(c)
    <3>1. CASE catalog = job[c].plan.target
      <4>1. read' \in [Calls -> [target: Catalogs, result: Catalogs]]
        <5>1. catalog \in Catalogs
            BY DEF TypeOK
        <5>2. read' = [read EXCEPT ![c].target = catalog]
            BY <2>5, <3>1 DEF CheckFingerprint
        <5> QED
            BY <5>1, <5>2, ReadType
      <4> QED
          BY <2>5, <3>1, <4>1, ZenonT(60)
          DEF TypeOK, CheckFingerprint, Goto, target, files, session, Attached
    <3>2. CASE catalog # job[c].plan.target
        BY <2>5, <3>2, AnswerType
        DEF CheckFingerprint, StopAttempt, Outcomes, TypeOK, files
    <3> QED
        BY <3>1, <3>2
  <2>6. CASE CheckCopyRows(c)
      BY <2>6, ProceedType, AnswerType
      DEF CheckCopyRows, StopAttempt, Attached, Outcomes, TypeOK, files
  <2>7. CASE RunSteps(c)
      BY <2>7, ProceedType DEF RunSteps, Attached, TypeOK
  <2>8. CASE Verify(c)
    <3>1. job[c] \in Job
        BY <2>8 DEF Verify, TypeOK
    <3>2. CASE Applied(c) = Desired[job[c].plan.to]
      <4>1. read' \in [Calls -> [target: Catalogs, result: Catalogs]]
        <5>1. Applied(c) \in Catalogs
            BY <3>1, AppliedType
        <5>2. read' = [read EXCEPT ![c].result = Applied(c)]
            BY <2>8, <3>2 DEF Verify
        <5> QED
            BY <5>1, <5>2, ReadType
      <4> QED
          BY <2>8, <3>2, <4>1, ZenonT(60)
          DEF TypeOK, Verify, Goto, target, files, session, Attached
    <3>3. CASE Applied(c) # Desired[job[c].plan.to]
        BY <2>8, <3>3, AnswerType
        DEF Verify, StopAttempt, Outcomes, TypeOK, files
    <3> QED
        BY <3>2, <3>3
  <2>9. CASE SendCommit(c)
      BY <2>9 DEF TypeOK, SendCommit, Goto, target, files, Attached
  <2>10. CASE EndRehearsal(c)
    <3>1. job[c] \in Job
        BY <2>10 DEF EndRehearsal, TypeOK
    <3>2. reports' \in [Stems -> Report \cup {None}]
        BY <2>10, <3>1 DEF EndRehearsal, TypeOK, Job, Report
    <3> QED
        BY <2>10, <3>2, AnswerType DEF EndRehearsal, Outcomes
  <2>11. CASE CommitReply(c)
      BY <2>11, AnswerType DEF CommitReply, Outcomes, TypeOK, files
  <2>12. CASE Backoff(c)
      BY <2>12 DEF TypeOK, Backoff, Goto, target, files, session, Attached
  <2> QED
      BY <1>5, <2>1, <2>2, <2>3, <2>4, <2>5, <2>6, <2>7, <2>8, <2>9, <2>10,
         <2>11, <2>12 DEF RunAttempt
<1>6. ASSUME NEW c \in Calls, AfterLost(c) PROVE TypeOK'
  <2>1. CASE LookupLock(c)
    <3>1. advisory' \in Holders \cup {None}
        BY <2>1 DEF LookupLock, Lookup, Holders
    <3> QED
        BY <2>1, <3>1 DEF TypeOK, LookupLock, Goto, target, files, Attached
  <2>2. CASE LookupFind(c)
      BY <2>2 DEF TypeOK, LookupFind, FindApply, Answer, Goto, target, files,
                  Outcomes
  <2>3. CASE LookupTimeout(c)
      BY <2>3, AnswerType DEF LookupTimeout, Outcomes, TypeOK, files
  <2> QED
      BY <1>6, <2>1, <2>2, <2>3 DEF AfterLost
<1>7. ASSUME NEW c \in Calls, Failure(c) PROVE TypeOK'
  <2>0. CASE TargetRefuses(c)
      BY <2>0, AnswerType
      DEF TargetRefuses, StopAttempt, Outcomes, TypeOK, files
  <2>1. CASE StepFails(c)
      BY <2>1, AnswerType DEF StepFails, StopAttempt, Outcomes, TypeOK, files
  <2>2. CASE Throws(c)
      BY <2>2, AnswerType DEF Throws, Outcomes, TypeOK, files
  <2>3. CASE LockConflict(c)
    <3>1. CASE attempt[c] >= MaxAttempts
        BY <2>3, <3>1, AnswerType DEF LockConflict, Outcomes, TypeOK, files
    <3>2. CASE ~(attempt[c] >= MaxAttempts)
      <4>1. attempt[c] < MaxAttempts /\ job[c] \in Job
        <5>1. attempt[c] \in 0..MaxAttempts /\ job[c] \in Job
            BY <2>3 DEF LockConflict, TypeOK
        <5> QED
            BY <3>2, <5>1
      <4> QED
          BY <2>3, <3>2, <4>1, EndBackendType, ZenonT(60)
          DEF LockConflict, TypeOK, Goto, target, files
    <3> QED
        BY <3>1, <3>2
  <2>4. CASE ConnectionLost(c)
    <3>1. CASE job[c].mode = "rehearse"
        BY <2>4, <3>1, AnswerType DEF ConnectionLost, Outcomes, TypeOK, files
    <3>2. CASE job[c].mode # "rehearse"
        BY <2>4, <3>2, ZenonT(60)
        DEF ConnectionLost, TypeOK, Goto, target, files, session, Attached
    <3> QED
        BY <3>1, <3>2
  <2>5. CASE LookupLost(c)
      BY <2>5, AnswerType DEF LookupLost, Outcomes, TypeOK, files
  <2> QED
      BY <1>7, <2>0, <2>1, <2>2, <2>3, <2>4, <2>5 DEF Failure
<1>8. ASSUME NEW c \in Calls, Server(c) PROVE TypeOK'
  <2>1. CASE ServerCommit(c)
    <3>1. job[c] \in Job
        BY <2>1 DEF ServerCommit, TypeOK
    <3>2. LedgerRow(c) \in Row
        BY <3>1 DEF LedgerRow, Row, Job, Plan, TypeOK
    <3>3. ledger' \in Seq(Row)
        BY <2>1, <3>2 DEF ServerCommit, TypeOK
    <3>4. marker' \in [hash: Hashes \cup {None}, fp: Catalogs]
        BY <2>1, <3>1 DEF ServerCommit, TypeOK, Job, Plan
    <3>5. catalog' \in Catalogs
        BY <2>1, <3>1, AppliedType DEF ServerCommit
    <3> QED
        BY <2>1, <3>3, <3>4, <3>5, EndBackendType
        DEF ServerCommit, TypeOK, files, client
  <2>2. CASE OrphanEnds(c)
      BY <2>2, EndBackendType DEF OrphanEnds, TypeOK, target, files, client
  <2>3. CASE OrphanLookupEnds(c)
      BY <2>3 DEF OrphanLookupEnds, TypeOK, target, files, client
  <2> QED
      BY <1>8, <2>1, <2>2, <2>3 DEF Server
<1>9. ASSUME NEW t \in Tables, NEW v \in Versions, ForeignDdl(t, v) PROVE TypeOK'
    BY <1>9 DEF ForeignDdl, TypeOK, Catalogs, files, session, client
<1>10. ASSUME NEW t \in Tables, ForeignInsert(t) PROVE TypeOK'
    BY <1>10 DEF ForeignInsert, TypeOK, files, session, client
<1>11. ASSUME NEW s \in Stems, NEW f \in Copies, RehearseOnCopy(s, f)
       PROVE TypeOK'
  <2>1. plans[s] \in Plan
      BY <1>11 DEF RehearseOnCopy, TypeOK
  <2>2. reports' \in [Stems -> Report \cup {None}]
      BY <1>11, <2>1, FootprintType, ApplyAssumption DEF RehearseOnCopy, TypeOK, Report
  <2> QED
      BY <1>11, <2>2 DEF RehearseOnCopy, TypeOK, target, session, client
<1>12. CASE UNCHANGED vars
    BY <1>12 DEF vars, target, files, session, client, TypeOK
<1> QED
    BY <1>1, <1>2, <1>3, <1>4, <1>5, <1>6, <1>7, <1>8, <1>9, <1>10, <1>11,
       <1>12 DEF Next

\* The state has its types in every reachable state: no phase, retry, lost
\* connection or lookup leaves the marker, the ledger, a file or a call in a
\* shape the next one does not expect (executePlan, buildPlan).
THEOREM TypeCorrect == Spec => []TypeOK
BY TypeInit, TypeStep, PTL DEF Spec

-----------------------------------------------------------------------------
(* The chain and the truth of answers *)

\* The holder None is no session, and sessions of different calls, or of
\* different kinds, differ.
LEMMA HoldersDiffer ==
  ASSUME NEW c \in Calls, NEW d \in Calls
  PROVE  /\ Attempt(c) # None /\ Lookup(c) # None /\ Attempt(c) # Lookup(d)
         /\ c # d => Attempt(c) # Attempt(d) /\ Lookup(c) # Lookup(d)
BY ApplyAssumption DEF Attempt, Lookup

\* What a step of the call c must leave alone so that the invariant of another
\* call d survives it: d's own state, the ledger and any lock of d's.
Untouched(c, d) ==
  /\ pc'[d] = pc[d] /\ backend'[d] = backend[d] /\ job'[d] = job[d]
  /\ outcome'[d] = outcome[d]
  /\ advisory' = advisory \/ advisory \in {None, Attempt(c), Lookup(c)}

\* A step of c leaves the invariant of every other call alone.
LEMMA OthersKeep ==
  ASSUME NEW c \in Calls, NEW d \in Calls, c # d, CallInv(d), Untouched(c, d),
         UNCHANGED <<ledger, marker>>
  PROVE  CallInv(d)'
<1>1. advisory = Attempt(d) \/ advisory = Lookup(d) => advisory' = advisory
    BY HoldersDiffer DEF Untouched
<1>2. Recorded(d)' <=> Recorded(d)
    BY DEF Recorded
<1>3. Attempt(d)' = Attempt(d) /\ Lookup(d)' = Lookup(d)
    BY DEF Attempt, Lookup
<1> QED
    BY <1>1, <1>2, <1>3 DEF CallInv, Untouched

\* The frame of a step that writes the state of the call c only.
Frame(c) ==
  /\ UNCHANGED <<ledger, marker>>
  /\ \A d \in Calls : c # d => Untouched(c, d)

\* So for such a step only c's own invariant and answer are left to show.
LEMMA FrameKeeps ==
  ASSUME RunnerInv, NEW c \in Calls, Frame(c), CallInv(c)',
         outcome'[c] = "committed" => Recorded(c),
         outcome'[c] \in {"refused", "failed", "thrown", "rolledBack",
                         "notApplied"} => ~Recorded(c)
  PROVE  RunnerInv'
<1>1. \A d \in Calls : CallInv(d)'
    BY OthersKeep DEF Frame, RunnerInv
<1>2. \A d \in Calls : Recorded(d)' <=> Recorded(d)
    BY DEF Recorded, Frame
<1>3. ChainUnbroken'
    BY DEF ChainUnbroken, RunnerInv, Frame
<1>4. OutcomeTruth'
  <2> SUFFICES ASSUME NEW d \in Calls
               PROVE  /\ outcome'[d] = "committed" => Recorded(d)'
                      /\ outcome'[d] \in {"refused", "failed", "thrown",
                              "rolledBack", "notApplied"} => ~Recorded(d)'
                      /\ Recorded(d)' => job'[d].mode = "apply"
      BY DEF OutcomeTruth
  <2>1. CASE d = c
      BY <2>1, <1>1, <1>2 DEF CallInv
  <2>2. CASE d # c
      BY <2>2, <1>1, <1>2 DEF Frame, Untouched, RunnerInv, OutcomeTruth, CallInv
  <2> QED
      BY <2>1, <2>2
<1> QED
    BY <1>1, <1>3, <1>4 DEF RunnerInv

\* A phase that moves pc on within the attempt, with the marker still the one
\* the plan starts from.
LEMMA MovedKeeps ==
  ASSUME TypeOK, RunnerInv, NEW c \in Calls, NEW ph, Goto(c, ph),
         UNCHANGED <<ledger, marker, backend, advisory, job, outcome>>,
         pc[c] \in Attached \ {"begin", "reply"},
         ph \in Attached \ {"begin", "chain", "reply"},
         marker.hash = job[c].plan.from
  PROVE  RunnerInv'
<1>1. Frame(c)
    BY DEF Goto, Frame, Untouched, TypeOK
<1>2. /\ Recorded(c)' <=> Recorded(c)
      /\ Attempt(c)' = Attempt(c) /\ Lookup(c)' = Lookup(c)
    BY <1>1 DEF Recorded, Frame, Attempt, Lookup
<1>3. CallInv(c)'
    BY <1>2 DEF Goto, RunnerInv, CallInv, TypeOK, Attached
<1> QED
    BY <1>1, <1>3, FrameKeeps DEF RunnerInv, OutcomeTruth

\* The same for the phases that are nothing but a check.
LEMMA ProceedKeeps ==
  ASSUME TypeOK, RunnerInv, NEW c \in Calls, NEW ph, Proceed(c, ph),
         pc[c] \in Attached \ {"begin", "reply"},
         ph \in Attached \ {"begin", "chain", "reply"},
         marker.hash = job[c].plan.from
  PROVE  RunnerInv'
BY MovedKeeps DEF Proceed, session, target

\* An answer: a definite one needs a backend that cannot commit any more.
LEMMA AnswerKeeps ==
  ASSUME TypeOK, RunnerInv, NEW c \in Calls, NEW st, Answer(c, st),
         EndBackend(c) \/ UNCHANGED session,
         UNCHANGED <<ledger, marker>>,
         st # "none",
         st = "committed" => Recorded(c),
         st # "committed" /\ st # "unknown" => /\ ~Recorded(c)
                                              /\ backend'[c] # "commit",
         st = "committed" => backend'[c] # "commit"
  PROVE  RunnerInv'
<1>1. Frame(c)
    BY DEF Answer, Goto, EndBackend, Frame, Untouched, session, TypeOK
<1>2. /\ Recorded(c)' <=> Recorded(c)
      /\ Attempt(c)' = Attempt(c) /\ Lookup(c)' = Lookup(c)
    BY <1>1 DEF Recorded, Frame, Attempt, Lookup
<1>3. /\ pc'[c] = "done" /\ outcome'[c] = st /\ job' = job
      /\ \/ backend'[c] = "none"
         \/ backend'[c] = backend[c] /\ advisory' = advisory
  <2>1. pc'[c] = "done" /\ outcome'[c] = st /\ job' = job
      BY DEF Answer, Goto, TypeOK
  <2>2. CASE EndBackend(c)
    <3>1. backend \in [Calls -> {"none", "open", "commit"}]
        BY DEF TypeOK
    <3>2. backend'[c] = "none"
        BY <2>2, <3>1 DEF EndBackend
    <3> QED
        BY <2>1, <3>2
  <2>3. CASE UNCHANGED session
      BY <2>1, <2>3 DEF session
  <2> QED
      BY <2>2, <2>3
<1>4. CallInv(c)'
    BY <1>2, <1>3 DEF RunnerInv, CallInv, Attached
<1> QED
    BY <1>1, <1>3, <1>4, FrameKeeps

\* AttemptStop during an attempt: nothing of this call is in the ledger.
LEMMA StopKeeps ==
  ASSUME TypeOK, RunnerInv, NEW c \in Calls, NEW st \in {"refused", "failed"},
         StopAttempt(c, st), pc[c] \in Attached \ {"begin", "reply"}
  PROVE  RunnerInv'
<1>1. ~Recorded(c) /\ backend[c] = "open"
    BY DEF RunnerInv, CallInv, Attached
<1>2. backend'[c] # "commit"
    BY <1>1 DEF StopAttempt, EndBackend, session, TypeOK
<1> QED
    BY <1>1, <1>2, AnswerKeeps DEF StopAttempt, target

\* COMMIT: the row extends the chain, and no other call has a backend.
LEMMA CommitKeeps ==
  ASSUME TypeOK, RunnerInv, NEW c \in Calls, ServerCommit(c)
  PROVE  RunnerInv'
<1> DEFINE n == Len(ledger)
<1>1. /\ backend[c] = "commit" /\ advisory = Attempt(c) /\ job[c].mode = "apply"
      /\ marker.hash = job[c].plan.from /\ ~Recorded(c)
      /\ pc[c] \in {"reply", "lookup", "done"}
      /\ outcome[c] \in {"none", "unknown"}
    BY DEF ServerCommit, RunnerInv, CallInv
<1>2. /\ backend' = [backend EXCEPT ![c] = "none"] /\ backend'[c] = "none"
      /\ pc' = pc /\ job' = job /\ outcome' = outcome
    BY DEF ServerCommit, EndBackend, client, TypeOK
<1>3. /\ ledger \in Seq(Row) /\ n \in Nat /\ DOMAIN ledger = 1..n
      /\ ledger' = Append(ledger, LedgerRow(c))
      /\ LedgerRow(c).id = c /\ LedgerRow(c).from = job[c].plan.from
      /\ LedgerRow(c).to = job[c].plan.to
      /\ LedgerRow(c).result = read[c].result
    BY LenProperties DEF TypeOK, ServerCommit, LedgerRow
<1>4. /\ DOMAIN ledger' = 1..(n + 1) /\ Len(ledger') = n + 1
      /\ ledger'[n + 1] = LedgerRow(c)
      /\ \A i \in 1..n : ledger'[i] = ledger[i]
      /\ ledger' # <<>>
  <2>1. LedgerRow(c) \in Row
      BY <1>1 DEF LedgerRow, Row, Job, Plan, TypeOK
  <2> QED
      BY <1>3, <2>1, AppendProperties, LenProperties
<1>5. \A d \in Calls : Recorded(d)' <=> Recorded(d) \/ d = c
    BY <1>3, <1>4 DEF Recorded
<1>6. \A d \in Calls : d # c => backend[d] = "none" /\ pc[d] # "find"
    BY <1>1, HoldersDiffer DEF RunnerInv, CallInv, TypeOK
<1>7. \A d \in Calls : CallInv(d)'
  <2>1. CallInv(c)'
      BY <1>1, <1>2, <1>5 DEF RunnerInv, CallInv, Attached
  <2>2. ASSUME NEW d \in Calls, d # c PROVE CallInv(d)'
    <3>1. backend'[d] = "none" /\ backend[d] = "none"
        BY <1>2, <1>6, <2>2 DEF TypeOK
    <3>2. Recorded(d)' <=> Recorded(d)
        BY <1>5, <2>2
    <3> QED
        BY <1>2, <1>6, <2>2, <3>1, <3>2 DEF RunnerInv, CallInv, Attached
  <2> QED
      BY <2>1, <2>2
<1>8. OutcomeTruth'
    BY <1>1, <1>2, <1>5 DEF RunnerInv, OutcomeTruth
<1>9. ChainUnbroken'
  <2>1. job[c].plan.from = IF n = 0 THEN None ELSE ledger[n].to
    <3>1. n = 0 <=> ledger = <<>>
        BY <1>3, EmptySeq
    <3> QED
        BY <1>1, <3>1 DEF RunnerInv, ChainUnbroken
  <2>2. \A i \in 1..n : ledger[i].from = IF i = 1 THEN None ELSE ledger[i - 1].to
      BY <1>3 DEF RunnerInv, ChainUnbroken
  <2>3. \A i \in 1..(n + 1) :
          ledger'[i].from = IF i = 1 THEN None ELSE ledger'[i - 1].to
    <3> SUFFICES ASSUME NEW i \in 1..(n + 1)
                 PROVE  ledger'[i].from =
                          IF i = 1 THEN None ELSE ledger'[i - 1].to
        OBVIOUS
    <3>1. CASE i = n + 1
      <4>1. n # 0 => i - 1 \in 1..n /\ i - 1 = n /\ i # 1
          BY <1>3, <3>1
      <4> QED
        <5>1. ledger'[i].from = job[c].plan.from
            BY <1>3, <1>4, <3>1
        <5>2. n # 0 => ledger'[i - 1] = ledger[n]
            BY <1>4, <4>1
        <5>3. n = 0 <=> i = 1
            BY <1>3, <3>1
        <5> QED
            BY <2>1, <5>1, <5>2, <5>3
    <3>2. CASE i # n + 1
      <4>1. i \in 1..n /\ (i # 1 => i - 1 \in 1..n)
          BY <1>3, <3>2
      <4> QED
          BY <1>4, <2>2, <4>1
    <3> QED
        BY <3>1, <3>2
  <2>4. marker'.hash = LedgerRow(c).to /\ marker'.fp = LedgerRow(c).result
      BY <1>3 DEF ServerCommit
  <2> QED
      BY <1>4, <2>3, <2>4 DEF ChainUnbroken
<1> QED
    BY <1>7, <1>8, <1>9 DEF RunnerInv

\* Initially nothing has run: no backend, no answer and a chain of at most one row.
LEMMA InvInit == Init => RunnerInv
<1> SUFFICES ASSUME Init PROVE RunnerInv
    OBVIOUS
<1>1. PICK h \in Start :
       /\ marker = [hash |-> h, fp |-> catalog]
       /\ ledger = IF h = None THEN <<>> ELSE
            <<[id |-> Past, from |-> None, to |-> h, target |-> catalog,
               result |-> catalog, drift |-> FALSE, promotion |-> FALSE]>>
    BY DEF Init
<1>2. ChainUnbroken
    BY <1>1 DEF ChainUnbroken
<1>3. \A c \in Calls : ~Recorded(c)
    BY <1>1, ApplyAssumption DEF Recorded
<1> QED
    BY <1>2, <1>3 DEF Init, RunnerInv, OutcomeTruth, CallInv, Attached

\* Every step keeps the inductive invariant: one case per action of Next.
LEMMA InvStep == TypeOK /\ RunnerInv /\ [Next]_vars => RunnerInv'
<1> SUFFICES ASSUME TypeOK, RunnerInv, [Next]_vars PROVE RunnerInv'
    OBVIOUS
<1>1. ASSUME UNCHANGED <<ledger, marker, backend, advisory, pc, job, outcome>>
      PROVE  RunnerInv'
    BY <1>1 DEF RunnerInv, ChainUnbroken, OutcomeTruth, CallInv, Recorded,
                Attempt, Lookup
<1>2. ASSUME NEW p \in Planners, PlanReadState(p) \/ PlanReadHead(p)
      PROVE  RunnerInv'
    BY <1>1, <1>2 DEF PlanReadState, PlanReadHead, target, session, client
<1>3. ASSUME NEW p \in Planners, NEW h \in Hashes, PlanWitness(p, h)
      PROVE  RunnerInv'
    BY <1>1, <1>3 DEF PlanWitness, target, session, client
<1>4. ASSUME NEW c \in Calls, NEW s \in Stems, NEW m \in {"apply", "rehearse"},
             NEW a \in BOOLEAN, ExecutePlan(c, s, m, a)
      PROVE  RunnerInv'
  <2>1. /\ Frame(c) /\ backend' = backend /\ advisory' = advisory
        /\ pc[c] = "idle" /\ pc'[c] \in {"begin", "done"}
        /\ outcome'[c] \in {"none", "refused"}
        /\ pc'[c] = "begin" => outcome'[c] = outcome[c]
      BY <1>4 DEF ExecutePlan, Goto, Frame, Untouched, target, session, TypeOK,
                  RunnerInv, CallInv
  <2>2. /\ Recorded(c)' <=> Recorded(c)
        /\ Attempt(c)' = Attempt(c) /\ Lookup(c)' = Lookup(c)
      BY <2>1 DEF Recorded, Frame, Attempt, Lookup
  <2>3. ~Recorded(c) /\ backend[c] = "none"
      BY <2>1 DEF RunnerInv, CallInv
  <2>4. CallInv(c)'
      BY <2>1, <2>2, <2>3 DEF RunnerInv, CallInv, Attached
  <2> QED
      BY <2>1, <2>3, <2>4, FrameKeeps
<1>5. ASSUME NEW c \in Calls, RunAttempt(c) PROVE RunnerInv'
  <2>1. CASE TryAdvisoryLock(c)
    <3>1. ~Recorded(c) /\ backend[c] = "none"
        BY <2>1 DEF TryAdvisoryLock, RunnerInv, CallInv
    <3>2. CASE advisory = None
      <4>1. Frame(c)
          BY <2>1, <3>2
          DEF TryAdvisoryLock, Goto, Frame, Untouched, target, TypeOK
      <4>2. /\ Recorded(c)' <=> Recorded(c)
            /\ Attempt(c)' = Attempt(c) /\ Lookup(c)' = Lookup(c)
          BY <4>1 DEF Recorded, Frame, Attempt, Lookup
      <4>3. CallInv(c)'
          BY <2>1, <3>1, <3>2, <4>2
          DEF TryAdvisoryLock, Goto, RunnerInv, CallInv, TypeOK, Attached
      <4>4. outcome'[c] = "none"
          BY <2>1, <3>2 DEF TryAdvisoryLock, RunnerInv, CallInv
      <4> QED
          BY <4>1, <4>3, <4>4, FrameKeeps
    <3>3. CASE advisory # None
        BY <2>1, <3>1, <3>3, AnswerKeeps DEF TryAdvisoryLock, target, session
    <3> QED
        BY <3>2, <3>3
  <2>2. CASE CheckChain(c)
    <3>1. CASE marker.hash = job[c].plan.from
        BY <2>2, <3>1, ProceedKeeps DEF CheckChain, Attached
    <3>2. CASE marker.hash # job[c].plan.from
        BY <2>2, <3>2, StopKeeps DEF CheckChain, Attached
    <3> QED
        BY <3>1, <3>2
  <2> DEFINE late == pc[c] \in Attached \ {"begin", "chain", "reply"}
  <2>c. late => marker.hash = job[c].plan.from
      BY DEF RunnerInv, CallInv
  <2>3. CASE CheckTarget(c)
    <3>1. marker.hash = job[c].plan.from
        BY <2>3, <2>c DEF CheckTarget, Attached
    <3> QED
        BY <2>3, <3>1, ProceedKeeps, StopKeeps DEF CheckTarget, Attached
  <2>4. CASE LockTables(c)
    <3>1. marker.hash = job[c].plan.from
        BY <2>4, <2>c DEF LockTables, Attached
    <3> QED
        BY <2>4, <3>1, MovedKeeps DEF LockTables, target, Attached
  <2>5. CASE CheckFingerprint(c)
    <3>1. marker.hash = job[c].plan.from
        BY <2>5, <2>c DEF CheckFingerprint, Attached
    <3>2. CASE catalog = job[c].plan.target
        BY <2>5, <3>1, <3>2, MovedKeeps
        DEF CheckFingerprint, target, session, Attached
    <3>3. CASE catalog # job[c].plan.target
        BY <2>5, <3>3, StopKeeps DEF CheckFingerprint, Attached
    <3> QED
        BY <3>2, <3>3
  <2>6. CASE CheckCopyRows(c)
    <3>1. marker.hash = job[c].plan.from
        BY <2>6, <2>c DEF CheckCopyRows, Attached
    <3>2. Proceed(c, "steps") \/ StopAttempt(c, "refused")
        BY <2>6 DEF CheckCopyRows
    <3> QED
        BY <2>6, <3>1, <3>2, ProceedKeeps, StopKeeps DEF CheckCopyRows, Attached
  <2>7. CASE RunSteps(c)
    <3>1. marker.hash = job[c].plan.from
        BY <2>7, <2>c DEF RunSteps, Attached
    <3> QED
        BY <2>7, <3>1, ProceedKeeps DEF RunSteps, Attached
  <2>8. CASE Verify(c)
    <3>1. marker.hash = job[c].plan.from
        BY <2>8, <2>c DEF Verify, Attached
    <3>2. CASE Applied(c) = Desired[job[c].plan.to]
        BY <2>8, <3>1, <3>2, MovedKeeps DEF Verify, target, session, Attached
    <3>3. CASE Applied(c) # Desired[job[c].plan.to]
        BY <2>8, <3>3, StopKeeps DEF Verify, Attached
    <3> QED
        BY <3>2, <3>3
  <2>9. CASE SendCommit(c)
    <3>1. marker.hash = job[c].plan.from /\ ~Recorded(c) /\ backend[c] = "open"
        BY <2>9, <2>c DEF SendCommit, Attached, RunnerInv, CallInv
    <3>2. Frame(c)
        BY <2>9 DEF SendCommit, Goto, Frame, Untouched, target, TypeOK
    <3>3. /\ Recorded(c)' <=> Recorded(c)
          /\ Attempt(c)' = Attempt(c) /\ Lookup(c)' = Lookup(c)
        BY <3>2 DEF Recorded, Frame, Attempt, Lookup
    <3>4. /\ pc'[c] = "reply" /\ backend'[c] = "commit" /\ job' = job
          /\ advisory' = advisory /\ outcome' = outcome /\ marker' = marker
          /\ pc[c] = "state" /\ job[c].mode = "apply"
        BY <2>9 DEF SendCommit, Goto, target, TypeOK
    <3>5. CallInv(c)'
        BY <3>1, <3>3, <3>4 DEF RunnerInv, CallInv, Attached
    <3> QED
        BY <3>2, <3>4, <3>5, FrameKeeps DEF RunnerInv, OutcomeTruth
  <2>10. CASE EndRehearsal(c)
    <3>1. ~Recorded(c)
        BY <2>10 DEF EndRehearsal, RunnerInv, CallInv
    <3>2. backend'[c] # "commit"
        BY <2>10 DEF EndRehearsal, EndBackend, TypeOK
    <3> QED
        BY <2>10, <3>1, <3>2, AnswerKeeps DEF EndRehearsal, target
  <2>11. CASE CommitReply(c)
    <3>1. Recorded(c) /\ backend'[c] # "commit"
        BY <2>11 DEF CommitReply, RunnerInv, CallInv, session
    <3> QED
        BY <2>11, <3>1, AnswerKeeps DEF CommitReply, target
  <2>12. CASE Backoff(c)
    <3>1. ~Recorded(c) /\ backend[c] = "none" /\ outcome[c] = "none"
        BY <2>12 DEF Backoff, RunnerInv, CallInv
    <3>2. Frame(c)
        BY <2>12 DEF Backoff, Goto, Frame, Untouched, target, session, TypeOK
    <3>3. /\ Recorded(c)' <=> Recorded(c)
          /\ Attempt(c)' = Attempt(c) /\ Lookup(c)' = Lookup(c)
        BY <3>2 DEF Recorded, Frame, Attempt, Lookup
    <3>4. pc'[c] = "begin" /\ backend' = backend /\ outcome' = outcome
        BY <2>12 DEF Backoff, Goto, session, TypeOK
    <3>5. CallInv(c)'
        BY <3>1, <3>3, <3>4 DEF CallInv, Attached
    <3> QED
        BY <3>1, <3>2, <3>4, <3>5, FrameKeeps
  <2> QED
      BY <1>5, <2>1, <2>2, <2>3, <2>4, <2>5, <2>6, <2>7, <2>8, <2>9, <2>10,
         <2>11, <2>12 DEF RunAttempt
<1>6. ASSUME NEW c \in Calls, AfterLost(c) PROVE RunnerInv'
  <2>1. CASE LookupLock(c)
    <3>1. Frame(c)
        BY <2>1 DEF LookupLock, Goto, Frame, Untouched, target, TypeOK
    <3>2. /\ Recorded(c)' <=> Recorded(c)
          /\ Attempt(c)' = Attempt(c) /\ Lookup(c)' = Lookup(c)
        BY <3>1 DEF Recorded, Frame, Attempt, Lookup
    <3>3. backend[c] = "none"
        BY <2>1, HoldersDiffer DEF LookupLock, RunnerInv, CallInv, TypeOK
    <3>4. /\ pc[c] = "lookup" /\ pc'[c] = "find" /\ backend' = backend
          /\ outcome' = outcome /\ advisory' = Lookup(c) /\ job' = job
        BY <2>1 DEF LookupLock, Goto, TypeOK
    <3>5. CallInv(c)'
        BY <3>2, <3>3, <3>4 DEF RunnerInv, CallInv, Attached
    <3> QED
        BY <3>1, <3>4, <3>5, FrameKeeps DEF RunnerInv, OutcomeTruth
  <2>2. CASE LookupFind(c)
    <3>1. backend[c] = "none" /\ advisory = Lookup(c)
        BY <2>2, HoldersDiffer DEF LookupFind, RunnerInv, CallInv, TypeOK
    <3>2. Frame(c)
        BY <2>2, <3>1
        DEF LookupFind, Answer, Goto, Frame, Untouched, target, TypeOK
    <3>3. /\ Recorded(c)' <=> Recorded(c)
          /\ Attempt(c)' = Attempt(c) /\ Lookup(c)' = Lookup(c)
        BY <3>2 DEF Recorded, Frame, Attempt, Lookup
    <3>4. /\ pc'[c] = "done" /\ backend' = backend /\ job' = job
          /\ outcome'[c] = IF Recorded(c) THEN "committed" ELSE "notApplied"
        BY <2>2 DEF LookupFind, FindApply, Answer, Goto, TypeOK
    <3>5. CallInv(c)'
        BY <3>1, <3>3, <3>4 DEF RunnerInv, CallInv, Attached
    <3> QED
        BY <3>2, <3>4, <3>5, FrameKeeps
  <2>3. CASE LookupTimeout(c)
      BY <2>3, AnswerKeeps DEF LookupTimeout, target
  <2> QED
      BY <1>6, <2>1, <2>2, <2>3 DEF AfterLost
<1>7. ASSUME NEW c \in Calls, Failure(c) PROVE RunnerInv'
  <2>0. CASE TargetRefuses(c)
      BY <2>0, StopKeeps DEF TargetRefuses, Attached
  <2>1. CASE StepFails(c)
      BY <2>1, StopKeeps DEF StepFails, Attached
  <2>2. CASE Throws(c)
    <3>1. ~Recorded(c)
        BY <2>2 DEF Throws, RunnerInv, CallInv, Attached
    <3>2. backend'[c] # "commit"
        BY <2>2 DEF Throws, EndBackend, TypeOK
    <3> QED
        BY <2>2, <3>1, <3>2, AnswerKeeps DEF Throws, target
  <2>3. CASE LockConflict(c)
    <3>1. ~Recorded(c) /\ outcome[c] = "none"
        BY <2>3 DEF LockConflict, RunnerInv, CallInv
    <3>2. backend'[c] = "none"
        BY <2>3 DEF LockConflict, EndBackend, TypeOK
    <3>3. CASE attempt[c] >= MaxAttempts
        BY <2>3, <3>1, <3>2, <3>3, AnswerKeeps DEF LockConflict, target
    <3>4. CASE ~(attempt[c] >= MaxAttempts)
      <4>1. Frame(c)
          BY <2>3, <3>4
          DEF LockConflict, Goto, EndBackend, Frame, Untouched, target, TypeOK
      <4>2. /\ Recorded(c)' <=> Recorded(c)
            /\ Attempt(c)' = Attempt(c) /\ Lookup(c)' = Lookup(c)
          BY <4>1 DEF Recorded, Frame, Attempt, Lookup
      <4>3. pc'[c] = "backoff" /\ outcome' = outcome
          BY <2>3, <3>4 DEF LockConflict, Goto, TypeOK
      <4>4. CallInv(c)'
          BY <3>1, <3>2, <4>2, <4>3 DEF CallInv, Attached
      <4> QED
          BY <3>1, <4>1, <4>3, <4>4, FrameKeeps
    <3> QED
        BY <3>3, <3>4
  <2>4. CASE ConnectionLost(c)
    <3>1. CASE job[c].mode = "rehearse"
      <4>1. ~Recorded(c) /\ backend'[c] # "commit"
          BY <2>4, <3>1 DEF ConnectionLost, RunnerInv, CallInv, session
      <4> QED
          BY <2>4, <3>1, <4>1, AnswerKeeps DEF ConnectionLost, target
    <3>2. CASE job[c].mode # "rehearse"
      <4>1. Frame(c)
          BY <2>4, <3>2
          DEF ConnectionLost, Goto, Frame, Untouched, target, session, TypeOK
      <4>2. /\ Recorded(c)' <=> Recorded(c)
            /\ Attempt(c)' = Attempt(c) /\ Lookup(c)' = Lookup(c)
          BY <4>1 DEF Recorded, Frame, Attempt, Lookup
      <4>3. /\ pc[c] \in Attached /\ pc'[c] = "lookup" /\ outcome' = outcome
            /\ backend' = backend /\ advisory' = advisory /\ job' = job
            /\ marker' = marker
          BY <2>4, <3>2 DEF ConnectionLost, Goto, TypeOK, session, target
      <4>4. CallInv(c)'
          BY <4>2, <4>3 DEF RunnerInv, CallInv, Attached
      <4> QED
          BY <4>1, <4>3, <4>4, FrameKeeps DEF RunnerInv, OutcomeTruth
    <3> QED
        BY <3>1, <3>2
  <2>5. CASE LookupLost(c)
      BY <2>5, AnswerKeeps DEF LookupLost, target
  <2> QED
      BY <1>7, <2>0, <2>1, <2>2, <2>3, <2>4, <2>5 DEF Failure
<1>8. ASSUME NEW c \in Calls, Server(c) PROVE RunnerInv'
  <2>1. CASE ServerCommit(c)
      BY <2>1, CommitKeeps
  <2>2. CASE OrphanEnds(c)
    <3>1. Frame(c)
        BY <2>2 DEF OrphanEnds, EndBackend, Frame, Untouched, target, client,
                    TypeOK
    <3>2. /\ Recorded(c)' <=> Recorded(c)
          /\ Attempt(c)' = Attempt(c) /\ Lookup(c)' = Lookup(c)
        BY <3>1 DEF Recorded, Frame, Attempt, Lookup
    <3>3. /\ pc' = pc /\ outcome' = outcome /\ job' = job
          /\ backend[c] # "none" /\ backend'[c] = "none" /\ pc[c] \notin Attached
        BY <2>2 DEF OrphanEnds, EndBackend, client, TypeOK
    <3>4. pc[c] # "find"
        BY <3>3, HoldersDiffer DEF RunnerInv, CallInv
    <3>5. CallInv(c)'
        BY <3>2, <3>3, <3>4 DEF RunnerInv, CallInv, Attached
    <3> QED
        BY <3>1, <3>3, <3>5, FrameKeeps DEF RunnerInv, OutcomeTruth
  <2>3. CASE OrphanLookupEnds(c)
    <3>1. Frame(c)
        BY <2>3 DEF OrphanLookupEnds, Frame, Untouched, target, client, TypeOK
    <3>2. /\ Recorded(c)' <=> Recorded(c)
          /\ Attempt(c)' = Attempt(c) /\ Lookup(c)' = Lookup(c)
        BY <3>1 DEF Recorded, Frame, Attempt, Lookup
    <3>3. /\ pc' = pc /\ outcome' = outcome /\ job' = job /\ backend' = backend
          /\ marker' = marker /\ pc[c] = "done"
        BY <2>3 DEF OrphanLookupEnds, client, target
    <3>4. backend[c] = "none"
        BY <2>3, HoldersDiffer DEF OrphanLookupEnds, RunnerInv, CallInv
    <3>5. CallInv(c)'
        BY <3>2, <3>3, <3>4 DEF RunnerInv, CallInv, Attached
    <3> QED
        BY <3>1, <3>3, <3>5, FrameKeeps DEF RunnerInv, OutcomeTruth
  <2> QED
      BY <1>8, <2>1, <2>2, <2>3 DEF Server
<1>9. ASSUME NEW t \in Tables, NEW v \in Versions, ForeignDdl(t, v)
      PROVE  RunnerInv'
    BY <1>1, <1>9 DEF ForeignDdl, session, client
<1>10. ASSUME NEW t \in Tables, ForeignInsert(t) PROVE RunnerInv'
    BY <1>1, <1>10 DEF ForeignInsert, session, client
<1>11. ASSUME NEW s \in Stems, NEW f \in Copies, RehearseOnCopy(s, f)
       PROVE RunnerInv'
    BY <1>1, <1>11 DEF RehearseOnCopy, target, session, client
<1>12. CASE UNCHANGED vars
    BY <1>1, <1>12 DEF vars, target, session, client
<1> QED
    BY <1>2, <1>3, <1>4, <1>5, <1>6, <1>7, <1>8, <1>9, <1>10, <1>11, <1>12
    DEF Next

\* The inductive invariant holds in every reachable state.
THEOREM RunnerInvariant == Spec => []RunnerInv
BY TypeInit, TypeStep, InvInit, InvStep, PTL DEF Spec

\* The ledger is an unbroken chain that ends at the marker, whatever calls run,
\* retry, lose their connection or commit late (checkChain, phase 19).
THEOREM ChainIsUnbroken == Spec => []ChainUnbroken
<1>1. RunnerInv => ChainUnbroken
    BY DEF RunnerInv
<1> QED
    BY <1>1, RunnerInvariant, PTL

\* A definite answer of executePlan is true and stays true: no COMMIT still on
\* its way makes it false later (afterLostConnection).
THEOREM AnswersAreTrue == Spec => []OutcomeTruth
<1>1. RunnerInv => OutcomeTruth
    BY DEF RunnerInv
<1> QED
    BY <1>1, RunnerInvariant, PTL

=============================================================================
