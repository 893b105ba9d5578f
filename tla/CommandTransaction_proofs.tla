---------------------- MODULE CommandTransaction_proofs ----------------------
(***************************************************************************)
(* Theorems about CommandTransaction, for any number of commands,           *)
(* connections, operations, tasks and attempts.  The facts about one        *)
(* Transaction object are constant-level predicates of the record, so that   *)
(* one lemma for each of its operators serves every action.                 *)
(***************************************************************************)
EXTENDS CommandTransaction, FiniteSetTheorems, SequenceTheorems, WellFoundedInduction, TLAPS

Hooks  == {"before", "on"}
InHook == {"before", "beforeEnd", "on", "onEnd"}
Stages == InHook \cup Finished \cup {"free", "queued"}
Codes  == {"none", "retry-exhausted", "database", "timeout", "unavailable", "invalid",
           "internal", "depth", "rejected", "unauthenticated"}

Statements == {"begin", "context", "check", "core", "read", "commit"}

TaskSet == [kind : {"none", "phase", "read"}, parent : 0..MaxTasks, hook : Hooks \cup {"none"},
            depth : Nat, stage : Stages]
UnitSet == [kind : {"begin", "check", "core", "read", "commit"}, rest : Seq(Statements),
            task : 0..MaxTasks]
Terminals == [code : Codes, retry : {"no", "now", "pause"}, destroy : BOOLEAN]
TxSet == [queue : Seq(UnitSet), step : {"check", "send", "sent"}, terminal : Terminals,
          commitSent : BOOLEAN, nested : Nat, after : Seq(Nat), task : [Tasks -> TaskSet]]
SrvSet == [txn : {"idle", "open", "aborted", "dead"}, context : 0..MaxTasks,
           writes : SUBSET Tasks]

-----------------------------------------------------------------------------
(* One Transaction object x *)

Unfinished(x) == {i \in Allocated(x) : x.task[i].stage \notin Finished}
Phases(x) == {i \in Allocated(x) : x.task[i].kind = "phase"}
AllDone(x) == \A i \in Allocated(x) : x.task[i].stage = "done"

\* Tasks are numbered in the order they start, and there is room for the
\* operations still to come.
Numbered(x) == \E m \in 0..MaxTasks : Allocated(x) = 1..m
Space(x) == /\ Cardinality(Allocated(x)) + Ops - Cardinality(Roots(x)) <= MaxTasks
            /\ Cardinality(Roots(x)) <= Ops

\* A call is younger than the hook that started it, and that hook has not settled
\* while the call is unfinished.
Child(x, j) ==
  LET t == x.task[j]
  IN  /\ t.parent \in Allocated(x) /\ t.parent < j /\ t.hook \in Hooks
      /\ t.stage \notin Finished => x.task[t.parent].stage \in {t.hook, Ending(t.hook)}
Tree(x) == \A j \in Allocated(x) : x.task[j].parent = Main \/ Child(x, j)

\* One operation of the batch at a time.
OneRoot(x) == \A i, j \in Roots(x) :
                i = j \/ x.task[i].stage = "done" \/ x.task[j].stage = "done"

\* A unit of the queue nothing of which has been executed, and one whose context
\* has been set; the task that awaits it waits for this unit alone.
Whole(x, u) ==
  \/ u = BeginUnit \/ u = CommitUnit
  \/ /\ u.task \in Tasks /\ x.task[u.task].stage = "queued"
     /\ \/ x.task[u.task].kind = "phase" /\ u \in {CheckUnit(u.task), CoreUnit(u.task)}
        \/ x.task[u.task].kind = "read" /\ u = ReadUnit(u.task)
Begun(x, u) ==
  /\ u.task \in Tasks /\ x.task[u.task].stage = "queued" /\ x.task[u.task].kind = "phase"
  /\ u \in {Unit("check", <<"check">>, u.task), Unit("core", <<"core">>, u.task)}
QueueOk(x) ==
  /\ \A q \in DOMAIN x.queue : Whole(x, x.queue[q]) \/ (q = 1 /\ Begun(x, x.queue[q]))
  /\ \A q, r \in DOMAIN x.queue : x.queue[q].task = x.queue[r].task => q = r

\* No failure goes unnoticed.
FailedOk(x) == (\E i \in Tasks : x.task[i].stage = "failed") => x.terminal # Open
KindOk(x) == \A i \in Tasks : x.task[i].stage \in InHook => x.task[i].kind = "phase"

Good(x) == /\ x \in TxSet /\ Numbered(x) /\ Space(x) /\ Tree(x) /\ OneRoot(x)
           /\ QueueOk(x) /\ FailedOk(x) /\ KindOk(x)

\* The server's side s of the connection: the writes are those of the phases past
\* their core call, and a core call that is next runs in its own context.
WritesOk(x, s) ==
  /\ s.writes \subseteq Phases(x)
  /\ \A i \in Phases(x) : x.task[i].stage \in {"on", "onEnd", "done"} => i \in s.writes
ContextOk(x, s) ==
  x.queue # <<>> /\ Head(x.queue).rest = <<"core">> => s.context = Head(x.queue).task

\* The operations run: m is the number of the attempt.
OpsOk(x, s, m) ==
  /\ Good(x)
  /\ \A q \in DOMAIN x.queue : x.queue[q].task \in Tasks
  /\ x.queue = <<>> => x.step = "check"
  /\ WritesOk(x, s) /\ ContextOk(x, s)
  /\ \A i \in DOMAIN x.after : x.after[i] = m

-----------------------------------------------------------------------------
(* One command *)

Idle   == {"idle", "connect", "ended", "after", "done"}
Places == Idle \cup {"begin", "user", "ops", "commit", "failing"}
\* How code left behind may close an attempt whose COMMIT is on its way.
Late == IF MaxStrays = 0 THEN {} ELSE {"internal"}

\* The place p, the connection k and the object x.
Shape(p, k, x) ==
  /\ Good(x)
  /\ k = None <=> p \in Idle
  /\ p = "begin" => x.queue = <<BeginUnit>>
  /\ p = "commit" => x.queue = <<CommitUnit>>
  /\ p = "ops" => \A q \in DOMAIN x.queue : x.queue[q].task \in Tasks
  /\ p \notin {"begin", "commit", "ops"} => x.queue = <<>>
  /\ p # "ops" => Unfinished(x) = {}
  /\ p \in {"begin", "user"} => Allocated(x) = {}
  /\ x.queue = <<>> => x.step = "check"
  /\ p = "commit" /\ x.step # "check" =>
       AllDone(x) /\ x.terminal \in {Open} \cup {Failure(code) : code \in Late}
  /\ p = "commit" /\ x.step = "sent" => x.commitSent

\* Its side of the server.
Server(p, x, s) ==
  /\ p \in {"user", "ops", "commit"} => WritesOk(x, s)
  /\ p = "ops" => ContextOk(x, s)

\* Its effects E, committed or not known to be, at most those of attempt m.
Effect(p, m, x, E, o) ==
  \A r \in E :
    /\ r = [n |-> m, writes |-> Phases(x)] /\ AllDone(x)
    /\ p \in {"after", "done", "failing", "ended"}
    /\ p \in {"failing", "ended"} =>
         x.terminal.retry = "no" /\ x.terminal.code \in {"unavailable"} \cup Late
    /\ o \in {"none", "ok", "unavailable"} \cup Late

\* Its answer o, what is committed C, what ran R after it, what was left behind S.
Result(p, m, x, C, R, o, S) ==
  /\ p # "connect" /\ (p = "done" => o = "ok") =>
       \A i \in DOMAIN x.after : x.after[i] = m
  /\ p = "after" \/ o = "ok" => \E r \in C : r.n = m
  /\ o # "none" => p = "done"
  /\ \A i \in DOMAIN R : \E r \in C : r.n = R[i]
  /\ MaxStrays = 0 => S = {}

State ==
  /\ pc \in [Commands -> Places] /\ n \in [Commands -> Nat]
  /\ conn \in [Commands -> Conns \cup {None}] /\ tx \in [Commands -> TxSet]
  /\ srv \in [Conns -> SrvSet] /\ stray \in [Commands -> SUBSET Nat]
  /\ \A o \in orphan : o = [cmd |-> o.cmd, n |-> o.n, writes |-> o.writes] /\ o.cmd \in Commands
  /\ DOMAIN committed = Commands /\ ran \in [Commands -> Seq(Nat)]
  /\ outcome \in [Commands -> Codes \cup {"ok"}]

CommandInv(c) ==
  /\ Shape(pc[c], conn[c], tx[c]) /\ Server(pc[c], tx[c], srv[conn[c]])
  /\ Effect(pc[c], n[c], tx[c], Effects(c), outcome[c])
  /\ Result(pc[c], n[c], tx[c], committed[c], ran[c], outcome[c], stray[c])

\* Connections are not shared, and the free ones are idle.
PoolInv ==
  /\ \A c, d \in Commands : conn[c] = conn[d] /\ conn[c] # None => c = d
  /\ \A k \in Conns : (\A c \in Commands : conn[c] # k) => srv[k].txn = "idle"

Inv == State /\ (\A c \in Commands : CommandInv(c)) /\ PoolInv

-----------------------------------------------------------------------------
(* Numbers *)

\* The order of the naturals, as a relation.
LEMMA NatOrder == \E R : IsWellFoundedOn(R, Nat) /\ \A i, j \in Nat : <<i, j>> \in R <=> i < j
<1>1. \A i, j \in Nat : <<i, j>> \in OpToRel(<, Nat) <=> i < j
    BY DEF OpToRel
<1> QED
    BY <1>1, NatLessThanWellFounded

\* A set of naturals that is not empty has a least member.
LEMMA LeastMember ==
  ASSUME NEW S, S \subseteq Nat, S # {}
  PROVE  \E i \in S : \A j \in S : i <= j
<1>1. PICK R : IsWellFoundedOn(R, Nat) /\ \A i, j \in Nat : <<i, j>> \in R <=> i < j
    BY NatOrder
<1>2. \E i \in S : \A j \in S : ~(<<j, i>> \in R)
  <2>1. IsWellFoundedOn(R, Nat)
      BY <1>1
  <2> QED
      BY <2>1, WFMin, Zenon
<1>3. PICK i \in S : \A j \in S : ~(<<j, i>> \in R)
    BY <1>2
<1>4. ASSUME NEW j \in S PROVE i <= j
  <2>1. i \in Nat /\ j \in Nat
      OBVIOUS
  <2>2. ~(j < i)
      BY <1>1, <1>3, <2>1, Zenon
  <2> QED
      BY <2>1, <2>2
<1> QED
    BY <1>4

-----------------------------------------------------------------------------
(* The operators on one Transaction object *)

\* Whether the queue is as it should be is said of the queue and the tasks alone.
LEMMA SameQueue ==
  ASSUME NEW x, QueueOk(x), NEW y, y.queue = x.queue, y.task = x.task
  PROVE  QueueOk(y)
<1>1. \A u : (Whole(x, u) => Whole(y, u)) /\ (Begun(x, u) => Begun(y, u))
    BY DEF Whole, Begun
<1> QED
    BY <1>1 DEF QueueOk

\* The task that awaits a unit of the queue waits.
LEMMA UnitQueued ==
  ASSUME NEW x, QueueOk(x), NEW q \in DOMAIN x.queue, x.queue[q].task \in Tasks
  PROVE  x.task[x.queue[q].task].stage = "queued"
<1>1. Main \notin Tasks
    BY DEF Tasks, Main
<1>2. BeginUnit.task = Main /\ CommitUnit.task = Main
    BY DEF BeginUnit, CommitUnit, Unit
<1>3. PICK u : u = x.queue[q]
    OBVIOUS
<1>4. u # BeginUnit /\ u # CommitUnit
    BY <1>1, <1>2, <1>3
<1>5. Whole(x, u) \/ Begun(x, u)
    BY <1>3 DEF QueueOk
<1> QED
    BY <1>3, <1>4, <1>5 DEF Whole, Begun

\* When the operations have settled, so has everything their hooks have started.
LEMMA RootsSettle ==
  ASSUME NEW x, Good(x), \A i \in Roots(x) : x.task[i].stage \in Finished
  PROVE  Unfinished(x) = {}
<1> SUFFICES ASSUME Unfinished(x) # {} PROVE FALSE
    OBVIOUS
<1>1. Unfinished(x) \subseteq Nat
    BY CommandAssumption DEF Unfinished, Allocated, Tasks
<1>2. PICK j \in Unfinished(x) : \A i \in Unfinished(x) : j <= i
    BY <1>1, LeastMember
<1>3. j \in Allocated(x) /\ x.task[j].stage \notin Finished
    BY DEF Unfinished
<1>4. Child(x, j)
    BY <1>3 DEF Good, Tree, Roots
<1>5. x.task[j].parent \in Unfinished(x) /\ x.task[j].parent < j
    BY <1>3, <1>4 DEF Child, Unfinished, Hooks, Ending, Finished
<1> QED
    BY <1>1, <1>2, <1>5

\* Staged changes the stage of one task.
LEMMA StagedIs ==
  ASSUME NEW x \in TxSet, NEW i \in Tasks, NEW s \in Stages, NEW y, y = Staged(x, i, s)
  PROVE  /\ y \in TxSet /\ y.queue = x.queue /\ y.step = x.step /\ y.terminal = x.terminal
         /\ y.commitSent = x.commitSent /\ y.after = x.after
         /\ y.task[i].stage = s /\ y.task[i].kind = x.task[i].kind
         /\ y.task[i].parent = x.task[i].parent /\ y.task[i].hook = x.task[i].hook
         /\ \A j \in Tasks \ {i} : y.task[j] = x.task[j]
<1>1. x.task \in [Tasks -> TaskSet] /\ y = [x EXCEPT !.task[i].stage = s]
    BY DEF TxSet, Staged
<1>2. PICK v : v = [x.task EXCEPT ![i].stage = s]
    OBVIOUS
<1>3. /\ v \in [Tasks -> TaskSet] /\ v[i].stage = s /\ v[i].kind = x.task[i].kind
      /\ v[i].parent = x.task[i].parent /\ v[i].hook = x.task[i].hook
      /\ \A j \in Tasks \ {i} : v[j] = x.task[j]
    BY <1>1, <1>2 DEF TaskSet
<1>4. y = [x EXCEPT !.task = v]
    BY <1>1, <1>2 DEF TxSet
<1>5. /\ y \in TxSet /\ y.queue = x.queue /\ y.step = x.step /\ y.terminal = x.terminal
      /\ y.commitSent = x.commitSent /\ y.after = x.after /\ y.task = v
    BY <1>3, <1>4 DEF TxSet
<1> QED
    BY <1>3, <1>5

\* A task that is not waiting for a unit may move on, if its hook has settled.
LEMMA StagedOps ==
  ASSUME NEW x, NEW s, NEW m, OpsOk(x, s, m), NEW i \in Unfinished(x), NEW z \in Stages \ {"free"},
         \A q \in DOMAIN x.queue : x.queue[q].task # i,
         \/ \A j \in Unfinished(x) : x.task[j].parent # i
         \/ x.task[i].stage \in Hooks /\ z \in {x.task[i].stage, Ending(x.task[i].stage)},
         z = "failed" => x.terminal # Open,
         z \in InHook => x.task[i].kind = "phase",
         z \in {"on", "onEnd", "done"} /\ x.task[i].kind = "phase" => i \in s.writes,
         NEW y, y = Staged(x, i, z)
  PROVE  /\ OpsOk(y, s, m) /\ Allocated(y) = Allocated(x)
         /\ \A q \in DOMAIN y.queue : y.queue[q].task # i
         /\ z \notin Finished => i \in Unfinished(y)
<1>1. Good(x) /\ x \in TxSet /\ i \in Tasks /\ x.task[i].stage \notin Finished \cup {"free"}
    BY DEF OpsOk, Good, Unfinished, Allocated
<1>2. /\ y \in TxSet /\ y.queue = x.queue /\ y.step = x.step /\ y.terminal = x.terminal
      /\ y.after = x.after
      /\ y.task[i].stage = z /\ y.task[i].kind = x.task[i].kind
      /\ y.task[i].parent = x.task[i].parent /\ y.task[i].hook = x.task[i].hook
      /\ \A j \in Tasks \ {i} : y.task[j] = x.task[j]
    BY <1>1, StagedIs
<1>3. \A j \in Tasks : /\ y.task[j].kind = x.task[j].kind /\ y.task[j].parent = x.task[j].parent
                       /\ y.task[j].hook = x.task[j].hook
    BY <1>2
<1>4. Allocated(y) = Allocated(x)
    BY <1>1, <1>2 DEF Allocated
<1>5. Roots(y) = Roots(x) /\ Phases(y) = Phases(x)
    BY <1>3, <1>4 DEF Roots, Phases, Allocated
<1>6. Numbered(y) /\ Space(y)
    BY <1>1, <1>4, <1>5 DEF Good, Numbered, Space
<1>7. Tree(y)
  <2> SUFFICES ASSUME NEW j \in Allocated(x), y.task[j].parent # Main PROVE Child(y, j)
      BY <1>4 DEF Tree
  <2> DEFINE p == x.task[j].parent
  <2>1. j \in Tasks /\ Child(x, j) /\ p \in Allocated(x) /\ p \in Tasks /\ p < j
      BY <1>1, <1>3 DEF Good, Tree, Child, Allocated
  <2>2. CASE j = i
    <3>1. p # i
        BY <2>1, <2>2 DEF Tasks
    <3>2. y.task[p] = x.task[p]
        BY <1>2, <2>1, <3>1
    <3> QED
        BY <1>1, <1>2, <1>3, <1>4, <2>1, <2>2, <3>2 DEF Child
  <2>3. CASE j # i /\ p # i
    <3>1. y.task[j] = x.task[j] /\ y.task[p] = x.task[p]
        BY <1>2, <2>1, <2>3
    <3> QED
        BY <1>4, <2>1, <3>1 DEF Child
  <2>4. CASE j # i /\ p = i
    <3>1. y.task[j] = x.task[j]
        BY <1>2, <2>1, <2>4
    <3>2. x.task[j].stage \notin Finished => z \in {x.task[j].hook, Ending(x.task[j].hook)}
      <4>1. SUFFICES ASSUME x.task[j].stage \notin Finished
                     PROVE  z \in {x.task[j].hook, Ending(x.task[j].hook)}
          OBVIOUS
      <4>2. x.task[i].stage \in Hooks /\ z \in {x.task[i].stage, Ending(x.task[i].stage)}
          BY <2>4, <4>1 DEF Unfinished
      <4>3. x.task[i].stage = x.task[j].hook
          BY <2>1, <2>4, <4>1, <4>2 DEF Child, Hooks, Ending
      <4> QED
          BY <4>2, <4>3
    <3> QED
        BY <1>2, <1>4, <2>1, <2>4, <3>1, <3>2 DEF Child
  <2> QED
      BY <2>2, <2>3, <2>4
<1>8. OneRoot(y)
  <2> SUFFICES ASSUME NEW a \in Roots(x), NEW b \in Roots(x), a # b
               PROVE  y.task[a].stage = "done" \/ y.task[b].stage = "done"
      BY <1>5 DEF OneRoot
  <2>1. a \in Tasks /\ b \in Tasks /\ (x.task[a].stage = "done" \/ x.task[b].stage = "done")
      BY <1>1 DEF Good, OneRoot, Roots, Allocated
  <2>2. x.task[i].stage # "done"
      BY <1>1 DEF Finished
  <2> QED
      BY <1>2, <2>1, <2>2
<1>9. QueueOk(y)
  <2>1. ASSUME NEW q \in DOMAIN x.queue
        PROVE  /\ Whole(x, x.queue[q]) => Whole(y, x.queue[q])
               /\ Begun(x, x.queue[q]) => Begun(y, x.queue[q])
    <3>1. x.queue[q].task \in Tasks => y.task[x.queue[q].task] = x.task[x.queue[q].task]
        BY <1>2
    <3> QED
        BY <3>1 DEF Whole, Begun
  <2> QED
      BY <1>1, <1>2, <2>1 DEF Good, QueueOk
<1>10. FailedOk(y) /\ KindOk(y)
    BY <1>1, <1>2, <1>3 DEF Good, FailedOk, KindOk
<1>11. WritesOk(y, s)
    BY <1>2, <1>5 DEF OpsOk, WritesOk, Phases, Allocated
<1>12. ContextOk(y, s)
    BY <1>2 DEF OpsOk, ContextOk
<1>13. Good(y)
    BY <1>2, <1>6, <1>7, <1>8, <1>9, <1>10 DEF Good
<1>14. OpsOk(y, s, m)
    BY <1>2, <1>11, <1>12, <1>13 DEF OpsOk
<1>15. z \notin Finished => i \in Unfinished(y)
    BY <1>2, <1>4 DEF Unfinished
<1> QED
    BY <1>2, <1>4, <1>14, <1>15

\* A task that waits for a unit has no hook running, hence no call under way.
LEMMA QueuedChildless ==
  ASSUME NEW x, Good(x), NEW i \in Tasks, x.task[i].stage \in {"queued"} \cup Finished
  PROVE  \A j \in Unfinished(x) : x.task[j].parent # i
<1> SUFFICES ASSUME NEW j \in Unfinished(x), x.task[j].parent = i PROVE FALSE
    OBVIOUS
<1>1. i # Main /\ j \in Allocated(x) /\ x.task[j].stage \notin Finished
    BY DEF Tasks, Main, Unfinished
<1>2. Child(x, j)
    BY <1>1 DEF Good, Tree
<1> QED
    BY <1>1, <1>2 DEF Child, Hooks, Ending, Finished

\* The parts of the object the facts above do not speak of may change.
LEMMA OtherOps ==
  ASSUME NEW x, NEW s, NEW m, OpsOk(x, s, m), NEW y \in TxSet, y.queue = x.queue, y.task = x.task,
         y.terminal = x.terminal, y.queue = <<>> => y.step = "check",
         \A i \in DOMAIN y.after : y.after[i] = m
  PROVE  OpsOk(y, s, m)
<1>1. Allocated(y) = Allocated(x) /\ Roots(y) = Roots(x) /\ Phases(y) = Phases(x)
    BY DEF Allocated, Roots, Phases
<1>2. Numbered(y) /\ Space(y) /\ Tree(y) /\ OneRoot(y)
    BY <1>1 DEF OpsOk, Good, Numbered, Space, Tree, Child, OneRoot
<1>3. QueueOk(y) /\ FailedOk(y) /\ KindOk(y)
    BY SameQueue DEF OpsOk, Good, FailedOk, KindOk
<1>4. WritesOk(y, s) /\ ContextOk(y, s)
    BY <1>1 DEF OpsOk, WritesOk, ContextOk
<1> QED
    BY <1>2, <1>3, <1>4 DEF OpsOk, Good

\* The first failure closes the queue.
LEMMA ClosedOps ==
  ASSUME NEW x, NEW s, NEW m, OpsOk(x, s, m), NEW t \in Terminals, t # Open,
         NEW y, y = Closed(x, t)
  PROVE  /\ OpsOk(y, s, m) /\ y.terminal # Open /\ y.queue = x.queue /\ y.task = x.task
         /\ Unfinished(y) = Unfinished(x)
<1>1. x \in TxSet
    BY DEF OpsOk, Good
<1>2. /\ y \in TxSet /\ y.queue = x.queue /\ y.task = x.task /\ y.step = x.step /\ y.after = x.after
      /\ y.terminal # Open
    BY <1>1 DEF Closed, TxSet
<1>3. Allocated(y) = Allocated(x) /\ Roots(y) = Roots(x) /\ Phases(y) = Phases(x)
    BY <1>2 DEF Allocated, Roots, Phases
<1>4. Numbered(y) /\ Space(y) /\ Tree(y) /\ OneRoot(y)
    BY <1>2, <1>3 DEF OpsOk, Good, Numbered, Space, Tree, Child, OneRoot
<1>5. QueueOk(y) /\ FailedOk(y) /\ KindOk(y)
    BY <1>2, SameQueue DEF OpsOk, Good, FailedOk, KindOk
<1>6. WritesOk(y, s) /\ ContextOk(y, s)
    BY <1>2, <1>3 DEF OpsOk, WritesOk, ContextOk
<1>7. OpsOk(y, s, m)
    BY <1>2, <1>4, <1>5, <1>6 DEF OpsOk, Good
<1> QED
    BY <1>2, <1>3, <1>7 DEF Unfinished

\* The lists of statements a unit is made of.
LEMMA StatementLists ==
  /\ <<"context", "check">> \in Seq(Statements) /\ <<"context", "core">> \in Seq(Statements)
  /\ <<"check">> \in Seq(Statements) /\ <<"core">> \in Seq(Statements) /\ <<"read">> \in Seq(Statements)
  /\ <<"begin">> \in Seq(Statements) /\ <<"commit">> \in Seq(Statements)
  /\ <<"context", "check">> # <<"core">> /\ <<"context", "core">> # <<"core">>
  /\ <<"read">> # <<"core">> /\ <<"begin">> # <<"core">> /\ <<"commit">> # <<"core">>
  /\ <<"check">> # <<"core">>
<1>1. /\ <<"context", "check">> \in Seq(Statements) /\ <<"context", "core">> \in Seq(Statements)
      /\ <<"check">> \in Seq(Statements) /\ <<"core">> \in Seq(Statements) /\ <<"read">> \in Seq(Statements)
      /\ <<"begin">> \in Seq(Statements) /\ <<"commit">> \in Seq(Statements)
    BY DEF Statements
<1>2. Len(<<"context", "check">>) = 2 /\ Len(<<"context", "core">>) = 2 /\ Len(<<"core">>) = 1
    OBVIOUS
<1>3. /\ <<"read">>[1] # <<"core">>[1] /\ <<"begin">>[1] # <<"core">>[1]
      /\ <<"commit">>[1] # <<"core">>[1] /\ <<"check">>[1] # <<"core">>[1]
    OBVIOUS
<1>4. <<"context", "check">> # <<"core">> /\ <<"context", "core">> # <<"core">>
    BY <1>2
<1>5. /\ <<"read">> # <<"core">> /\ <<"begin">> # <<"core">> /\ <<"commit">> # <<"core">>
      /\ <<"check">> # <<"core">>
    BY <1>3
<1> QED
    BY <1>1, <1>4, <1>5

\* A task enters the queue.
LEMMA EnqueuedOps ==
  ASSUME NEW x, NEW s, NEW m, OpsOk(x, s, m), NEW i \in Tasks, x.task[i].stage = "queued",
         \A q \in DOMAIN x.queue : x.queue[q].task # i,
         NEW u, \/ x.task[i].kind = "phase" /\ u \in {CheckUnit(i), CoreUnit(i)}
                \/ x.task[i].kind = "read" /\ u = ReadUnit(i),
         NEW y, y = Enqueued(x, u)
  PROVE  OpsOk(y, s, m)
<1>1. x \in TxSet /\ Good(x) /\ x.queue \in Seq(UnitSet)
    BY DEF OpsOk, Good, TxSet
<1>2. u.task = i /\ u \in UnitSet /\ Whole(x, u) /\ u.rest # <<"core">>
  <2>1. i \in 0..MaxTasks
      BY CommandAssumption DEF Tasks
  <2>2. /\ <<"context", "check">> \in Seq(Statements) /\ <<"context", "core">> \in Seq(Statements)
        /\ <<"read">> \in Seq(Statements) /\ <<"context", "check">> # <<"core">>
        /\ <<"context", "core">> # <<"core">> /\ <<"read">> # <<"core">>
      BY StatementLists
  <2>3. CASE u = CheckUnit(i)
      BY <2>1, <2>2, <2>3 DEF CheckUnit, CoreUnit, ReadUnit, Unit, UnitSet, Whole
  <2>4. CASE u = CoreUnit(i)
      BY <2>1, <2>2, <2>4 DEF CheckUnit, CoreUnit, ReadUnit, Unit, UnitSet, Whole
  <2>5. CASE u = ReadUnit(i)
      BY <2>1, <2>2, <2>5 DEF CheckUnit, CoreUnit, ReadUnit, Unit, UnitSet, Whole
  <2> QED
      BY <2>3, <2>4, <2>5
<1>3. /\ y \in TxSet /\ y.queue = Append(x.queue, u) /\ y.task = x.task /\ y.step = x.step
      /\ y.after = x.after /\ y.terminal = x.terminal
  <2>1. PICK v \in Seq(UnitSet) : v = Append(x.queue, u)
      BY <1>1, <1>2, AppendProperties
  <2>2. y = [x EXCEPT !.queue = v]
      BY <2>1 DEF Enqueued
  <2> QED
      BY <1>1, <2>1, <2>2 DEF TxSet
<1>4. Allocated(y) = Allocated(x) /\ Roots(y) = Roots(x) /\ Phases(y) = Phases(x)
    BY <1>3 DEF Allocated, Roots, Phases
<1>5. Numbered(y) /\ Space(y) /\ Tree(y) /\ OneRoot(y)
    BY <1>1, <1>3, <1>4 DEF Good, Numbered, Space, Tree, Child, OneRoot
<1>6. FailedOk(y) /\ KindOk(y)
    BY <1>1, <1>3 DEF Good, FailedOk, KindOk
<1>7. /\ Len(y.queue) = Len(x.queue) + 1 /\ y.queue[Len(x.queue) + 1] = u
      /\ \A q \in DOMAIN x.queue : q \in DOMAIN y.queue /\ y.queue[q] = x.queue[q]
      /\ \A q \in DOMAIN y.queue : q \in DOMAIN x.queue \/ q = Len(x.queue) + 1
      /\ y.queue # <<>>
  <2>1. PICK v \in Seq(UnitSet) : v = x.queue
      BY <1>1
  <2>2. y.queue = Append(v, u)
      BY <1>3, <2>1
  <2> QED
      BY <1>2, <2>1, <2>2
<1>8. \A v : (Whole(x, v) => Whole(y, v)) /\ (Begun(x, v) => Begun(y, v))
    BY <1>3 DEF Whole, Begun
<1>9. QueueOk(y)
    BY <1>1, <1>2, <1>7, <1>8 DEF Good, QueueOk
<1>10. WritesOk(y, s)
    BY <1>3, <1>4 DEF OpsOk, WritesOk
<1>11. ContextOk(y, s)
  <2>1. CASE x.queue = <<>>
    <3>1. Head(y.queue) = u
        BY <1>3, <2>1
    <3> QED
        BY <1>2, <3>1 DEF ContextOk
  <2>2. CASE x.queue # <<>>
    <3>1. Head(y.queue) = Head(x.queue)
        BY <1>1, <1>2, <1>3, <2>2
    <3> QED
        BY <2>2, <3>1 DEF OpsOk, ContextOk
  <2> QED
      BY <2>1, <2>2
<1>12. \A q \in DOMAIN y.queue : y.queue[q].task \in Tasks
    BY <1>2, <1>7 DEF OpsOk
<1> QED
    BY <1>3, <1>5, <1>6, <1>7, <1>9, <1>10, <1>11, <1>12 DEF OpsOk, Good

\* The running unit leaves the queue; its core call may have been executed.
LEMMA PoppedOps ==
  ASSUME NEW x, NEW s, NEW m, OpsOk(x, s, m), x.queue # <<>>, NEW i, i = Head(x.queue).task,
         NEW z, \/ z.writes = s.writes
                \/ z.writes = s.writes \cup {i} /\ x.task[i].kind = "phase",
         NEW y, y = Popped(x)
  PROVE  /\ OpsOk(y, z, m) /\ i \in Unfinished(y) /\ y.task[i].stage = "queued"
         /\ y.task = x.task /\ y.terminal = x.terminal
         /\ \A q \in DOMAIN y.queue : y.queue[q].task # i
         /\ \A j \in Unfinished(y) : y.task[j].parent # i
<1>1. x \in TxSet /\ Good(x) /\ x.queue \in Seq(UnitSet)
    BY DEF OpsOk, Good, TxSet
<1>2. /\ y \in TxSet /\ y.queue = Tail(x.queue) /\ y.task = x.task /\ y.step = "check"
      /\ y.after = x.after /\ y.terminal = x.terminal
  <2>1. PICK v \in Seq(UnitSet) : v = Tail(x.queue)
      BY <1>1, HeadTailProperties
  <2>2. y = [x EXCEPT !.queue = v, !.step = "check"]
      BY <2>1 DEF Popped
  <2> QED
      BY <1>1, <2>1, <2>2 DEF TxSet
<1>3. /\ 1 \in DOMAIN x.queue /\ x.queue[1] = Head(x.queue)
      /\ \A q \in DOMAIN y.queue : q \in Nat /\ q # 0 /\ q + 1 \in DOMAIN x.queue
                                   /\ y.queue[q] = x.queue[q + 1]
    BY <1>1, <1>2
<1>4. i \in Tasks /\ x.task[i].stage = "queued"
    BY <1>1, <1>3, UnitQueued DEF OpsOk, Good
<1>5. Allocated(y) = Allocated(x) /\ Roots(y) = Roots(x) /\ Phases(y) = Phases(x)
    BY <1>2 DEF Allocated, Roots, Phases
<1>6. Numbered(y) /\ Space(y) /\ Tree(y) /\ OneRoot(y)
  <2>1. Good(x)
      BY <1>1
  <2>2. \A j : Child(x, j) => Child(y, j)
      BY <1>2, <1>5 DEF Child
  <2> QED
      BY <1>2, <1>5, <2>1, <2>2 DEF Good, Numbered, Space, Tree, OneRoot
<1>7. FailedOk(y) /\ KindOk(y)
    BY <1>1, <1>2 DEF Good, FailedOk, KindOk
<1>8. \A v : (Whole(x, v) => Whole(y, v)) /\ (Begun(x, v) => Begun(y, v))
    BY <1>2 DEF Whole, Begun
<1>9. \A q \in DOMAIN y.queue : Whole(y, y.queue[q]) /\ y.queue[q].task \in Tasks
  <2> TAKE q \in DOMAIN y.queue
  <2>1. q + 1 \in DOMAIN x.queue /\ q + 1 # 1 /\ y.queue[q] = x.queue[q + 1]
      BY <1>3
  <2> QED
      BY <1>1, <1>8, <2>1 DEF Good, QueueOk, OpsOk
<1>10. \A q, r \in DOMAIN y.queue : y.queue[q].task = y.queue[r].task => q = r
  <2> TAKE q, r \in DOMAIN y.queue
  <2>1. x.queue[q + 1].task = x.queue[r + 1].task => q + 1 = r + 1
      BY <1>1, <1>3 DEF Good, QueueOk
  <2> QED
      BY <1>3, <2>1
<1>11. \A q \in DOMAIN y.queue : y.queue[q].task # i
  <2> TAKE q \in DOMAIN y.queue
  <2>1. x.queue[q + 1].task = x.queue[1].task => q + 1 = 1
      BY <1>1, <1>3 DEF Good, QueueOk
  <2> QED
      BY <1>3, <2>1
<1>12. WritesOk(y, z)
  <2>1. i \in Allocated(x)
      BY <1>4 DEF Allocated
  <2> QED
      BY <1>2, <1>5, <2>1 DEF OpsOk, WritesOk, Phases
<1>13. ContextOk(y, z)
  <2> SUFFICES ASSUME y.queue # <<>>, Head(y.queue).rest = <<"core">> PROVE FALSE
      BY DEF ContextOk
  <2>1. y.queue \in Seq(UnitSet)
      BY <1>2 DEF TxSet
  <2>2. 1 \in DOMAIN y.queue /\ y.queue[1] = Head(y.queue)
      BY <2>1
  <2>3. Whole(y, Head(y.queue))
      BY <1>9, <2>2
  <2> QED
      BY <2>3 DEF Whole, BeginUnit, CommitUnit, CheckUnit, CoreUnit, ReadUnit, Unit
<1>14. QueueOk(y)
    BY <1>9, <1>10 DEF QueueOk
<1>15. OpsOk(y, z, m)
    BY <1>2, <1>6, <1>7, <1>9, <1>12, <1>13, <1>14 DEF OpsOk, Good
<1>16. i \in Unfinished(y) /\ \A j \in Unfinished(y) : y.task[j].parent # i
    BY <1>2, <1>4, <1>15, QueuedChildless DEF OpsOk, Unfinished, Allocated, Finished
<1> QED
    BY <1>2, <1>4, <1>11, <1>15, <1>16

\* The context is set: the rest of the unit runs next.
LEMMA AdvancedOps ==
  ASSUME NEW x, NEW s, NEW m, OpsOk(x, s, m), x.queue # <<>>, NEW i, i = Head(x.queue).task,
         Len(Head(x.queue).rest) > 1, NEW z, z.writes = s.writes, z.context = i,
         NEW y, y = Advanced(x)
  PROVE  OpsOk(y, z, m)
<1>1. x \in TxSet /\ Good(x) /\ x.queue \in Seq(UnitSet)
    BY DEF OpsOk, Good, TxSet
<1>2. 1 \in DOMAIN x.queue /\ x.queue[1] = Head(x.queue) /\ Len(x.queue) \in Nat
      /\ DOMAIN x.queue = 1..Len(x.queue)
    BY <1>1
<1>3. Whole(x, x.queue[1]) \/ Begun(x, x.queue[1])
    BY <1>1, <1>2 DEF Good, QueueOk
<1>4. i \in Tasks
    BY <1>2 DEF OpsOk
<1>5. PICK h \in {"check", "core"} :
           /\ x.queue[1] = Unit(h, <<"context", h>>, i)
           /\ x.task[i].stage = "queued" /\ x.task[i].kind = "phase"
  <2>1. x.queue[1].rest \notin {<<"check">>, <<"core">>, <<"read">>}
    <3>1. ~(Len(<<"check">>) > 1) /\ ~(Len(<<"core">>) > 1) /\ ~(Len(<<"read">>) > 1)
        OBVIOUS
    <3>2. PICK w : w = x.queue[1].rest
        OBVIOUS
    <3>3. Len(w) > 1
        BY <1>2, <3>2
    <3>4. w # <<"check">> /\ w # <<"core">> /\ w # <<"read">>
        BY <3>1, <3>3, Zenon
    <3> QED
        BY <3>2, <3>4
  <2>2. ~Begun(x, x.queue[1])
    <3>1. Begun(x, x.queue[1]) => x.queue[1].rest \in {<<"check">>, <<"core">>}
        BY DEF Begun, Unit
    <3> QED
        BY <2>1, <3>1
  <2>3. x.queue[1] # BeginUnit /\ x.queue[1] # CommitUnit
      BY <1>2, <1>4 DEF BeginUnit, CommitUnit, Unit, Tasks, Main
  <2>4. x.queue[1] # ReadUnit(i)
    <3>1. ReadUnit(i).rest = <<"read">>
        BY DEF ReadUnit, Unit
    <3> QED
        BY <2>1, <3>1
  <2> QED
      BY <1>2, <1>3, <2>2, <2>3, <2>4 DEF Whole, CheckUnit, CoreUnit
<1>6. PICK v : v = Unit(h, <<h>>, i)
    OBVIOUS
<1>7. v \in UnitSet /\ v.task = i /\ v = [x.queue[1] EXCEPT !.rest = Tail(x.queue[1].rest)]
  <2>1. Tail(<<"context", h>>) = <<h>>
      OBVIOUS
  <2>2. i \in 0..MaxTasks
      BY <1>4, CommandAssumption DEF Tasks
  <2>3. <<h>> \in Seq(Statements)
      BY StatementLists
  <2>4. x.queue[1].rest = <<"context", h>>
      BY <1>5 DEF Unit
  <2>5. v = [x.queue[1] EXCEPT !.rest = <<h>>]
      BY <1>5, <1>6 DEF Unit
  <2> QED
      BY <1>6, <2>1, <2>2, <2>3, <2>4, <2>5 DEF Unit, UnitSet
<1>8. PICK w : w = [x.queue EXCEPT ![1] = v]
    OBVIOUS
<1>9. /\ w \in Seq(UnitSet) /\ Len(w) = Len(x.queue) /\ DOMAIN w = DOMAIN x.queue /\ w[1] = v
      /\ \A q \in DOMAIN x.queue : q # 1 => w[q] = x.queue[q]
    BY <1>1, <1>2, <1>7, <1>8, ExceptSeq
<1>10. y = [x EXCEPT !.queue = w, !.step = "check"]
    BY <1>7, <1>8 DEF Advanced
<1>11. /\ y \in TxSet /\ y.queue = w /\ y.task = x.task /\ y.step = "check"
       /\ y.after = x.after /\ y.terminal = x.terminal
    BY <1>1, <1>9, <1>10 DEF TxSet
<1>12. Allocated(y) = Allocated(x) /\ Roots(y) = Roots(x) /\ Phases(y) = Phases(x)
    BY <1>11 DEF Allocated, Roots, Phases
<1>13. Numbered(y) /\ Space(y) /\ Tree(y) /\ OneRoot(y)
    BY <1>1, <1>11, <1>12 DEF Good, Numbered, Space, Tree, Child, OneRoot
<1>14. FailedOk(y) /\ KindOk(y)
    BY <1>1, <1>11 DEF Good, FailedOk, KindOk
<1>15. \A q \in DOMAIN w : w[q].task = x.queue[q].task
    BY <1>2, <1>7, <1>9
<1>16. QueueOk(y)
  <2>1. Begun(y, v)
      BY <1>4, <1>5, <1>6, <1>7, <1>11 DEF Begun, Unit
  <2>2. \A q \in DOMAIN w : q # 1 => Whole(y, w[q])
      BY <1>1, <1>9, <1>11 DEF Good, QueueOk, Whole
  <2>3. \A q, r \in DOMAIN w : w[q].task = w[r].task => q = r
      BY <1>1, <1>9, <1>15 DEF Good, QueueOk
  <2> QED
      BY <1>9, <1>11, <2>1, <2>2, <2>3 DEF QueueOk
<1>17. WritesOk(y, z)
    BY <1>11, <1>12 DEF OpsOk, WritesOk
<1>18. ContextOk(y, z)
  <2>1. Head(w) = v
      BY <1>2, <1>9
  <2> QED
      BY <1>7, <1>11, <2>1 DEF ContextOk
<1>19. \A q \in DOMAIN w : w[q].task \in Tasks
    BY <1>9, <1>15 DEF OpsOk
<1> QED
    BY <1>11, <1>13, <1>14, <1>16, <1>17, <1>18, <1>19 DEF OpsOk, Good

\* The tasks of an attempt, counted.
LEMMA Counted ==
  ASSUME NEW x, Good(x)
  PROVE  /\ IsFiniteSet(Allocated(x)) /\ Cardinality(Allocated(x)) \in 0..MaxTasks
         /\ Allocated(x) = 1..Cardinality(Allocated(x))
         /\ IsFiniteSet(Roots(x)) /\ Cardinality(Roots(x)) \in Nat
<1>1. PICK k \in 0..MaxTasks : Allocated(x) = 1..k
    BY DEF Good, Numbered
<1>2. IsFiniteSet(1..k) /\ Cardinality(1..k) = k
    BY FS_Interval, CommandAssumption
<1>3. Roots(x) \in SUBSET Allocated(x)
    BY DEF Roots
<1>4. IsFiniteSet(Allocated(x)) /\ Cardinality(Allocated(x)) = k
    BY <1>1, <1>2
<1>5. IsFiniteSet(Roots(x))
    BY <1>3, <1>4, FS_Subset
<1> QED
    BY <1>1, <1>4, <1>5, FS_CardinalityType

Started(x, j, t) == [x EXCEPT !.task[j] = t]

\* A task starts: an operation after the others, or a call of a hook that runs.
LEMMA NewTaskOps ==
  ASSUME NEW x, NEW s, NEW m, OpsOk(x, s, m), NEW j, j = NextTask(x),
         NEW t \in TaskSet, t.stage = "queued", t.kind \in {"phase", "read"},
         \/ /\ t.parent = Main /\ Cardinality(Roots(x)) < Ops
            /\ \A i \in Roots(x) : x.task[i].stage = "done"
         \/ /\ t.parent \in Allocated(x) /\ t.hook \in Hooks /\ Room(x)
            /\ x.task[t.parent].stage = t.hook,
         NEW y, y = Started(x, j, t)
  PROVE  /\ OpsOk(y, s, m) /\ j \in Unfinished(y) /\ j \in Tasks /\ y.task[j] = t
         /\ \A q \in DOMAIN y.queue : y.queue[q].task # j
         /\ \A i \in Unfinished(y) : y.task[i].parent # j
         /\ y.terminal = x.terminal
<1> DEFINE k == Cardinality(Allocated(x))
<1>1. x \in TxSet /\ Good(x)
    BY DEF OpsOk, Good
<1>2. /\ IsFiniteSet(Allocated(x)) /\ k \in 0..MaxTasks /\ Allocated(x) = 1..k
      /\ IsFiniteSet(Roots(x)) /\ Cardinality(Roots(x)) \in Nat
    BY <1>1, Counted
<1> HIDE DEF k
<1>3. k + Ops - Cardinality(Roots(x)) <= MaxTasks /\ Cardinality(Roots(x)) <= Ops
    BY <1>1 DEF Good, Space, k
<1>4. j = k + 1
    BY DEF NextTask, k
<1>5. j \in Tasks /\ j \notin Allocated(x)
    BY <1>2, <1>3, <1>4, CommandAssumption DEF Room, NextTask, Tasks, k
<1>6. /\ y \in TxSet /\ y.queue = x.queue /\ y.step = x.step /\ y.terminal = x.terminal
      /\ y.after = x.after /\ y.task[j] = t
      /\ \A i \in Tasks \ {j} : y.task[i] = x.task[i]
    BY <1>1, <1>5 DEF TxSet, Started
<1>7. Allocated(y) = Allocated(x) \cup {j}
    BY <1>5, <1>6 DEF Allocated
<1>8. Numbered(y)
  <2>1. j \in 0..MaxTasks
      BY <1>5, CommandAssumption DEF Tasks
  <2>2. 1..j = (1..k) \cup {j}
      BY <1>2, <1>4, CommandAssumption
  <2> QED
      BY <1>2, <1>7, <2>1, <2>2 DEF Numbered
<1>9. Roots(y) = IF t.parent = Main THEN Roots(x) \cup {j} ELSE Roots(x)
    BY <1>5, <1>6, <1>7 DEF Roots, Allocated
<1>10. Phases(y) = IF t.kind = "phase" THEN Phases(x) \cup {j} ELSE Phases(x)
    BY <1>5, <1>6, <1>7 DEF Phases, Allocated
<1>11. Space(y)
  <2>1. Cardinality(Allocated(y)) = k + 1
    <3>1. IsFiniteSet(Allocated(x))
        BY <1>2
    <3>2. Cardinality(Allocated(x) \cup {j}) = Cardinality(Allocated(x)) + 1
        BY <3>1, <1>5, FS_AddElement
    <3> QED
        BY <1>7, <3>2 DEF k
  <2>2. j \notin Roots(x)
      BY <1>5 DEF Roots
  <2>3. Cardinality(Roots(x) \cup {j}) = Cardinality(Roots(x)) + 1
      BY <1>2, <2>2, FS_AddElement
  <2>4. CASE t.parent = Main
    <3>1. Cardinality(Roots(x)) < Ops
        BY <2>4 DEF Allocated, Tasks, Main
    <3>2. Roots(y) = Roots(x) \cup {j}
        BY <1>9, <2>4
    <3>3. PICK a \in Nat : a = Cardinality(Roots(x))
        BY <1>2
    <3>4. k + 1 + Ops - (a + 1) <= MaxTasks /\ a + 1 <= Ops
        BY <1>2, <1>3, <3>1, <3>3, CommandAssumption
    <3>5. Cardinality(Roots(y)) = a + 1
        BY <2>3, <3>2, <3>3
    <3> QED
        BY <2>1, <3>4, <3>5 DEF Space
  <2>5. CASE t.parent # Main
    <3>1. j + Ops - Cardinality(Roots(x)) <= MaxTasks
        BY <2>5 DEF Room
    <3> QED
        BY <1>3, <1>4, <1>9, <2>1, <2>5, <3>1 DEF Space
  <2> QED
      BY <2>4, <2>5
<1>12. \A i \in Allocated(x) : y.task[i] = x.task[i] /\ i \in Tasks
    BY <1>5, <1>6 DEF Allocated
<1>13. Tree(y)
  <2>1. ASSUME NEW i \in Allocated(x), x.task[i].parent # Main PROVE Child(y, i)
    <3>1. Child(x, i)
        BY <1>1, <2>1 DEF Good, Tree
    <3> QED
        BY <1>7, <1>12, <3>1 DEF Child
  <2>2. t.parent = Main \/ Child(y, j)
      BY <1>2, <1>4, <1>6, <1>7, <1>12 DEF Child
  <2> QED
      BY <1>6, <1>7, <1>12, <2>1, <2>2 DEF Tree
<1>14. OneRoot(y)
  <2> SUFFICES ASSUME NEW a \in Roots(y), NEW b \in Roots(y), a # b
               PROVE  y.task[a].stage = "done" \/ y.task[b].stage = "done"
      BY DEF OneRoot
  <2>1. \A i \in Roots(x) : y.task[i] = x.task[i]
      BY <1>12 DEF Roots
  <2>2. CASE t.parent = Main
    <3>1. \A i \in Roots(x) : x.task[i].stage = "done"
        BY <2>2 DEF Allocated, Tasks, Main
    <3> QED
        BY <1>9, <2>1, <2>2, <3>1
  <2>3. CASE t.parent # Main
    <3>1. a \in Roots(x) /\ b \in Roots(x)
        BY <1>9, <2>3
    <3> QED
        BY <1>1, <2>1, <3>1 DEF Good, OneRoot
  <2> QED
      BY <2>2, <2>3
<1>15. \A q \in DOMAIN x.queue : x.queue[q].task \in Tasks /\ x.queue[q].task \in Allocated(x)
  <2> TAKE q \in DOMAIN x.queue
  <2>1. x.queue[q].task \in Tasks /\ (Whole(x, x.queue[q]) \/ Begun(x, x.queue[q]))
      BY <1>1 DEF OpsOk, Good, QueueOk
  <2>2. x.task[x.queue[q].task].stage = "queued"
      BY <2>1 DEF Whole, Begun, BeginUnit, CommitUnit, Unit, Tasks, Main
  <2> QED
      BY <2>1, <2>2 DEF Allocated
<1>16. QueueOk(y)
  <2>1. \A q \in DOMAIN x.queue : y.task[x.queue[q].task] = x.task[x.queue[q].task]
      BY <1>12, <1>15
  <2>2. \A q \in DOMAIN x.queue : /\ Whole(x, x.queue[q]) => Whole(y, x.queue[q])
                                  /\ Begun(x, x.queue[q]) => Begun(y, x.queue[q])
      BY <2>1 DEF Whole, Begun
  <2> QED
      BY <1>1, <1>6, <2>2 DEF Good, QueueOk
<1>17. FailedOk(y) /\ KindOk(y)
    BY <1>1, <1>6 DEF Good, FailedOk, KindOk, InHook
<1>18. WritesOk(y, s)
    BY <1>5, <1>6, <1>10, <1>12 DEF OpsOk, WritesOk, Phases
<1>19. ContextOk(y, s)
    BY <1>6 DEF OpsOk, ContextOk
<1>20. OpsOk(y, s, m)
    BY <1>6, <1>8, <1>11, <1>13, <1>14, <1>16, <1>17, <1>18, <1>19 DEF OpsOk, Good
<1>21. j \in Unfinished(y)
    BY <1>6, <1>7 DEF Unfinished, Finished
<1>22. \A q \in DOMAIN y.queue : y.queue[q].task # j
    BY <1>5, <1>6, <1>15
<1>23. \A i \in Unfinished(y) : y.task[i].parent # j
    BY <1>5, <1>6, <1>20, QueuedChildless DEF OpsOk
<1> QED
    BY <1>5, <1>6, <1>20, <1>21, <1>22, <1>23

\* A failure of the runtime's own closes the queue.
LEMMA Failures ==
  ASSUME NEW code \in Codes \ {"none"}
  PROVE  Failure(code) \in Terminals /\ Failure(code) # Open
BY DEF Failure, Terminal, Open, Terminals

\* A task that awaits nothing may fail with an error of the runtime's own.
LEMMA AbortedOps ==
  ASSUME NEW x, NEW s, NEW m, OpsOk(x, s, m), NEW i \in Unfinished(x), NEW code \in Codes \ {"none"},
         \A q \in DOMAIN x.queue : x.queue[q].task # i,
         \A j \in Unfinished(x) : x.task[j].parent # i,
         NEW y, y = Aborted(x, i, code)
  PROVE  OpsOk(y, s, m)
<1>1. PICK w : w = Closed(x, Failure(code))
    OBVIOUS
<1>2. /\ OpsOk(w, s, m) /\ w.terminal # Open /\ w.queue = x.queue /\ w.task = x.task
      /\ Unfinished(w) = Unfinished(x)
  <2>1. Failure(code) \in Terminals /\ Failure(code) # Open
      BY Failures
  <2> QED
      BY <1>1, <2>1, ClosedOps
<1>3. y = Staged(w, i, "failed")
    BY <1>1 DEF Aborted
<1>4. /\ i \in Unfinished(w) /\ (\A q \in DOMAIN w.queue : w.queue[q].task # i)
      /\ (\A j \in Unfinished(w) : w.task[j].parent # i)
    BY <1>2
<1>5. "failed" \in Stages \ {"free"} /\ "failed" \notin InHook
    BY DEF Stages, Finished, InHook
<1> QED
    BY <1>2, <1>3, <1>4, <1>5, StagedOps

\* The core call enters the queue, or its draft is refused.
LEMMA CallCoreOps ==
  ASSUME NEW x, NEW s, NEW m, OpsOk(x, s, m), NEW i \in Unfinished(x), x.task[i].kind = "phase",
         \A q \in DOMAIN x.queue : x.queue[q].task # i,
         \A j \in Unfinished(x) : x.task[j].parent # i,
         NEW y \in CallCore(x, i)
  PROVE  OpsOk(y, s, m)
<1>1. CASE y = Aborted(x, i, "invalid")
    BY <1>1, AbortedOps DEF Codes
<1>2. CASE y = Enqueued(Staged(x, i, "queued"), CoreUnit(i))
  <2>1. PICK w : w = Staged(x, i, "queued")
      OBVIOUS
  <2>2. "queued" \in Stages \ {"free"} /\ "queued" \notin InHook
      BY DEF Stages, Finished, InHook
  <2>3. OpsOk(w, s, m) /\ \A q \in DOMAIN w.queue : w.queue[q].task # i
      BY <2>1, <2>2, StagedOps
  <2>4. i \in Tasks /\ x \in TxSet
      BY DEF Unfinished, Allocated, OpsOk, Good
  <2>5. w.task[i].stage = "queued" /\ w.task[i].kind = "phase"
      BY <2>1, <2>2, <2>4, StagedIs
  <2>6. y = Enqueued(w, CoreUnit(i))
      BY <1>2, <2>1
  <2> QED
      BY <2>3, <2>4, <2>5, <2>6, EnqueuedOps
<1> QED
    BY <1>1, <1>2 DEF CallCore

\* A phase comes to its beforeWrite hook, or has none.
LEMMA BeforeWriteOps ==
  ASSUME NEW x, NEW s, NEW m, OpsOk(x, s, m), NEW i \in Unfinished(x), x.task[i].kind = "phase",
         \A q \in DOMAIN x.queue : x.queue[q].task # i,
         \A j \in Unfinished(x) : x.task[j].parent # i,
         NEW y \in BeforeWrite(x, i)
  PROVE  OpsOk(y, s, m)
<1>1. CASE y \in CallCore(x, i)
    BY <1>1, CallCoreOps
<1>2. CASE y = Staged(x, i, "before")
  <2>1. "before" \in Stages \ {"free"}
      BY DEF Stages, Finished, InHook
  <2> QED
      BY <1>2, <2>1, StagedOps
<1> QED
    BY <1>1, <1>2 DEF BeforeWrite

\* A phase starts, of the batch or of a hook.
LEMMA NewPhaseOps ==
  ASSUME NEW x, NEW s, NEW m, OpsOk(x, s, m), NEW j, j = NextTask(x),
         NEW p \in 0..MaxTasks, NEW h \in Hooks \cup {"none"}, NEW d \in Nat,
         \/ /\ p = Main /\ Cardinality(Roots(x)) < Ops
            /\ \A i \in Roots(x) : x.task[i].stage = "done"
         \/ p \in Allocated(x) /\ h \in Hooks /\ Room(x) /\ x.task[p].stage = h,
         NEW y \in NewPhase(x, j, p, h, d)
  PROVE  OpsOk(y, s, m)
<1>1. PICK t : t = [kind |-> "phase", parent |-> p, hook |-> h, depth |-> d, stage |-> "queued"]
    OBVIOUS
<1>2. /\ t \in TaskSet /\ t.stage = "queued" /\ t.kind = "phase" /\ t.parent = p /\ t.hook = h
    BY <1>1 DEF TaskSet, Stages
<1>3. PICK w : w = Started(x, j, t)
    OBVIOUS
<1>4. /\ OpsOk(w, s, m) /\ j \in Unfinished(w) /\ j \in Tasks /\ w.task[j] = t
      /\ \A q \in DOMAIN w.queue : w.queue[q].task # j
      /\ \A i \in Unfinished(w) : w.task[i].parent # j
  <2>1. t.kind \in {"phase", "read"}
      BY <1>2
  <2>2. \/ /\ t.parent = Main /\ Cardinality(Roots(x)) < Ops
           /\ \A i \in Roots(x) : x.task[i].stage = "done"
        \/ /\ t.parent \in Allocated(x) /\ t.hook \in Hooks /\ Room(x)
           /\ x.task[t.parent].stage = t.hook
      BY <1>2
  <2> QED
      BY <1>2, <1>3, <2>1, <2>2, NewTaskOps
<1>5. y = Enqueued(w, CheckUnit(j)) \/ y \in BeforeWrite(w, j)
    BY <1>1, <1>3 DEF NewPhase, Started
<1>6. CASE y = Enqueued(w, CheckUnit(j))
    BY <1>2, <1>4, <1>6, EnqueuedOps
<1>7. CASE y \in BeforeWrite(w, j)
    BY <1>2, <1>4, <1>7, BeforeWriteOps
<1> QED
    BY <1>5, <1>6, <1>7

\* What a task makes of the answer to its unit.
LEMMA ResolvedOps ==
  ASSUME NEW x, NEW s, NEW m, OpsOk(x, s, m), NEW u, NEW i \in Unfinished(x), u.task = i,
         \/ u.kind \in {"check", "core"} /\ x.task[i].kind = "phase"
         \/ u.kind = "read" /\ x.task[i].kind = "read",
         u.kind = "core" => i \in s.writes,
         \A q \in DOMAIN x.queue : x.queue[q].task # i,
         \A j \in Unfinished(x) : x.task[j].parent # i,
         NEW y \in Resolved(x, u)
  PROVE  OpsOk(y, s, m)
<1>1. CASE y \in {Aborted(x, i, "invalid"), Aborted(x, i, "internal")}
    BY <1>1, AbortedOps DEF Codes
<1>2. CASE u.kind = "check" /\ y \in BeforeWrite(x, i)
    BY <1>2, BeforeWriteOps
<1>3. CASE u.kind = "core" /\ y = Staged(x, i, "on")
  <2>1. "on" \in Stages \ {"free"}
      BY DEF Stages, Finished, InHook
  <2> QED
      BY <1>3, <2>1, StagedOps
<1>4. CASE u.kind \in {"core", "read"} /\ y = Staged(x, i, "done")
  <2>1. "done" \in Stages \ {"free"} /\ "done" \notin InHook
      BY DEF Stages, Finished, InHook
  <2> QED
      BY <1>4, <2>1, StagedOps
<1> QED
    BY <1>1, <1>2, <1>3, <1>4 DEF Resolved

-----------------------------------------------------------------------------
(* Steps of one command *)

\* The step is one of command c: of the others, and of the connections it does
\* not hold, nothing changes.
StepOf(c) ==
  /\ \A d \in Commands \ {c} :
       /\ pc'[d] = pc[d] /\ n'[d] = n[d] /\ conn'[d] = conn[d] /\ tx'[d] = tx[d]
       /\ stray'[d] = stray[d] /\ committed'[d] = committed[d] /\ ran'[d] = ran[d]
       /\ outcome'[d] = outcome[d] /\ Effects(d)' = Effects(d)
  /\ \A k \in Conns : k # conn[c] => srv'[k] = srv[k]

\* A command nothing of which changes keeps its part of the invariant.
LEMMA Frame ==
  ASSUME Inv, NEW d \in Commands,
         pc'[d] = pc[d], n'[d] = n[d], conn'[d] = conn[d], tx'[d] = tx[d],
         stray'[d] = stray[d], committed'[d] = committed[d], ran'[d] = ran[d],
         outcome'[d] = outcome[d], Effects(d)' = Effects(d),
         conn[d] # None => srv'[conn[d]] = srv[conn[d]]
  PROVE  CommandInv(d)'
<1>1. CommandInv(d)
    BY DEF Inv
<1>2. Shape(pc[d], conn[d], tx[d])' /\ Effect(pc[d], n[d], tx[d], Effects(d), outcome[d])'
    BY <1>1 DEF CommandInv
<1>3. Result(pc[d], n[d], tx[d], committed[d], ran[d], outcome[d], stray[d])'
    BY <1>1 DEF CommandInv
<1>4. Server(pc[d], tx[d], srv[conn[d]])'
  <2>1. CASE conn[d] # None
      BY <1>1, <2>1 DEF CommandInv
  <2>2. CASE conn[d] = None
    <3>1. pc[d] \in Idle
        BY <1>1, <2>2 DEF CommandInv, Shape
    <3> QED
        BY <3>1 DEF Server, Idle
  <2> QED
      BY <2>1, <2>2
<1> QED
    BY <1>2, <1>3, <1>4 DEF CommandInv

\* So a step of c has only c's part, the pool and the types to keep.
LEMMA StepKeeps ==
  ASSUME Inv, NEW c \in Commands, StepOf(c), State', CommandInv(c)', PoolInv'
  PROVE  Inv'
<1>1. ASSUME NEW d \in Commands \ {c} PROVE CommandInv(d)'
  <2>1. conn[d] # None => conn[d] # conn[c] /\ conn[d] \in Conns
      BY DEF Inv, PoolInv, State
  <2> QED
      BY <2>1, Frame DEF StepOf
<1> QED
    BY <1>1 DEF Inv

\* A step that keeps its connection keeps the pool.
LEMMA PoolKept ==
  ASSUME Inv, NEW c \in Commands, StepOf(c), conn' = conn
  PROVE  PoolInv'
<1>1. PoolInv
    BY DEF Inv
<1>2. ASSUME NEW k \in Conns, \A d \in Commands : conn[d] # k PROVE srv'[k].txn = "idle"
    BY <1>1, <1>2 DEF PoolInv, StepOf
<1> QED
    BY <1>1, <1>2 DEF PoolInv

\* What holds of a command whose operations run.
LEMMA OpsRun ==
  ASSUME Inv, NEW c \in Commands, pc[c] = "ops"
  PROVE  /\ OpsOk(tx[c], srv[conn[c]], n[c]) /\ Effects(c) = {} /\ conn[c] \in Conns
         /\ outcome[c] = "none" /\ n[c] \in Nat
<1>1. CommandInv(c) /\ State
    BY DEF Inv
<1>2. Good(tx[c]) /\ (\A q \in DOMAIN tx[c].queue : tx[c].queue[q].task \in Tasks)
      /\ (tx[c].queue = <<>> => tx[c].step = "check") /\ conn[c] # None
    BY <1>1 DEF CommandInv, Shape, Idle
<1>3. WritesOk(tx[c], srv[conn[c]]) /\ ContextOk(tx[c], srv[conn[c]])
    BY <1>1 DEF CommandInv, Server
<1>4. Effects(c) = {}
    BY <1>1 DEF CommandInv, Effect
<1>5. outcome[c] = "none" /\ \A i \in DOMAIN tx[c].after : tx[c].after[i] = n[c]
    BY <1>1 DEF CommandInv, Result
<1> QED
    BY <1>1, <1>2, <1>3, <1>4, <1>5 DEF OpsOk, State

\* A step of the code of the attempt keeps the invariant, if the object stays good.
LEMMA LocalKeeps ==
  ASSUME Inv, NEW c \in Commands, pc[c] = "ops", NEW y, Local(c, y),
         OpsOk(y, srv[conn[c]], n[c])
  PROVE  Inv'
<1>1. /\ State /\ CommandInv(c) /\ Effects(c) = {} /\ outcome[c] = "none"
    BY OpsRun DEF Inv
<1>2. /\ pc' = pc /\ n' = n /\ conn' = conn /\ srv' = srv /\ stray' = stray /\ orphan' = orphan
      /\ committed' = committed /\ ran' = ran /\ outcome' = outcome
    BY DEF Local, call
<1>3. tx' \in [Commands -> TxSet] /\ tx'[c] = y /\ \A d \in Commands \ {c} : tx'[d] = tx[d]
    BY <1>1 DEF Local, State, OpsOk, Good
<1>4. \A d : Effects(d)' = Effects(d)
    BY <1>2 DEF Effects
<1>5. StepOf(c) /\ State'
    BY <1>1, <1>2, <1>3, <1>4 DEF StepOf, State
<1>6. Shape(pc[c], conn[c], tx[c])'
    BY <1>1, <1>2, <1>3 DEF CommandInv, Shape, OpsOk
<1>7. Server(pc[c], tx[c], srv[conn[c]])'
    BY <1>2, <1>3 DEF Server, OpsOk
<1>8. Effect(pc[c], n[c], tx[c], Effects(c), outcome[c])'
    BY <1>1, <1>4 DEF Effect
<1>9. Result(pc[c], n[c], tx[c], committed[c], ran[c], outcome[c], stray[c])'
    BY <1>1, <1>2, <1>3 DEF CommandInv, Result, OpsOk
<1> QED
    BY <1>2, <1>5, <1>6, <1>7, <1>8, <1>9, PoolKept, StepKeeps DEF CommandInv

\* A hook that runs is one of an operation that runs, and its task awaits nothing.
LEMMA LiveRuns ==
  ASSUME Inv, NEW c \in Commands, NEW i \in Tasks, tx[c].task[i].stage \in InHook
  PROVE  /\ pc[c] = "ops" /\ i \in Unfinished(tx[c]) /\ tx[c].task[i].kind = "phase"
         /\ \A q \in DOMAIN tx[c].queue : tx[c].queue[q].task # i
<1>1. CommandInv(c)
    BY DEF Inv
<1>2. i \in Unfinished(tx[c])
    BY DEF Unfinished, Allocated, InHook, Finished
<1>3. Good(tx[c]) /\ pc[c] = "ops"
    BY <1>1, <1>2 DEF CommandInv, Shape
<1>4. \A q \in DOMAIN tx[c].queue : tx[c].queue[q].task # i
  <2> SUFFICES ASSUME NEW q \in DOMAIN tx[c].queue, tx[c].queue[q].task = i PROVE FALSE
      OBVIOUS
  <2>1. tx[c].task[i].stage = "queued"
      BY <1>2, <1>3, UnitQueued DEF Good, Unfinished, Allocated
  <2> QED
      BY <2>1 DEF InHook
<1> QED
    BY <1>2, <1>3, <1>4 DEF Good, KindOk

\* StartOp keeps the invariant.
LEMMA StartOpKeeps ==
  ASSUME Inv, NEW c \in Commands, StartOp(c)
  PROVE  Inv'
<1>1. pc[c] = "ops"
    BY DEF StartOp
<1>2. PICK y \in NewPhase(tx[c], NextTask(tx[c]), Main, "none", 0) : Local(c, y)
    BY DEF StartOp
<1>3. OpsOk(tx[c], srv[conn[c]], n[c])
    BY <1>1, OpsRun
<1>4. Main \in 0..MaxTasks /\ "none" \in Hooks \cup {"none"} /\ 0 \in Nat
    BY CommandAssumption DEF Main
<1>5. /\ Cardinality(Roots(tx[c])) < Ops
      /\ \A i \in Roots(tx[c]) : tx[c].task[i].stage = "done"
    BY DEF StartOp
<1>6. OpsOk(y, srv[conn[c]], n[c])
    BY <1>2, <1>3, <1>4, <1>5, NewPhaseOps
<1> QED
    BY <1>1, <1>2, <1>6, LocalKeeps

\* CtxRun keeps the invariant.
LEMMA CtxRunKeeps ==
  ASSUME Inv, NEW c \in Commands, NEW i \in Tasks, CtxRun(c, i)
  PROVE  Inv'
<1>1. PICK x, t, s : x = tx[c] /\ t = x.task[i] /\ s = srv[conn[c]]
    OBVIOUS
<1>2. t.stage \in Hooks /\ x.terminal = Open
    BY <1>1 DEF CtxRun, Live, Hooks
<1>3. pc[c] = "ops" /\ i \in Unfinished(x)
    BY <1>1, <1>2, LiveRuns DEF InHook, Hooks
<1>4. OpsOk(x, s, n[c]) /\ x \in TxSet /\ t.depth \in Nat
    BY <1>1, <1>3, OpsRun DEF OpsOk, Good, TxSet, TaskSet
<1>5. PICK w : w = [x EXCEPT !.nested = IF t.depth + 1 > MaxDepth THEN @ ELSE @ + 1]
    OBVIOUS
<1>6. /\ w \in TxSet /\ w.queue = x.queue /\ w.task = x.task /\ w.step = x.step /\ w.after = x.after
      /\ w.terminal = x.terminal
  <2>1. x.nested \in Nat /\ t.depth + 1 \in Nat
      BY <1>4 DEF TxSet
  <2>2. PICK k \in Nat : w = [x EXCEPT !.nested = k]
      BY <1>5, <2>1
  <2> QED
      BY <1>4, <2>2 DEF TxSet
<1>7. OpsOk(w, s, n[c])
  <2>1. (w.queue = <<>> => w.step = "check") /\ \A q \in DOMAIN w.after : w.after[q] = n[c]
      BY <1>4, <1>6 DEF OpsOk
  <2> QED
      BY <1>4, <1>6, <2>1, OtherOps
<1>8. Allocated(w) = Allocated(x) /\ Roots(w) = Roots(x)
    BY <1>6 DEF Allocated, Roots
<1>9. \/ Local(c, Closed(w, Failure("depth")))
      \/ Room(x) /\ \E y \in NewPhase(w, NextTask(x), i, t.stage, t.depth + 1) : Local(c, y)
    BY <1>1, <1>5 DEF CtxRun
<1>10. CASE Local(c, Closed(w, Failure("depth")))
  <2>1. PICK y : y = Closed(w, Failure("depth"))
      OBVIOUS
  <2>2. Failure("depth") \in Terminals /\ Failure("depth") # Open
      BY Failures DEF Codes
  <2>3. OpsOk(y, s, n[c])
      BY <1>7, <2>1, <2>2, ClosedOps
  <2> QED
      BY <1>1, <1>3, <1>10, <2>1, <2>3, LocalKeeps
<1>11. CASE Room(x) /\ \E y \in NewPhase(w, NextTask(x), i, t.stage, t.depth + 1) : Local(c, y)
  <2>1. PICK y \in NewPhase(w, NextTask(x), i, t.stage, t.depth + 1) : Local(c, y)
      BY <1>11
  <2>2. NextTask(w) = NextTask(x) /\ Room(w)
      BY <1>8, <1>11 DEF NextTask, Room
  <2>3. i \in 0..MaxTasks /\ i \in Allocated(w) /\ w.task[i].stage = t.stage /\ t.depth + 1 \in Nat
      BY <1>1, <1>3, <1>4, <1>6, <1>8, CommandAssumption DEF Tasks, Unfinished
  <2>4. t.stage \in Hooks \cup {"none"}
      BY <1>2
  <2>5. OpsOk(y, s, n[c])
      BY <1>2, <1>7, <2>1, <2>2, <2>3, <2>4, NewPhaseOps
  <2> QED
      BY <1>1, <1>3, <2>1, <2>5, LocalKeeps
<1> QED
    BY <1>9, <1>10, <1>11

\* CtxRead keeps the invariant.
LEMMA CtxReadKeeps ==
  ASSUME Inv, NEW c \in Commands, NEW i \in Tasks, CtxRead(c, i)
  PROVE  Inv'
<1>1. PICK x, s, j : x = tx[c] /\ s = srv[conn[c]] /\ j = NextTask(x)
    OBVIOUS
<1>2. x.task[i].stage \in Hooks /\ Room(x)
    BY <1>1 DEF CtxRead, Live, Hooks
<1>3. pc[c] = "ops" /\ i \in Unfinished(x)
    BY <1>1, <1>2, LiveRuns DEF InHook, Hooks
<1>4. OpsOk(x, s, n[c]) /\ x \in TxSet /\ x.task[i].depth \in Nat /\ i \in Allocated(x)
    BY <1>1, <1>3, OpsRun DEF OpsOk, Good, TxSet, TaskSet, Unfinished
<1>5. PICK t : t = [kind |-> "read", parent |-> i, hook |-> x.task[i].stage,
                    depth |-> x.task[i].depth, stage |-> "queued"]
    OBVIOUS
<1>6. /\ t \in TaskSet /\ t.stage = "queued" /\ t.kind = "read" /\ t.parent = i
      /\ t.hook = x.task[i].stage
    BY <1>2, <1>4, <1>5, CommandAssumption DEF TaskSet, Stages, Tasks
<1>7. PICK w : w = Started(x, j, t)
    OBVIOUS
<1>8. /\ OpsOk(w, s, n[c]) /\ j \in Unfinished(w) /\ j \in Tasks /\ w.task[j] = t
      /\ \A q \in DOMAIN w.queue : w.queue[q].task # j
      /\ \A k \in Unfinished(w) : w.task[k].parent # j
  <2>1. t.kind \in {"phase", "read"} /\ t.hook \in Hooks /\ t.parent \in Allocated(x)
        /\ x.task[t.parent].stage = t.hook
      BY <1>2, <1>4, <1>6
  <2> QED
      BY <1>1, <1>2, <1>4, <1>6, <1>7, <2>1, NewTaskOps
<1>9. PICK y \in {Enqueued(w, ReadUnit(j)), Aborted(w, j, "invalid")} : Local(c, y)
    BY <1>1, <1>5, <1>7 DEF CtxRead, Started
<1>10. OpsOk(y, s, n[c])
  <2>1. CASE y = Enqueued(w, ReadUnit(j))
      BY <1>6, <1>8, <2>1, EnqueuedOps
  <2>2. CASE y = Aborted(w, j, "invalid")
      BY <1>8, <2>2, AbortedOps DEF Codes
  <2> QED
      BY <1>9, <2>1, <2>2
<1> QED
    BY <1>1, <1>3, <1>9, <1>10, LocalKeeps

\* CtxReject keeps the invariant.
LEMMA CtxRejectKeeps ==
  ASSUME Inv, NEW c \in Commands, NEW i \in Tasks, CtxReject(c, i)
  PROVE  Inv'
<1>1. pc[c] = "ops"
    BY LiveRuns DEF CtxReject, Live, InHook
<1>2. PICK y : y = Closed(tx[c], Failure("rejected"))
    OBVIOUS
<1>3. Failure("rejected") \in Terminals /\ Failure("rejected") # Open
    BY Failures DEF Codes
<1>4. OpsOk(y, srv[conn[c]], n[c])
    BY <1>1, <1>2, <1>3, OpsRun, ClosedOps
<1> QED
    BY <1>1, <1>2, <1>4, LocalKeeps DEF CtxReject

\* CtxAfterCommit keeps the invariant.
LEMMA CtxAfterCommitKeeps ==
  ASSUME Inv, NEW c \in Commands, NEW i \in Tasks, CtxAfterCommit(c, i)
  PROVE  Inv'
<1>1. PICK x, s, m : x = tx[c] /\ s = srv[conn[c]] /\ m = n[c]
    OBVIOUS
<1>2. pc[c] = "ops"
    BY LiveRuns DEF CtxAfterCommit, Live, InHook
<1>3. OpsOk(x, s, m) /\ x \in TxSet /\ x.after \in Seq(Nat) /\ m \in Nat
    BY <1>1, <1>2, OpsRun DEF OpsOk, Good, TxSet
<1>4. PICK v \in Seq(Nat) : v = Append(x.after, m)
    BY <1>3, AppendProperties
<1>5. PICK y : y = [x EXCEPT !.after = v]
    OBVIOUS
<1>6. /\ y \in TxSet /\ y.queue = x.queue /\ y.task = x.task /\ y.step = x.step /\ y.after = v
      /\ y.terminal = x.terminal
    BY <1>3, <1>4, <1>5 DEF TxSet
<1>7. \A q \in DOMAIN v : v[q] = m
  <2>1. PICK u \in Seq(Nat) : u = x.after
      BY <1>3
  <2>2. \A q \in DOMAIN u : u[q] = m
      BY <1>3, <2>1 DEF OpsOk
  <2>3. v = Append(u, m)
      BY <1>4, <2>1
  <2> QED
      BY <1>3, <2>2, <2>3, AppendProperties
<1>8. OpsOk(y, s, m)
  <2>1. (y.queue = <<>> => y.step = "check") /\ \A q \in DOMAIN y.after : y.after[q] = m
      BY <1>3, <1>6, <1>7 DEF OpsOk
  <2> QED
      BY <1>3, <1>6, <2>1, OtherOps
<1> QED
    BY <1>1, <1>2, <1>4, <1>5, <1>8, LocalKeeps DEF CtxAfterCommit

\* The end of a hook: its task waits for the calls it has started.
LEMMA EndingOps ==
  ASSUME NEW x, NEW s, NEW m, OpsOk(x, s, m), NEW i \in Unfinished(x), x.task[i].kind = "phase",
         x.task[i].stage \in Hooks, \A q \in DOMAIN x.queue : x.queue[q].task # i,
         NEW y, y = Staged(x, i, Ending(x.task[i].stage))
  PROVE  OpsOk(y, s, m)
<1>1. PICK z : z = Ending(x.task[i].stage)
    OBVIOUS
<1>2. z \in Stages \ {"free"} /\ z # "failed" /\ (z = "onEnd" => x.task[i].stage = "on")
      /\ z \in {"beforeEnd", "onEnd"}
    BY <1>1 DEF Ending, Hooks, Stages, InHook, Finished
<1>3. z \in {"on", "onEnd", "done"} => i \in s.writes
  <2>1. i \in Phases(x)
      BY DEF Phases, Unfinished
  <2> QED
      BY <1>2, <2>1 DEF OpsOk, WritesOk
<1> QED
    BY <1>1, <1>2, <1>3, StagedOps

\* HookReturns keeps the invariant.
LEMMA HookReturnsKeeps ==
  ASSUME Inv, NEW c \in Commands, NEW i \in Tasks, HookReturns(c, i)
  PROVE  Inv'
<1>1. tx[c].task[i].stage \in Hooks
    BY DEF HookReturns, Live, Hooks
<1>2. /\ pc[c] = "ops" /\ i \in Unfinished(tx[c]) /\ tx[c].task[i].kind = "phase"
      /\ \A q \in DOMAIN tx[c].queue : tx[c].queue[q].task # i
    BY <1>1, LiveRuns DEF Hooks, InHook
<1>3. PICK y : y = Staged(tx[c], i, Ending(tx[c].task[i].stage))
    OBVIOUS
<1>4. OpsOk(y, srv[conn[c]], n[c])
    BY <1>1, <1>2, <1>3, OpsRun, EndingOps
<1> QED
    BY <1>2, <1>3, <1>4, LocalKeeps DEF HookReturns

\* HookThrows keeps the invariant.
LEMMA HookThrowsKeeps ==
  ASSUME Inv, NEW c \in Commands, NEW i \in Tasks, HookThrows(c, i)
  PROVE  Inv'
<1>1. PICK x, s, m : x = tx[c] /\ s = srv[conn[c]] /\ m = n[c]
    OBVIOUS
<1>2. x.task[i].stage \in Hooks
    BY <1>1 DEF HookThrows, Live, Hooks
<1>3. /\ pc[c] = "ops" /\ i \in Unfinished(x) /\ x.task[i].kind = "phase"
      /\ \A q \in DOMAIN x.queue : x.queue[q].task # i
    BY <1>1, <1>2, LiveRuns DEF Hooks, InHook
<1>4. PICK w : w = Closed(x, Failure("internal"))
    OBVIOUS
<1>5. Failure("internal") \in Terminals /\ Failure("internal") # Open
    BY Failures DEF Codes
<1>6. OpsOk(w, s, m) /\ w.queue = x.queue /\ w.task = x.task /\ Unfinished(w) = Unfinished(x)
    BY <1>1, <1>3, <1>4, <1>5, OpsRun, ClosedOps
<1>7. PICK y : y = Staged(w, i, Ending(w.task[i].stage))
    OBVIOUS
<1>8. OpsOk(y, s, m)
    BY <1>2, <1>3, <1>6, <1>7, EndingOps
<1>9. Local(c, y)
    BY <1>1, <1>4, <1>6, <1>7 DEF HookThrows
<1> QED
    BY <1>1, <1>3, <1>8, <1>9, LocalKeeps

\* HookSettled keeps the invariant: the calls of the hook have all finished.
LEMMA HookSettledKeeps ==
  ASSUME Inv, NEW c \in Commands, NEW i \in Tasks, HookSettled(c, i)
  PROVE  Inv'
<1>1. PICK x, s, m : x = tx[c] /\ s = srv[conn[c]] /\ m = n[c]
    OBVIOUS
<1>2. /\ \/ x.task[i].stage = "beforeEnd" /\ Pending(x, i, "before") = {}
         \/ x.task[i].stage = "onEnd" /\ Pending(x, i, "on") = {}
      /\ \/ x.terminal # Open /\ Local(c, Staged(x, i, "failed"))
         \/ x.task[i].stage = "onEnd" /\ Local(c, Staged(x, i, "done"))
         \/ \E y \in CallCore(x, i) : Local(c, y)
    BY <1>1 DEF HookSettled
<1>3. /\ pc[c] = "ops" /\ i \in Unfinished(x) /\ x.task[i].kind = "phase"
      /\ \A q \in DOMAIN x.queue : x.queue[q].task # i
    BY <1>1, <1>2, LiveRuns DEF InHook
<1>4. OpsOk(x, s, m)
    BY <1>1, <1>3, OpsRun
<1>5. \A j \in Unfinished(x) : x.task[j].parent # i
  <2> SUFFICES ASSUME NEW j \in Unfinished(x), x.task[j].parent = i PROVE FALSE
      OBVIOUS
  <2>1. j \in Allocated(x) /\ x.task[j].stage \notin Finished /\ i # Main
      BY DEF Unfinished, Tasks, Main
  <2>2. Child(x, j)
      BY <1>4, <2>1 DEF OpsOk, Good, Tree
  <2>3. x.task[j].hook \in Hooks /\ x.task[i].stage \in {x.task[j].hook, Ending(x.task[j].hook)}
      BY <2>1, <2>2 DEF Child
  <2>4. j \in Pending(x, i, x.task[j].hook)
      BY <2>1 DEF Pending
  <2> QED
      BY <1>2, <2>3, <2>4 DEF Hooks, Ending
<1>6. CASE x.terminal # Open /\ Local(c, Staged(x, i, "failed"))
  <2>1. PICK y : y = Staged(x, i, "failed")
      OBVIOUS
  <2>2. "failed" \in Stages \ {"free"} /\ "failed" \notin InHook
      BY DEF Stages, Finished, InHook
  <2>3. OpsOk(y, s, m)
      BY <1>3, <1>4, <1>5, <1>6, <2>1, <2>2, StagedOps
  <2> QED
      BY <1>1, <1>3, <1>6, <2>1, <2>3, LocalKeeps
<1>7. CASE x.task[i].stage = "onEnd" /\ Local(c, Staged(x, i, "done"))
  <2>1. PICK y : y = Staged(x, i, "done")
      OBVIOUS
  <2>2. "done" \in Stages \ {"free"} /\ "done" \notin InHook
      BY DEF Stages, Finished, InHook
  <2>3. i \in s.writes
      BY <1>3, <1>4, <1>7 DEF OpsOk, WritesOk, Phases, Unfinished
  <2>4. OpsOk(y, s, m)
      BY <1>3, <1>4, <1>5, <2>1, <2>2, <2>3, StagedOps
  <2> QED
      BY <1>1, <1>3, <1>7, <2>1, <2>4, LocalKeeps
<1>8. CASE \E y \in CallCore(x, i) : Local(c, y)
  <2>1. PICK y \in CallCore(x, i) : Local(c, y)
      BY <1>8
  <2>2. OpsOk(y, s, m)
      BY <1>3, <1>4, <1>5, <2>1, CallCoreOps
  <2> QED
      BY <1>1, <1>3, <2>1, <2>2, LocalKeeps
<1> QED
    BY <1>2, <1>6, <1>7, <1>8

\* HookSchedules keeps the invariant.
LEMMA HookSchedulesKeeps ==
  ASSUME Inv, NEW c \in Commands, NEW i \in Tasks, HookSchedules(c, i)
  PROVE  Inv'
<1>1. State /\ CommandInv(c)
    BY DEF Inv
<1>2. /\ pc' = pc /\ n' = n /\ conn' = conn /\ tx' = tx /\ srv' = srv /\ orphan' = orphan
      /\ committed' = committed /\ ran' = ran /\ outcome' = outcome
    BY DEF HookSchedules, call
<1>3. /\ stray' \in [Commands -> SUBSET Nat] /\ \A d \in Commands \ {c} : stray'[d] = stray[d]
    BY <1>1 DEF HookSchedules, State
<1>4. \A d : Effects(d)' = Effects(d)
    BY <1>2 DEF Effects
<1>5. StepOf(c) /\ State'
    BY <1>1, <1>2, <1>3, <1>4 DEF StepOf, State
<1>6. MaxStrays # 0
  <2> SUFFICES ASSUME MaxStrays = 0 PROVE FALSE
      OBVIOUS
  <2>1. stray[c] = {} /\ Cardinality(stray[c]) < 0
      BY <1>1 DEF CommandInv, Result, HookSchedules
  <2>2. Cardinality({}) = 0
      BY FS_EmptySet
  <2> QED
      BY <2>1, <2>2
<1>7. CommandInv(c)'
    BY <1>1, <1>2, <1>4, <1>6 DEF CommandInv, Result
<1> QED
    BY <1>2, <1>5, <1>7, PoolKept, StepKeeps

\* The tasks, and with them what is good, depend on neither the queue nor the flags.
LEMMA SameTasks ==
  ASSUME NEW x, Good(x), NEW y \in TxSet, y.task = x.task, QueueOk(y),
         y.terminal = x.terminal \/ y.terminal # Open
  PROVE  /\ Good(y) /\ Allocated(y) = Allocated(x) /\ Roots(y) = Roots(x) /\ Phases(y) = Phases(x)
         /\ Unfinished(y) = Unfinished(x) /\ (AllDone(x) => AllDone(y))
<1>1. Allocated(y) = Allocated(x) /\ Roots(y) = Roots(x) /\ Phases(y) = Phases(x)
    BY DEF Allocated, Roots, Phases
<1>2. Numbered(y) /\ Space(y) /\ Tree(y) /\ OneRoot(y)
    BY <1>1 DEF Good, Numbered, Space, Tree, Child, OneRoot
<1>3. FailedOk(y) /\ KindOk(y)
    BY DEF Good, FailedOk, KindOk
<1> QED
    BY <1>1, <1>2, <1>3 DEF Good, Unfinished, AllDone

\* The first failure closes the queue, wherever the command is.
LEMMA ClosedGood ==
  ASSUME NEW x, Good(x), NEW t \in Terminals, t # Open, NEW y, y = Closed(x, t)
  PROVE  /\ Good(y) /\ Allocated(y) = Allocated(x) /\ Phases(y) = Phases(x)
         /\ Unfinished(y) = Unfinished(x) /\ (AllDone(x) => AllDone(y))
         /\ y.queue = x.queue /\ y.task = x.task /\ y.step = x.step /\ y.after = x.after
         /\ y.commitSent = x.commitSent /\ y.terminal # Open
         /\ y.terminal = IF x.terminal = Open THEN t ELSE x.terminal
<1>1. x \in TxSet
    BY DEF Good
<1>2. /\ y \in TxSet /\ y.queue = x.queue /\ y.task = x.task /\ y.step = x.step /\ y.after = x.after
      /\ y.commitSent = x.commitSent /\ y.terminal # Open
      /\ y.terminal = IF x.terminal = Open THEN t ELSE x.terminal
    BY <1>1 DEF Closed, TxSet
<1>3. QueueOk(y)
    BY <1>2, SameQueue DEF Good
<1> QED
    BY <1>2, <1>3, SameTasks

\* StrayActs keeps the invariant: it may close an attempt, never reopen one.
LEMMA StrayActsKeeps ==
  ASSUME Inv, NEW c \in Commands, NEW a \in 1..MaxAttempts, StrayActs(c, a)
  PROVE  Inv'
<1>1. State /\ CommandInv(c)
    BY DEF Inv
<1>2. /\ pc' = pc /\ n' = n /\ conn' = conn /\ srv' = srv /\ orphan' = orphan
      /\ committed' = committed /\ ran' = ran /\ outcome' = outcome
    BY DEF StrayActs, call
<1>3. /\ stray' \in [Commands -> SUBSET Nat] /\ \A d \in Commands \ {c} : stray'[d] = stray[d]
    BY <1>1 DEF StrayActs, State
<1>4. \A d : Effects(d)' = Effects(d)
    BY <1>2 DEF Effects
<1>5. MaxStrays # 0
    BY <1>1 DEF StrayActs, CommandInv, Result
<1>6. PICK x, y : x = tx[c] /\ y = Closed(x, Failure("internal"))
    OBVIOUS
<1>7. Good(x)
    BY <1>1, <1>6 DEF CommandInv, Shape
<1>8. Failure("internal") \in Terminals /\ Failure("internal") # Open
    BY Failures DEF Codes
<1>9. /\ Good(y) /\ Allocated(y) = Allocated(x) /\ Phases(y) = Phases(x)
      /\ Unfinished(y) = Unfinished(x) /\ (AllDone(x) => AllDone(y))
      /\ y.queue = x.queue /\ y.task = x.task /\ y.step = x.step /\ y.after = x.after
      /\ y.commitSent = x.commitSent
      /\ y.terminal = IF x.terminal = Open THEN Failure("internal") ELSE x.terminal
    BY <1>6, <1>7, <1>8, ClosedGood
<1>10. CASE tx' = tx
  <2>1. StepOf(c) /\ State'
      BY <1>1, <1>2, <1>3, <1>4, <1>10 DEF StepOf, State
  <2>2. CommandInv(c)'
      BY <1>1, <1>2, <1>4, <1>5, <1>10 DEF CommandInv, Result
  <2> QED
      BY <1>2, <2>1, <2>2, PoolKept, StepKeeps
<1>11. CASE pc[c] \notin {"after", "done"} /\ tx' = [tx EXCEPT ![c] = y]
  <2>1. tx' \in [Commands -> TxSet] /\ tx'[c] = y /\ \A d \in Commands \ {c} : tx'[d] = tx[d]
      BY <1>1, <1>9, <1>11 DEF State, Good
  <2>2. StepOf(c) /\ State'
      BY <1>1, <1>2, <1>3, <1>4, <2>1 DEF StepOf, State
  <2>3. Shape(pc[c], conn[c], y)
    <3>1. Shape(pc[c], conn[c], x)
        BY <1>1, <1>6 DEF CommandInv
    <3>2. Failure("internal") \in {Failure(code) : code \in Late}
        BY <1>5 DEF Late
    <3> QED
        BY <1>9, <3>1, <3>2 DEF Shape
  <2>4. Server(pc[c], y, srv[conn[c]])
      BY <1>1, <1>6, <1>9 DEF CommandInv, Server, WritesOk, ContextOk
  <2>5. Effect(pc[c], n[c], y, Effects(c), outcome[c])
    <3> SUFFICES ASSUME NEW r \in Effects(c)
                 PROVE  /\ r = [n |-> n[c], writes |-> Phases(y)] /\ AllDone(y)
                        /\ pc[c] \in {"after", "done", "failing", "ended"}
                        /\ pc[c] \in {"failing", "ended"} =>
                             y.terminal.retry = "no" /\ y.terminal.code \in {"unavailable"} \cup Late
                        /\ outcome[c] \in {"none", "ok", "unavailable"} \cup Late
        BY DEF Effect
    <3>1. /\ r = [n |-> n[c], writes |-> Phases(x)] /\ AllDone(x)
          /\ pc[c] \in {"failing", "ended"}
          /\ x.terminal.retry = "no" /\ x.terminal.code \in {"unavailable"} \cup Late
          /\ outcome[c] \in {"none", "ok", "unavailable"} \cup Late
        BY <1>1, <1>6, <1>11 DEF CommandInv, Effect
    <3>2. x.terminal # Open
        BY <3>1 DEF Open, Terminal, Late
    <3> QED
        BY <1>9, <3>1, <3>2
  <2>6. Result(pc[c], n[c], y, committed[c], ran[c], outcome[c], stray'[c])
      BY <1>1, <1>5, <1>6, <1>9 DEF CommandInv, Result
  <2>7. CommandInv(c)'
      BY <1>2, <1>4, <2>1, <2>3, <2>4, <2>5, <2>6 DEF CommandInv
  <2> QED
      BY <1>2, <2>2, <2>7, PoolKept, StepKeeps
<1> QED
    BY <1>6, <1>10, <1>11 DEF StrayActs

\* Where a unit may run.
LEMMA UnitRuns ==
  ASSUME Inv, NEW c \in Commands, tx[c].queue # <<>>
  PROVE  /\ pc[c] \in {"begin", "commit", "ops"} /\ conn[c] \in Conns /\ Effects(c) = {}
         /\ outcome[c] = "none" /\ Good(tx[c]) /\ tx[c] \in TxSet /\ n[c] \in Nat
         /\ \A i \in DOMAIN tx[c].after : tx[c].after[i] = n[c]
         /\ committed[c] = {} /\ srv[conn[c]] \in SrvSet
<1>1. State /\ CommandInv(c)
    BY DEF Inv
<1>2. pc[c] \in {"begin", "commit", "ops"} /\ conn[c] # None /\ Good(tx[c])
    BY <1>1 DEF CommandInv, Shape, Idle
<1>3. Effects(c) = {}
    BY <1>1, <1>2 DEF CommandInv, Effect
<1>4. outcome[c] = "none" /\ \A i \in DOMAIN tx[c].after : tx[c].after[i] = n[c]
    BY <1>1, <1>2 DEF CommandInv, Result
<1> QED
    BY <1>1, <1>2, <1>3, <1>4 DEF State, Good, Effects

\* A unit is on its way only while there is one.
LEMMA SentRuns ==
  ASSUME Inv, NEW c \in Commands, tx[c].step # "check"
  PROVE  tx[c].queue # <<>>
BY DEF Inv, CommandInv, Shape

\* What changes of the object while its unit runs on.
LEMMA UnitKeeps ==
  ASSUME Inv, NEW c \in Commands, tx[c].queue # <<>>, NEW y \in TxSet,
         tx' = [tx EXCEPT ![c] = y], UNCHANGED <<call, srv, stray, orphan, committed, ran, outcome>>,
         y.task = tx[c].task, y.queue = tx[c].queue, y.after = tx[c].after,
         y.terminal = tx[c].terminal,
         pc[c] = "commit" /\ y.step # "check" =>
           AllDone(tx[c]) /\ y.terminal \in {Open} \cup {Failure(code) : code \in Late},
         pc[c] = "commit" /\ y.step = "sent" => y.commitSent
  PROVE  Inv'
<1>1. State /\ CommandInv(c)
    BY DEF Inv
<1>2. /\ pc' = pc /\ n' = n /\ conn' = conn /\ srv' = srv /\ stray' = stray /\ orphan' = orphan
      /\ committed' = committed /\ ran' = ran /\ outcome' = outcome
    BY DEF call
<1>3. /\ pc[c] \in {"begin", "commit", "ops"} /\ Effects(c) = {} /\ Good(tx[c])
    BY UnitRuns
<1>4. tx' \in [Commands -> TxSet] /\ tx'[c] = y /\ \A d \in Commands \ {c} : tx'[d] = tx[d]
    BY <1>1 DEF State
<1>5. \A d : Effects(d)' = Effects(d)
    BY <1>2 DEF Effects
<1>6. StepOf(c) /\ State'
    BY <1>1, <1>2, <1>4, <1>5 DEF StepOf, State
<1>7. QueueOk(y)
    BY <1>3, SameQueue DEF Good
<1>8. /\ Good(y) /\ Allocated(y) = Allocated(tx[c]) /\ Phases(y) = Phases(tx[c])
      /\ Unfinished(y) = Unfinished(tx[c]) /\ (AllDone(tx[c]) => AllDone(y))
    BY <1>3, <1>7, SameTasks
<1>9. Shape(pc[c], conn[c], y)
    BY <1>1, <1>8 DEF CommandInv, Shape
<1>10. Server(pc[c], y, srv[conn[c]])
    BY <1>1, <1>8 DEF CommandInv, Server, WritesOk, ContextOk
<1>11. Effect(pc[c], n[c], y, Effects(c), outcome[c])
    BY <1>3 DEF Effect
<1>12. Result(pc[c], n[c], y, committed[c], ran[c], outcome[c], stray[c])
    BY <1>1 DEF CommandInv, Result
<1>13. CommandInv(c)'
    BY <1>2, <1>4, <1>5, <1>9, <1>10, <1>11, <1>12 DEF CommandInv
<1> QED
    BY <1>2, <1>6, <1>13, PoolKept, StepKeeps

\* A step of the operations that may change the session too.
LEMMA OpsKeeps ==
  ASSUME Inv, NEW c \in Commands, pc[c] = "ops", NEW y, NEW z \in SrvSet,
         tx' = [tx EXCEPT ![c] = y], srv' = [srv EXCEPT ![conn[c]] = z],
         UNCHANGED <<call, stray, orphan, committed, ran, outcome>>, OpsOk(y, z, n[c])
  PROVE  Inv'
<1>1. /\ State /\ CommandInv(c) /\ Effects(c) = {} /\ outcome[c] = "none" /\ conn[c] \in Conns
    BY OpsRun DEF Inv
<1>2. /\ pc' = pc /\ n' = n /\ conn' = conn /\ stray' = stray /\ orphan' = orphan
      /\ committed' = committed /\ ran' = ran /\ outcome' = outcome
    BY DEF call
<1>3. tx' \in [Commands -> TxSet] /\ tx'[c] = y /\ \A d \in Commands \ {c} : tx'[d] = tx[d]
    BY <1>1 DEF State, OpsOk, Good
<1>4. srv' \in [Conns -> SrvSet] /\ srv'[conn[c]] = z /\ \A k \in Conns : k # conn[c] => srv'[k] = srv[k]
    BY <1>1 DEF State
<1>5. \A d : Effects(d)' = Effects(d)
    BY <1>2 DEF Effects
<1>6. StepOf(c) /\ State'
    BY <1>1, <1>2, <1>3, <1>4, <1>5 DEF StepOf, State
<1>7. Shape(pc[c], conn[c], tx[c])'
    BY <1>1, <1>2, <1>3 DEF CommandInv, Shape, OpsOk
<1>8. Server(pc[c], tx[c], srv[conn[c]])'
    BY <1>2, <1>3, <1>4 DEF Server, OpsOk
<1>9. Effect(pc[c], n[c], tx[c], Effects(c), outcome[c])'
    BY <1>1, <1>5 DEF Effect
<1>10. Result(pc[c], n[c], tx[c], committed[c], ran[c], outcome[c], stray[c])'
    BY <1>1, <1>2, <1>3 DEF CommandInv, Result, OpsOk
<1> QED
    BY <1>2, <1>6, <1>7, <1>8, <1>9, <1>10, PoolKept, StepKeeps DEF CommandInv

\* The last unit leaves the queue.
LEMMA LastPopped ==
  ASSUME NEW x, Good(x), NEW u, x.queue = <<u>>, NEW y, y = Popped(x)
  PROVE  /\ Good(y) /\ y.queue = <<>> /\ y.step = "check" /\ y.task = x.task
         /\ y.terminal = x.terminal /\ y.after = x.after
         /\ Allocated(y) = Allocated(x) /\ Phases(y) = Phases(x)
         /\ Unfinished(y) = Unfinished(x) /\ (AllDone(x) => AllDone(y))
<1>1. x \in TxSet
    BY DEF Good
<1>2. PICK v \in Seq(UnitSet) : v = <<>> /\ v = Tail(x.queue)
  <2>0. Len(<<u>>) = 1 /\ <<u>> # <<>>
      OBVIOUS
  <2>1. x.queue \in Seq(UnitSet) /\ x.queue # <<>> /\ Len(x.queue) = 1
      BY <1>1, <2>0 DEF TxSet
  <2>2. Tail(x.queue) \in Seq(UnitSet) /\ Len(Tail(x.queue)) = 0
      BY <2>1, HeadTailProperties
  <2>3. Tail(x.queue) = <<>>
      BY <2>2, EmptySeq
  <2> QED
      BY <2>2, <2>3
<1>3. y = [x EXCEPT !.queue = v, !.step = "check"]
    BY <1>2 DEF Popped
<1>4. /\ y \in TxSet /\ y.queue = v /\ y.step = "check" /\ y.task = x.task
      /\ y.terminal = x.terminal /\ y.after = x.after
    BY <1>1, <1>2, <1>3 DEF TxSet
<1>5. QueueOk(y)
    BY <1>2, <1>4 DEF QueueOk
<1> QED
    BY <1>2, <1>4, <1>5, SameTasks

\* The opening statements or COMMIT fail: the flow of the attempt ends in failure.
LEMMA FlowFails ==
  ASSUME Inv, NEW c \in Commands, pc[c] \in {"begin", "commit"}, NEW z, Good(z),
         z.task = tx[c].task, z.queue = tx[c].queue, z.after = tx[c].after,
         tx' = [tx EXCEPT ![c] = Popped(z)], pc' = [pc EXCEPT ![c] = "failing"],
         NEW s \in SrvSet, srv' = [srv EXCEPT ![conn[c]] = s],
         UNCHANGED <<n, conn, stray, committed, ran, outcome>>,
         \A o \in orphan' : o = [cmd |-> o.cmd, n |-> o.n, writes |-> o.writes] /\ o.cmd \in Commands,
         \A d \in Commands \ {c} : Effects(d)' = Effects(d),
         Effect("failing", n[c], z, Effects(c)', "none")
  PROVE  Inv'
<1>1. State /\ CommandInv(c)
    BY DEF Inv
<1>2. PICK u : z.queue = <<u>>
    BY <1>1 DEF CommandInv, Shape
<1>3. PICK y : y = Popped(z)
    OBVIOUS
<1>4. /\ Good(y) /\ y.queue = <<>> /\ y.step = "check" /\ y.task = z.task
      /\ y.terminal = z.terminal /\ y.after = z.after /\ Phases(y) = Phases(z)
      /\ Unfinished(y) = Unfinished(z) /\ (AllDone(z) => AllDone(y))
    BY <1>2, <1>3, LastPopped
<1>5. tx[c].queue # <<>> /\ conn[c] # None /\ Unfinished(tx[c]) = {}
    BY <1>1 DEF CommandInv, Shape, Idle
<1>6. conn[c] \in Conns /\ outcome[c] = "none" /\ \A i \in DOMAIN y.after : y.after[i] = n[c]
    BY <1>4, <1>5, UnitRuns
<1>7. Unfinished(y) = {}
    BY <1>4, <1>5 DEF Unfinished, Allocated
<1>8. tx' \in [Commands -> TxSet] /\ tx'[c] = y /\ \A d \in Commands \ {c} : tx'[d] = tx[d]
    BY <1>1, <1>3, <1>4 DEF State, Good
<1>9. srv' \in [Conns -> SrvSet] /\ \A k \in Conns : k # conn[c] => srv'[k] = srv[k]
    BY <1>1, <1>6 DEF State
<1>10. /\ pc' \in [Commands -> Places] /\ pc'[c] = "failing"
       /\ \A d \in Commands \ {c} : pc'[d] = pc[d]
    BY <1>1 DEF State, Places
<1>11. StepOf(c) /\ State'
    BY <1>1, <1>8, <1>9, <1>10 DEF StepOf, State
<1>12. Shape("failing", conn[c], y)
    BY <1>4, <1>5, <1>7 DEF Shape, Idle
<1>13. Server("failing", y, srv'[conn[c]])
    BY DEF Server
<1>14. Effect("failing", n[c], y, Effects(c)', "none")
    BY <1>4 DEF Effect
<1>15. Result("failing", n[c], y, committed[c], ran[c], "none", stray[c])
    BY <1>1, <1>6 DEF CommandInv, Result
<1>16. CommandInv(c)'
    BY <1>6, <1>8, <1>10, <1>12, <1>13, <1>14, <1>15 DEF CommandInv
<1> QED
    BY <1>11, <1>16, PoolKept, StepKeeps

\* The running unit is rejected: the flow fails, or the task that awaits it.
LEMMA RejectKeeps ==
  ASSUME Inv, NEW c \in Commands, tx[c].queue # <<>>, NEW z, Good(z),
         z.task = tx[c].task, z.queue = tx[c].queue, z.after = tx[c].after, z.terminal # Open,
         pc[c] = "ops" => OpsOk(z, srv[conn[c]], n[c]),
         RejectUnit(c, z),
         NEW s \in SrvSet, srv' = [srv EXCEPT ![conn[c]] = s],
         s.writes = srv[conn[c]].writes, s.context = srv[conn[c]].context,
         UNCHANGED <<stray, committed, ran, outcome>>,
         pc[c] # "commit" => orphan' = orphan,
         \A o \in orphan' : o = [cmd |-> o.cmd, n |-> o.n, writes |-> o.writes] /\ o.cmd \in Commands,
         \A d \in Commands \ {c} : Effects(d)' = Effects(d),
         Effect("failing", n[c], z, Effects(c)', "none")
  PROVE  Inv'
<1>1. State /\ CommandInv(c)
    BY DEF Inv
<1>2. pc[c] \in {"begin", "commit", "ops"} /\ conn[c] \in Conns
    BY UnitRuns
<1>3. tx' = [tx EXCEPT ![c] = Rejected(z)] /\ n' = n /\ conn' = conn
    BY DEF RejectUnit
<1>4. CASE pc[c] \in {"begin", "commit"}
  <2>1. tx[c].queue = <<BeginUnit>> \/ tx[c].queue = <<CommitUnit>>
      BY <1>1, <1>4 DEF CommandInv, Shape
  <2>2. Head(tx[c].queue) = BeginUnit \/ Head(tx[c].queue) = CommitUnit
      BY <2>1
  <2>3. Head(tx[c].queue).task = Main
      BY <2>2 DEF BeginUnit, CommitUnit, Unit
  <2>4. tx' = [tx EXCEPT ![c] = Popped(z)] /\ pc' = [pc EXCEPT ![c] = "failing"]
      BY <1>3, <2>3 DEF RejectUnit, Rejected, Running
  <2> QED
      BY <1>3, <1>4, <2>4, FlowFails
<1>5. CASE pc[c] = "ops"
  <2>1. PICK i : i = Head(z.queue).task
      OBVIOUS
  <2>2. OpsOk(z, srv[conn[c]], n[c])
      BY <1>5
  <2>3. PICK w : w = Popped(z)
      OBVIOUS
  <2>4. OpsOk(z, s, n[c])
      BY <2>2 DEF OpsOk, WritesOk, ContextOk
  <2>5. /\ OpsOk(w, s, n[c]) /\ i \in Unfinished(w) /\ w.task = z.task /\ w.terminal = z.terminal
        /\ \A q \in DOMAIN w.queue : w.queue[q].task # i
        /\ \A j \in Unfinished(w) : w.task[j].parent # i
      BY <2>1, <2>3, <2>4, PoppedOps
  <2>6. PICK y : y = Staged(w, i, "failed")
      OBVIOUS
  <2>7. "failed" \in Stages \ {"free"} /\ "failed" \notin InHook
      BY DEF Stages, Finished, InHook
  <2>8. OpsOk(y, s, n[c])
      BY <2>5, <2>6, <2>7, StagedOps
  <2>9. i # Main
      BY <2>5 DEF Unfinished, Allocated, Tasks, Main
  <2>10. tx' = [tx EXCEPT ![c] = y]
      BY <1>3, <2>1, <2>3, <2>6, <2>9 DEF Rejected
  <2>11. pc' = pc
      BY <2>1, <2>9 DEF RejectUnit, Running
  <2>12. UNCHANGED <<call, stray, orphan, committed, ran, outcome>>
      BY <1>3, <1>5, <2>11 DEF call
  <2> QED
      BY <1>5, <2>8, <2>10, <2>12, OpsKeeps
<1> QED
    BY <1>2, <1>4, <1>5

\* Every error of the port closes the attempt; a session that ends while COMMIT is
\* on its way neither retries nor claims a rollback.
LEMMA TerminalsOf ==
  ASSUME NEW error \in {"40001", "40P01", "sqlstate", "lost", "sessionTimeout"},
         NEW b \in BOOLEAN, NEW t, t = TerminalOf(error, b)
  PROVE  /\ t \in Terminals /\ t # Open
         /\ b /\ error \in {"lost", "sessionTimeout"} => t.retry = "no" /\ t.code = "unavailable"
BY DEF TerminalOf, Terminal, Failure, Open, Terminals, Codes

\* The object with its queue closed, as RejectKeeps wants it.
LEMMA ClosedUnit ==
  ASSUME Inv, NEW c \in Commands, tx[c].queue # <<>>, NEW t \in Terminals, t # Open,
         NEW z, z = Closed(tx[c], t)
  PROVE  /\ Good(z) /\ z.task = tx[c].task /\ z.queue = tx[c].queue /\ z.after = tx[c].after
         /\ z.terminal # Open
         /\ z.terminal = IF tx[c].terminal = Open THEN t ELSE tx[c].terminal
         /\ pc[c] = "ops" => OpsOk(z, srv[conn[c]], n[c])
         /\ (AllDone(tx[c]) => AllDone(z)) /\ Phases(z) = Phases(tx[c])
<1>1. Good(tx[c])
    BY UnitRuns
<1>2. pc[c] = "ops" => OpsOk(z, srv[conn[c]], n[c])
    BY OpsRun, ClosedOps
<1> QED
    BY <1>1, <1>2, ClosedGood

\* UnitCheck keeps the invariant.
LEMMA UnitCheckKeeps ==
  ASSUME Inv, NEW c \in Commands, UnitCheck(c)
  PROVE  Inv'
<1>1. State /\ CommandInv(c) /\ tx[c].queue # <<>>
    BY DEF Inv, UnitCheck
<1>2. Good(tx[c]) /\ tx[c] \in TxSet /\ conn[c] \in Conns /\ srv[conn[c]] \in SrvSet
    BY <1>1, UnitRuns
<1>3. CASE tx[c].terminal = Open
  <2>1. PICK y : y = [tx[c] EXCEPT !.step = "send"]
      OBVIOUS
  <2>2. /\ y \in TxSet /\ y.task = tx[c].task /\ y.queue = tx[c].queue /\ y.after = tx[c].after
        /\ y.terminal = tx[c].terminal /\ y.step = "send"
      BY <1>2, <2>1 DEF TxSet
  <2>3. pc[c] = "commit" => AllDone(tx[c])
    <3>1. \A i \in Tasks : tx[c].task[i].stage # "failed"
        BY <1>2, <1>3 DEF Good, FailedOk
    <3>2. pc[c] = "commit" => Unfinished(tx[c]) = {}
        BY <1>1 DEF CommandInv, Shape
    <3> QED
        BY <3>1, <3>2 DEF AllDone, Unfinished, Allocated, Finished
  <2>4. /\ tx' = [tx EXCEPT ![c] = y]
        /\ UNCHANGED <<call, srv, stray, orphan, committed, ran, outcome>>
      BY <1>3, <2>1 DEF UnitCheck, call
  <2> QED
      BY <1>1, <1>3, <2>2, <2>3, <2>4, UnitKeeps
<1>4. CASE tx[c].terminal # Open
  <2>1. RejectUnit(c, tx[c]) /\ UNCHANGED <<srv, stray, orphan, committed, ran, outcome>>
      BY <1>4 DEF UnitCheck
  <2>2. \A d : Effects(d)' = Effects(d)
      BY <2>1 DEF Effects
  <2>3. Effect("failing", n[c], tx[c], Effects(c)', "none")
      BY <1>1, <2>2, UnitRuns DEF Effect
  <2>4. srv' = [srv EXCEPT ![conn[c]] = srv[conn[c]]]
      BY <1>1, <1>2, <2>1 DEF State
  <2>5. pc[c] = "ops" => OpsOk(tx[c], srv[conn[c]], n[c])
      BY OpsRun
  <2>6. \A o \in orphan' : o = [cmd |-> o.cmd, n |-> o.n, writes |-> o.writes] /\ o.cmd \in Commands
      BY <1>1, <2>1 DEF State
  <2> QED
      BY <1>1, <1>2, <1>4, <2>1, <2>2, <2>3, <2>4, <2>5, <2>6, RejectKeeps
<1> QED
    BY <1>3, <1>4

\* BudgetOut keeps the invariant.
LEMMA BudgetOutKeeps ==
  ASSUME Inv, NEW c \in Commands, BudgetOut(c)
  PROVE  Inv'
<1>1. State /\ CommandInv(c) /\ tx[c].queue # <<>>
    BY SentRuns DEF Inv, BudgetOut
<1>2. Good(tx[c]) /\ tx[c] \in TxSet /\ conn[c] \in Conns /\ srv[conn[c]] \in SrvSet
    BY <1>1, UnitRuns
<1>3. PICK z : z = Closed(tx[c], Failure("timeout"))
    OBVIOUS
<1>4. Failure("timeout") \in Terminals /\ Failure("timeout") # Open
    BY Failures DEF Codes
<1>5. /\ Good(z) /\ z.task = tx[c].task /\ z.queue = tx[c].queue /\ z.after = tx[c].after
      /\ z.terminal # Open /\ (pc[c] = "ops" => OpsOk(z, srv[conn[c]], n[c]))
    BY <1>1, <1>3, <1>4, ClosedUnit
<1>6. RejectUnit(c, z) /\ UNCHANGED <<srv, stray, orphan, committed, ran, outcome>>
    BY <1>3 DEF BudgetOut
<1>7. \A d : Effects(d)' = Effects(d)
    BY <1>6 DEF Effects
<1>8. Effect("failing", n[c], z, Effects(c)', "none")
    BY <1>1, <1>7, UnitRuns DEF Effect
<1>9. srv' = [srv EXCEPT ![conn[c]] = srv[conn[c]]]
    BY <1>1, <1>2, <1>6 DEF State
<1>10. \A o \in orphan' : o = [cmd |-> o.cmd, n |-> o.n, writes |-> o.writes] /\ o.cmd \in Commands
    BY <1>1, <1>6 DEF State
<1> QED
    BY <1>1, <1>2, <1>5, <1>6, <1>7, <1>8, <1>9, <1>10, RejectKeeps

\* Send keeps the invariant: COMMIT is known to be on its way.
LEMMA SendKeeps ==
  ASSUME Inv, NEW c \in Commands, Send(c)
  PROVE  Inv'
<1>1. State /\ CommandInv(c) /\ tx[c].queue # <<>> /\ tx[c].step = "send"
    BY SentRuns DEF Inv, Send
<1>2. Good(tx[c]) /\ tx[c] \in TxSet
    BY <1>1, UnitRuns
<1>3. PICK b \in BOOLEAN : b <=> tx[c].commitSent \/ Statement(c) = "commit"
    OBVIOUS
<1>4. PICK y : y = [tx[c] EXCEPT !.step = "sent", !.commitSent = b]
    OBVIOUS
<1>5. /\ y \in TxSet /\ y.task = tx[c].task /\ y.queue = tx[c].queue /\ y.after = tx[c].after
      /\ y.terminal = tx[c].terminal /\ y.step = "sent" /\ y.commitSent = b
    BY <1>2, <1>4 DEF TxSet
<1>6. pc[c] = "commit" => b
  <2>1. pc[c] = "commit" => tx[c].queue = <<CommitUnit>>
      BY <1>1 DEF CommandInv, Shape
  <2>2. Head(<<CommitUnit>>).rest = <<"commit">> /\ Head(<<"commit">>) = "commit"
      BY DEF CommitUnit, Unit
  <2> QED
      BY <1>3, <2>1, <2>2 DEF Statement, Running
<1>7. pc[c] = "commit" => AllDone(tx[c]) /\ y.terminal \in {Open} \cup {Failure(code) : code \in Late}
    BY <1>1, <1>5 DEF CommandInv, Shape
<1>8. /\ tx' = [tx EXCEPT ![c] = y]
      /\ UNCHANGED <<call, srv, stray, orphan, committed, ran, outcome>>
  <2>1. (tx[c].commitSent \/ Statement(c) = "commit") = b
      BY <1>2, <1>3 DEF TxSet
  <2> QED
      BY <1>1, <1>4, <2>1 DEF Send, State
<1> QED
    BY <1>1, <1>5, <1>6, <1>7, <1>8, UnitKeeps

\* ServerError keeps the invariant.
LEMMA ServerErrorKeeps ==
  ASSUME Inv, NEW c \in Commands, NEW error \in {"40001", "40P01", "sqlstate"}, ServerError(c, error)
  PROVE  Inv'
<1>1. State /\ CommandInv(c) /\ tx[c].queue # <<>>
    BY SentRuns DEF Inv, ServerError
<1>2. /\ Good(tx[c]) /\ tx[c] \in TxSet /\ conn[c] \in Conns /\ srv[conn[c]] \in SrvSet
      /\ tx[c].commitSent \in BOOLEAN
    BY <1>1, UnitRuns DEF TxSet
<1>3. PICK t, z : t = TerminalOf(error, tx[c].commitSent) /\ z = Closed(tx[c], t)
    OBVIOUS
<1>4. t \in Terminals /\ t # Open
    BY <1>2, <1>3, TerminalsOf
<1>5. /\ Good(z) /\ z.task = tx[c].task /\ z.queue = tx[c].queue /\ z.after = tx[c].after
      /\ z.terminal # Open /\ (pc[c] = "ops" => OpsOk(z, srv[conn[c]], n[c]))
    BY <1>1, <1>3, <1>4, ClosedUnit
<1>6. RejectUnit(c, z) /\ UNCHANGED <<stray, orphan, committed, ran, outcome>>
    BY <1>3 DEF ServerError
<1>7. \A d : Effects(d)' = Effects(d)
    BY <1>6 DEF Effects
<1>8. Effect("failing", n[c], z, Effects(c)', "none")
    BY <1>1, <1>7, UnitRuns DEF Effect
<1>9. PICK s : s = [srv[conn[c]] EXCEPT !.txn = IF @ = "open" THEN "aborted" ELSE @]
    OBVIOUS
<1>10. srv' = [srv EXCEPT ![conn[c]] = s]
    BY <1>1, <1>9 DEF ServerError
<1>11. s \in SrvSet /\ s.writes = srv[conn[c]].writes /\ s.context = srv[conn[c]].context
    BY <1>2, <1>9 DEF SrvSet
<1>12. \A o \in orphan' : o = [cmd |-> o.cmd, n |-> o.n, writes |-> o.writes] /\ o.cmd \in Commands
    BY <1>1, <1>6 DEF State
<1> QED
    BY <1>1, <1>2, <1>5, <1>6, <1>7, <1>8, <1>10, <1>11, <1>12, RejectKeeps

\* The unit at the head of the queue, and what the server makes of its statement.
LEMMA RunningUnit ==
  ASSUME Inv, NEW c \in Commands, tx[c].queue # <<>>, NEW u, u = Running(c), NEW i, i = u.task
  PROVE  /\ pc[c] = "begin" => u = BeginUnit
         /\ pc[c] = "commit" => u = CommitUnit
         /\ pc[c] = "ops" =>
              /\ i \in Tasks /\ i = Head(tx[c].queue).task
              /\ \/ \E h \in {"check", "core"} :
                      /\ tx[c].task[i].kind = "phase"
                      /\ u = Unit(h, <<"context", h>>, i) \/ u = Unit(h, <<h>>, i)
                 \/ tx[c].task[i].kind = "read" /\ u = Unit("read", <<"read">>, i)
<1>1. State /\ CommandInv(c)
    BY DEF Inv
<1>2. /\ pc[c] = "begin" => tx[c].queue = <<BeginUnit>>
      /\ pc[c] = "commit" => tx[c].queue = <<CommitUnit>>
    BY <1>1 DEF CommandInv, Shape
<1>3. Head(<<BeginUnit>>) = BeginUnit /\ Head(<<CommitUnit>>) = CommitUnit
    OBVIOUS
<1>4. tx[c] \in TxSet /\ Good(tx[c])
    BY UnitRuns
<1>5. 1 \in DOMAIN tx[c].queue /\ tx[c].queue[1] = u
    BY <1>4 DEF TxSet, Running
<1>6. CASE pc[c] = "ops"
  <2>1. i \in Tasks
      BY <1>5, <1>6, OpsRun DEF OpsOk
  <2>2. Whole(tx[c], u) \/ Begun(tx[c], u)
      BY <1>4, <1>5 DEF Good, QueueOk
  <2>3. u # BeginUnit /\ u # CommitUnit
      BY <2>1 DEF BeginUnit, CommitUnit, Unit, Tasks, Main
  <2> QED
      BY <1>6, <2>1, <2>2, <2>3 DEF Whole, Begun, CheckUnit, CoreUnit, ReadUnit, Running
<1> QED
    BY <1>2, <1>3, <1>6 DEF Running

\* The first statement of the units of a task.
LEMMA FirstStatement ==
  /\ Head(<<"begin">>) = "begin" /\ Head(<<"commit">>) = "commit" /\ Head(<<"read">>) = "read"
  /\ \A h : Head(<<h>>) = h /\ Head(<<"context", h>>) = "context"
  /\ \A h : Len(<<h>>) = 1 /\ Len(<<"context", h>>) = 2
OBVIOUS

\* COMMIT is on its way only when every task is done, and the server then holds the
\* write of every phase.
LEMMA CommitInFlight ==
  ASSUME Inv, NEW c \in Commands, InFlight(c)
  PROVE  /\ tx[c].queue # <<>> /\ pc[c] = "commit" /\ AllDone(tx[c]) /\ tx[c].commitSent
         /\ tx[c].terminal \in {Open} \cup {Failure(code) : code \in Late}
         /\ srv[conn[c]].writes = Phases(tx[c])
<1>1. State /\ CommandInv(c)
    BY DEF Inv
<1>2. tx[c].step = "sent" /\ Statement(c) = "commit"
    BY DEF InFlight
<1>3. tx[c].queue # <<>>
    BY <1>2, SentRuns
<1>4. pc[c] \in {"begin", "commit", "ops"}
    BY <1>3, UnitRuns
<1>5. PICK u, i : u = Running(c) /\ i = u.task
    OBVIOUS
<1>6. pc[c] # "begin"
  <2>1. pc[c] = "begin" => u = BeginUnit
      BY <1>3, <1>5, RunningUnit
  <2>2. BeginUnit.rest = <<"begin">>
      BY DEF BeginUnit, Unit
  <2> QED
      BY <1>2, <1>5, <2>1, <2>2, FirstStatement DEF Statement
<1>7. pc[c] # "ops"
  <2> SUFFICES ASSUME pc[c] = "ops" PROVE FALSE
      OBVIOUS
  <2>1. \/ \E h \in {"check", "core"} : u = Unit(h, <<"context", h>>, i) \/ u = Unit(h, <<h>>, i)
        \/ u = Unit("read", <<"read">>, i)
      BY <1>3, <1>5, RunningUnit
  <2>2. \/ \E h \in {"check", "core"} : u.rest = <<"context", h>> \/ u.rest = <<h>>
        \/ u.rest = <<"read">>
      BY <2>1 DEF Unit
  <2>3. Head(u.rest) \in {"context", "check", "core", "read"}
      BY <2>2, FirstStatement
  <2> QED
      BY <1>2, <1>5, <2>3 DEF Statement
<1>8. pc[c] = "commit"
    BY <1>4, <1>6, <1>7
<1>9. /\ AllDone(tx[c]) /\ tx[c].commitSent
      /\ tx[c].terminal \in {Open} \cup {Failure(code) : code \in Late}
    BY <1>1, <1>2, <1>8 DEF CommandInv, Shape
<1>10. srv[conn[c]].writes = Phases(tx[c])
    BY <1>1, <1>8, <1>9 DEF CommandInv, Server, WritesOk, AllDone, Phases
<1> QED
    BY <1>3, <1>8, <1>9, <1>10

\* SessionLost keeps the invariant: what COMMIT may still do is known.
LEMMA SessionLostKeeps ==
  ASSUME Inv, NEW c \in Commands, NEW error \in {"lost", "sessionTimeout"}, SessionLost(c, error)
  PROVE  Inv'
<1>1. State /\ CommandInv(c) /\ tx[c].queue # <<>>
    BY SentRuns DEF Inv, SessionLost
<1>2. /\ Good(tx[c]) /\ tx[c] \in TxSet /\ conn[c] \in Conns /\ srv[conn[c]] \in SrvSet
      /\ tx[c].commitSent \in BOOLEAN /\ Effects(c) = {}
    BY <1>1, UnitRuns DEF TxSet
<1>3. PICK t, z : t = TerminalOf(error, tx[c].commitSent) /\ z = Closed(tx[c], t)
    OBVIOUS
<1>4. /\ t \in Terminals /\ t # Open
      /\ tx[c].commitSent => t.retry = "no" /\ t.code = "unavailable"
    BY <1>2, <1>3, TerminalsOf
<1>5. /\ Good(z) /\ z.task = tx[c].task /\ z.queue = tx[c].queue /\ z.after = tx[c].after
      /\ z.terminal # Open /\ (pc[c] = "ops" => OpsOk(z, srv[conn[c]], n[c]))
      /\ (AllDone(tx[c]) => AllDone(z)) /\ Phases(z) = Phases(tx[c])
      /\ z.terminal = IF tx[c].terminal = Open THEN t ELSE tx[c].terminal
    BY <1>1, <1>3, <1>4, ClosedUnit
<1>6. RejectUnit(c, z) /\ UNCHANGED <<stray, committed, ran, outcome>>
    BY <1>3 DEF SessionLost
<1>7. PICK s : s = [srv[conn[c]] EXCEPT !.txn = "dead"]
    OBVIOUS
<1>8. srv' = [srv EXCEPT ![conn[c]] = s]
    BY <1>1, <1>7 DEF SessionLost
<1>9. s \in SrvSet /\ s.writes = srv[conn[c]].writes /\ s.context = srv[conn[c]].context
    BY <1>2, <1>7 DEF SrvSet
<1>10. PICK o : o = [cmd |-> c, n |-> n[c], writes |-> srv[conn[c]].writes]
    OBVIOUS
<1>11. o.cmd = c /\ o.n = n[c] /\ o.writes = srv[conn[c]].writes
    BY <1>10
<1>12. orphan' = IF InFlight(c) THEN orphan \cup {o} ELSE orphan
    BY <1>10 DEF SessionLost
<1>13. \A p \in orphan' : p = [cmd |-> p.cmd, n |-> p.n, writes |-> p.writes] /\ p.cmd \in Commands
    BY <1>1, <1>10, <1>11, <1>12 DEF State
<1>14. \A d \in Commands \ {c} : Effects(d)' = Effects(d)
  <2> TAKE d \in Commands \ {c}
  <2>1. {p \in orphan' : p.cmd = d} = {p \in orphan : p.cmd = d}
      BY <1>11, <1>12
  <2> QED
      BY <1>6, <2>1 DEF Effects
<1>15. Effect("failing", n[c], z, Effects(c)', "none")
  <2>1. CASE ~InFlight(c)
      BY <1>2, <1>6, <1>12, <2>1 DEF Effect, Effects
  <2>2. CASE InFlight(c)
    <3>1. /\ AllDone(tx[c]) /\ tx[c].commitSent /\ srv[conn[c]].writes = Phases(tx[c])
          /\ tx[c].terminal \in {Open} \cup {Failure(code) : code \in Late}
        BY <2>2, CommitInFlight
    <3>2. z.terminal.retry = "no" /\ z.terminal.code \in {"unavailable"} \cup Late
        BY <1>4, <1>5, <3>1 DEF Failure, Terminal
    <3>3. committed[c] = {} /\ \A p \in orphan : p.cmd # c
        BY <1>2 DEF Effects
    <3>4. {p \in orphan' : p.cmd = c} = {o}
        BY <1>11, <1>12, <2>2, <3>3
    <3>5. Effects(c)' = {[n |-> n[c], writes |-> Phases(z)]}
        BY <1>5, <1>6, <1>11, <3>1, <3>3, <3>4 DEF Effects
    <3> QED
        BY <1>5, <3>1, <3>2, <3>5 DEF Effect
  <2> QED
      BY <2>1, <2>2
<1>16. pc[c] # "commit" => orphan' = orphan
    BY <1>12, CommitInFlight
<1> QED
    BY <1>1, <1>5, <1>6, <1>8, <1>9, <1>13, <1>14, <1>15, <1>16, RejectKeeps

\* Reply keeps the invariant.
LEMMA ReplyKeeps ==
  ASSUME Inv, NEW c \in Commands, Reply(c)
  PROVE  Inv'
<1>1. PICK x, u, i, s : x = tx[c] /\ u = Running(c) /\ i = u.task /\ s = srv[conn[c]]
    OBVIOUS
<1>2. /\ x.step = "sent" /\ u.kind # "commit"
      /\ \E y \in (IF Len(u.rest) > 1 THEN {Advanced(x)} ELSE Resolved(Popped(x), u)) :
           tx' = [tx EXCEPT ![c] = y]
      /\ srv' = [srv EXCEPT ![conn[c]] = Executed(s, Head(u.rest), i)]
      /\ pc' = IF u.kind = "begin" THEN [pc EXCEPT ![c] = "user"] ELSE pc
      /\ UNCHANGED <<n, conn, stray, orphan, committed, ran, outcome>>
    BY <1>1 DEF Reply, Statement
<1>3. State /\ CommandInv(c) /\ x.queue # <<>>
    BY <1>1, <1>2, SentRuns DEF Inv
<1>4. /\ pc[c] \in {"begin", "commit", "ops"} /\ conn[c] \in Conns /\ Effects(c) = {}
      /\ outcome[c] = "none" /\ Good(x) /\ s \in SrvSet /\ n[c] \in Nat
      /\ \A j \in DOMAIN x.after : x.after[j] = n[c]
    BY <1>1, <1>3, UnitRuns
<1>5. CASE pc[c] = "begin"
  <2>1. u = BeginUnit /\ x.queue = <<BeginUnit>>
    <3>1. u = BeginUnit
        BY <1>1, <1>3, <1>5, RunningUnit
    <3> QED
        BY <1>1, <1>3, <1>5, <3>1 DEF CommandInv, Shape
  <2>2. u.kind = "begin" /\ u.rest = <<"begin">>
      BY <2>1 DEF BeginUnit, Unit
  <2>3. Len(u.rest) = 1 /\ Head(u.rest) = "begin"
      BY <2>2, FirstStatement
  <2>4. PICK y : y = Popped(x)
      OBVIOUS
  <2>5. tx' = [tx EXCEPT ![c] = y]
      BY <1>2, <2>2, <2>3, <2>4 DEF Resolved
  <2>6. /\ Good(y) /\ y.queue = <<>> /\ y.step = "check" /\ y.after = x.after
        /\ Allocated(y) = Allocated(x)
      BY <1>4, <2>1, <2>4, LastPopped
  <2>7. Allocated(y) = {}
      BY <1>1, <1>3, <1>5, <2>6 DEF CommandInv, Shape
  <2>8. PICK z : z = [txn |-> "open", context |-> Main, writes |-> {}]
      OBVIOUS
  <2>9. z \in SrvSet /\ z.writes = {} /\ srv' = [srv EXCEPT ![conn[c]] = z]
    <3>1. z \in SrvSet /\ z.writes = {}
        BY <2>8, CommandAssumption DEF SrvSet, Main
    <3>2. Executed(s, Head(u.rest), i) = z
        BY <2>3, <2>8 DEF Executed
    <3> QED
        BY <1>2, <3>1, <3>2
  <2>10. tx' \in [Commands -> TxSet] /\ tx'[c] = y /\ \A d \in Commands \ {c} : tx'[d] = tx[d]
      BY <1>3, <2>5, <2>6 DEF State, Good
  <2>11. /\ srv' \in [Conns -> SrvSet] /\ srv'[conn[c]] = z
         /\ \A k \in Conns : k # conn[c] => srv'[k] = srv[k]
      BY <1>3, <1>4, <2>9 DEF State
  <2>12. /\ pc' \in [Commands -> Places] /\ pc'[c] = "user"
         /\ \A d \in Commands \ {c} : pc'[d] = pc[d]
      BY <1>2, <1>3, <2>2 DEF State, Places
  <2>13. \A d : Effects(d)' = Effects(d)
      BY <1>2 DEF Effects
  <2>14. StepOf(c) /\ State'
      BY <1>2, <1>3, <2>10, <2>11, <2>12, <2>13 DEF StepOf, State
  <2>15. Shape("user", conn[c], y)
      BY <1>3, <1>4, <1>5, <2>6, <2>7 DEF CommandInv, Shape, Idle, Unfinished
  <2>16. Server("user", y, z)
      BY <2>7, <2>9 DEF Server, WritesOk, Phases
  <2>17. Effect("user", n[c], y, {}, "none")
      BY DEF Effect
  <2>18. Result("user", n[c], y, committed[c], ran[c], "none", stray[c])
      BY <1>3, <1>4, <2>6 DEF CommandInv, Result
  <2>19. CommandInv(c)'
      BY <1>2, <1>4, <2>10, <2>11, <2>12, <2>13, <2>15, <2>16, <2>17, <2>18 DEF CommandInv
  <2> QED
      BY <1>2, <2>14, <2>19, PoolKept, StepKeeps
<1>6. pc[c] # "commit"
  <2>1. pc[c] = "commit" => u = CommitUnit
      BY <1>1, <1>3, RunningUnit
  <2> QED
      BY <1>2, <2>1 DEF CommitUnit, Unit
<1>7. CASE pc[c] = "ops"
  <2>1. /\ i \in Tasks /\ i = Head(x.queue).task
        /\ \/ \E h \in {"check", "core"} :
                /\ x.task[i].kind = "phase"
                /\ u = Unit(h, <<"context", h>>, i) \/ u = Unit(h, <<h>>, i)
           \/ x.task[i].kind = "read" /\ u = Unit("read", <<"read">>, i)
      BY <1>1, <1>3, <1>7, RunningUnit
  <2>2. OpsOk(x, s, n[c])
      BY <1>1, <1>7, OpsRun
  <2>3. u.kind \in {"check", "core", "read"} /\ u = Head(x.queue)
      BY <1>1, <2>1 DEF Unit, Running
  <2>4. UNCHANGED <<call, stray, orphan, committed, ran, outcome>>
      BY <1>2, <2>3 DEF call
  <2>5. CASE \E h \in {"check", "core"} : u = Unit(h, <<"context", h>>, i)
    <3>1. PICK h \in {"check", "core"} : u = Unit(h, <<"context", h>>, i)
        BY <2>5
    <3>2. u.rest = <<"context", h>>
        BY <3>1 DEF Unit
    <3>3. Len(u.rest) > 1 /\ Head(u.rest) = "context"
        BY <3>2, FirstStatement
    <3>4. PICK y, z : y = Advanced(x) /\ z = [s EXCEPT !.context = i]
        OBVIOUS
    <3>5. z \in SrvSet /\ z.writes = s.writes /\ z.context = i
        BY <1>4, <2>1, <3>4, CommandAssumption DEF SrvSet, Tasks
    <3>6. tx' = [tx EXCEPT ![c] = y] /\ srv' = [srv EXCEPT ![conn[c]] = z]
        BY <1>2, <3>3, <3>4 DEF Executed
    <3>7. OpsOk(y, z, n[c])
        BY <1>3, <2>1, <2>2, <2>3, <3>3, <3>4, <3>5, AdvancedOps
    <3> QED
        BY <1>7, <2>4, <3>5, <3>6, <3>7, OpsKeeps
  <2>6. CASE \/ \E h \in {"check", "core"} : x.task[i].kind = "phase" /\ u = Unit(h, <<h>>, i)
             \/ x.task[i].kind = "read" /\ u = Unit("read", <<"read">>, i)
    <3>1. u.rest = <<u.kind>> /\ u.task = i
        BY <2>6 DEF Unit
    <3>2. Len(u.rest) = 1 /\ Head(u.rest) = u.kind
        BY <3>1, FirstStatement
    <3>3. PICK y \in Resolved(Popped(x), u) : tx' = [tx EXCEPT ![c] = y]
      <4>1. ~(Len(u.rest) > 1)
          BY <3>2
      <4> QED
          BY <1>2, <4>1, Zenon
    <3>4. PICK w, z : w = Popped(x) /\ z = Executed(s, u.kind, i)
        OBVIOUS
    <3>5. srv' = [srv EXCEPT ![conn[c]] = z]
        BY <1>2, <3>2, <3>4
    <3>6. \/ u.kind = "core" /\ z = [s EXCEPT !.writes = @ \cup {i}]
          \/ u.kind # "core" /\ z = s
        BY <2>3, <3>4 DEF Executed
    <3>7. z \in SrvSet /\ (u.kind = "core" => z.writes = s.writes \cup {i})
          /\ (u.kind # "core" => z.writes = s.writes)
        BY <1>4, <2>1, <3>6 DEF SrvSet
    <3>8. \/ u.kind \in {"check", "core"} /\ x.task[i].kind = "phase"
          \/ u.kind = "read" /\ x.task[i].kind = "read"
        BY <2>6 DEF Unit
    <3>9. z.writes = s.writes \/ (z.writes = s.writes \cup {i} /\ x.task[i].kind = "phase")
        BY <2>3, <3>7, <3>8
    <3>10. /\ OpsOk(w, z, n[c]) /\ i \in Unfinished(w) /\ w.task = x.task
           /\ \A q \in DOMAIN w.queue : w.queue[q].task # i
           /\ \A j \in Unfinished(w) : w.task[j].parent # i
      <4>1. x.queue # <<>> /\ i = Head(x.queue).task /\ OpsOk(x, s, n[c]) /\ w = Popped(x)
          BY <1>3, <2>1, <2>2, <3>4
      <4> QED
          BY <3>9, <4>1, PoppedOps
    <3>11. u.kind = "core" => i \in z.writes
        BY <3>7
    <3>12. OpsOk(y, z, n[c])
        BY <3>1, <3>3, <3>4, <3>8, <3>10, <3>11, ResolvedOps
    <3> QED
        BY <1>7, <2>4, <3>3, <3>5, <3>7, <3>12, OpsKeeps
  <2> QED
      BY <2>1, <2>5, <2>6
<1> QED
    BY <1>4, <1>5, <1>6, <1>7

\* The connection goes back to the pool, idle.
LEMMA Released ==
  ASSUME Inv, NEW c \in Commands, conn[c] \in Conns, conn' = [conn EXCEPT ![c] = None],
         srv' = [srv EXCEPT ![conn[c]] = [txn |-> "idle", context |-> Main, writes |-> {}]]
  PROVE  /\ PoolInv' /\ conn' \in [Commands -> Conns \cup {None}] /\ srv' \in [Conns -> SrvSet]
         /\ conn'[c] = None /\ (\A d \in Commands \ {c} : conn'[d] = conn[d])
         /\ \A k \in Conns : k # conn[c] => srv'[k] = srv[k]
<1>1. State /\ PoolInv
    BY DEF Inv
<1>2. PICK z : z = [txn |-> "idle", context |-> Main, writes |-> {}]
    OBVIOUS
<1>3. z \in SrvSet /\ z.txn = "idle"
    BY <1>2, CommandAssumption DEF SrvSet, Main
<1>4. /\ srv' \in [Conns -> SrvSet] /\ srv'[conn[c]] = z
      /\ \A k \in Conns : k # conn[c] => srv'[k] = srv[k]
    BY <1>1, <1>2, <1>3 DEF State
<1>5. /\ conn' \in [Commands -> Conns \cup {None}] /\ conn'[c] = None
      /\ (\A d \in Commands \ {c} : conn'[d] = conn[d])
    BY <1>1 DEF State
<1>6. \A d, e \in Commands : conn'[d] = conn'[e] /\ conn'[d] # None => d = e
    BY <1>1, <1>5 DEF PoolInv
<1>7. ASSUME NEW k \in Conns, \A d \in Commands : conn'[d] # k PROVE srv'[k].txn = "idle"
  <2>1. CASE k = conn[c]
      BY <1>3, <1>4, <2>1
  <2>2. CASE k # conn[c]
    <3>1. \A d \in Commands : conn[d] # k
        BY <1>5, <1>7, <2>2
    <3> QED
        BY <1>1, <1>4, <2>2, <3>1 DEF PoolInv
  <2> QED
      BY <2>1, <2>2
<1> QED
    BY <1>4, <1>5, <1>6, <1>7 DEF PoolInv

\* ReplyCommit keeps the invariant: what is committed is whole.
LEMMA ReplyCommitKeeps ==
  ASSUME Inv, NEW c \in Commands, ReplyCommit(c)
  PROVE  Inv'
<1>1. /\ tx[c].queue # <<>> /\ pc[c] = "commit" /\ AllDone(tx[c])
      /\ srv[conn[c]].writes = Phases(tx[c])
    BY CommitInFlight DEF ReplyCommit
<1>2. /\ State /\ CommandInv(c) /\ conn[c] \in Conns /\ Effects(c) = {} /\ committed[c] = {}
      /\ outcome[c] = "none" /\ Good(tx[c]) /\ \A i \in DOMAIN tx[c].after : tx[c].after[i] = n[c]
    BY <1>1, UnitRuns DEF Inv
<1>3. PICK w : w = Popped(tx[c])
    OBVIOUS
<1>4. /\ Good(w) /\ w.queue = <<>> /\ w.step = "check" /\ w.after = tx[c].after
      /\ Phases(w) = Phases(tx[c]) /\ Unfinished(w) = Unfinished(tx[c]) /\ AllDone(w)
  <2>1. tx[c].queue = <<CommitUnit>>
      BY <1>1, <1>2 DEF CommandInv, Shape
  <2> QED
      BY <1>1, <1>2, <1>3, <2>1, LastPopped
<1>5. Unfinished(w) = {}
    BY <1>1, <1>2, <1>4 DEF CommandInv, Shape
<1>6. srv' = [srv EXCEPT ![conn[c]] = [txn |-> "idle", context |-> Main, writes |-> {}]]
    BY DEF ReplyCommit, Executed
<1>7. conn' = [conn EXCEPT ![c] = None] /\ UNCHANGED <<n, stray, orphan, ran, outcome>>
    BY DEF ReplyCommit
<1>8. /\ PoolInv' /\ conn' \in [Commands -> Conns \cup {None}] /\ srv' \in [Conns -> SrvSet]
      /\ conn'[c] = None /\ (\A d \in Commands \ {c} : conn'[d] = conn[d])
      /\ \A k \in Conns : k # conn[c] => srv'[k] = srv[k]
    BY <1>2, <1>6, <1>7, Released
<1>9. \A p \in orphan : p.cmd # c
    BY <1>2 DEF Effects
<1>10. CASE srv[conn[c]].txn = "open"
  <2>1. PICK r : r = [n |-> n[c], writes |-> Phases(w)]
      OBVIOUS
  <2>2. /\ pc' = [pc EXCEPT ![c] = "after"] /\ tx' = [tx EXCEPT ![c] = w]
        /\ committed' = [committed EXCEPT ![c] = @ \cup {r}]
      BY <1>1, <1>3, <1>4, <1>10, <2>1 DEF ReplyCommit
  <2>3. /\ pc' \in [Commands -> Places] /\ pc'[c] = "after"
        /\ \A d \in Commands \ {c} : pc'[d] = pc[d]
      BY <1>2, <2>2 DEF State, Places, Idle
  <2>4. tx' \in [Commands -> TxSet] /\ tx'[c] = w /\ \A d \in Commands \ {c} : tx'[d] = tx[d]
      BY <1>2, <1>4, <2>2 DEF State, Good
  <2>5. /\ DOMAIN committed' = Commands /\ committed'[c] = {r}
        /\ \A d \in Commands \ {c} : committed'[d] = committed[d]
      BY <1>2, <2>2 DEF State
  <2>6. Effects(c)' = {r} /\ \A d \in Commands \ {c} : Effects(d)' = Effects(d)
      BY <1>7, <1>9, <2>5 DEF Effects
  <2>7. StepOf(c) /\ State'
      BY <1>2, <1>7, <1>8, <2>3, <2>4, <2>5, <2>6 DEF StepOf, State
  <2>8. Shape("after", None, w)
      BY <1>4, <1>5 DEF Shape, Idle
  <2>9. Server("after", w, srv'[None])
      BY DEF Server
  <2>10. Effect("after", n[c], w, {r}, "none")
      BY <1>4, <2>1 DEF Effect
  <2>11. Result("after", n[c], w, {r}, ran[c], "none", stray[c])
    <3>1. \A i \in DOMAIN ran[c] : FALSE
        BY <1>2 DEF CommandInv, Result
    <3>2. r.n = n[c]
        BY <2>1
    <3>3. MaxStrays = 0 => stray[c] = {}
        BY <1>2 DEF CommandInv, Result
    <3> QED
        BY <1>2, <1>4, <3>1, <3>2, <3>3 DEF Result
  <2>12. CommandInv(c)'
      BY <1>2, <1>7, <1>8, <2>3, <2>4, <2>5, <2>6, <2>8, <2>9, <2>10, <2>11 DEF CommandInv
  <2> QED
      BY <1>8, <2>7, <2>12, StepKeeps
<1>11. CASE srv[conn[c]].txn # "open"
  <2>1. PICK y : y = [w EXCEPT !.terminal = Failure("internal")]
      OBVIOUS
  <2>2. Failure("internal") \in Terminals /\ Failure("internal") # Open
      BY Failures DEF Codes
  <2>3. /\ y \in TxSet /\ y.task = w.task /\ y.queue = w.queue /\ y.step = w.step
        /\ y.after = w.after /\ y.terminal = Failure("internal")
      BY <1>4, <2>1, <2>2 DEF Good, TxSet
  <2>4. QueueOk(y)
      BY <1>4, <2>3 DEF QueueOk
  <2>5. Good(y) /\ Unfinished(y) = {}
      BY <1>4, <1>5, <2>2, <2>3, <2>4, SameTasks
  <2>6. /\ pc' = [pc EXCEPT ![c] = "ended"] /\ tx' = [tx EXCEPT ![c] = y]
        /\ committed' = committed
      BY <1>3, <1>11, <2>1 DEF ReplyCommit
  <2>7. /\ pc' \in [Commands -> Places] /\ pc'[c] = "ended"
        /\ \A d \in Commands \ {c} : pc'[d] = pc[d]
      BY <1>2, <2>6 DEF State, Places, Idle
  <2>8. tx' \in [Commands -> TxSet] /\ tx'[c] = y /\ \A d \in Commands \ {c} : tx'[d] = tx[d]
      BY <1>2, <2>3, <2>6 DEF State
  <2>9. \A d : Effects(d)' = Effects(d)
      BY <1>7, <2>6 DEF Effects
  <2>10. StepOf(c) /\ State'
      BY <1>2, <1>7, <1>8, <2>6, <2>7, <2>8, <2>9 DEF StepOf, State
  <2>11. Shape("ended", None, y)
      BY <1>4, <2>3, <2>5 DEF Shape, Idle
  <2>12. Server("ended", y, srv'[None])
      BY DEF Server
  <2>13. Effect("ended", n[c], y, {}, "none")
      BY DEF Effect
  <2>14. Result("ended", n[c], y, committed[c], ran[c], "none", stray[c])
      BY <1>2, <1>4, <2>3 DEF CommandInv, Result
  <2>15. CommandInv(c)'
      BY <1>2, <1>7, <1>8, <2>6, <2>7, <2>8, <2>9, <2>11, <2>12, <2>13, <2>14 DEF CommandInv
  <2> QED
      BY <1>8, <2>10, <2>15, StepKeeps
<1> QED
    BY <1>10, <1>11

\* An orphan of command c is all that changes: its effects do not grow.
LEMMA OrphanKeeps ==
  ASSUME Inv, NEW o \in orphan, OrphanCommits(o) \/ OrphanRollsBack(o)
  PROVE  Inv'
<1>1. PICK c : c = o.cmd
    OBVIOUS
<1>2. PICK r : r = [n |-> o.n, writes |-> o.writes]
    OBVIOUS
<1>3. State /\ c \in Commands /\ CommandInv(c)
    BY <1>1 DEF Inv, State
<1>4. /\ pc' = pc /\ n' = n /\ conn' = conn /\ tx' = tx /\ srv' = srv /\ stray' = stray
      /\ ran' = ran /\ outcome' = outcome /\ orphan' = orphan \ {o}
    BY DEF OrphanCommits, OrphanRollsBack, call
<1>5. /\ DOMAIN committed' = Commands /\ committed[c] \subseteq committed'[c]
      /\ committed'[c] \subseteq committed[c] \cup {r}
      /\ \A d \in Commands \ {c} : committed'[d] = committed[d]
    BY <1>1, <1>2, <1>3 DEF OrphanCommits, OrphanRollsBack, State
<1>6. r \in Effects(c)
    BY <1>1, <1>2 DEF Effects
<1>7. Effects(c)' \subseteq Effects(c)
    BY <1>4, <1>5, <1>6 DEF Effects
<1>8. ASSUME NEW d \in Commands \ {c} PROVE Effects(d)' = Effects(d)
  <2>1. {p \in orphan' : p.cmd = d} = {p \in orphan : p.cmd = d}
      BY <1>1, <1>4
  <2> QED
      BY <1>5, <2>1 DEF Effects
<1>9. StepOf(c) /\ State'
    BY <1>3, <1>4, <1>5, <1>8 DEF StepOf, State
<1>10. Effect(pc[c], n[c], tx[c], Effects(c)', outcome[c])
    BY <1>3, <1>7 DEF CommandInv, Effect
<1>11. Result(pc[c], n[c], tx[c], committed'[c], ran[c], outcome[c], stray[c])
    BY <1>3, <1>5 DEF CommandInv, Result
<1>12. CommandInv(c)'
    BY <1>3, <1>4, <1>10, <1>11 DEF CommandInv
<1> QED
    BY <1>3, <1>4, <1>9, <1>12, PoolKept, StepKeeps

\* A new Transaction object is good, and so is one with the opening statements.
LEMMA NewGood ==
  ASSUME NEW y, y = NewTx \/ y = Enqueued(NewTx, BeginUnit)
  PROVE  /\ Good(y) /\ Allocated(y) = {} /\ Unfinished(y) = {} /\ y.step = "check"
         /\ y.after = <<>>
         /\ y = NewTx => y.queue = <<>>
         /\ y = Enqueued(NewTx, BeginUnit) => y.queue = <<BeginUnit>>
<1>1. PICK v : v = IF y = NewTx THEN <<>> ELSE <<BeginUnit>>
    OBVIOUS
<1>2. BeginUnit \in UnitSet /\ BeginUnit.task = Main
    BY StatementLists, CommandAssumption DEF BeginUnit, Unit, UnitSet, Main
<1>3. v \in Seq(UnitSet)
    BY <1>1, <1>2
<1>4. PICK f : f = [i \in Tasks |-> NoTask]
    OBVIOUS
<1>5. f \in [Tasks -> TaskSet] /\ \A i \in Tasks : f[i] = NoTask /\ f[i].stage = "free"
    BY <1>4, CommandAssumption DEF NoTask, TaskSet, Stages, Main
<1>6. y = [queue |-> v, step |-> "check", terminal |-> Open, commitSent |-> FALSE, nested |-> 0,
           after |-> <<>>, task |-> f]
  <2>1. CASE y = NewTx
      BY <1>1, <1>4, <2>1 DEF NewTx
  <2>2. CASE y # NewTx
    <3>1. Append(<<>>, BeginUnit) = <<BeginUnit>>
        BY <1>2
    <3> QED
        BY <1>1, <1>4, <2>2, <3>1 DEF NewTx, Enqueued
  <2> QED
      BY <2>1, <2>2
<1>7. Open \in Terminals
    BY DEF Open, Terminal, Terminals, Codes
<1>8. /\ y \in TxSet /\ y.queue = v /\ y.step = "check" /\ y.terminal = Open /\ y.after = <<>>
      /\ y.task = f
  <2>1. <<>> \in Seq(Nat)
      OBVIOUS
  <2> QED
      BY <1>3, <1>5, <1>6, <1>7, <2>1 DEF TxSet
<1>9. Allocated(y) = {} /\ Roots(y) = {} /\ Unfinished(y) = {}
    BY <1>5, <1>8 DEF Allocated, Roots, Unfinished
<1>10. Numbered(y)
  <2>1. 0 \in 0..MaxTasks /\ 1..0 = {}
      BY CommandAssumption
  <2> QED
      BY <1>9, <2>1 DEF Numbered
<1>11. Space(y)
  <2>1. Cardinality({}) = 0
      BY FS_EmptySet
  <2> QED
      BY <1>9, <2>1, CommandAssumption DEF Space
<1>12. Tree(y) /\ OneRoot(y) /\ FailedOk(y) /\ KindOk(y)
    BY <1>5, <1>8, <1>9 DEF Tree, OneRoot, FailedOk, KindOk, InHook
<1>13. QueueOk(y)
  <2>1. \A q \in DOMAIN v : q = 1 /\ v[q] = BeginUnit
      BY <1>1
  <2> QED
      BY <1>8, <2>1 DEF QueueOk, Whole
<1>14. NewTx # Enqueued(NewTx, BeginUnit)
  <2>1. NewTx.queue = <<>>
      BY DEF NewTx
  <2>2. Enqueued(NewTx, BeginUnit).queue = Append(<<>>, BeginUnit)
      BY DEF NewTx, Enqueued
  <2>3. Append(<<>>, BeginUnit) # <<>>
      BY <1>2
  <2> QED
      BY <2>1, <2>2, <2>3
<1> QED
    BY <1>1, <1>8, <1>9, <1>10, <1>11, <1>12, <1>13, <1>14 DEF Good

\* Connect keeps the invariant.
LEMMA ConnectKeeps ==
  ASSUME Inv, NEW c \in Commands, NEW k \in Conns, Connect(c, k)
  PROVE  Inv'
<1>1. State /\ CommandInv(c) /\ PoolInv
    BY DEF Inv
<1>2. /\ pc[c] = "connect" /\ (\A d \in Commands : conn[d] # k)
      /\ UNCHANGED <<n, srv, stray, orphan, committed, ran, outcome>>
    BY DEF Connect
<1>3. PICK y : y = Enqueued(NewTx, BeginUnit)
    OBVIOUS
<1>4. /\ Good(y) /\ Allocated(y) = {} /\ Unfinished(y) = {} /\ y.step = "check" /\ y.after = <<>>
      /\ y.queue = <<BeginUnit>>
    BY <1>3, NewGood
<1>5. /\ pc' \in [Commands -> Places] /\ pc'[c] = "begin"
      /\ \A d \in Commands \ {c} : pc'[d] = pc[d]
    BY <1>1 DEF Connect, State, Places
<1>6. tx' \in [Commands -> TxSet] /\ tx'[c] = y /\ \A d \in Commands \ {c} : tx'[d] = tx[d]
    BY <1>1, <1>3, <1>4 DEF Connect, State, Good
<1>7. /\ conn' \in [Commands -> Conns \cup {None}] /\ conn'[c] = k
      /\ \A d \in Commands \ {c} : conn'[d] = conn[d]
    BY <1>1 DEF Connect, State
<1>8. \A d : Effects(d)' = Effects(d)
    BY <1>2 DEF Effects
<1>9. StepOf(c) /\ State'
    BY <1>1, <1>2, <1>5, <1>6, <1>7, <1>8 DEF StepOf, State
<1>10. conn[c] = None
    BY <1>1, <1>2 DEF CommandInv, Shape, Idle
<1>11. PoolInv'
  <2>1. \A d, e \in Commands : conn'[d] = conn'[e] /\ conn'[d] # None => d = e
      BY <1>1, <1>2, <1>7 DEF PoolInv
  <2>2. ASSUME NEW l \in Conns, \A d \in Commands : conn'[d] # l PROVE srv'[l].txn = "idle"
    <3>1. \A d \in Commands : conn[d] # l
        BY <1>7, <1>10, <2>2, CommandAssumption
    <3> QED
        BY <1>1, <1>2, <3>1 DEF PoolInv
  <2> QED
      BY <2>1, <2>2 DEF PoolInv
<1>12. Shape("begin", k, y)
    BY <1>4, CommandAssumption DEF Shape, Idle
<1>13. Server("begin", y, srv[k])
    BY DEF Server
<1>14. Effects(c) = {} /\ outcome[c] = "none"
    BY <1>1, <1>2 DEF CommandInv, Effect, Result
<1>15. Effect("begin", n[c], y, {}, "none")
    BY DEF Effect
<1>16. Result("begin", n[c], y, committed[c], ran[c], "none", stray[c])
    BY <1>1, <1>4, <1>14 DEF CommandInv, Result
<1>17. CommandInv(c)'
    BY <1>2, <1>5, <1>6, <1>7, <1>8, <1>12, <1>13, <1>14, <1>15, <1>16 DEF CommandInv
<1> QED
    BY <1>9, <1>11, <1>17, StepKeeps

\* The function f becomes g: it has the value v at c and is as it was elsewhere.
Sets(f, g, c, v, S) ==
  g \in [Commands -> S] /\ g[c] = v /\ \A d \in Commands \ {c} : g[d] = f[d]

\* A step of the flow that keeps the connection, from the command's new state.
LEMMA FlowKeeps ==
  ASSUME Inv, NEW c \in Commands, NEW p \in Places, NEW m \in Nat, NEW y \in TxSet,
         NEW R \in Seq(Nat), NEW o \in Codes \cup {"ok"},
         Sets(pc, pc', c, p, Places), Sets(n, n', c, m, Nat), Sets(tx, tx', c, y, TxSet),
         Sets(ran, ran', c, R, Seq(Nat)), Sets(outcome, outcome', c, o, Codes \cup {"ok"}),
         UNCHANGED <<conn, srv, stray, orphan, committed>>,
         Shape(p, conn[c], y), Server(p, y, srv[conn[c]]), Effect(p, m, y, Effects(c), o),
         Result(p, m, y, committed[c], R, o, stray[c])
  PROVE  Inv'
<1>1. State
    BY DEF Inv
<1>2. /\ pc' \in [Commands -> Places] /\ n' \in [Commands -> Nat] /\ tx' \in [Commands -> TxSet]
      /\ ran' \in [Commands -> Seq(Nat)] /\ outcome' \in [Commands -> Codes \cup {"ok"}]
      /\ pc'[c] = p /\ n'[c] = m /\ tx'[c] = y /\ ran'[c] = R /\ outcome'[c] = o
    BY DEF Sets
<1>3. \A d \in Commands \ {c} : /\ pc'[d] = pc[d] /\ n'[d] = n[d] /\ tx'[d] = tx[d]
                                /\ ran'[d] = ran[d] /\ outcome'[d] = outcome[d]
    BY DEF Sets
<1>4. \A d : Effects(d)' = Effects(d)
    BY DEF Effects
<1>5. StepOf(c) /\ State'
    BY <1>1, <1>2, <1>3, <1>4 DEF StepOf, State
<1>6. CommandInv(c)'
    BY <1>2, <1>4 DEF CommandInv
<1> QED
    BY <1>5, <1>6, PoolKept, StepKeeps

\* What an assignment does, and what is left alone.
LEMMA Assigns ==
  ASSUME NEW S, NEW f \in [Commands -> S], NEW c \in Commands
  PROVE  /\ Sets(f, f, c, f[c], S) /\ f[c] \in S
         /\ \A v \in S : Sets(f, [f EXCEPT ![c] = v], c, v, S)
BY DEF Sets

\* What a step does not touch stays as it is.
LEMMA Unchanged ==
  ASSUME Inv, NEW c \in Commands
  PROVE  /\ UNCHANGED pc => Sets(pc, pc', c, pc[c], Places)
         /\ UNCHANGED n => Sets(n, n', c, n[c], Nat)
         /\ UNCHANGED tx => Sets(tx, tx', c, tx[c], TxSet)
         /\ UNCHANGED ran => Sets(ran, ran', c, ran[c], Seq(Nat))
         /\ UNCHANGED outcome => Sets(outcome, outcome', c, outcome[c], Codes \cup {"ok"})
         /\ pc[c] \in Places /\ n[c] \in Nat /\ tx[c] \in TxSet /\ ran[c] \in Seq(Nat)
         /\ outcome[c] \in Codes \cup {"ok"}
BY Assigns DEF Inv, State

\* The operations have settled, so nothing is left in the queue.
LEMMA QueueEmpties ==
  ASSUME Inv, NEW c \in Commands, pc[c] = "ops",
         \A i \in Roots(tx[c]) : tx[c].task[i].stage \in Finished
  PROVE  Unfinished(tx[c]) = {} /\ tx[c].queue = <<>> /\ tx[c].step = "check"
<1>1. OpsOk(tx[c], srv[conn[c]], n[c]) /\ Good(tx[c]) /\ tx[c] \in TxSet
    BY OpsRun DEF OpsOk, Good
<1>2. Unfinished(tx[c]) = {}
    BY <1>1, RootsSettle
<1>3. \A q \in DOMAIN tx[c].queue : FALSE
  <2> TAKE q \in DOMAIN tx[c].queue
  <2>1. tx[c].queue[q].task \in Tasks
      BY <1>1 DEF OpsOk
  <2>2. tx[c].task[tx[c].queue[q].task].stage = "queued"
      BY <1>1, <2>1, UnitQueued DEF Good
  <2> QED
      BY <1>2, <2>1, <2>2 DEF Unfinished, Allocated, Finished
<1>4. tx[c].queue = <<>>
  <2>1. tx[c].queue \in Seq(UnitSet)
      BY <1>1 DEF TxSet
  <2>2. Len(tx[c].queue) \in Nat /\ DOMAIN tx[c].queue = 1..Len(tx[c].queue)
      BY <2>1
  <2>3. Len(tx[c].queue) = 0
    <3>1. PICK l \in Nat : l = Len(tx[c].queue)
        BY <2>2
    <3>2. 1 \notin 1..l
        BY <1>3, <2>2, <3>1
    <3> QED
        BY <3>1, <3>2
  <2> QED
      BY <2>1, <2>3, EmptySeq
<1> QED
    BY <1>1, <1>2, <1>4 DEF OpsOk

\* The steps of the flow before the operations keep the invariant.
LEMMA StartKeeps ==
  ASSUME Inv, NEW c \in Commands,
         \/ Run(c) \/ InvalidInput(c) \/ User(c)
         \/ \E code \in {"unavailable", "database"} : ConnectFails(c, code)
  PROVE  Inv'
<1>1. CommandInv(c) /\ State
    BY DEF Inv
<1>2. CASE Run(c)
  <2>1. pc[c] = "idle" /\ UNCHANGED <<conn, tx, srv, stray, orphan, committed, ran, outcome>>
        /\ pc' = [pc EXCEPT ![c] = "connect"] /\ n' = [n EXCEPT ![c] = 1]
      BY <1>2 DEF Run
  <2>2. Shape("connect", conn[c], tx[c]) /\ Server("connect", tx[c], srv[conn[c]])
      BY <1>1, <2>1 DEF CommandInv, Shape, Server, Idle
  <2>3. Effect("connect", 1, tx[c], Effects(c), outcome[c])
      BY <1>1, <2>1 DEF CommandInv, Effect
  <2>4. Result("connect", 1, tx[c], committed[c], ran[c], outcome[c], stray[c])
      BY <1>1, <2>1 DEF CommandInv, Result
  <2>5. /\ "connect" \in Places /\ 1 \in Nat
        /\ Sets(pc, pc', c, "connect", Places) /\ Sets(n, n', c, 1, Nat)
      BY <1>1, <2>1, Assigns DEF State, Places, Idle
  <2> QED
      BY <2>1, <2>2, <2>3, <2>4, <2>5, Unchanged, FlowKeeps
<1>3. CASE InvalidInput(c) \/ \E code \in {"unavailable", "database"} : ConnectFails(c, code)
  <2>1. PICK code \in {"invalid", "unavailable", "database"} :
          /\ pc[c] \in {"idle", "connect"}
          /\ pc' = [pc EXCEPT ![c] = "done"] /\ outcome' = [outcome EXCEPT ![c] = code]
          /\ UNCHANGED <<n, conn, tx, srv, stray, orphan, committed, ran>>
      BY <1>3 DEF InvalidInput, ConnectFails, Answer
  <2>2. Shape("done", conn[c], tx[c]) /\ Server("done", tx[c], srv[conn[c]])
      BY <1>1, <2>1 DEF CommandInv, Shape, Server, Idle
  <2>3. Effect("done", n[c], tx[c], Effects(c), code)
      BY <1>1, <2>1 DEF CommandInv, Effect
  <2>4. Result("done", n[c], tx[c], committed[c], ran[c], code, stray[c])
      BY <1>1, <2>1 DEF CommandInv, Result
  <2>5. /\ "done" \in Places /\ code \in Codes \cup {"ok"}
        /\ Sets(pc, pc', c, "done", Places)
        /\ Sets(outcome, outcome', c, code, Codes \cup {"ok"})
      BY <1>1, <2>1, Assigns DEF State, Places, Idle, Codes
  <2> QED
      BY <2>1, <2>2, <2>3, <2>4, <2>5, Unchanged, FlowKeeps
<1>4. CASE User(c)
  <2>1. pc[c] = "user" /\ UNCHANGED <<n, conn, tx, srv, stray, orphan, committed, ran, outcome>>
        /\ pc' = [pc EXCEPT ![c] = "ops"]
      BY <1>4 DEF User
  <2>2. Shape("ops", conn[c], tx[c]) /\ Server("ops", tx[c], srv[conn[c]])
      BY <1>1, <2>1 DEF CommandInv, Shape, Server, Idle, ContextOk
  <2>3. Effect("ops", n[c], tx[c], Effects(c), outcome[c])
      BY <1>1, <2>1 DEF CommandInv, Effect
  <2>4. Result("ops", n[c], tx[c], committed[c], ran[c], outcome[c], stray[c])
      BY <1>1, <2>1 DEF CommandInv, Result
  <2>5. "ops" \in Places /\ Sets(pc, pc', c, "ops", Places)
      BY <1>1, <2>1, Assigns DEF State, Places
  <2> QED
      BY <2>1, <2>2, <2>3, <2>4, <2>5, Unchanged, FlowKeeps
<1> QED
    BY <1>2, <1>3, <1>4

\* Unauthenticated keeps the invariant.
LEMMA UnauthenticatedKeeps ==
  ASSUME Inv, NEW c \in Commands, Unauthenticated(c)
  PROVE  Inv'
<1>1. CommandInv(c) /\ State /\ pc[c] = "user"
    BY DEF Inv, Unauthenticated
<1>2. PICK y : y = Closed(tx[c], Failure("unauthenticated"))
    OBVIOUS
<1>3. Failure("unauthenticated") \in Terminals /\ Failure("unauthenticated") # Open
    BY Failures DEF Codes
<1>4. Good(tx[c])
    BY <1>1 DEF CommandInv, Shape
<1>5. /\ Good(y) /\ Unfinished(y) = Unfinished(tx[c]) /\ y.queue = tx[c].queue
      /\ y.step = tx[c].step /\ y.after = tx[c].after
    BY <1>2, <1>3, <1>4, ClosedGood
<1>6. /\ UNCHANGED <<n, conn, srv, stray, orphan, committed, ran, outcome>>
      /\ pc' = [pc EXCEPT ![c] = "failing"] /\ tx' = [tx EXCEPT ![c] = y]
    BY <1>2 DEF Unauthenticated
<1>7. Shape("failing", conn[c], y) /\ Server("failing", y, srv[conn[c]])
    BY <1>1, <1>5 DEF CommandInv, Shape, Server, Idle
<1>8. Effect("failing", n[c], y, Effects(c), outcome[c])
    BY <1>1 DEF CommandInv, Effect
<1>9. Result("failing", n[c], y, committed[c], ran[c], outcome[c], stray[c])
    BY <1>1, <1>5 DEF CommandInv, Result
<1>10. /\ "failing" \in Places /\ y \in TxSet
       /\ Sets(pc, pc', c, "failing", Places) /\ Sets(tx, tx', c, y, TxSet)
    BY <1>1, <1>5, <1>6, Assigns DEF State, Places, Good
<1> QED
    BY <1>6, <1>7, <1>8, <1>9, <1>10, Unchanged, FlowKeeps

\* EnqueueCommit keeps the invariant: COMMIT is the only unit of the queue.
LEMMA EnqueueCommitKeeps ==
  ASSUME Inv, NEW c \in Commands, EnqueueCommit(c)
  PROVE  Inv'
<1>1. /\ CommandInv(c) /\ State /\ pc[c] = "ops"
      /\ \A i \in Roots(tx[c]) : tx[c].task[i].stage = "done"
    BY DEF Inv, EnqueueCommit
<1>2. Unfinished(tx[c]) = {} /\ tx[c].queue = <<>> /\ tx[c].step = "check"
    BY <1>1, QueueEmpties DEF Finished
<1>3. Good(tx[c]) /\ tx[c] \in TxSet /\ Effects(c) = {} /\ WritesOk(tx[c], srv[conn[c]])
    BY <1>1, OpsRun DEF OpsOk, Good
<1>4. CommitUnit \in UnitSet
    BY StatementLists, CommandAssumption DEF CommitUnit, Unit, UnitSet, Main
<1>5. PICK v \in Seq(UnitSet) : v = <<CommitUnit>> /\ v = Append(<<>>, CommitUnit)
  <2>1. <<CommitUnit>> \in Seq(UnitSet)
      BY <1>4
  <2>2. Append(<<>>, CommitUnit) = <<CommitUnit>>
      BY <1>4
  <2> QED
      BY <2>1, <2>2
<1>6. PICK y : y = Enqueued(tx[c], CommitUnit)
    OBVIOUS
<1>7. y = [tx[c] EXCEPT !.queue = v]
    BY <1>2, <1>5, <1>6 DEF Enqueued
<1>8. /\ y \in TxSet /\ y.queue = v /\ y.task = tx[c].task /\ y.terminal = tx[c].terminal
      /\ y.step = "check" /\ y.after = tx[c].after
    BY <1>2, <1>3, <1>7 DEF TxSet
<1>9. QueueOk(y)
  <2>1. \A q \in DOMAIN v : q = 1 /\ v[q] = CommitUnit
      BY <1>5
  <2> QED
      BY <1>8, <2>1 DEF QueueOk, Whole
<1>10. Good(y) /\ Unfinished(y) = {} /\ Phases(y) = Phases(tx[c])
    BY <1>2, <1>3, <1>8, <1>9, SameTasks
<1>11. /\ UNCHANGED <<n, conn, srv, stray, orphan, committed, ran, outcome>>
       /\ pc' = [pc EXCEPT ![c] = "commit"] /\ tx' = [tx EXCEPT ![c] = y]
    BY <1>6 DEF EnqueueCommit
<1>12. y.queue # <<>>
    BY <1>5, <1>8
<1>13. Shape("commit", conn[c], y)
    BY <1>1, <1>5, <1>8, <1>10, <1>12 DEF CommandInv, Shape, Idle
<1>14. Server("commit", y, srv[conn[c]])
    BY <1>3, <1>8, <1>10 DEF Server, WritesOk
<1>15. Effect("commit", n[c], y, Effects(c), outcome[c])
    BY <1>3 DEF Effect
<1>16. Result("commit", n[c], y, committed[c], ran[c], outcome[c], stray[c])
    BY <1>1, <1>8 DEF CommandInv, Result
<1>17. /\ "commit" \in Places
       /\ Sets(pc, pc', c, "commit", Places) /\ Sets(tx, tx', c, y, TxSet)
    BY <1>1, <1>8, <1>11, Assigns DEF State, Places
<1> QED
    BY <1>8, <1>11, <1>13, <1>14, <1>15, <1>16, <1>17, Unchanged, FlowKeeps

\* OpFails keeps the invariant: the other operations are done, so nothing runs on.
LEMMA OpFailsKeeps ==
  ASSUME Inv, NEW c \in Commands, OpFails(c)
  PROVE  Inv'
<1>1. /\ CommandInv(c) /\ State /\ pc[c] = "ops"
      /\ \E i \in Roots(tx[c]) : tx[c].task[i].stage = "failed"
      /\ pc' = [pc EXCEPT ![c] = "failing"]
      /\ UNCHANGED <<n, conn, tx, srv, stray, orphan, committed, ran, outcome>>
    BY DEF Inv, OpFails
<1>2. Good(tx[c]) /\ Effects(c) = {}
    BY <1>1, OpsRun DEF OpsOk
<1>3. \A i \in Roots(tx[c]) : tx[c].task[i].stage \in Finished
    BY <1>1, <1>2 DEF Good, OneRoot, Finished
<1>4. Unfinished(tx[c]) = {} /\ tx[c].queue = <<>> /\ tx[c].step = "check"
    BY <1>1, <1>3, QueueEmpties
<1>5. Shape("failing", conn[c], tx[c]) /\ Server("failing", tx[c], srv[conn[c]])
    BY <1>1, <1>4 DEF CommandInv, Shape, Server, Idle
<1>6. Effect("failing", n[c], tx[c], Effects(c), outcome[c])
    BY <1>2 DEF Effect
<1>7. Result("failing", n[c], tx[c], committed[c], ran[c], outcome[c], stray[c])
    BY <1>1 DEF CommandInv, Result
<1>8. "failing" \in Places /\ Sets(pc, pc', c, "failing", Places)
    BY <1>1, Assigns DEF State, Places
<1> QED
    BY <1>1, <1>5, <1>6, <1>7, <1>8, Unchanged, FlowKeeps

\* EndFailed keeps the invariant: the session it leaves is idle.
LEMMA EndFailedKeeps ==
  ASSUME Inv, NEW c \in Commands, EndFailed(c)
  PROVE  Inv'
<1>1. /\ CommandInv(c) /\ State /\ pc[c] = "failing" /\ tx[c].queue = <<>>
      /\ UNCHANGED <<n, tx, stray, orphan, committed, ran, outcome>>
    BY DEF Inv, EndFailed
<1>2. conn[c] \in Conns
    BY <1>1 DEF CommandInv, Shape, State, Idle
<1>3. /\ PoolInv' /\ conn' \in [Commands -> Conns \cup {None}] /\ srv' \in [Conns -> SrvSet]
      /\ conn'[c] = None /\ (\A d \in Commands \ {c} : conn'[d] = conn[d])
      /\ \A k \in Conns : k # conn[c] => srv'[k] = srv[k]
    BY <1>2, Released DEF EndFailed
<1>4. Sets(pc, pc', c, "ended", Places)
    BY <1>1, Assigns DEF EndFailed, State, Places, Idle
<1>5. \A d : Effects(d)' = Effects(d)
    BY <1>1 DEF Effects
<1>6. StepOf(c) /\ State'
    BY <1>1, <1>3, <1>4, <1>5 DEF StepOf, State, Sets
<1>7. Shape("ended", None, tx[c]) /\ Server("ended", tx[c], srv'[None])
    BY <1>1 DEF CommandInv, Shape, Server, Idle
<1>8. Effect("ended", n[c], tx[c], Effects(c), outcome[c])
    BY <1>1 DEF CommandInv, Effect
<1>9. Result("ended", n[c], tx[c], committed[c], ran[c], outcome[c], stray[c])
    BY <1>1 DEF CommandInv, Result
<1>10. CommandInv(c)'
    BY <1>1, <1>3, <1>4, <1>5, <1>7, <1>8, <1>9 DEF CommandInv, Sets
<1> QED
    BY <1>3, <1>6, <1>10, StepKeeps

\* Retry, NoTimeToRetry and GiveUp keep the invariant: what may be retried, or is
\* answered with a timeout, has left nothing behind.
LEMMA EndKeeps ==
  ASSUME Inv, NEW c \in Commands, Retry(c) \/ NoTimeToRetry(c) \/ GiveUp(c)
  PROVE  Inv'
<1>1. CommandInv(c) /\ State /\ pc[c] = "ended"
    BY DEF Inv, Retry, NoTimeToRetry, GiveUp
<1>2. tx[c].terminal.retry # "no" => Effects(c) = {}
    BY <1>1 DEF CommandInv, Effect
<1>3. CASE Retry(c)
  <2>1. PICK m \in Nat : m = n[c] + 1
      BY <1>1 DEF State
  <2>2. /\ UNCHANGED <<conn, tx, srv, stray, orphan, committed, ran, outcome>>
        /\ pc' = [pc EXCEPT ![c] = "connect"] /\ n' = [n EXCEPT ![c] = m]
        /\ tx[c].terminal.retry # "no"
      BY <1>3, <2>1 DEF Retry
  <2>3. Shape("connect", conn[c], tx[c]) /\ Server("connect", tx[c], srv[conn[c]])
      BY <1>1 DEF CommandInv, Shape, Server, Idle
  <2>4. Effect("connect", m, tx[c], Effects(c), outcome[c])
      BY <1>2, <2>2 DEF Effect
  <2>5. Result("connect", m, tx[c], committed[c], ran[c], outcome[c], stray[c])
      BY <1>1 DEF CommandInv, Result
  <2>6. /\ "connect" \in Places /\ Sets(pc, pc', c, "connect", Places) /\ Sets(n, n', c, m, Nat)
      BY <1>1, <2>2, Assigns DEF State, Places, Idle
  <2> QED
      BY <2>2, <2>3, <2>4, <2>5, <2>6, Unchanged, FlowKeeps
<1>4. CASE NoTimeToRetry(c) \/ GiveUp(c)
  <2>1. tx[c].terminal.code \in Codes
      BY <1>1 DEF State, TxSet, Terminals
  <2>2. PICK code \in Codes :
          /\ pc' = [pc EXCEPT ![c] = "done"] /\ outcome' = [outcome EXCEPT ![c] = code]
          /\ UNCHANGED <<n, conn, tx, srv, stray, orphan, committed, ran>>
          /\ tx[c].terminal.retry = "pause" \/ code = tx[c].terminal.code
      BY <1>4, <2>1 DEF NoTimeToRetry, GiveUp, Answer, Codes
  <2>3. Shape("done", conn[c], tx[c]) /\ Server("done", tx[c], srv[conn[c]])
      BY <1>1 DEF CommandInv, Shape, Server, Idle
  <2>4. Effect("done", n[c], tx[c], Effects(c), code)
      BY <1>1, <1>2, <2>2 DEF CommandInv, Effect
  <2>5. code # "ok" /\ code \in Codes \cup {"ok"}
      BY DEF Codes
  <2>6. Result("done", n[c], tx[c], committed[c], ran[c], code, stray[c])
      BY <1>1, <2>5 DEF CommandInv, Result
  <2>7. /\ "done" \in Places /\ Sets(pc, pc', c, "done", Places)
        /\ Sets(outcome, outcome', c, code, Codes \cup {"ok"})
      BY <1>1, <2>2, <2>5, Assigns DEF State, Places, Idle
  <2> QED
      BY <2>2, <2>3, <2>4, <2>5, <2>6, <2>7, Unchanged, FlowKeeps
<1> QED
    BY <1>3, <1>4

\* Succeed keeps the invariant.
LEMMA SucceedKeeps ==
  ASSUME Inv, NEW c \in Commands, Succeed(c)
  PROVE  Inv'
<1>1. /\ CommandInv(c) /\ State /\ pc[c] = "after"
      /\ pc' = [pc EXCEPT ![c] = "done"] /\ outcome' = [outcome EXCEPT ![c] = "ok"]
      /\ UNCHANGED <<n, conn, tx, srv, stray, orphan, committed, ran>>
    BY DEF Inv, Succeed, Answer
<1>2. Shape("done", conn[c], tx[c]) /\ Server("done", tx[c], srv[conn[c]])
    BY <1>1 DEF CommandInv, Shape, Server, Idle
<1>3. Effect("done", n[c], tx[c], Effects(c), "ok")
    BY <1>1 DEF CommandInv, Effect
<1>4. Result("done", n[c], tx[c], committed[c], ran[c], "ok", stray[c])
    BY <1>1 DEF CommandInv, Result
<1>5. /\ "done" \in Places /\ Sets(pc, pc', c, "done", Places) /\ "ok" \in Codes \cup {"ok"}
      /\ Sets(outcome, outcome', c, "ok", Codes \cup {"ok"})
    BY <1>1, Assigns DEF State, Places, Idle
<1> QED
    BY <1>1, <1>2, <1>3, <1>4, <1>5, Unchanged, FlowKeeps

\* RunAfterCommit keeps the invariant: what runs was registered by the attempt that
\* is committed.
LEMMA RunAfterCommitKeeps ==
  ASSUME Inv, NEW c \in Commands, RunAfterCommit(c)
  PROVE  Inv'
<1>1. CommandInv(c) /\ State /\ tx[c].after # <<>> /\ (pc[c] = "after" \/ outcome[c] = "ok")
    BY DEF Inv, RunAfterCommit
<1>2. /\ CommandInv(c) /\ State /\ tx[c].after # <<>> /\ pc[c] \in {"after", "done"}
      /\ (pc[c] = "done" => outcome[c] = "ok")
    BY <1>1 DEF Inv, RunAfterCommit, CommandInv, Result
<1>3. /\ \A i \in DOMAIN tx[c].after : tx[c].after[i] = n[c]
      /\ \E r \in committed[c] : r.n = n[c]
    BY <1>2 DEF CommandInv, Result
<1>4. PICK a \in Seq(Nat) : a = tx[c].after
    BY <1>2 DEF State, TxSet
<1>5. PICK v \in Seq(Nat) : v = Tail(a)
    BY <1>2, <1>4, HeadTailProperties
<1>6. Head(a) = n[c] /\ \A i \in DOMAIN v : v[i] = n[c]
    BY <1>2, <1>3, <1>4, <1>5
<1>7. PICK b \in Seq(Nat) : b = ran[c]
    BY <1>2 DEF State
<1>8. PICK R \in Seq(Nat) : R = Append(b, Head(a))
    BY <1>2, <1>6, AppendProperties DEF State
<1>9. \A i \in DOMAIN R : \E r \in committed[c] : r.n = R[i]
  <2>1. \A i \in DOMAIN b : \E r \in committed[c] : r.n = b[i]
      BY <1>2, <1>7 DEF CommandInv, Result
  <2>2. n[c] \in Nat /\ R = Append(b, n[c])
      BY <1>2, <1>6, <1>8 DEF State
  <2>3. \A i \in DOMAIN R : R[i] = n[c] \/ (i \in DOMAIN b /\ R[i] = b[i])
      BY <2>2
  <2> QED
      BY <1>3, <2>1, <2>3
<1>10. PICK y : y = [tx[c] EXCEPT !.after = v]
    OBVIOUS
<1>11. tx[c] \in TxSet /\ Good(tx[c])
    BY <1>2 DEF CommandInv, Shape, Good
<1>12. /\ y \in TxSet /\ y.queue = tx[c].queue /\ y.task = tx[c].task /\ y.step = tx[c].step
       /\ y.terminal = tx[c].terminal /\ y.after = v
    BY <1>10, <1>11 DEF TxSet
<1>13. QueueOk(y)
    BY <1>11, <1>12, SameQueue DEF Good
<1>14. /\ Good(y) /\ Allocated(y) = Allocated(tx[c]) /\ Phases(y) = Phases(tx[c])
       /\ Unfinished(y) = Unfinished(tx[c]) /\ (AllDone(tx[c]) => AllDone(y))
    BY <1>11, <1>12, <1>13, SameTasks
<1>15. /\ UNCHANGED <<pc, n, conn, srv, stray, orphan, committed, outcome>>
       /\ tx' = [tx EXCEPT ![c] = y] /\ ran' = [ran EXCEPT ![c] = R]
    BY <1>4, <1>5, <1>7, <1>8, <1>10 DEF RunAfterCommit, call
<1>16. Shape(pc[c], conn[c], y) /\ Server(pc[c], y, srv[conn[c]])
    BY <1>2, <1>12, <1>14 DEF CommandInv, Shape, Server
<1>17. Effect(pc[c], n[c], y, Effects(c), outcome[c])
    BY <1>2, <1>14 DEF CommandInv, Effect
<1>18. Result(pc[c], n[c], y, committed[c], R, outcome[c], stray[c])
    BY <1>2, <1>6, <1>9, <1>12 DEF CommandInv, Result
<1>19. Sets(tx, tx', c, y, TxSet) /\ Sets(ran, ran', c, R, Seq(Nat))
    BY <1>2, <1>12, <1>15, Assigns DEF State
<1> QED
    BY <1>12, <1>15, <1>16, <1>17, <1>18, <1>19, Unchanged, FlowKeeps

-----------------------------------------------------------------------------
(* The theorems *)

\* The invariant holds initially.
LEMMA InitInv == Init => Inv
<1> SUFFICES ASSUME Init PROVE Inv
    OBVIOUS
<1>1. PICK y : y = NewTx
    OBVIOUS
<1>2. /\ Good(y) /\ Allocated(y) = {} /\ Unfinished(y) = {} /\ y.step = "check" /\ y.after = <<>>
      /\ y.queue = <<>> /\ y \in TxSet
    BY <1>1, NewGood DEF Good
<1>3. PICK z : z = [txn |-> "idle", context |-> Main, writes |-> {}]
    OBVIOUS
<1>4. z \in SrvSet /\ z.txn = "idle"
    BY <1>3, CommandAssumption DEF SrvSet, Main
<1>5. <<>> \in Seq(Nat)
    OBVIOUS
<1>6. State
    BY <1>1, <1>2, <1>3, <1>4, <1>5 DEF Init, State, Places, Idle, Codes
<1>7. PoolInv
    BY <1>3, <1>4 DEF Init, PoolInv
<1>8. ASSUME NEW c \in Commands PROVE CommandInv(c)
  <2>1. /\ pc[c] = "idle" /\ n[c] = 0 /\ conn[c] = None /\ tx[c] = y /\ stray[c] = {}
        /\ orphan = {} /\ committed[c] = {} /\ ran[c] = <<>> /\ outcome[c] = "none"
      BY <1>1 DEF Init
  <2>2. Shape("idle", None, y) /\ Server("idle", y, srv[None])
      BY <1>2 DEF Shape, Server, Idle
  <2>3. Effects(c) = {}
      BY <2>1 DEF Effects
  <2>4. Effect("idle", 0, y, {}, "none") /\ Result("idle", 0, y, {}, <<>>, "none", {})
      BY <1>2 DEF Effect, Result
  <2> QED
      BY <2>1, <2>2, <2>3, <2>4 DEF CommandInv
<1> QED
    BY <1>6, <1>7, <1>8 DEF Inv

\* A step that changes nothing keeps the invariant.
LEMMA StutterKeeps ==
  ASSUME Inv, UNCHANGED vars
  PROVE  Inv'
<1>1. /\ pc' = pc /\ n' = n /\ conn' = conn /\ tx' = tx /\ srv' = srv /\ stray' = stray
      /\ orphan' = orphan /\ committed' = committed /\ ran' = ran /\ outcome' = outcome
    BY DEF vars, call
<1>2. \A d : Effects(d)' = Effects(d)
    BY <1>1 DEF Effects
<1>3. \A d \in Commands : CommandInv(d)'
    BY <1>1, <1>2, Frame
<1>4. State' /\ PoolInv'
    BY <1>1 DEF Inv, State, PoolInv
<1> QED
    BY <1>3, <1>4 DEF Inv

\* The invariant is inductive.
LEMMA NextInv == Inv /\ [Next]_vars => Inv'
<1> SUFFICES ASSUME Inv, [Next]_vars PROVE Inv'
    OBVIOUS
<1>1. ASSUME NEW c \in Commands, Queue(c) PROVE Inv'
    BY <1>1, UnitCheckKeeps, SendKeeps, ReplyKeeps, ReplyCommitKeeps DEF Queue
<1>2. ASSUME NEW c \in Commands, Phase(c) PROVE Inv'
    BY <1>2, StartOpKeeps, HookSettledKeeps DEF Phase
<1>3. ASSUME NEW c \in Commands, Hook(c) PROVE Inv'
    BY <1>3, HookReturnsKeeps DEF Hook
<1>4. ASSUME NEW c \in Commands, Flow(c) PROVE Inv'
  <2>1. CASE \E k \in Conns : Connect(c, k)
      BY <2>1, ConnectKeeps
  <2>2. CASE User(c)
      BY <2>2, StartKeeps
  <2>3. CASE EnqueueCommit(c) \/ OpFails(c) \/ EndFailed(c)
      BY <2>3, EnqueueCommitKeeps, OpFailsKeeps, EndFailedKeeps
  <2>4. CASE Retry(c) \/ GiveUp(c)
      BY <2>4, EndKeeps
  <2>5. CASE RunAfterCommit(c) \/ Succeed(c)
      BY <2>5, RunAfterCommitKeeps, SucceedKeeps
  <2> QED
      BY <1>4, <2>1, <2>2, <2>3, <2>4, <2>5 DEF Flow
<1>5. ASSUME NEW c \in Commands, Fails(c) PROVE Inv'
  <2>1. CASE BudgetOut(c) \/ Unauthenticated(c)
      BY <2>1, BudgetOutKeeps, UnauthenticatedKeeps
  <2>2. CASE InvalidInput(c) \/ \E code \in {"unavailable", "database"} : ConnectFails(c, code)
      BY <2>2, StartKeeps
  <2>3. CASE NoTimeToRetry(c)
      BY <2>3, EndKeeps
  <2>4. CASE \E e \in {"40001", "40P01", "sqlstate"} : ServerError(c, e)
      BY <2>4, ServerErrorKeeps
  <2>5. CASE \E e \in {"lost", "sessionTimeout"} : SessionLost(c, e)
      BY <2>5, SessionLostKeeps
  <2> QED
      BY <1>5, <2>1, <2>2, <2>3, <2>4, <2>5 DEF Fails
<1>6. ASSUME NEW c \in Commands, NEW i \in Tasks, HookActs(c, i) PROVE Inv'
    BY <1>6, CtxRunKeeps, CtxReadKeeps, CtxRejectKeeps, CtxAfterCommitKeeps, HookThrowsKeeps,
       HookSchedulesKeeps DEF HookActs
<1>7. ASSUME NEW c \in Commands, Run(c) PROVE Inv'
    BY <1>7, StartKeeps
<1>8. ASSUME NEW c \in Commands, NEW a \in 1..MaxAttempts, StrayActs(c, a) PROVE Inv'
    BY <1>8, StrayActsKeeps
<1>9. ASSUME NEW o \in orphan, OrphanCommits(o) \/ OrphanRollsBack(o) PROVE Inv'
    BY <1>9, OrphanKeeps
<1>10. CASE UNCHANGED vars
    BY <1>10, StutterKeeps
<1>11. CASE Next
    BY <1>1, <1>2, <1>3, <1>4, <1>5, <1>6, <1>7, <1>8, <1>9, <1>11 DEF Next
<1> QED
    BY <1>10, <1>11

\* The inductive invariant of the command runtime: of every object of an attempt, of
\* its side of the server, of what its command may have done, and of the pool.
THEOREM CommandInvariant == Spec => []Inv
<1>1. Init => Inv
    BY InitInv
<1>2. Inv /\ [Next]_vars => Inv'
    BY NextInv
<1> QED
    BY <1>1, <1>2, PTL DEF Spec

\* runCommand takes effect at most once, however often it retries and whatever
\* becomes of a COMMIT whose answer was lost.
THEOREM EffectOnce == Spec => []AtMostOnce
<1>1. Inv => AtMostOnce
  <2> SUFFICES ASSUME Inv, NEW c \in Commands PROVE Cardinality(Effects(c)) <= 1
      BY DEF AtMostOnce
  <2>1. PICK r : r = [n |-> n[c], writes |-> Phases(tx[c])]
      OBVIOUS
  <2>2. Effects(c) \in SUBSET {r}
      BY <2>1 DEF Inv, CommandInv, Effect
  <2>3. IsFiniteSet({r}) /\ Cardinality({r}) = 1
      BY FS_Singleton
  <2>4. Cardinality(Effects(c)) <= Cardinality({r})
      BY <2>2, <2>3, FS_Subset
  <2> QED
      BY <2>3, <2>4
<1> QED
    BY <1>1, CommandInvariant, PTL

\* What runCommand commits, or may have committed, is whole: every task of the
\* attempt is done and the write of every phase is in it.
THEOREM CommitsWhole == Spec => []CommitIsWhole
<1>1. Inv => CommitIsWhole
  <2> SUFFICES ASSUME Inv, NEW c \in Commands, NEW r \in Effects(c)
               PROVE  /\ \A i \in Allocated(tx[c]) : tx[c].task[i].stage = "done"
                      /\ r.writes = {i \in Allocated(tx[c]) : tx[c].task[i].kind = "phase"}
      BY DEF CommitIsWhole
  <2>1. r = [n |-> n[c], writes |-> Phases(tx[c])] /\ AllDone(tx[c])
      BY DEF Inv, CommandInv, Effect
  <2> QED
      BY <2>1 DEF AllDone, Phases
<1> QED
    BY <1>1, CommandInvariant, PTL

\* A released client is quiet: the queue of its attempt is empty, every task has
\* settled, and the session the next command gets is idle.
THEOREM ReleasedQuiet == Spec => []QuietAfterRelease
<1>1. Inv => QuietAfterRelease
  <2> SUFFICES ASSUME Inv PROVE QuietAfterRelease
      OBVIOUS
  <2>1. ASSUME NEW c \in Commands, conn[c] = None
        PROVE  /\ tx[c].queue = <<>>
               /\ \A i \in Allocated(tx[c]) : tx[c].task[i].stage \in Finished
    <3>1. Shape(pc[c], None, tx[c])
        BY <2>1 DEF Inv, CommandInv
    <3>2. pc[c] \in Idle
        BY <3>1 DEF Shape
    <3>3. tx[c].queue = <<>> /\ Unfinished(tx[c]) = {}
        BY <3>1, <3>2 DEF Shape, Idle
    <3> QED
        BY <3>3 DEF Unfinished
  <2> QED
      BY <2>1 DEF Inv, PoolInv, QuietAfterRelease
<1> QED
    BY <1>1, CommandInvariant, PTL

\* The answer of run tells the truth where no hook leaves code behind: ok means that
\* the last attempt is committed, and a failure other than command.unavailable that
\* the database holds nothing of the command and never will.
THEOREM AnswerIsTrue ==
  ASSUME MaxStrays = 0
  PROVE  Spec => []AnswerTruth
<1>1. Inv => AnswerTruth
  <2> SUFFICES ASSUME Inv, NEW c \in Commands
               PROVE  /\ outcome[c] = "ok" => {r.n : r \in committed[c]} = {n[c]}
                      /\ outcome[c] \notin {"none", "ok", "unavailable"} => Effects(c) = {}
      BY DEF AnswerTruth
  <2>1. /\ Effect(pc[c], n[c], tx[c], Effects(c), outcome[c])
        /\ Result(pc[c], n[c], tx[c], committed[c], ran[c], outcome[c], stray[c])
      BY DEF Inv, CommandInv
  <2>2. \A r \in committed[c] : r.n = n[c]
      BY <2>1 DEF Effect, Effects
  <2>3. outcome[c] = "ok" => \E r \in committed[c] : r.n = n[c]
      BY <2>1 DEF Result
  <2>4. outcome[c] \notin {"none", "ok", "unavailable"} => Effects(c) = {}
      BY <2>1 DEF Effect, Late
  <2> QED
      BY <2>2, <2>3, <2>4
<1> QED
    BY <1>1, CommandInvariant, PTL

\* With code left behind, command.internal alone may be untrue of a committed command.
AnswerTruthButInternal ==
  \A c \in Commands :
    /\ outcome[c] = "ok" => {r.n : r \in committed[c]} = {n[c]}
    /\ outcome[c] \notin {"none", "ok", "unavailable", "internal"} => Effects(c) = {}

\* Whatever hooks leave behind, every other answer of run tells the truth.
THEOREM OtherAnswersAreTrue == Spec => []AnswerTruthButInternal
<1>1. Inv => AnswerTruthButInternal
  <2> SUFFICES ASSUME Inv, NEW c \in Commands
               PROVE  /\ outcome[c] = "ok" => {r.n : r \in committed[c]} = {n[c]}
                      /\ outcome[c] \notin {"none", "ok", "unavailable", "internal"} => Effects(c) = {}
      BY DEF AnswerTruthButInternal
  <2>1. /\ Effect(pc[c], n[c], tx[c], Effects(c), outcome[c])
        /\ Result(pc[c], n[c], tx[c], committed[c], ran[c], outcome[c], stray[c])
      BY DEF Inv, CommandInv
  <2>2. \A r \in committed[c] : r.n = n[c]
      BY <2>1 DEF Effect, Effects
  <2>3. outcome[c] = "ok" => \E r \in committed[c] : r.n = n[c]
      BY <2>1 DEF Result
  <2>4. outcome[c] \notin {"none", "ok", "unavailable", "internal"} => Effects(c) = {}
      BY <2>1 DEF Effect, Late
  <2> QED
      BY <2>2, <2>3, <2>4
<1> QED
    BY <1>1, CommandInvariant, PTL

\* The writes a step adds to a session are made in the context of their phase.
OwnContext == \A k \in Conns : \A i \in srv'[k].writes \ srv[k].writes : srv[k].context = i

\* Reply adds a write when the core call is answered, with its context next to it.
LEMMA ReplyOwnContext ==
  ASSUME Inv, NEW c \in Commands, Reply(c)
  PROVE  OwnContext
<1>1. PICK x, u, i, s : x = tx[c] /\ u = Running(c) /\ i = u.task /\ s = srv[conn[c]]
    OBVIOUS
<1>2. /\ x.step = "sent" /\ u.kind # "commit"
      /\ srv' = [srv EXCEPT ![conn[c]] = Executed(s, Head(u.rest), i)]
    BY <1>1 DEF Reply, Statement
<1>3. State /\ x.queue # <<>>
    BY <1>1, <1>2, SentRuns DEF Inv
<1>4. pc[c] \in {"begin", "commit", "ops"} /\ conn[c] \in Conns /\ s \in SrvSet
    BY <1>1, <1>3, UnitRuns
<1>5. ASSUME NEW j \in Executed(s, Head(u.rest), i).writes \ s.writes PROVE s.context = j
  <2>1. Head(u.rest) = "core" /\ j = i
      BY <1>4, <1>5 DEF Executed, SrvSet
  <2>2. pc[c] # "begin"
    <3>1. pc[c] = "begin" => u = BeginUnit
        BY <1>1, <1>3, RunningUnit
    <3>2. BeginUnit.rest = <<"begin">>
        BY DEF BeginUnit, Unit
    <3> QED
        BY <2>1, <3>1, <3>2, FirstStatement
  <2>3. pc[c] # "commit"
    <3>1. pc[c] = "commit" => u = CommitUnit
        BY <1>1, <1>3, RunningUnit
    <3> QED
        BY <1>2, <3>1 DEF CommitUnit, Unit
  <2>4. \/ \E h \in {"check", "core"} : u = Unit(h, <<"context", h>>, i) \/ u = Unit(h, <<h>>, i)
        \/ u = Unit("read", <<"read">>, i)
      BY <1>1, <1>3, <1>4, <2>2, <2>3, RunningUnit
  <2>5. \/ \E h \in {"check", "core"} : u.rest = <<"context", h>> \/ u.rest = <<h>>
        \/ u.rest = <<"read">>
      BY <2>4 DEF Unit
  <2>6. u.rest = <<"core">>
      BY <2>1, <2>5, FirstStatement
  <2>7. ContextOk(x, s)
      BY <1>1, <1>4, <2>2, <2>3, OpsRun DEF OpsOk
  <2> QED
      BY <1>1, <1>3, <2>1, <2>6, <2>7 DEF ContextOk, Running
<1>6. /\ srv'[conn[c]] = Executed(s, Head(u.rest), i)
      /\ \A k \in Conns : k # conn[c] => srv'[k] = srv[k]
    BY <1>2, <1>3, <1>4 DEF State
<1> QED
    BY <1>1, <1>5, <1>6 DEF OwnContext

\* The other steps add no write: they end the session's transaction or leave the
\* session as it is.
LEMMA OthersOwnContext ==
  ASSUME Inv, NEW c \in Commands,
         \/ ReplyCommit(c) \/ EndFailed(c)
         \/ \E e \in {"40001", "40P01", "sqlstate"} : ServerError(c, e)
         \/ \E e \in {"lost", "sessionTimeout"} : SessionLost(c, e)
  PROVE  OwnContext
<1>1. State
    BY DEF Inv
<1>2. conn[c] \in Conns
  <2>1. CASE EndFailed(c)
      BY <2>1 DEF EndFailed, Inv, CommandInv, Shape, State, Idle
  <2>2. CASE ~EndFailed(c)
    <3>1. tx[c].step # "check"
        BY <2>2 DEF ReplyCommit, InFlight, ServerError, SessionLost
    <3> QED
        BY <3>1, SentRuns, UnitRuns
  <2> QED
      BY <2>1, <2>2
<1>3. PICK s : s = srv[conn[c]]
    OBVIOUS
<1>4. PICK z : srv' = [srv EXCEPT ![conn[c]] = z] /\ z.writes \subseteq s.writes
  <2>1. s \in SrvSet
      BY <1>1, <1>2, <1>3 DEF State
  <2>2. CASE ReplyCommit(c) \/ EndFailed(c)
    <3>1. PICK z : z = [txn |-> "idle", context |-> Main, writes |-> {}]
        OBVIOUS
    <3>2. z.writes = {} /\ srv' = [srv EXCEPT ![conn[c]] = z]
        BY <2>2, <3>1 DEF ReplyCommit, EndFailed, Executed
    <3> QED
        BY <3>2
  <2>3. CASE \E e \in {"40001", "40P01", "sqlstate"} : ServerError(c, e)
    <3>1. PICK z : z = [s EXCEPT !.txn = IF @ = "open" THEN "aborted" ELSE @]
        OBVIOUS
    <3>2. z.writes = s.writes /\ srv' = [srv EXCEPT ![conn[c]] = z]
        BY <1>1, <1>3, <2>1, <2>3, <3>1 DEF ServerError, SrvSet
    <3> QED
        BY <3>2
  <2>4. CASE \E e \in {"lost", "sessionTimeout"} : SessionLost(c, e)
    <3>1. PICK z : z = [s EXCEPT !.txn = "dead"]
        OBVIOUS
    <3>2. z.writes = s.writes /\ srv' = [srv EXCEPT ![conn[c]] = z]
        BY <1>1, <1>3, <2>1, <2>4, <3>1 DEF SessionLost, SrvSet
    <3> QED
        BY <3>2
  <2> QED
      BY <2>2, <2>3, <2>4
<1>5. srv'[conn[c]] = z /\ \A k \in Conns : k # conn[c] => srv'[k] = srv[k]
    BY <1>1, <1>2, <1>4 DEF State
<1> QED
    BY <1>3, <1>4, <1>5 DEF OwnContext

\* Every core call runs under the command context of its own phase: whatever other
\* phases have put in the queue, a unit's context and its call are not separated.
THEOREM OwnContextKept == Spec => CoreInOwnContext
<1>1. Inv /\ [Next]_vars => [OwnContext]_vars
  <2> SUFFICES ASSUME Inv, Next PROVE OwnContext
      OBVIOUS
  <2>1. CASE UNCHANGED srv
      BY <2>1 DEF OwnContext
  <2>2. ASSUME NEW c \in Commands, Queue(c) PROVE UNCHANGED srv \/ OwnContext
      BY <2>2, ReplyOwnContext, OthersOwnContext DEF Queue, UnitCheck, Send
  <2>3. ASSUME NEW c \in Commands, Phase(c) PROVE UNCHANGED srv
      BY <2>3 DEF Phase, StartOp, HookSettled, Local
  <2>4. ASSUME NEW c \in Commands, Hook(c) PROVE UNCHANGED srv
      BY <2>4 DEF Hook, HookReturns, Local
  <2>5. ASSUME NEW c \in Commands, Flow(c) PROVE UNCHANGED srv \/ OwnContext
      BY <2>5, OthersOwnContext
         DEF Flow, Connect, User, EnqueueCommit, OpFails, Retry, GiveUp, RunAfterCommit, Succeed
  <2>6. ASSUME NEW c \in Commands, Fails(c) PROVE UNCHANGED srv \/ OwnContext
      BY <2>6, OthersOwnContext
         DEF Fails, BudgetOut, Unauthenticated, ConnectFails, NoTimeToRetry, InvalidInput
  <2>7. ASSUME NEW c \in Commands, NEW i \in Tasks, HookActs(c, i) PROVE UNCHANGED srv
      BY <2>7 DEF HookActs, CtxRun, CtxRead, CtxReject, CtxAfterCommit, HookThrows,
                  HookSchedules, Local
  <2>8. ASSUME NEW c \in Commands, Run(c) \/ \E a \in 1..MaxAttempts : StrayActs(c, a)
        PROVE  UNCHANGED srv
      BY <2>8 DEF Run, StrayActs
  <2>9. ASSUME NEW o \in orphan, OrphanCommits(o) \/ OrphanRollsBack(o) PROVE UNCHANGED srv
      BY <2>9 DEF OrphanCommits, OrphanRollsBack
  <2> QED
      BY <2>1, <2>2, <2>3, <2>4, <2>5, <2>6, <2>7, <2>8, <2>9 DEF Next
<1>2. CoreInOwnContext <=> [][OwnContext]_vars
    BY DEF CoreInOwnContext, OwnContext
<1> QED
    BY <1>1, <1>2, CommandInvariant, PTL DEF Spec

-----------------------------------------------------------------------------
(* The contract of runCommand *)

\* Attempts are counted up to MaxAttempts.
AttemptsOk == n \in [Commands -> 0..MaxAttempts]

\* The loop of runCommand counts no further than state.maxAttempts.
LEMMA AttemptsStay == ASSUME Inv, AttemptsOk, [Next]_vars PROVE AttemptsOk'
<1>1. CASE n' = n
    BY <1>1 DEF AttemptsOk
<1>2. ASSUME NEW c \in Commands, Run(c) PROVE AttemptsOk'
    BY <1>2, CommandAssumption DEF Run, AttemptsOk
<1>3. ASSUME NEW c \in Commands, Retry(c) PROVE AttemptsOk'
    BY <1>3, CommandAssumption DEF Retry, AttemptsOk
<1>4. n' = n \/ \E c \in Commands : Run(c) \/ Retry(c)
  <2>1. ASSUME NEW c \in Commands, Queue(c) PROVE n' = n
      BY <2>1 DEF Queue, UnitCheck, RejectUnit, Send, Reply, ReplyCommit, call
  <2>2. ASSUME NEW c \in Commands, Phase(c) PROVE n' = n
      BY <2>2 DEF Phase, StartOp, HookSettled, Local, call
  <2>3. ASSUME NEW c \in Commands, Hook(c) PROVE n' = n
      BY <2>3 DEF Hook, HookReturns, Local, call
  <2>4. ASSUME NEW c \in Commands, Flow(c) PROVE n' = n \/ Retry(c)
      BY <2>4 DEF Flow, Connect, User, EnqueueCommit, OpFails, EndFailed, GiveUp,
                  RunAfterCommit, Succeed, call
  <2>5. ASSUME NEW c \in Commands, Fails(c) PROVE n' = n
      BY <2>5 DEF Fails, BudgetOut, Unauthenticated, ConnectFails, NoTimeToRetry,
                  InvalidInput, ServerError, SessionLost, RejectUnit, call
  <2>6. ASSUME NEW c \in Commands, NEW i \in Tasks, HookActs(c, i) PROVE n' = n
      BY <2>6 DEF HookActs, CtxRun, CtxRead, CtxReject, CtxAfterCommit, HookThrows,
                  HookSchedules, Local, call
  <2>7. ASSUME NEW c \in Commands, NEW a \in 1..MaxAttempts, StrayActs(c, a) PROVE n' = n
      BY <2>7 DEF StrayActs, call
  <2>8. ASSUME NEW o \in orphan, OrphanCommits(o) \/ OrphanRollsBack(o) PROVE n' = n
      BY <2>8 DEF OrphanCommits, OrphanRollsBack, call
  <2>9. CASE UNCHANGED vars
      BY <2>9 DEF vars, call
  <2> QED
      BY <2>1, <2>2, <2>3, <2>4, <2>5, <2>6, <2>7, <2>8, <2>9 DEF Next
<1> QED
    BY <1>1, <1>2, <1>3, <1>4

\* What the caller can see of a step: nothing, a COMMIT, an answer, or an action of
\* afterCommit.
Unseen == committed' = committed /\ outcome' = outcome /\ ran' = ran
Commits(c) ==
  /\ \E r : committed' = [committed EXCEPT ![c] = @ \cup {r}]
  /\ outcome' = outcome /\ ran' = ran /\ n' = n
Answers(c) ==
  /\ outcome[c] = "none" /\ \E a : outcome' = [outcome EXCEPT ![c] = a]
  /\ committed' = committed /\ ran' = ran

\* Every step of the runtime is one of these.
LEMMA SeenStep ==
  ASSUME Inv, [Next]_vars
  PROVE  Unseen \/ \E c \in Commands : Commits(c) \/ Answers(c) \/ RunAfterCommit(c)
<1>1. ASSUME NEW c \in Commands, pc[c] # "done" PROVE outcome[c] = "none"
    BY <1>1 DEF Inv, CommandInv, Result
<1>2. ASSUME NEW c \in Commands, NEW a, Answer(c, a), pc[c] # "done",
             committed' = committed, ran' = ran
      PROVE  Answers(c)
    BY <1>1, <1>2 DEF Answer, Answers
<1>3. ASSUME NEW c \in Commands, Run(c) \/ Queue(c) PROVE Unseen \/ Commits(c)
    BY <1>3 DEF Run, Queue, UnitCheck, RejectUnit, Send, Reply, ReplyCommit, Unseen, Commits
<1>4. ASSUME NEW c \in Commands, Phase(c) \/ Hook(c) PROVE Unseen
    BY <1>4 DEF Phase, StartOp, HookSettled, Hook, HookReturns, Local, Unseen
<1>5. ASSUME NEW c \in Commands, Flow(c) PROVE Unseen \/ Answers(c) \/ RunAfterCommit(c)
    BY <1>2, <1>5 DEF Flow, Connect, User, EnqueueCommit, OpFails, EndFailed, Retry,
                      GiveUp, Succeed, Unseen
<1>6. ASSUME NEW c \in Commands, Fails(c) PROVE Unseen \/ Answers(c)
    BY <1>2, <1>6 DEF Fails, BudgetOut, Unauthenticated, ConnectFails, NoTimeToRetry,
                      InvalidInput, ServerError, SessionLost, RejectUnit, Unseen
<1>7. ASSUME NEW c \in Commands, NEW i \in Tasks, HookActs(c, i) PROVE Unseen
    BY <1>7 DEF HookActs, CtxRun, CtxRead, CtxReject, CtxAfterCommit, HookThrows,
                HookSchedules, Local, Unseen
<1>8. ASSUME NEW c \in Commands, NEW a \in 1..MaxAttempts, StrayActs(c, a) PROVE Unseen
    BY <1>8 DEF StrayActs, Unseen
<1>9. ASSUME NEW o \in orphan, OrphanCommits(o) \/ OrphanRollsBack(o)
      PROVE  Unseen \/ \E c \in Commands : Commits(c)
    BY <1>9 DEF OrphanCommits, OrphanRollsBack, Unseen, Commits, call, Inv, State
<1>10. CASE UNCHANGED vars
    BY <1>10 DEF vars, Unseen
<1> QED
    BY <1>3, <1>4, <1>5, <1>6, <1>7, <1>8, <1>9, <1>10 DEF Next

\* All that is committed of a command c is its current attempt, and no answer
\* denies it.
Visible(c) ==
  /\ {r.n : r \in committed[c]} = IF committed[c] = {} THEN {} ELSE {n[c]}
  /\ committed[c] # {} => outcome[c] \in {"none", "ok"} \cup Vague
  /\ outcome[c] = "ok" => committed[c] # {}

\* It is so before and after every step.
LEMMA AllVisible ==
  ASSUME NEW c \in Commands
  PROVE  (Inv => Visible(c)) /\ (Inv' => Visible(c)')
<1>1. ASSUME Inv PROVE Visible(c)
  <2>1. \A r \in committed[c] : r.n = n[c] /\ outcome[c] \in {"none", "ok"} \cup Vague
      BY <1>1 DEF Inv, CommandInv, Effect, Effects, Late, Vague
  <2>2. outcome[c] = "ok" => committed[c] # {}
      BY <1>1 DEF Inv, CommandInv, Result
  <2> QED
      BY <2>1, <2>2 DEF Visible
<1>2. ASSUME Inv' PROVE Visible(c)'
  <2>1. \A r \in committed'[c] : r.n = n'[c] /\ outcome'[c] \in {"none", "ok"} \cup Vague
      BY <1>2 DEF Inv, CommandInv, Effect, Effects, Late, Vague
  <2>2. outcome'[c] = "ok" => committed'[c] # {}
      BY <1>2 DEF Inv, CommandInv, Result
  <2> QED
      BY <2>1, <2>2 DEF Visible
<1> QED
    BY <1>1, <1>2

\* A COMMIT, whoever still listens, is the one effect of the contract.
LEMMA ContractCommit ==
  ASSUME Inv, Inv', AttemptsOk, NEW c \in Commands, Commits(c)
  PROVE  Contract!TakeEffect(c) \/ UNCHANGED <<EffectOf, ran, outcome>>
<1>1. PICK r : committed' = [committed EXCEPT ![c] = @ \cup {r}]
    BY DEF Commits
<1>2. /\ DOMAIN committed = Commands /\ outcome' = outcome /\ ran' = ran /\ n' = n
      /\ n[c] \in 0..MaxAttempts
    BY DEF Inv, State, Commits, AttemptsOk
<1>3. committed'[c] # {} /\ \A d \in Commands : d # c => committed'[d] = committed[d]
    BY <1>1, <1>2
<1>4. Visible(c) /\ Visible(c)'
    BY AllVisible
<1>5. EffectOf' = [EffectOf EXCEPT ![c] = {n[c]}]
  <2>1. {r2.n : r2 \in committed'[c]} = {n[c]}
      BY <1>2, <1>3, <1>4 DEF Visible
  <2> QED
      BY <1>3, <2>1 DEF EffectOf
<1>6. CASE committed[c] = {}
  <2>1. EffectOf[c] = {} /\ outcome[c] \in {"none"} \cup Vague
      BY <1>2, <1>3, <1>4, <1>6 DEF Visible, EffectOf
  <2> QED
      BY <1>2, <1>5, <2>1 DEF Contract!TakeEffect
<1>7. CASE committed[c] # {}
  <2>1. EffectOf[c] = {n[c]}
      BY <1>4, <1>7 DEF Visible, EffectOf
  <2>2. EffectOf' = EffectOf
      BY <1>5, <2>1 DEF EffectOf
  <2> QED
      BY <1>2, <2>2
<1> QED
    BY <1>6, <1>7

\* An answer is one the contract allows with what is committed when it is given.
LEMMA ContractAnswer ==
  ASSUME Inv, Inv', NEW c \in Commands, Answers(c)
  PROVE  Contract!Answer(c) \/ UNCHANGED <<EffectOf, ran, outcome>>
<1>1. PICK a : outcome' = [outcome EXCEPT ![c] = a]
    BY DEF Answers
<1>2. /\ outcome \in [Commands -> Codes \cup {"ok"}] /\ outcome[c] = "none"
      /\ committed' = committed /\ ran' = ran
    BY DEF Inv, State, Answers
<1>3. outcome'[c] = a /\ a \in Codes \cup {"ok"}
  <2>1. outcome' \in [Commands -> Codes \cup {"ok"}]
      BY DEF Inv, State
  <2> QED
      BY <1>1, <1>2, <2>1
<1>4. EffectOf' = EffectOf
    BY <1>2 DEF EffectOf
<1>5. CASE a = "none"
    BY <1>1, <1>2, <1>4, <1>5
<1>6. CASE a # "none"
  <2>1. Visible(c)'
      BY AllVisible
  <2>2. /\ committed[c] # {} => a \in {"ok"} \cup Vague
        /\ a = "ok" => committed[c] # {}
      BY <1>2, <1>3, <1>6, <2>1 DEF Visible
  <2>3. EffectOf[c] = {} <=> committed[c] = {}
      BY DEF EffectOf
  <2>4. a \in FailureCodes \cup {"ok"}
      BY <1>3, <1>6 DEF Codes, FailureCodes
  <2>5. a \in Vague \cup (IF EffectOf[c] = {} THEN FailureCodes \ Vague ELSE {"ok"})
      BY <2>2, <2>3, <2>4
  <2> QED
      BY <1>1, <1>2, <1>4, <2>5 DEF Contract!Answer
<1> QED
    BY <1>5, <1>6

\* An action of afterCommit is one the committed attempt has registered, and nothing
\* but success is answered beside it.
LEMMA ContractAfter ==
  ASSUME Inv, NEW c \in Commands, RunAfterCommit(c)
  PROVE  Contract!RunAfter(c)
<1>1. PICK x : x = tx[c]
    OBVIOUS
<1>2. /\ pc[c] = "after" \/ outcome[c] = "ok"
      /\ x.after # <<>> /\ ran' = [ran EXCEPT ![c] = Append(@, Head(x.after))]
      /\ committed' = committed /\ outcome' = outcome
    BY <1>1 DEF RunAfterCommit
<1>3. x.after \in Seq(Nat)
    BY <1>1 DEF Inv, State, TxSet
<1>4. 1 \in DOMAIN x.after /\ Head(x.after) = x.after[1]
    BY <1>2, <1>3
<1>5. Result(pc[c], n[c], x, committed[c], ran[c], outcome[c], stray[c])
    BY <1>1 DEF Inv, CommandInv
<1>6. x.after[1] = n[c]
    BY <1>2, <1>4, <1>5 DEF Result
<1>7. \E r \in committed[c] : r.n = n[c]
    BY <1>2, <1>5 DEF Result
<1>8. Head(x.after) \in EffectOf[c]
    BY <1>4, <1>6, <1>7 DEF EffectOf
<1>9. outcome[c] \in {"none", "ok"}
    BY <1>2, <1>5 DEF Result
<1>10. EffectOf' = EffectOf
    BY <1>2 DEF EffectOf
<1> QED
    BY <1>2, <1>8, <1>9, <1>10 DEF Contract!RunAfter

\* Attempts, retries, hooks, lost connections and late COMMITs implement the contract
\* of runCommand: one effect or none, then what was registered for it, one answer,
\* and nothing behind an answer that denied it.
THEOREM RefinesContract == Spec => RefinesCommandContract
<1>1. Init => Contract!Init /\ AttemptsOk
    BY CommandAssumption DEF Init, Contract!Init, EffectOf, AttemptsOk
<1>2. Inv /\ AttemptsOk /\ [Next]_vars => AttemptsOk'
    BY AttemptsStay
<1>3. Inv /\ Inv' /\ AttemptsOk /\ [Next]_vars
        => [Contract!Next]_<<EffectOf, ran, outcome>>
  <2> SUFFICES ASSUME Inv, Inv', AttemptsOk, [Next]_vars
               PROVE  [Contract!Next]_<<EffectOf, ran, outcome>>
      OBVIOUS
  <2>1. CASE Unseen
      BY <2>1 DEF Unseen, EffectOf
  <2>2. ASSUME NEW c \in Commands, Commits(c) \/ Answers(c) \/ RunAfterCommit(c)
        PROVE  [Contract!Next]_<<EffectOf, ran, outcome>>
      BY <2>2, ContractCommit, ContractAnswer, ContractAfter DEF Contract!Next
  <2> QED
      BY <2>1, <2>2, SeenStep
<1> QED
    BY <1>1, <1>2, <1>3, CommandInvariant, PTL
    DEF Spec, RefinesCommandContract, Contract!Spec
=============================================================================
