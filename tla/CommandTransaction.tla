------------------------- MODULE CommandTransaction -------------------------
(***************************************************************************)
(* The command runtime of the server tier: `runCommand` runs a batch of     *)
(* operations in one transaction, retries it whole, and lets hooks of the   *)
(* application start further phases (`ctx.run`) and reads (`ctx.read`) in   *)
(* the same transaction.  A hook need not await what it starts, may catch   *)
(* failures, and may leave code behind that runs after it has returned.     *)
(*                                                                         *)
(* A task of an attempt is a phase or a read; task 0 stands for the flow of *)
(* `attempt` itself.  Every statement goes through the attempt's queue, one *)
(* unit at a time.  Data kept: which phase set the command context, which   *)
(* phases wrote, and which attempt committed.                               *)
(***************************************************************************)
EXTENDS Integers, Sequences, FiniteSets

CONSTANTS
  Commands,     \* calls of run
  Conns,        \* connection slots of the pool
  Ops,          \* operations in the batch of a command
  MaxTasks,     \* bound on the tasks of one attempt
  MaxDepth,     \* state.maxDepth
  BatchMax,     \* BATCH_MAX: phases ctx.run may start in one attempt
  MaxAttempts,  \* state.maxAttempts
  MaxAfter,     \* bound on afterCommit actions
  MaxStrays,    \* bound on what hooks leave behind
  Defer,        \* does the host pass state.defer?
  None          \* no connection

ASSUME CommandAssumption ==
  /\ Ops \in Nat \ {0} /\ MaxTasks \in Nat /\ Ops <= MaxTasks
  /\ MaxDepth \in Nat /\ BatchMax \in Nat
  /\ MaxAttempts \in Nat \ {0}
  /\ MaxAfter \in Nat /\ MaxStrays \in Nat
  /\ Defer \in BOOLEAN
  /\ None \notin Conns

VARIABLES
  pc,         \* where runCommand is
  n,          \* number of its current attempt
  conn,       \* the connection the attempt holds
  tx,         \* the Transaction object of the attempt, with its tasks
  srv,        \* the server's side of every connection slot
  stray,      \* attempts whose hooks have left code behind
  orphan,     \* COMMITs whose connection was lost: [cmd, n, writes]
  committed,  \* what has been committed: [n, writes] per command
  ran,        \* afterCommit actions that have run
  outcome     \* what run has answered

call == <<pc, n, conn>>
vars == <<call, tx, srv, stray, orphan, committed, ran, outcome>>

Tasks == 1..MaxTasks
Main  == 0

\* Terminal: the failure an attempt ends with; Open while there is none.
Terminal(code, retry, destroy) == [code |-> code, retry |-> retry, destroy |-> destroy]
Open          == Terminal("none", "no", FALSE)
Failure(code) == Terminal(code, "no", FALSE)

\* Mutant: a lost connection is retried.
TerminalOf_retryLost(error, commitSent) ==
  IF error = "lost" THEN Terminal("retry-exhausted", "now", TRUE)
                    ELSE Failure("database")
\* Mutant: the guard's SQLSTATE is taken for a rollback after COMMIT too.
TerminalOf_knownRollback(error, commitSent) ==
  IF error = "lost" THEN Terminal("unavailable", "no", TRUE)
                    ELSE Terminal("timeout", "no", TRUE)

\* terminalOf: how an error of the port ends the attempt.  A session that ended
\* after COMMIT was sent proves nothing about the COMMIT.
TerminalOf(error, commitSent) ==
  CASE error = "40001" -> Terminal("retry-exhausted", "now", FALSE)
    [] error = "40P01" -> Terminal("retry-exhausted", "pause", FALSE)
    [] error = "sqlstate" -> Failure("database")
    [] error = "sessionTimeout" /\ ~commitSent -> Terminal("timeout", "no", TRUE)
    [] OTHER -> Terminal("unavailable", "no", TRUE)

NoTask == [kind |-> "none", parent |-> Main, hook |-> "none", depth |-> 0,
           stage |-> "free"]

\* A Transaction object with nothing done yet.
NewTx == [queue |-> <<>>, step |-> "check", terminal |-> Open,
          commitSent |-> FALSE, nested |-> 0, after |-> <<>>,
          task |-> [i \in Tasks |-> NoTask]]

\* Units of the queue.  The four statements that open the transaction are one
\* here: no hook runs that could enqueue between them.
Unit(kind, statements, i) == [kind |-> kind, rest |-> statements, task |-> i]
BeginUnit    == Unit("begin", <<"begin">>, Main)
CheckUnit(i) == Unit("check", <<"context", "check">>, i)
CoreUnit(i)  == Unit("core", <<"context", "core">>, i)
ReadUnit(i)  == Unit("read", <<"read">>, i)
CommitUnit   == Unit("commit", <<"commit">>, Main)

Running(c) == Head(tx[c].queue)
Statement(c) == Head(Running(c).rest)
InFlight(c) == tx[c].step = "sent" /\ Statement(c) = "commit"

Finished == {"done", "failed"}
Allocated(x) == {i \in Tasks : x.task[i].stage # "free"}
Roots(x) == {i \in Allocated(x) : x.task[i].parent = Main}
Pending(x, i, hook) ==
  {j \in Allocated(x) : /\ x.task[j].parent = i /\ x.task[j].hook = hook
                        /\ x.task[j].stage \notin Finished}

-----------------------------------------------------------------------------
(* The Transaction object *)

\* close: the first failure decides the attempt.
Closed(x, t) == IF x.terminal = Open THEN [x EXCEPT !.terminal = t] ELSE x

Enqueued(x, unit) == [x EXCEPT !.queue = Append(@, unit)]
Staged(x, i, stage) == [x EXCEPT !.task[i].stage = stage]
Popped(x) == [x EXCEPT !.queue = Tail(@), !.step = "check"]
\* Mutant: the queue is one of statements, not of units.
Advanced_perStatement(x) ==
  [x EXCEPT !.queue = Append(Tail(@), [Head(@) EXCEPT !.rest = Tail(@)]),
            !.step = "check"]
Advanced(x) == [x EXCEPT !.queue[1].rest = Tail(@), !.step = "check"]

\* The attempt fails in task i with an error of the runtime's own (tx.abort).
Aborted(x, i, code) == Staged(Closed(x, Failure(code)), i, "failed")

\* The running unit fails, and with it the task that awaits it.
Rejected(x) == LET i == Head(x.queue).task
               IN  IF i = Main THEN Popped(x) ELSE Staged(Popped(x), i, "failed")
\* Mutant: nobody is told of a failed unit.
RejectUnit_silent(c, x) ==
  /\ tx' = [tx EXCEPT ![c] = Popped(x)]
  /\ UNCHANGED call

RejectUnit(c, x) ==
  /\ tx' = [tx EXCEPT ![c] = Rejected(x)]
  /\ pc' = IF Running(c).task = Main THEN [pc EXCEPT ![c] = "failing"] ELSE pc
  /\ UNCHANGED <<n, conn>>

\* enqueue: before every statement the queue must still be open ...
UnitCheck(c) ==
  /\ tx[c].queue # <<>> /\ tx[c].step = "check"
  /\ IF tx[c].terminal = Open
     THEN tx' = [tx EXCEPT ![c].step = "send"] /\ UNCHANGED call
     ELSE RejectUnit(c, tx[c])
  /\ UNCHANGED <<srv, stray, orphan, committed, ran, outcome>>

\* ... then the budget is awaited, and it may be spent ...
BudgetOut(c) ==
  /\ tx[c].step = "send"
  /\ RejectUnit(c, Closed(tx[c], Failure("timeout")))
  /\ UNCHANGED <<srv, stray, orphan, committed, ran, outcome>>

\* ... and only then is the statement sent.
Send(c) ==
  /\ tx[c].step = "send"
  /\ tx' = [tx EXCEPT ![c].step = "sent",
                      ![c].commitSent = @ \/ Statement(c) = "commit"]
  /\ UNCHANGED <<call, srv, stray, orphan, committed, ran, outcome>>

\* What a statement does on the server.
Executed(s, statement, i) ==
  CASE statement = "begin"   -> [txn |-> "open", context |-> Main, writes |-> {}]
    [] statement = "context" -> [s EXCEPT !.context = i]
    [] statement = "core"    -> [s EXCEPT !.writes = @ \cup {i}]
    [] statement = "commit"  -> [txn |-> "idle", context |-> Main, writes |-> {}]
    [] OTHER -> s

\* runPhase from the core call on: the encoder may refuse the draft.
CallCore(x, i) == {Enqueued(Staged(x, i, "queued"), CoreUnit(i)),
                   Aborted(x, i, "invalid")}

\* runPhase from beforeWrite on; an operation may have no hook.
BeforeWrite(x, i) == {Staged(x, i, "before")} \cup CallCore(x, i)

\* What the task that awaits a unit may make of the answer: checkTabularRows
\* finds rows left out, decodeCoreRow and executeRead find the wrong shape.
Resolved(x, unit) ==
  LET i == unit.task
  IN  CASE unit.kind = "check" -> BeforeWrite(x, i) \cup {Aborted(x, i, "invalid")}
        [] unit.kind = "core"  -> {Staged(x, i, "on"), Staged(x, i, "done"),
                                   Aborted(x, i, "internal")}
        [] unit.kind = "read"  -> {Staged(x, i, "done"), Aborted(x, i, "internal")}
        [] OTHER -> {x}

\* The server answers a statement; what the attempt does next is up to the unit.
Reply(c) ==
  LET x == tx[c]
      u == Running(c)
  IN  /\ x.step = "sent" /\ u.kind # "commit" /\ srv[conn[c]].txn # "aborted"
      /\ srv' = [srv EXCEPT ![conn[c]] = Executed(@, Statement(c), u.task)]
      /\ \E y \in (IF Len(u.rest) > 1 THEN {Advanced(x)} ELSE Resolved(Popped(x), u)) :
            tx' = [tx EXCEPT ![c] = y]
      /\ pc' = IF u.kind = "begin" THEN [pc EXCEPT ![c] = "user"] ELSE pc
      /\ UNCHANGED <<n, conn, stray, orphan, committed, ran, outcome>>

\* COMMIT is answered and the client goes back to the pool; an aborted
\* transaction answers with the tag ROLLBACK, which is a failure.
ReplyCommit(c) ==
  LET kept == srv[conn[c]].txn = "open"
  IN  /\ InFlight(c)
      /\ srv' = [srv EXCEPT ![conn[c]] = Executed(@, "commit", Main)]
      /\ conn' = [conn EXCEPT ![c] = None]
      /\ pc' = [pc EXCEPT ![c] = IF kept THEN "after" ELSE "ended"]
      /\ tx' = [tx EXCEPT ![c] = IF kept THEN Popped(@)
                                 ELSE [Popped(@) EXCEPT !.terminal = Failure("internal")]]
      /\ committed' = IF kept
                      THEN [committed EXCEPT ![c] =
                              @ \cup {[n |-> n[c], writes |-> srv[conn[c]].writes]}]
                      ELSE committed
      /\ UNCHANGED <<n, stray, orphan, ran, outcome>>

\* The server refuses a statement, COMMIT too, or the statement that lowers
\* statement_timeout before it: a known rollback.
ServerError(c, error) ==
  LET k == conn[c]
  IN  /\ tx[c].step \in {"send", "sent"}
      /\ srv' = [srv EXCEPT ![k].txn = IF @ = "open" THEN "aborted" ELSE @]
      /\ RejectUnit(c, Closed(tx[c], TerminalOf(error, tx[c].commitSent)))
      /\ UNCHANGED <<stray, orphan, committed, ran, outcome>>

\* The session ends: the connection is lost, or one of the server's guards
\* (idle_in_transaction_session_timeout, transaction_timeout) has closed it and
\* the statement meets that.  A COMMIT on its way may still be executed.
SessionLost(c, error) ==
  /\ tx[c].step \in {"send", "sent"}
  /\ orphan' = IF InFlight(c)
               THEN orphan \cup {[cmd |-> c, n |-> n[c],
                                  writes |-> srv[conn[c]].writes]}
               ELSE orphan
  /\ srv' = [srv EXCEPT ![conn[c]].txn = "dead"]
  /\ RejectUnit(c, Closed(tx[c], TerminalOf(error, tx[c].commitSent)))
  /\ UNCHANGED <<stray, committed, ran, outcome>>

OrphanCommits(o) ==
  /\ committed' = [committed EXCEPT ![o.cmd] =
                     @ \cup {[n |-> o.n, writes |-> o.writes]}]
  /\ orphan' = orphan \ {o}
  /\ UNCHANGED <<call, tx, srv, stray, ran, outcome>>

OrphanRollsBack(o) ==
  /\ orphan' = orphan \ {o}
  /\ UNCHANGED <<call, tx, srv, stray, committed, ran, outcome>>

-----------------------------------------------------------------------------
(* Phases and hooks *)

\* A step of the attempt's own code: only the Transaction object changes.
Local(c, x) ==
  /\ tx' = [tx EXCEPT ![c] = x]
  /\ UNCHANGED <<call, srv, stray, orphan, committed, ran, outcome>>

\* runPhase begins with checkTabularRows where the operation names sections.
\* runRootPhase calls two hooks on either side of its core call, one here.
NewPhase(x, i, parent, hook, depth) ==
  LET y == [x EXCEPT !.task[i] = [kind |-> "phase", parent |-> parent, hook |-> hook,
                                  depth |-> depth, stage |-> "queued"]]
  IN  {Enqueued(y, CheckUnit(i))} \cup BeforeWrite(y, i)

NextTask(x) == Cardinality(Allocated(x)) + 1
\* The bound on tasks leaves room for the operations still to come.
Room(x) == NextTask(x) + Ops - Cardinality(Roots(x)) <= MaxTasks

\* The operations of the batch run one after the other.
StartOp(c) ==
  /\ pc[c] = "ops" /\ Cardinality(Roots(tx[c])) < Ops
  /\ \A i \in Roots(tx[c]) : tx[c].task[i].stage = "done"
  /\ \E x \in NewPhase(tx[c], NextTask(tx[c]), Main, "none", 0) : Local(c, x)

Live(c, i) == tx[c].task[i].stage \in {"before", "on"}

\* ctx.run, after the limits of depth and width; a closed queue refuses it.
CtxRun(c, i) ==
  LET x == tx[c]
      t == x.task[i]
      j == NextTask(x)
      tooMany == t.depth + 1 > MaxDepth \/ x.nested + 1 > BatchMax
      counted == [x EXCEPT !.nested = IF t.depth + 1 > MaxDepth THEN @ ELSE @ + 1]
  IN  /\ Live(c, i) /\ x.terminal = Open
      /\ IF tooMany
         THEN Local(c, Closed(counted, Failure("depth")))
         ELSE /\ Room(x)
              /\ \E y \in NewPhase(counted, j, i, t.stage, t.depth + 1) : Local(c, y)

\* ctx.read: prepareRead may refuse the query.
CtxRead(c, i) ==
  LET j == NextTask(tx[c])
      y == [tx[c] EXCEPT !.task[j] =
              [kind |-> "read", parent |-> i, hook |-> tx[c].task[i].stage,
               depth |-> tx[c].task[i].depth, stage |-> "queued"]]
  IN  /\ Live(c, i) /\ tx[c].terminal = Open /\ Room(tx[c])
      /\ \E z \in {Enqueued(y, ReadUnit(j)), Aborted(y, j, "invalid")} : Local(c, z)

\* ctx.reject, or `run` called inside the command (rejectNested): the queue is
\* closed whether or not the hook catches what is thrown.
CtxReject(c, i) ==
  /\ Live(c, i) /\ tx[c].terminal = Open
  /\ Local(c, Closed(tx[c], Failure("rejected")))

CtxAfterCommit(c, i) ==
  /\ Live(c, i) /\ Len(tx[c].after) < MaxAfter
  /\ Local(c, [tx[c] EXCEPT !.after = Append(@, n[c])])

\* The hook ends: its ctx is dead from now on, but its calls may be pending.
Ending(stage) == IF stage = "before" THEN "beforeEnd" ELSE "onEnd"

HookReturns(c, i) ==
  /\ Live(c, i)
  /\ Local(c, Staged(tx[c], i, Ending(tx[c].task[i].stage)))

HookThrows(c, i) ==
  /\ Live(c, i)
  /\ Local(c, Staged(Closed(tx[c], Failure("internal")), i,
                     Ending(tx[c].task[i].stage)))

\* Mutant: callHook does not wait for what the hook did not await.
HookSettled_noWait(c, i) ==
  LET x == tx[c]
      s == x.task[i].stage
  IN  /\ s \in {"beforeEnd", "onEnd"}
      /\ IF x.terminal # Open THEN Local(c, Staged(x, i, "failed"))
         ELSE IF s = "onEnd" THEN Local(c, Staged(x, i, "done"))
         ELSE \E y \in CallCore(x, i) : Local(c, y)

\* callHook waits for every call the hook started, awaited by it or not, and
\* fails if anything failed, caught or not.
HookSettled(c, i) ==
  LET x == tx[c]
      s == x.task[i].stage
  IN  /\ \/ s = "beforeEnd" /\ Pending(x, i, "before") = {}
         \/ s = "onEnd" /\ Pending(x, i, "on") = {}
      /\ IF x.terminal # Open THEN Local(c, Staged(x, i, "failed"))
         ELSE IF s = "onEnd" THEN Local(c, Staged(x, i, "done"))
         ELSE \E y \in CallCore(x, i) : Local(c, y)

\* A hook schedules code that may run after it has returned.
HookSchedules(c, i) ==
  /\ Live(c, i) /\ Cardinality(stray[c]) < MaxStrays
  /\ stray' = [stray EXCEPT ![c] = @ \cup {n[c]}]
  /\ UNCHANGED <<call, tx, srv, orphan, committed, ran, outcome>>

\* What a hook left behind runs: a dead ctx (misuse) or a run in the context of
\* an active command (rejectNested) closes the attempt it was left by.
StrayActs(c, a) ==
  /\ a \in stray[c]
  /\ stray' = [stray EXCEPT ![c] = @ \ {a}]
  /\ tx' = IF a = n[c] /\ pc[c] \notin {"after", "done"}
           THEN [tx EXCEPT ![c] = Closed(@, Failure("internal"))]
           ELSE tx
  /\ UNCHANGED <<call, srv, orphan, committed, ran, outcome>>

-----------------------------------------------------------------------------
(* runCommand *)

Answer(c, code) ==
  /\ pc' = [pc EXCEPT ![c] = "done"]
  /\ outcome' = [outcome EXCEPT ![c] = code]

Run(c) ==
  /\ pc[c] = "idle"
  /\ pc' = [pc EXCEPT ![c] = "connect"]
  /\ n' = [n EXCEPT ![c] = 1]
  /\ UNCHANGED <<conn, tx, srv, stray, orphan, committed, ran, outcome>>

\* prepareInput refuses the input before anything else happens.
InvalidInput(c) ==
  /\ pc[c] = "idle"
  /\ Answer(c, "invalid")
  /\ UNCHANGED <<n, conn, tx, srv, stray, orphan, committed, ran>>

\* Mutant: the list of afterCommit actions outlives the attempt.
Connect_keepsAfter(c, k) ==
  /\ pc[c] = "connect" /\ \A d \in Commands : conn[d] # k
  /\ conn' = [conn EXCEPT ![c] = k]
  /\ tx' = [tx EXCEPT ![c] = [Enqueued(NewTx, BeginUnit) EXCEPT !.after = tx[c].after]]
  /\ pc' = [pc EXCEPT ![c] = "begin"]
  /\ UNCHANGED <<n, srv, stray, orphan, committed, ran, outcome>>

Connect(c, k) ==
  /\ pc[c] = "connect" /\ \A d \in Commands : conn[d] # k
  /\ conn' = [conn EXCEPT ![c] = k]
  /\ tx' = [tx EXCEPT ![c] = Enqueued(NewTx, BeginUnit)]
  /\ pc' = [pc EXCEPT ![c] = "begin"]
  /\ UNCHANGED <<n, srv, stray, orphan, committed, ran, outcome>>

ConnectFails(c, code) ==
  /\ pc[c] = "connect"
  /\ Answer(c, code)
  /\ UNCHANGED <<n, conn, tx, srv, stray, orphan, committed, ran>>

\* The current user of the attempt, or none.
User(c) ==
  /\ pc[c] = "user"
  /\ pc' = [pc EXCEPT ![c] = "ops"]
  /\ UNCHANGED <<n, conn, tx, srv, stray, orphan, committed, ran, outcome>>
Unauthenticated(c) ==
  /\ pc[c] = "user"
  /\ pc' = [pc EXCEPT ![c] = "failing"]
  /\ tx' = [tx EXCEPT ![c] = Closed(@, Failure("unauthenticated"))]
  /\ UNCHANGED <<n, conn, srv, stray, orphan, committed, ran, outcome>>

\* After the last operation COMMIT goes through the queue as any statement.
EnqueueCommit(c) ==
  /\ pc[c] = "ops" /\ Cardinality(Roots(tx[c])) = Ops
  /\ \A i \in Roots(tx[c]) : tx[c].task[i].stage = "done"
  /\ pc' = [pc EXCEPT ![c] = "commit"]
  /\ tx' = [tx EXCEPT ![c] = Enqueued(@, CommitUnit)]
  /\ UNCHANGED <<n, conn, srv, stray, orphan, committed, ran, outcome>>

\* The flow awaits its phase, so it fails with it.
OpFails(c) ==
  /\ pc[c] = "ops" /\ \E i \in Roots(tx[c]) : tx[c].task[i].stage = "failed"
  /\ pc' = [pc EXCEPT ![c] = "failing"]
  /\ UNCHANGED <<n, conn, tx, srv, stray, orphan, committed, ran, outcome>>

\* Mutant: the client is released although ROLLBACK failed or was not sent.
EndFailed_noRollback(c) ==
  /\ pc[c] = "failing" /\ tx[c].queue = <<>>
  /\ conn' = [conn EXCEPT ![c] = None]
  /\ pc' = [pc EXCEPT ![c] = "ended"]
  /\ UNCHANGED <<n, tx, srv, stray, orphan, committed, ran, outcome>>

\* endFailed, once no unit is running: ROLLBACK and back to the pool, or the
\* connection is destroyed and its slot gets a new one.
EndFailed(c) ==
  /\ pc[c] = "failing" /\ tx[c].queue = <<>>
  /\ srv' = [srv EXCEPT ![conn[c]] =
               [txn |-> "idle", context |-> Main, writes |-> {}]]
  /\ conn' = [conn EXCEPT ![c] = None]
  /\ pc' = [pc EXCEPT ![c] = "ended"]
  /\ UNCHANGED <<n, tx, stray, orphan, committed, ran, outcome>>

Retry(c) ==
  /\ pc[c] = "ended" /\ tx[c].terminal.retry # "no" /\ n[c] < MaxAttempts
  /\ pc' = [pc EXCEPT ![c] = "connect"]
  /\ n' = [n EXCEPT ![c] = @ + 1]
  /\ UNCHANGED <<conn, tx, srv, stray, orphan, committed, ran, outcome>>

\* The pause before the retry of a deadlock would outlast the budget.
NoTimeToRetry(c) ==
  /\ pc[c] = "ended" /\ tx[c].terminal.retry = "pause" /\ n[c] < MaxAttempts
  /\ Answer(c, "timeout")
  /\ UNCHANGED <<n, conn, tx, srv, stray, orphan, committed, ran>>

GiveUp(c) ==
  /\ pc[c] = "ended" /\ (tx[c].terminal.retry # "no" => n[c] = MaxAttempts)
  /\ Answer(c, tx[c].terminal.code)
  /\ UNCHANGED <<n, conn, tx, srv, stray, orphan, committed, ran>>

\* runAfterCommit: in order, and a failing action is only logged.
RunAfterCommit(c) ==
  /\ pc[c] = "after" \/ outcome[c] = "ok"
  /\ tx[c].after # <<>>
  /\ ran' = [ran EXCEPT ![c] = Append(@, Head(tx[c].after))]
  /\ tx' = [tx EXCEPT ![c].after = Tail(@)]
  /\ UNCHANGED <<call, srv, stray, orphan, committed, outcome>>

Succeed(c) ==
  /\ pc[c] = "after" /\ (Defer \/ tx[c].after = <<>>)
  /\ Answer(c, "ok")
  /\ UNCHANGED <<n, conn, tx, srv, stray, orphan, committed, ran>>

-----------------------------------------------------------------------------
Init ==
  /\ pc = [c \in Commands |-> "idle"]
  /\ n = [c \in Commands |-> 0]
  /\ conn = [c \in Commands |-> None]
  /\ tx = [c \in Commands |-> NewTx]
  /\ srv = [k \in Conns |-> [txn |-> "idle", context |-> Main, writes |-> {}]]
  /\ stray = [c \in Commands |-> {}]
  /\ orphan = {}
  /\ committed = [c \in Commands |-> {}]
  /\ ran = [c \in Commands |-> <<>>]
  /\ outcome = [c \in Commands |-> "none"]

Queue(c) == UnitCheck(c) \/ Send(c) \/ Reply(c) \/ ReplyCommit(c)
Phase(c) == StartOp(c) \/ \E i \in Tasks : HookSettled(c, i)
Hook(c)  == \E i \in Tasks : HookReturns(c, i)
Flow(c)  == \/ \E k \in Conns : Connect(c, k)
            \/ User(c) \/ EnqueueCommit(c) \/ OpFails(c) \/ EndFailed(c)
            \/ Retry(c) \/ GiveUp(c) \/ RunAfterCommit(c) \/ Succeed(c)
HookActs(c, i) ==
  \/ CtxRun(c, i) \/ CtxRead(c, i) \/ CtxReject(c, i) \/ CtxAfterCommit(c, i)
  \/ HookThrows(c, i) \/ HookSchedules(c, i)
Fails(c) == \/ BudgetOut(c) \/ Unauthenticated(c)
            \/ \E code \in {"unavailable", "database"} : ConnectFails(c, code)
            \/ NoTimeToRetry(c) \/ InvalidInput(c)
            \/ \E e \in {"40001", "40P01", "sqlstate"} : ServerError(c, e)
            \/ \E e \in {"lost", "sessionTimeout"} : SessionLost(c, e)

Next ==
  \/ \E c \in Commands :
       \/ Run(c) \/ Queue(c) \/ Phase(c) \/ Hook(c) \/ Flow(c) \/ Fails(c)
       \/ \E i \in Tasks : HookActs(c, i)
       \/ \E a \in 1..MaxAttempts : StrayActs(c, a)
  \/ \E o \in orphan : OrphanCommits(o) \/ OrphanRollsBack(o)

Spec == Init /\ [][Next]_vars

\* The event loop runs what is ready, the server answers, and every hook ends.
FairSpec == Spec /\ \A c \in Commands : /\ WF_vars(Queue(c)) /\ WF_vars(Phase(c))
                                        /\ WF_vars(Hook(c)) /\ WF_vars(Flow(c))
-----------------------------------------------------------------------------
(* Properties *)

\* What the database holds of command c, or may come to hold.
Effects(c) == committed[c] \cup {[n |-> o.n, writes |-> o.writes] :
                                   o \in {p \in orphan : p.cmd = c}}

\* A command takes effect at most once, however often runCommand retries it and
\* whatever becomes of a COMMIT whose answer was lost.
AtMostOnce == \A c \in Commands : Cardinality(Effects(c)) <= 1

\* The answer of run tells the truth: ok means that the last attempt is
\* committed, and every failure but command.unavailable that the database holds
\* nothing of the command and never will.
AnswerTruth ==
  \A c \in Commands :
    /\ outcome[c] = "ok" => {r.n : r \in committed[c]} = {n[c]}
    /\ outcome[c] \notin {"none", "ok", "unavailable"} => Effects(c) = {}

\* A commit is whole: it holds the write of every phase of its attempt, those
\* hooks started and did not await too, and none of them failed, caught or not.
CommitIsWhole ==
  \A c \in Commands : \A r \in Effects(c) :
    /\ \A i \in Allocated(tx[c]) : tx[c].task[i].stage = "done"
    /\ r.writes = {i \in Allocated(tx[c]) : tx[c].task[i].kind = "phase"}

\* An attempt leaves its connection quiet: once the client is released, nothing
\* of the attempt can send a statement on it any more, and the session the next
\* command gets is idle.
QuietAfterRelease ==
  /\ \A c \in Commands :
       conn[c] = None => /\ tx[c].queue = <<>>
                         /\ \A i \in Allocated(tx[c]) : tx[c].task[i].stage \in Finished
  /\ \A k \in Conns : (\A c \in Commands : conn[c] # k) => srv[k].txn = "idle"

\* Every core call runs under the command context of its own phase, whatever
\* other phases have put in the queue meanwhile.
CoreInOwnContext ==
  [][\A k \in Conns : \A i \in srv'[k].writes \ srv[k].writes : srv[k].context = i]_vars

\* The failures run may answer.  Two do not deny the effect: the lost connection
\* and, where hooks leave code behind, the failure of that code.
FailureCodes == {"retry-exhausted", "database", "timeout", "unavailable", "invalid",
                 "internal", "depth", "rejected", "unauthenticated"}
Vague == {"unavailable"} \cup (IF MaxStrays = 0 THEN {} ELSE {"internal"})

\* The attempt that is committed, as CommandContract sees it.
EffectOf == [c \in Commands |-> {r.n : r \in committed[c]}]
Contract == INSTANCE CommandContract WITH
              Attempts <- 0..MaxAttempts, Definite <- FailureCodes \ Vague,
              effect <- EffectOf, answer <- outcome

\* Attempts, retries, hooks, lost connections and COMMITs that land late implement
\* that specification: one effect or none, then what the committed attempt registered
\* in afterCommit and nothing else, one answer, and no effect behind an answer that
\* denied it (runCommand's contract towards its caller).
RefinesCommandContract == Contract!Spec

\* Every call of run is answered, if the hooks it calls return.
EveryCommandAnswers == \A c \in Commands : pc[c] # "idle" ~> pc[c] = "done"
=============================================================================
