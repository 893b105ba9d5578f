----------------------------- MODULE CatalogCore -----------------------------
(***************************************************************************)
(* The generated core functions of a catalog (save, mark_deletion, delete), *)
(* run by transactions of PostgreSQL under READ COMMITTED, with the triggers*)
(* on the table: the row version (touch) and the hierarchy.  Writers outside*)
(* the commands (an import, a migration) write the same table and meet only *)
(* the triggers.                                                            *)
(*                                                                         *)
(* A transaction runs one request.  Its writes stay its own until COMMIT;   *)
(* its row locks, the advisory lock of the hierarchy and the lines it has   *)
(* locked or inserted are held until it ends.  An error leaves the          *)
(* transaction failed, its locks held, until the caller rolls it back.      *)
(* Data kept of a row: its version, its parent, one more reference to a row *)
(* and the deletion mark.                                                   *)
(***************************************************************************)
EXTENDS Integers, FiniteSets

CONSTANTS
  Rows,        \* ids of the catalog
  Lines,       \* ids of the rows of its tabular section
  Txns,        \* transactions
  Requests,    \* what a transaction may be asked to do
  Contracts,   \* the kinds of catalog considered
  Tables,      \* the tables a behaviour may start from
  Predefined,  \* predefined rows
  None,        \* no row, NULL
  Keep         \* the key is absent from p_item

Kinds == {"create", "update", "mark", "delete", "direct"}
Row   == [ver : Nat, parent : Rows \cup {None}, ref : Rows \cup {None}, mark : BOOLEAN]
Absent == [ver |-> 0, parent |-> None, ref |-> None, mark |-> FALSE]

\* p_item and the function called: `key` - the input changes the value of a key
\* column; `related` - a row the lines refer to; `rr` - REPEATABLE READ, which
\* only a writer outside the commands may use.
Request == [kind : Kinds, row : Rows, parent : Rows \cup {None, Keep},
            ref : Rows \cup {None, Keep}, key : BOOLEAN,
            lines : {Keep} \cup SUBSET Lines, related : Rows \cup {None}, rr : BOOLEAN]

\* hierarchy - the catalog has a parent column; lockAlways - a beforeWrite
\* handler may assign it; deletable - the catalog has delete (Assignments).
Contract == [hierarchy : BOOLEAN, lockAlways : BOOLEAN, deletable : BOOLEAN]

ParentOf(table) == [r \in Rows |-> table[r].parent]

\* A row is its own ancestor iff some non-empty set of rows is closed under
\* "has its parent in the set".
Acyclic(f) == \A S \in SUBSET Rows : S # {} => \E s \in S : f[s] \notin S

ASSUME CatalogAssumption ==
  /\ None \notin Rows /\ Keep \notin Rows \cup {None} /\ \A S \in SUBSET Lines : S # Keep
  /\ None \notin Txns
  /\ Predefined \subseteq Rows
  /\ Requests \subseteq Request /\ \A q \in Requests : q.rr => q.kind = "direct"
  /\ \A q \in Requests : q.kind \in {"mark", "delete"} =>   \* only save has a p_item
       q.parent = Keep /\ q.ref = Keep /\ q.lines = Keep /\ ~q.key
  /\ Contracts \subseteq Contract
  /\ \A c \in Contracts : (c.lockAlways => c.hierarchy) /\ (c.deletable => ~c.hierarchy)
  /\ Tables \subseteq [Rows -> Row]
  /\ \A f \in Tables : Acyclic(ParentOf(f)) /\ \A r \in Rows : f[r].ver = 0 => f[r] = Absent

VARIABLES
  contract,  \* the kind of this catalog
  tab,       \* the committed rows
  lines,     \* the committed owner of every line
  pc,        \* where a transaction is
  req,       \* its request, with the version its caller expects
  exp,       \* p_expected_version
  snap,      \* the parents at its first statement (REPEATABLE READ)
  right,     \* does the actor hold the right of the action?
  old,       \* v_old
  new,       \* v_new, then the row as written
  wrote,     \* has it written the row?
  todo,      \* rows RI still has to lock, lines still to insert
  held,      \* row locks of a transaction: <<row, mode>>
  own,       \* lines a transaction has locked or inserted
  adv        \* who holds the advisory lock of the hierarchy

data  == <<contract, tab, lines>>
input == <<req, exp, snap>>
work  == <<old, new, wrote, todo>>
locks == <<held, own, adv>>
vars  == <<data, pc, input, right, work, locks>>

-----------------------------------------------------------------------------
\* Row locks.  Only the strengths the core and the triggers use.
Modes == {"KeyShare", "NoKeyUpdate", "Update"}
Conflicts(mode) ==
  CASE mode = "KeyShare"    -> {"Update"}
    [] mode = "NoKeyUpdate" -> {"NoKeyUpdate", "Update"}
    [] OTHER                -> Modes

\* Transactions whose lock on r makes t wait for `mode`.
Blockers(t, r, mode) ==
  {u \in Txns \ {t} : \E m \in Conflicts(mode) : <<r, m>> \in held[u]}
Lock(t, r, mode) == held' = [held EXCEPT ![t] = @ \cup {<<r, mode>>}]
LineBlockers(t, l) == {u \in Txns \ {t} : l \in own[u]}

\* Mutant: the row is locked FOR UPDATE, which conflicts with RI's KEY SHARE.
StrengthAlwaysUpdate(kind) == "Update"
\* lockedOld: a change leaves the key alone, a deletion does not.
Strength(kind) == IF kind = "delete" THEN "Update" ELSE "NoKeyUpdate"

Goto(t, l)  == pc' = [pc EXCEPT ![t] = l]
Fail(t)     == Goto(t, "failed") /\ UNCHANGED <<data, input, right, work, locks>>
Exists(r)   == tab[r].ver > 0
Visible(r)  == r # None => Exists(r)

\* The value of a column after the request, `default` when p_item has no key.
Given(value, default) == IF value = Keep THEN default ELSE value

\* The core takes the hierarchy lock before it locks or inserts the row, when
\* the row may move: a parent in p_item of a change, one that is not NULL in a
\* creation; mark_deletion moves a row only through a handler.
HierarchyLockFirst(t) ==
  /\ contract.hierarchy
  /\ \/ contract.lockAlways
     \/ req[t].kind = "update" /\ req[t].parent # Keep
     \/ req[t].kind = "create" /\ req[t].parent \in Rows

\* v_new over the row before.
NewOf(t, before) ==
  [before EXCEPT !.parent = Given(req[t].parent, @), !.ref = Given(req[t].ref, @),
                 !.mark = @ \/ req[t].kind = "mark"]

\* A beforeWrite handler of the application may assign the parent.
Handled(v) == IF contract.lockAlways
              THEN {[v EXCEPT !.parent = p] : p \in Rows \cup {None}} ELSE {v}

\* The touch trigger: 1 on insert, OLD.version + 1 on update.
Touch(t, v) == [v EXCEPT !.ver = @ + 1]

\* Rows whose foreign keys a write makes RI check: new or changed references.
NewKeys(before, after) ==
  {r \in Rows : \/ r = after.parent /\ r # before.parent
                \/ r = after.ref /\ r # before.ref}

-----------------------------------------------------------------------------
Init ==
  /\ contract \in Contracts
  /\ tab \in Tables /\ (~contract.hierarchy => \A r \in Rows : tab[r].parent = None)
  /\ lines = [l \in Lines |-> None]
  /\ pc = [t \in Txns |-> "idle"]
  /\ req = [t \in Txns |-> None]
  /\ exp = [t \in Txns |-> 0]
  /\ snap = [t \in Txns |-> ParentOf(tab)]
  /\ right = [t \in Txns |-> TRUE]
  /\ old = [t \in Txns |-> Absent] /\ new = [t \in Txns |-> Absent]
  /\ wrote = [t \in Txns |-> FALSE]
  /\ todo = [t \in Txns |-> {}]
  /\ held = [t \in Txns |-> {}] /\ own = [t \in Txns |-> {}]
  /\ adv = None

\* Which requests a catalog of this kind has: delete only where nothing refers to
\* a row (Assignments), a parent only in a hierarchy.
Offered(q) == /\ q.kind = "delete" => contract.deletable
              /\ q.parent # Keep => contract.hierarchy
              /\ contract.deletable => q.ref = Keep /\ q.lines = Keep

\* The transaction starts with a request; the caller has read the version it
\* expects (NULL - here 0 - for a creation).
Begin(t, q) ==
  /\ pc[t] = "idle" /\ Offered(q)
  /\ req' = [req EXCEPT ![t] = q]
  /\ exp' = [exp EXCEPT ![t] = IF q.kind = "create" THEN 0
                               ELSE IF Exists(q.row) THEN tab[q.row].ver ELSE 1]
  /\ snap' = [snap EXCEPT ![t] = ParentOf(tab)]
  /\ Goto(t, IF q.kind = "direct" THEN "statement" ELSE "called")
  /\ UNCHANGED <<data, right, work, locks>>

\* Another transaction commits the loss of the actor's right.
Revoke(t) ==
  /\ pc[t] \in {"row", "write", "insert", "tabular", "lines"} /\ right[t]
  /\ right' = [right EXCEPT ![t] = FALSE]
  /\ UNCHANGED <<data, pc, input, work, locks>>

\* The checks before any lock: the input has the shape of the table, the command
\* context names this action and this row.
Called(t) ==
  /\ pc[t] = "called"
  /\ \/ Fail(t)
     \/ /\ Goto(t, IF req[t].kind = "create" THEN "exists"
                   ELSE IF HierarchyLockFirst(t) THEN "advisory" ELSE "row")
        /\ UNCHANGED <<data, input, right, work, locks>>

\* createLines before its INSERT: the key is free, the references are visible,
\* the actor may create the row.
CheckNew(t) ==
  LET v == NewOf(t, Absent) IN
  /\ pc[t] = "exists"
  /\ \/ /\ Exists(req[t].row) \/ ~Visible(v.parent) \/ ~Visible(v.ref) \/ ~right[t]
        /\ Fail(t)
     \/ /\ ~Exists(req[t].row) /\ Visible(v.parent) /\ Visible(v.ref) /\ right[t]
        /\ new' = [new EXCEPT ![t] = v]
        /\ Goto(t, IF HierarchyLockFirst(t) THEN "advisory" ELSE "insert")
        /\ UNCHANGED <<data, input, right, old, wrote, todo, locks>>

\* pg_advisory_xact_lock of the core.
AdvisoryLock(t) ==
  /\ pc[t] = "advisory" /\ adv \in {None, t}
  /\ adv' = t
  /\ Goto(t, IF req[t].kind = "create" THEN "insert" ELSE "row")
  /\ UNCHANGED <<data, input, right, work, held, own>>

\* Mutant: the version is read before the lock is waited for.
StaleVersion(t) == exp[t] # 0
\* The row under its lock has the version the caller expects.
ExpectedVersion(t) == tab[req[t].row].ver = exp[t]

\* SELECT ... FOR NO KEY UPDATE / FOR UPDATE: the policies hide a row the actor
\* may not write; the wait ends with the newest committed row.
LockedOld(t) ==
  LET r == req[t].row
      mode == Strength(req[t].kind) IN
  /\ pc[t] = "row"
  /\ \/ (~Exists(r) \/ ~right[t]) /\ Fail(t)
     \/ /\ Exists(r) /\ right[t] /\ Blockers(t, r, mode) = {}
        /\ Lock(t, r, mode)
        /\ old' = [old EXCEPT ![t] = tab[r]]
        /\ Goto(t, IF ExpectedVersion(t) THEN "check" ELSE "failed")
        /\ UNCHANGED <<data, input, right, new, wrote, todo, own, adv>>

\* Rights over the row before and after, references that change, predefined rows.
CheckOld(t) ==
  LET v == NewOf(t, old[t])
      ok == /\ right[t]
            /\ v.parent = old[t].parent \/ Visible(v.parent)
            /\ v.ref = old[t].ref \/ Visible(v.ref)
            /\ ~(req[t].kind = "mark" /\ req[t].row \in Predefined) IN
  /\ pc[t] = "check"
  /\ \/ ~ok /\ Fail(t)
     \/ /\ ok /\ new' = [new EXCEPT ![t] = IF req[t].kind = "delete" THEN Absent ELSE v]
        /\ Goto(t, "write")
        /\ UNCHANGED <<data, input, right, old, wrote, todo, locks>>

\* The row as the statement has written it, and what RI has to check.
Written(t, before, v) ==
  /\ new' = [new EXCEPT ![t] = v]
  /\ wrote' = [wrote EXCEPT ![t] = TRUE]
  /\ todo' = [todo EXCEPT ![t] = NewKeys(before, v)]

\* Mutant: zero rows of the UPDATE count as success.
ZeroRowsPass(t) == Goto(t, "tabular") /\ UNCHANGED <<data, input, right, work, locks>>
\* v_count = 0: the right was lost after the row was locked.
ZeroRows(t) == Fail(t)

\* UPDATE of the header (or DELETE): FOR UPDATE only when a key value changes.
HeaderWrite(t) ==
  LET r == req[t].row
      mode == IF req[t].kind = "delete" \/ req[t].key THEN "Update" ELSE "NoKeyUpdate" IN
  /\ pc[t] = "write"
  /\ \/ ~right[t] /\ ZeroRows(t)
     \/ /\ right[t] /\ Blockers(t, r, mode) = {}
        /\ Lock(t, r, mode)
        /\ \/ /\ req[t].kind = "delete"
              /\ Written(t, old[t], Absent)
           \/ /\ req[t].kind # "delete"
              /\ \E v \in Handled(new[t]) : Written(t, old[t], Touch(t, v))
        /\ Goto(t, "keys")
        /\ UNCHANGED <<data, input, right, old, own, adv>>

\* UPDATE of the parent by a writer outside the commands.  Under REPEATABLE READ
\* a row changed since the first statement fails.
DirectWrite(t) ==
  LET r == req[t].row IN
  /\ pc[t] = "statement"
  /\ \/ ~Exists(r) /\ Fail(t)
     \/ /\ Exists(r) /\ Blockers(t, r, "NoKeyUpdate") = {}
        /\ req[t].rr /\ tab[r].ver # exp[t]
        /\ Fail(t)
     \/ /\ Exists(r) /\ Blockers(t, r, "NoKeyUpdate") = {}
        /\ req[t].rr => tab[r].ver = exp[t]
        /\ Lock(t, r, "NoKeyUpdate")
        /\ old' = [old EXCEPT ![t] = tab[r]]
        /\ \E v \in Handled(NewOf(t, tab[r])) : Written(t, tab[r], Touch(t, v))
        /\ Goto(t, "keys")
        /\ UNCHANGED <<data, input, right, own, adv>>

\* unique_violation: the re-read finds the row (or may not see it); a refusal.
DuplicateKey(t) == Fail(t)

\* INSERT: waits for another transaction's insert of the same key.
Insert(t) ==
  LET r == req[t].row IN
  /\ pc[t] = "insert"
  /\ \/ ~right[t] /\ Fail(t)
     \/ right[t] /\ Blockers(t, r, "Update") = {} /\ Exists(r) /\ DuplicateKey(t)
     \/ /\ right[t] /\ Blockers(t, r, "Update") = {} /\ ~Exists(r)
        /\ Lock(t, r, "Update")
        /\ \E v \in Handled(new[t]) : Written(t, Absent, Touch(t, v))
        /\ Goto(t, "keys")
        /\ UNCHANGED <<data, input, right, old, own, adv>>

\* Where a transaction goes once the row and its triggers are done.
AfterRow(t) == IF req[t].kind \in {"create", "update"} THEN "tabular" ELSE "done"

\* RI locks the rows newly referred to FOR KEY SHARE, one after the other.
KeyShare(t, from, next) ==
  /\ pc[t] = from
  /\ \/ \E r \in todo[t] : r # req[t].row /\ ~Exists(r) /\ Fail(t)
     \/ \E r \in todo[t] :
          /\ r = req[t].row \/ Exists(r)
          /\ Blockers(t, r, "KeyShare") = {}
          /\ Lock(t, r, "KeyShare")
          /\ todo' = [todo EXCEPT ![t] = @ \ {r}]
          /\ UNCHANGED <<data, pc, input, right, old, new, wrote, own, adv>>
     \/ /\ todo[t] = {} /\ Goto(t, next)
        /\ UNCHANGED <<data, input, right, work, locks>>

\* The hierarchy trigger fires when the parent has changed (on insert: is not
\* NULL, the parent of no row).
Moved(t) == contract.hierarchy /\ new[t].parent # old[t].parent
Keys(t)  == KeyShare(t, "keys", IF Moved(t) THEN "trigger" ELSE AfterRow(t))

\* What the trigger refuses before it waits: a fixed snapshot, a row as its own
\* parent.
TriggerRefuses(t) == req[t].rr \/ new[t].parent = req[t].row

\* pg_advisory_xact_lock of the trigger; the transaction may hold it already.
TriggerLock(t) == adv \in {None, t} /\ adv' = t

HierarchyTrigger(t) ==
  /\ pc[t] = "trigger"
  /\ \/ TriggerRefuses(t) /\ Fail(t)
     \/ /\ ~TriggerRefuses(t) /\ TriggerLock(t)
        /\ Goto(t, "walk")
        /\ UNCHANGED <<data, input, right, work, held, own>>

\* The rows from p upwards: in every set that has p and its rows' parents.
Above(f, p) ==
  {x \in Rows : \A S \in SUBSET Rows :
     (p \in S /\ \A s \in S : f[s] # None => f[s] \in S) => x \in S}

\* Mutant: a STABLE function walks the snapshot taken before the wait.
WalkStable(t) == snap[t]
\* What the walk reads: a VOLATILE function takes a new snapshot for the
\* statement after the lock, except under REPEATABLE READ.
WalkReads(t) == IF req[t].rr THEN snap[t] ELSE ParentOf(tab)

\* The recursive query over the ancestors of the new parent.
Walk(t) ==
  LET f == [WalkReads(t) EXCEPT ![req[t].row] = new[t].parent]
      cycle == new[t].parent \in Rows /\ req[t].row \in Above(f, new[t].parent) IN
  /\ pc[t] = "walk"
  /\ \/ cycle /\ Fail(t)
     \/ ~cycle /\ Goto(t, AfterRow(t)) /\ UNCHANGED <<data, input, right, work, locks>>

-----------------------------------------------------------------------------
LinesOf(r) == {l \in Lines : lines[l] = r}
Ids(t)     == req[t].lines

\* The tabular section named in p_item: no line of another owner, the rows the
\* lines refer to are visible; then the owner's lines are locked and counted, as
\* far as the policies show them.
TabularLock(t) ==
  LET mine == IF right[t] THEN LinesOf(req[t].row) ELSE {}
      ok == (\A l \in Ids(t) : lines[l] \in {None, req[t].row}) /\ Visible(req[t].related) IN
  /\ pc[t] = "tabular"
  /\ \/ /\ Ids(t) = Keep /\ Goto(t, "done")
        /\ UNCHANGED <<data, input, right, work, locks>>
     \/ Ids(t) # Keep /\ ~ok /\ Fail(t)
     \/ /\ Ids(t) # Keep /\ ok /\ \A l \in mine : LineBlockers(t, l) = {}
        /\ own' = [own EXCEPT ![t] = @ \cup mine]
        /\ Goto(t, "lines")
        /\ UNCHANGED <<data, input, right, work, held, adv>>

\* DELETE and UPDATE touch every line that was locked, or the command is refused.
LinesTouched(t) == right[t] \/ own[t] = {}

\* DELETE of the lines left out, UPDATE of those named; the others are inserted.
TabularWrite(t) ==
  /\ pc[t] = "lines"
  /\ \/ ~LinesTouched(t) /\ Fail(t)
     \/ /\ LinesTouched(t)
        /\ todo' = [todo EXCEPT ![t] = Ids(t) \ own[t]]
        /\ Goto(t, "insertLines")
        /\ UNCHANGED <<data, input, right, old, new, wrote, locks>>

\* Mutant: INSERT ... ON CONFLICT DO UPDATE takes over the line.
LineTakenOver(l) == FALSE
\* The key of the section: the insert of a line that is there is a refusal.
LineTaken(l) == lines[l] # None

\* INSERT of the new lines, one after the other: each waits for a transaction
\* that has written the same id; a line that is there is a refusal, and so is an
\* insert without the right.  RI then checks the rows the lines refer to.
TabularInsert(t) ==
  LET related == IF Ids(t) = {} THEN {} ELSE {req[t].related} \ {None} IN
  /\ pc[t] = "insertLines"
  /\ \/ \E l \in todo[t] :
          /\ ~right[t] \/ (LineBlockers(t, l) = {} /\ LineTaken(l))
          /\ Fail(t)
     \/ \E l \in todo[t] :
          /\ right[t] /\ LineBlockers(t, l) = {} /\ ~LineTaken(l)
          /\ own' = [own EXCEPT ![t] = @ \cup {l}]
          /\ todo' = [todo EXCEPT ![t] = @ \ {l}]
          /\ UNCHANGED <<data, pc, input, right, old, new, wrote, held, adv>>
     \/ /\ todo[t] = {}
        /\ todo' = [todo EXCEPT ![t] = related]
        /\ Goto(t, "lineKeys")
        /\ UNCHANGED <<data, input, right, old, new, wrote, locks>>
LineKeys(t) == KeyShare(t, "lineKeys", "done")

-----------------------------------------------------------------------------
\* The transaction's variables go with it, and its locks except `kept`.
End(t, kept) ==
  /\ old' = [old EXCEPT ![t] = Absent] /\ new' = [new EXCEPT ![t] = Absent]
  /\ wrote' = [wrote EXCEPT ![t] = FALSE] /\ todo' = [todo EXCEPT ![t] = {}]
  /\ held' = [held EXCEPT ![t] = {}] /\ own' = [own EXCEPT ![t] = {}]
  /\ adv' = IF adv = t THEN kept ELSE adv

\* Mutant: a session lock, which the end of the transaction does not release.
ReleaseSession(t) == End(t, adv)
\* pg_advisory_xact_lock ends with the transaction, as the row locks do.
Release(t) == End(t, None)

\* COMMIT: the row and the lines of the transaction become the committed ones;
\* its locks go.
Commit(t) ==
  LET r == req[t].row IN
  /\ pc[t] = "done"
  /\ tab' = IF wrote[t] THEN [tab EXCEPT ![r] = new[t]] ELSE tab
  /\ lines' = IF Ids(t) = Keep THEN lines
              ELSE [l \in Lines |-> IF l \notin own[t] THEN lines[l]
                                   ELSE IF l \in Ids(t) THEN r ELSE None]
  /\ Goto(t, "committed") /\ Release(t)
  /\ UNCHANGED <<contract, input, right>>

Active == {"called", "exists", "advisory", "row", "check", "write", "statement", "insert",
           "keys", "trigger", "walk", "tabular", "lines", "insertLines", "lineKeys", "done"}

\* ROLLBACK: after an error, or at any moment (a timeout, a lost connection).
Rollback(t) ==
  /\ pc[t] \in Active \cup {"failed"}
  /\ Goto(t, "rolledBack") /\ Release(t)
  /\ UNCHANGED <<data, input, right>>

\* Who makes t wait where it stands.
WaitsFor(t) ==
  LET r == req[t].row
      all(S, by(_)) == IF \A x \in S : by(x) # {} THEN UNION {by(x) : x \in S} ELSE {} IN
  CASE pc[t] \in {"advisory", "trigger"} -> {adv} \ {None, t}
    [] pc[t] = "row" /\ Exists(r) /\ right[t] -> Blockers(t, r, Strength(req[t].kind))
    [] pc[t] = "write" /\ right[t] /\ (req[t].key \/ req[t].kind = "delete") -> Blockers(t, r, "Update")
    [] pc[t] = "statement" /\ Exists(r) -> Blockers(t, r, "NoKeyUpdate")
    [] pc[t] = "insert" /\ right[t] -> Blockers(t, r, "Update")
    [] pc[t] \in {"keys", "lineKeys"} ->
         LET by(x) == IF x = r \/ Exists(x) THEN Blockers(t, x, "KeyShare") ELSE {} IN all(todo[t], by)
    [] pc[t] = "insertLines" /\ right[t] ->
         LET by(l) == LineBlockers(t, l) IN all(todo[t], by)
    [] OTHER -> {}
Stuck(S) == S # {} /\ \A t \in S : WaitsFor(t) \cap S # {}

\* The deadlock detector of the server ends one transaction of a wait cycle.
Detect(t) ==
  /\ \E S \in SUBSET Txns : t \in S /\ Stuck(S)
  /\ Fail(t)

Step(t) ==
  \/ Called(t) \/ CheckNew(t) \/ AdvisoryLock(t) \/ LockedOld(t) \/ CheckOld(t)
  \/ HeaderWrite(t) \/ DirectWrite(t) \/ Insert(t) \/ Keys(t)
  \/ HierarchyTrigger(t) \/ Walk(t)
  \/ TabularLock(t) \/ TabularWrite(t) \/ TabularInsert(t) \/ LineKeys(t)
  \/ Commit(t)

Next == \E t \in Txns :
  \/ \E q \in Requests : Begin(t, q)
  \/ Step(t) \/ Revoke(t) \/ Rollback(t) \/ Detect(t)

\* A statement of PostgreSQL and the caller's COMMIT or ROLLBACK happen in the
\* end; the deadlock detector wakes up.
Fairness == \A t \in Txns :
  /\ WF_vars(Step(t)) /\ WF_vars(Detect(t))
  /\ WF_vars(pc[t] = "failed" /\ Rollback(t))

Spec == Init /\ [][Next]_vars /\ Fairness

-----------------------------------------------------------------------------
TypeOK ==
  /\ contract \in Contracts
  /\ tab \in [Rows -> Row]
  /\ lines \in [Lines -> Rows \cup {None}]
  /\ pc \in [Txns -> Active \cup {"idle", "failed", "committed", "rolledBack"}]
  /\ req \in [Txns -> {None} \cup Requests]
  /\ \A t \in Txns : pc[t] # "idle" => req[t] \in Requests
  /\ exp \in [Txns -> Nat]
  /\ snap \in [Txns -> [Rows -> Rows \cup {None}]]
  /\ right \in [Txns -> BOOLEAN] /\ wrote \in [Txns -> BOOLEAN]
  /\ old \in [Txns -> Row] /\ new \in [Txns -> Row]
  /\ todo \in [Txns -> SUBSET (Rows \cup Lines)]
  /\ \A t \in Txns : /\ pc[t] \in {"keys", "lineKeys"} => todo[t] \subseteq Rows
                     /\ pc[t] = "insertLines" => todo[t] \subseteq Lines
                     /\ pc[t] \in {"lines", "insertLines"} => req[t].lines # Keep
  /\ held \in [Txns -> SUBSET (Rows \X Modes)]
  /\ own \in [Txns -> SUBSET Lines]
  /\ adv \in Txns \cup {None}

\* The committed parents never form a cycle, whoever writes them: two moves that
\* are each harmless on their own snapshot cannot both commit.
HierarchyIsForest == Acyclic(ParentOf(tab))

Commits(t) == pc[t] = "done" /\ pc'[t] = "committed"

\* No lost update: what a transaction commits replaces exactly the row it has
\* read, and a command replaces only the version its caller had seen (a creation:
\* no row), however long it waited for its locks.
NoLostUpdate ==
  [][\A t \in Txns : Commits(t) =>
       /\ tab[req[t].row] = old[t]
       /\ req[t].kind # "direct" => old[t].ver = exp[t]]_vars

\* A save that commits has written what it was asked for: the columns given, the
\* others as they were, the next version; and while the actor holds the right the
\* section has exactly the lines named.
SavedAsAsked ==
  [][\A t \in Txns : (Commits(t) /\ req[t].kind \in {"create", "update", "mark"}) =>
       LET r == req[t].row
           row == NewOf(t, tab[r]) IN
       /\ tab'[r] \in Handled([row EXCEPT !.ver = @ + 1])
       /\ Ids(t) # Keep /\ right[t] => {l \in Lines : lines'[l] = r} = Ids(t)]_vars

\* A line never passes from one row to another: at most it is deleted.
LinesKeepOwner ==
  [][\A l \in Lines : lines[l] # None => lines'[l] \in {lines[l], None}]_vars

\* Commands do not lock each other out.  Where transactions wait for each other, one
\* writes outside the commands or changes a key value, or some of them already wait
\* for each other with inserts of lines whose ids they share.
CommandsDoNotDeadlock ==
  \A S \in SUBSET Txns : Stuck(S) =>
    \/ \E t \in S : req[t].kind = "direct" \/ req[t].key
    \/ Stuck({t \in S : pc[t] = "insertLines"})

\* Every transaction ends: nobody waits for ever.
EveryTransactionEnds ==
  \A t \in Txns : pc[t] # "idle" ~> pc[t] \in {"committed", "rolledBack"}
=============================================================================
