----------------------------- MODULE RightsGuard -----------------------------
(***************************************************************************)
(* The guards of the rights of one scope: the triggers on its roles, its    *)
(* assignments, its members and the users, the queue of keys they fill, and *)
(* the check of every key at COMMIT.  Writers are commands (an actor with a  *)
(* command context), maintenance (the login of the owner with the setting)   *)
(* and statements outside both; one program is the maintenance tool that     *)
(* restores full access to a scope.                                         *)
(*                                                                         *)
(* A transaction runs a program of statements.  A statement is: the snapshot *)
(* trigger, the write under a row lock, the statement trigger, which takes   *)
(* the row of the version of the rights and holds it until the end.  A       *)
(* refusal rolls the transaction back.                                      *)
(***************************************************************************)
EXTENDS Integers, FiniteSets, Sequences

CONSTANTS
  Users, Members, Customs, Assigns,  \* keys: users, members, custom roles, assignments
  Archetypes, Full,                  \* roles of the code; the one with fullAccess
  Rights, GrantsOf,                  \* what can be granted; by an archetype
  Txns, Programs,                    \* transactions, what they may run
  Starts,                            \* tables a behaviour may start from
  None,                              \* NULL, nobody
  Absent                             \* no such row

Keys == Users \cup Members \cup Customs \cup Assigns
Assignment == [subject : Members, role : Archetypes \cup Customs, mark : BOOLEAN]
Custom     == [grants : SUBSET Rights, mark : BOOLEAN]
\* The rows a key may have: validity of a user, the user of a member.
Value(k) == CASE k \in Users   -> BOOLEAN
              [] k \in Members -> Users \cup {None, Absent}
              [] k \in Customs -> Custom
              [] OTHER         -> Assignment \cup {Absent}
Table(d) == d = [k \in Keys |-> d[k]] /\ \A k \in Keys : d[k] \in Value(k)

Modes == {"command", "maintenance", "outside"}
Versions == {"scope", "global"}

-----------------------------------------------------------------------------
\* What the tables of a state d say.

\* roleGrantSet: the grants of a role; a marked custom role has none.
RoleGrants(d, r) ==
  IF r \in Archetypes THEN GrantsOf[r] ELSE IF d[r].mark THEN {} ELSE d[r].grants

Live(d, a) == d[a] # Absent /\ ~d[a].mark
\* assignmentGrantSet.
Given(d, a) == IF Live(d, a) THEN RoleGrants(d, d[a].role) ELSE {}
UserOf(d, a) == d[d[a].subject]

\* rights_mine_live of a user.
RightsOf(d, u) ==
  IF u \in Users /\ d[u]
  THEN UNION {Given(d, a) : a \in {b \in Assigns : d[b] # Absent /\ UserOf(d, b) = u}}
  ELSE {}

\* fullAccessHolderRows: valid users with a live assignment of the archetype itself.
Holders(d) ==
  {u \in Users : d[u] /\ \E a \in Assigns : Live(d, a) /\ d[a].role = Full /\ UserOf(d, a) = u}

ASSUME RightsAssumption ==
  /\ Full \in Archetypes /\ GrantsOf \in [Archetypes -> SUBSET Rights]
  /\ None \notin Keys \cup Txns /\ Absent \notin Keys \cup {None}
  /\ None \notin {"done", "refused", "thrown", "unknown"}
  /\ None \notin [actor : Users \cup {None}, rights : SUBSET Rights, full : BOOLEAN]
  \* keys of four tables
  /\ Users \cap (Members \cup Customs \cup Assigns) = {}
  /\ Members \cap (Customs \cup Assigns) = {} /\ Customs \cap Assigns = {}
  /\ \A p \in Programs :
       /\ p = [stmts |-> p.stmts, rr |-> p.rr, immediate |-> p.immediate, tool |-> p.tool]
       /\ Len(p.stmts) \in Nat /\ DOMAIN p.stmts = 1..Len(p.stmts)
       /\ p.tool = None => Len(p.stmts) > 0
       /\ \A i \in DOMAIN p.stmts :
            LET s == p.stmts[i] IN
            /\ s = [key |-> s.key, value |-> s.value, mode |-> s.mode, actor |-> s.actor]
            /\ s.key \in Keys /\ s.value \in Value(s.key)
            /\ s.mode \in Modes /\ s.actor \in Users \cup {None}
  /\ \A d \in Starts :
       /\ Table(d)
       /\ \A a \in Assigns : d[a] # Absent => d[d[a].subject] # Absent
       /\ \A a \in Assigns : Live(d, a) /\ d[a].role \in Customs => ~d[d[a].role].mark
       /\ \A m, n \in Members : d[m] \in Users /\ d[m] = d[n] => m = n

VARIABLES
  db,      \* committed rows
  ver,     \* committed versions of the rights
  pc, prog, at,  \* where a transaction is: its place, its program, the statement
  seen,    \* REPEATABLE READ: the rows and versions at its first statement
  own,     \* rows a transaction has written (and locked)
  image,   \* the row before the current statement
  start,   \* rights of its actor before the first change: the snapshot
  jrn,     \* the rows before the first change of a command: the journal
  pend,    \* rights_tx_pending: keys to check ...
  exempt,  \* ... and those only maintenance has touched
  vlock,   \* who holds the row of a version
  tlock,   \* who holds the lock of the apply (the maintenance tool)
  answer,  \* what a run of the tool answered
  gone,    \* history: users who became invalid
  first    \* history: the committed rows at the first statement

place == <<pc, prog, at, seen>>
queue == <<start, jrn, pend, exempt>>
vars  == <<db, ver, place, own, image, queue, vlock, tlock, answer, gone, first>>

Stmt(t) == prog[t].stmts[at[t]]
Claims(t) == IF at[t] = 0 THEN None ELSE Stmt(t).actor
Goto(t, l) == pc' = [pc EXCEPT ![t] = l]

\* The rows t sees: its own writes over the committed ones (over those of its
\* first statement under REPEATABLE READ).
View(t) == [k \in Keys |-> IF k \in DOMAIN own[t] THEN own[t][k]
                           ELSE IF prog[t].rr THEN seen[t].db[k] ELSE db[k]]
\* stateRows "before": the first image of a command, else the row as it is.
Earlier(t) == [k \in Keys |-> IF k \in DOMAIN jrn[t] THEN jrn[t][k] ELSE View(t)[k]]

With(f, k, v) == [j \in DOMAIN f \cup {k} |-> IF j = k THEN v ELSE f[j]]

-----------------------------------------------------------------------------
Nothing == [stmts |-> <<>>, rr |-> FALSE, immediate |-> FALSE, tool |-> None]
Empty == [k \in {} |-> None]

Init ==
  /\ db \in Starts /\ ver = [v \in Versions |-> 0]
  /\ pc = [t \in Txns |-> "idle"] /\ prog = [t \in Txns |-> Nothing]
  /\ at = [t \in Txns |-> 0] /\ seen = [t \in Txns |-> None]
  /\ own = [t \in Txns |-> Empty] /\ image = [t \in Txns |-> None]
  /\ start = [t \in Txns |-> None] /\ jrn = [t \in Txns |-> Empty]
  /\ pend = [t \in Txns |-> {}] /\ exempt = [t \in Txns |-> {}]
  /\ vlock = [v \in Versions |-> None] /\ tlock = None /\ answer = [t \in Txns |-> None]
  /\ gone = {} /\ first = [t \in Txns |-> None]

\* The end of a transaction: its locks, its queue and its snapshot go.
Release(t) ==
  /\ own' = [own EXCEPT ![t] = Empty] /\ image' = [image EXCEPT ![t] = None]
  /\ start' = [start EXCEPT ![t] = None] /\ jrn' = [jrn EXCEPT ![t] = Empty]
  /\ pend' = [pend EXCEPT ![t] = {}] /\ exempt' = [exempt EXCEPT ![t] = {}]
  /\ seen' = [seen EXCEPT ![t] = None]
  /\ vlock' = [v \in Versions |-> IF vlock[v] = t THEN None ELSE vlock[v]]
  /\ tlock' = IF tlock = t THEN None ELSE tlock

Answer(t, a) == answer' = IF prog[t].tool = None THEN answer ELSE [answer EXCEPT ![t] = a]

\* The transaction is rolled back: by a refusal, or by an error of the database.
Fail(t, a) ==
  /\ Goto(t, "rolledBack") /\ Release(t) /\ Answer(t, a)
  /\ UNCHANGED <<db, ver, prog, at, gone, first>>

\* The body of the tool has ended: the port is sending COMMIT, and the deferred
\* checks run inside it.
Finished(t) == pc[t] \in {"check", "commit"}
\* The answer when the connection is lost.
Lost(t) == IF Finished(t) THEN "unknown" ELSE "thrown"

\* A ROLLBACK at any moment: a timeout, the deadlock detector, a lost connection.
Rollback(t) == pc[t] \notin {"idle", "committed", "rolledBack"} /\ \E a \in {"thrown", Lost(t)} : Fail(t, a)

Begin(t, p) ==
  /\ pc[t] = "idle"
  /\ prog' = [prog EXCEPT ![t] = p]
  /\ IF p.tool = None THEN at' = [at EXCEPT ![t] = 1] /\ Goto(t, "snapshot")
                      ELSE at' = at /\ Goto(t, "lock")
  /\ seen' = [seen EXCEPT ![t] = IF p.rr THEN [db |-> db, ver |-> ver] ELSE None]
  /\ UNCHANGED <<db, ver, own, image, queue, vlock, tlock, answer, gone, first>>

-----------------------------------------------------------------------------
\* The maintenance tool: tenantFullAccess for the user p.tool.

\* Mutant: no lock; the runs of the tool do not exclude each other.
ToolLockNone(t) == TRUE
\* pg_try_advisory_xact_lock: another run, or an apply, is a refusal.
ToolLock(t) == tlock = None

\* The lock, then the user is there and valid.
ToolStart(t) ==
  /\ pc[t] = "lock"
  /\ \/ ~(ToolLock(t) /\ db[prog[t].tool]) /\ Fail(t, "refused")
     \/ /\ ToolLock(t) /\ db[prog[t].tool]
        /\ tlock' = t /\ Goto(t, "holders")
        /\ UNCHANGED <<db, ver, prog, at, seen, own, image, queue, vlock, answer, gone, first>>

\* No effective holder of full access in the scope.
ToolHolders(t) ==
  /\ pc[t] = "holders"
  /\ \/ Holders(db) # {} /\ Fail(t, "refused")
     \/ /\ Holders(db) = {} /\ Goto(t, "member")
        /\ UNCHANGED <<db, ver, prog, at, seen, own, image, queue, vlock, tlock, answer, gone, first>>

Maintenance(k, v) == [key |-> k, value |-> v, mode |-> "maintenance", actor |-> None]
FullAccess(m) == [subject |-> m, role |-> Full, mark |-> FALSE]

\* The member the assignment will address: the row of the user, or a new one; then
\* the setting is on and the rows are inserted.
ToolMember(t) ==
  LET u == prog[t].tool
      existing == {m \in Members : db[m] = u}
      free(S) == {k \in S : db[k] = Absent /\ \A x \in Txns : k \notin DOMAIN own[x]} IN
  /\ pc[t] = "member"
  /\ \E a \in free(Assigns) :
       \/ \E m \in existing :
            prog' = [prog EXCEPT ![t].stmts = <<Maintenance(a, FullAccess(m))>>]
       \/ \E m \in free(Members) :
            /\ existing = {}
            /\ prog' = [prog EXCEPT ![t].stmts = <<Maintenance(m, u), Maintenance(a, FullAccess(m))>>]
  /\ at' = [at EXCEPT ![t] = 1] /\ Goto(t, "snapshot")
  /\ UNCHANGED <<db, ver, seen, own, image, queue, vlock, tlock, answer, gone, first>>

\* What it wrote restores access, or the transaction is rolled back.
ToolEffective(t) ==
  /\ pc[t] = "effective"
  /\ \/ prog[t].tool \notin Holders(View(t)) /\ Fail(t, "refused")
     \/ /\ prog[t].tool \in Holders(View(t)) /\ Goto(t, "check")
        /\ UNCHANGED <<db, ver, prog, at, seen, own, image, queue, vlock, tlock, answer, gone, first>>

-----------------------------------------------------------------------------
\* Mutant: every statement takes the snapshot again.
SnapshotAgain(t) == TRUE
\* The snapshot trigger takes a fact that is not there yet.
SnapshotMissing(t) == start[t] = None

\* The transaction belongs to the actor of its snapshot.
SameActor(t) == IF start[t] = None THEN TRUE ELSE start[t].actor = Claims(t)

\* BEFORE ... FOR EACH STATEMENT: the rights the transaction will be judged by.
Snapshot(t) ==
  LET u == Claims(t)
      d == View(t) IN
  /\ pc[t] = "snapshot"
  /\ \/ Stmt(t).mode = "command" /\ ~SameActor(t) /\ Fail(t, "refused")
     \/ /\ Stmt(t).mode = "command" => SameActor(t)
        /\ start' = IF Stmt(t).mode = "command" /\ SnapshotMissing(t)
                    THEN [start EXCEPT ![t] =
                           [actor |-> u, rights |-> RightsOf(d, u), full |-> u \in Holders(d)]]
                    ELSE start
        /\ first' = IF at[t] = 1 THEN [first EXCEPT ![t] = db] ELSE first
        /\ Goto(t, "write")
        /\ UNCHANGED <<db, ver, prog, at, seen, own, image, jrn, pend, exempt, vlock, tlock, answer, gone>>

\* The unique key (scope, user) of the members: rows with the user being written,
\* committed or of another transaction.
Twin(t) ==
  LET k == Stmt(t).key IN
  IF k \in Members /\ Stmt(t).value \in Users
  THEN {m \in Members \ {k} : \/ View(t)[m] = Stmt(t).value
                              \/ \E u \in Txns \ {t} : m \in DOMAIN own[u] /\ own[u][m] = Stmt(t).value}
  ELSE {}

\* The foreign key of an assignment: a member with assignments stays, and the
\* subject of an assignment is there.
Dangling(t, d) ==
  LET k == Stmt(t).key
      v == Stmt(t).value IN
  \/ k \in Members /\ v = Absent /\ \E a \in Assigns : d[a] # Absent /\ d[a].subject = k
  \/ k \in Assigns /\ v # Absent /\ d[v.subject] = Absent

\* The grants of a command: none to delete a member.
Ungranted(t) == Stmt(t).mode = "command" /\ Stmt(t).key \in Members /\ Stmt(t).value = Absent

\* The effects trigger: what a command may never write.  An UPDATE fills the user of
\* a member once, by that user; the validity of users is the platform's.
Effects(t) ==
  LET k == Stmt(t).key
      v == Stmt(t).value IN
  Stmt(t).mode = "command" /\
    \/ k \in Users
    \/ /\ k \in Members /\ View(t)[k] # Absent /\ v \notin {Absent, View(t)[k]}
       /\ View(t)[k] # None \/ v # Claims(t)

\* What the row would meet in the rows of another transaction.
Beside(t, u) == [k \in Keys |-> IF k \in DOMAIN own[u] THEN own[u][k] ELSE View(t)[k]]

\* A statement writes the row k: inserts, updates or (Absent) deletes it; a command
\* refuses to delete a row that is not there.  It waits for the transaction that has
\* written the row, a twin of it, or a row the foreign key relates to it.  Under
\* REPEATABLE READ a row changed since is an error.
Write(t) ==
  LET k == Stmt(t).key
      locked == \E u \in Txns \ {t} : \/ k \in DOMAIN own[u] \/ Twin(t) \cap DOMAIN own[u] # {}
                                      \/ ~Dangling(t, View(t)) /\ Dangling(t, Beside(t, u))
      stale == prog[t].rr /\ k \notin DOMAIN own[t] /\ seen[t].db[k] # db[k]
      gap == View(t)[k] = Absent /\ Stmt(t).value = Absent
      refused == stale \/ gap \/ Twin(t) # {} \/ Dangling(t, View(t))
                 \/ Ungranted(t) \/ Effects(t) IN
  /\ pc[t] = "write" /\ ~locked
  /\ \/ refused /\ Fail(t, "thrown")
     \/ /\ ~refused
        /\ image' = [image EXCEPT ![t] = View(t)[k]]
        /\ own' = [own EXCEPT ![t] = With(@, k, Stmt(t).value)]
        /\ Goto(t, "trigger")
        /\ UNCHANGED <<db, ver, prog, at, seen, queue, vlock, tlock, answer, gone, first>>

\* What the statement triggers refuse outside a command and maintenance: rights
\* rows always; an UPDATE of the user of a member except a self-acceptance; the
\* validity of a user except its loss.  In every mode: the insertion of a member an
\* assignment already refers to.
TriggerRefuses(t) ==
  LET k == Stmt(t).key
      v == Stmt(t).value
      outside == Stmt(t).mode = "outside" IN
  \/ k \in Customs \cup Assigns /\ outside
  \/ /\ k \in Members /\ outside /\ image[t] # Absent /\ v \notin {Absent, image[t]}
     /\ ~(/\ image[t] = None /\ v = Claims(t)
          /\ \A m \in Members \ {k} : View(t)[m] # v)
  \/ /\ k \in Members /\ image[t] = Absent
     /\ \E a \in Assigns : View(t)[a] # Absent /\ View(t)[a].subject = k
  \/ k \in Users /\ outside /\ image[t] # v /\ ~(image[t] /\ ~v)

Trigger(t) ==
  /\ pc[t] = "trigger"
  /\ \/ TriggerRefuses(t) /\ Fail(t, "refused")
     \/ /\ ~TriggerRefuses(t) /\ Goto(t, "bump")
        /\ UNCHANGED <<db, ver, prog, at, seen, own, image, queue, vlock, tlock, answer, gone, first>>

\* Mutants: the version is not raised at all; a change of a user does not raise it.
BumpedNone(t) == {}
BumpedScopeOnly(t) == IF Stmt(t).key \in Users THEN {} ELSE {"scope"}
\* The versions the statement raises.
Bumped(t) == IF Stmt(t).key \notin Users THEN {"scope"}
             ELSE IF image[t] # Stmt(t).value THEN {"global"} ELSE {}

\* Keys of the queue.
Key(kind, key) == [kind |-> kind, key |-> key]
\* Mutant: an assignment queues no role.
RolesNone(images) == {}
\* The custom roles of the images of an assignment.
CustomRoles(images) == {i.role : i \in images} \cap Customs
\* pendingSql, memberEventBody: the row, the custom roles of both images, the
\* holders when a holder may have gone (a member is deleted only without
\* assignments), the actor once there is a snapshot.
Pending(t) ==
  LET k == Stmt(t).key
      images == {image[t], Stmt(t).value} \ {Absent} IN
  CASE k \in Assigns ->
         {Key("assignment", k)} \cup {Key("role", r) : r \in CustomRoles(images)}
         \cup {Key("holders", None) : i \in {j \in {image[t]} \ {Absent} : j.role = Full}}
         \cup {Key("actor", None) : x \in {start[t]} \ {None}}
    [] k \in Customs -> {Key("role", k)} \cup {Key("actor", None) : x \in {start[t]} \ {None}}
    [] k \in Members -> {Key("holders", None) : u \in {j \in {image[t]} \cap Users : Stmt(t).value \notin {j, Absent}}}
                        \cup {Key("actor", None) : x \in {start[t]} \ {None}}
    [] OTHER -> {}

\* ON CONFLICT: a key is exempt only while maintenance alone has touched it.
Merge(t, keys) ==
  IF Stmt(t).mode = "maintenance" THEN exempt[t] \cup (keys \ pend[t]) ELSE exempt[t] \ keys

\* The next statement.
Following(t) == Goto(t, "snapshot") /\ at' = [at EXCEPT ![t] = @ + 1]
\* After the last one: the tool's last query, or the checks.
After(t) == Goto(t, IF prog[t].tool = None THEN "check" ELSE "effective") /\ at' = at

\* rights_bump, the journal of the roles and assignments, the queue.
Bump(t) ==
  LET k == Stmt(t).key
      stale == prog[t].rr /\ \E v \in Bumped(t) : vlock[v] # t /\ seen[t].ver[v] # ver[v] IN
  /\ pc[t] = "bump" /\ \A v \in Bumped(t) : vlock[v] \in {None, t}
  /\ \/ stale /\ Fail(t, "thrown")
     \/ /\ ~stale
        /\ vlock' = [v \in Versions |-> IF v \in Bumped(t) THEN t ELSE vlock[v]]
        /\ jrn' = IF /\ k \in Customs \cup Assigns /\ Stmt(t).mode = "command"
                     /\ k \notin DOMAIN jrn[t]
                  THEN [jrn EXCEPT ![t] = With(@, k, image[t])] ELSE jrn
        /\ pend' = [pend EXCEPT ![t] = @ \cup Pending(t)]
        /\ exempt' = [exempt EXCEPT ![t] = Merge(t, Pending(t))]
        /\ IF prog[t].immediate \/ at[t] = Len(prog[t].stmts) THEN After(t) ELSE Following(t)
        /\ UNCHANGED <<db, ver, prog, seen, own, image, start, tlock, answer, gone, first>>

-----------------------------------------------------------------------------
\* escalationSql: what is granted beyond the rights of the start.
Escalates(t, gained) ==
  IF start[t] = None THEN gained # {}
  ELSE ~start[t].full /\ ~(gained \subseteq start[t].rights)

\* assignmentBeforeSet: the earlier grants count only for the same subject.
GivenBefore(t, a) ==
  LET before == Earlier(t)
      after == View(t) IN
  IF before[a] # Absent /\ after[a] # Absent /\ before[a].subject = after[a].subject
  THEN Given(before, a) ELSE {}

\* catalogCheck and actorCheck: the key is refused.
Refused(t, p) ==
  LET d == View(t)
      judged == p \notin exempt[t] IN
  CASE p.kind = "assignment" ->
         judged /\ Escalates(t, Given(d, p.key) \ GivenBefore(t, p.key))
    [] p.kind = "role" ->
         \/ d[p.key].mark /\ \E a \in Assigns : Live(d, a) /\ d[a].role = p.key
         \/ judged /\ Escalates(t, RoleGrants(d, p.key) \ RoleGrants(Earlier(t), p.key))
    [] p.kind = "holders" -> Holders(d) = {}
    [] OTHER -> judged /\ \/ start[t].actor # Claims(t)
                          \/ Escalates(t, RightsOf(d, start[t].actor) \ start[t].rights)

\* rights_tx_check, once for every key; then the next statement (SET CONSTRAINTS
\* IMMEDIATE) or the commit.
Check(t) ==
  /\ pc[t] = "check"
  /\ \/ \E p \in pend[t] : Refused(t, p) /\ Fail(t, "refused")
     \/ \E p \in pend[t] :
          /\ ~Refused(t, p)
          /\ pend' = [pend EXCEPT ![t] = @ \ {p}]
          /\ exempt' = [exempt EXCEPT ![t] = @ \ {p}]
          /\ UNCHANGED <<db, ver, place, own, image, start, jrn, vlock, tlock, answer, gone, first>>
     \/ /\ pend[t] = {} /\ at[t] < Len(prog[t].stmts) /\ Following(t)
        /\ UNCHANGED <<db, ver, prog, seen, own, image, queue, vlock, tlock, answer, gone, first>>
     \/ /\ pend[t] = {} /\ at[t] = Len(prog[t].stmts) /\ Goto(t, "commit")
        /\ UNCHANGED <<db, ver, prog, at, seen, own, image, queue, vlock, tlock, answer, gone, first>>

Commit(t) ==
  /\ pc[t] = "commit"
  /\ db' = [k \in Keys |-> IF k \in DOMAIN own[t] THEN own[t][k] ELSE db[k]]
  /\ ver' = [v \in Versions |-> IF vlock[v] = t THEN ver[v] + 1 ELSE ver[v]]
  /\ gone' = gone \cup {u \in Users \cap DOMAIN own[t] : ~own[t][u]}
  /\ Goto(t, "committed") /\ Release(t) /\ \E a \in {"done", Lost(t)} : Answer(t, a)
  /\ UNCHANGED <<prog, at, first>>

Step(t) ==
  \/ ToolStart(t) \/ ToolHolders(t) \/ ToolMember(t) \/ ToolEffective(t)
  \/ Snapshot(t) \/ Write(t) \/ Trigger(t) \/ Bump(t) \/ Check(t) \/ Commit(t)

Next == \E t \in Txns : \/ \E p \in Programs : Begin(t, p)
                        \/ Step(t) \/ Rollback(t)
Spec == Init /\ [][Next]_vars

-----------------------------------------------------------------------------
Commits(t) == pc[t] = "commit" /\ pc'[t] = "committed"

\* Somebody holds full access in the scope and is valid, or has lost validity,
\* which no guard refuses.
Held == \E a \in Assigns : /\ Live(db, a) /\ db[a].role = Full /\ UserOf(db, a) \in Users
                           /\ db[UserOf(db, a)] \/ UserOf(db, a) \in gone

\* The last effective holder of full access cannot be removed: not by two
\* transactions that each leave the other's holder, not by maintenance, not at
\* another isolation level.
LastHolderStays == [][Held => Held']_vars

\* What the commit of t adds to the rights of u was the actor's at the first statement,
\* or u accepted an invitation outside the commands.
Entitled(t, u) ==
  LET gained == RightsOf(db', u) \ RightsOf(db, u)
      accepted == \E i \in DOMAIN prog[t].stmts :
                    /\ prog[t].stmts[i].mode = "outside" /\ prog[t].stmts[i].key \in Members
                    /\ prog[t].stmts[i].value = u /\ prog[t].stmts[i].actor = u
      actors == {prog[t].stmts[i].actor : i \in DOMAIN prog[t].stmts} IN
  \/ gained = {} \/ accepted
  \/ \A x \in actors : x \in Holders(first[t]) \/ gained \subseteq RightsOf(first[t], x)

\* Nobody is granted what the actor did not have before the transaction: a commit
\* without maintenance entitles every user to what it adds.
NoEscalation ==
  [][\A t \in Txns : (Commits(t) /\ \A i \in DOMAIN prog[t].stmts : prog[t].stmts[i].mode # "maintenance") =>
       \A u \in Users : Entitled(t, u)]_vars

\* A custom role with a deletion mark is in nobody's live assignment, whichever of
\* the two was written first.
MarkedRoleUnused ==
  \A a \in Assigns : Live(db, a) /\ db[a].role \in Customs => ~db[db[a].role].mark

\* The version is the key of the caches: a commit that changes anybody's rights
\* raises one.
RightsRaiseVersion ==
  [][(\E u \in Users : RightsOf(db', u) # RightsOf(db, u)) => ver' # ver]_vars

\* A run of the tool never denies what it did: one that answers a refusal or throws
\* has committed nothing, one that answers its rows has; only a connection lost
\* behind the body leaves both open.  Two runs both write only when somebody has
\* become invalid in between: as long as holders stay valid, full access is restored
\* once.
ToolRuns ==
  /\ \A t \in Txns : /\ answer[t] = "done" => pc[t] = "committed"
                     /\ answer[t] \in {"refused", "thrown"} => pc[t] = "rolledBack"
  /\ \A t, u \in Txns :
       (t # u /\ pc[t] = "committed" /\ pc[u] = "committed" /\ prog[t].tool # None /\ prog[u].tool # None)
       => gone # {}
=============================================================================
