-------------------------- MODULE RightsGuard_proofs --------------------------
(***************************************************************************)
(* Theorems about RightsGuard, for any users, members, roles, assignments   *)
(* and programs: the row of the version serialises all writers of the       *)
(* rights of a scope, so what a check has seen is what COMMIT leaves; and   *)
(* a transaction of commands grants nobody what its actor did not have.     *)
(***************************************************************************)
EXTENDS RightsGuard, TLAPS

Ended  == {"idle", "committed", "rolledBack"}
Early  == {"lock", "holders", "member"}
InStmt == {"trigger", "bump"}
Late   == {"effective", "check", "commit"}
Places == Ended \cup Early \cup {"snapshot", "write"} \cup InStmt \cup Late

\* The rows of the scope, all that the version of the scope stands for.
Rows == Members \cup Customs \cup Assigns

\* An assignment names a member.
SubjectOk(v) == v # Absent => v.subject \in Members
SubjectsOk(d) == \A a \in Assigns : SubjectOk(d[a])

StmtOk(s) == s.key \in Keys /\ (s.key \in Assigns => SubjectOk(s.value))
ProgOk(p) ==
  /\ p = [stmts |-> p.stmts, rr |-> p.rr, immediate |-> p.immediate, tool |-> p.tool]
  /\ Len(p.stmts) \in Nat /\ DOMAIN p.stmts = 1..Len(p.stmts)
  /\ p.tool = None => Len(p.stmts) > 0
  /\ \A i \in 1..Len(p.stmts) : StmtOk(p.stmts[i])

State ==
  /\ db = [k \in Keys |-> db[k]] /\ SubjectsOk(db)
  /\ ver \in [Versions -> Nat] /\ vlock \in [Versions -> Txns \cup {None}]
  /\ pc \in [Txns -> Places]
  /\ DOMAIN prog = Txns /\ DOMAIN at = Txns /\ DOMAIN seen = Txns /\ DOMAIN own = Txns
  /\ DOMAIN image = Txns /\ DOMAIN pend = Txns /\ DOMAIN answer = Txns

\* Where a transaction is, and what it has.
Place(t) ==
  /\ pc[t] # "idle" => ProgOk(prog[t])
  /\ pc[t] \in Ended \cup Early => DOMAIN own[t] = {} /\ \A v \in Versions : vlock[v] # t
  /\ pc[t] \notin Ended \cup Early => at[t] \in 1..Len(prog[t].stmts)
  /\ pc[t] \in InStmt => Stmt(t).key \in DOMAIN own[t] /\ own[t][Stmt(t).key] = Stmt(t).value
  /\ pc[t] = "commit" => pend[t] = {}
  /\ \A a \in Assigns \cap DOMAIN own[t] : SubjectOk(own[t][a])

\* The rows before the statement that is under way.
Prior(t) == [k \in Keys |-> IF pc[t] \in InStmt /\ k = Stmt(t).key THEN image[t] ELSE View(t)[k]]

\* Past the trigger of its statement, a transaction that has written rows of the
\* scope has the row of the version, and so has the one that has changed a user.
Locks(t) ==
  /\ \A k \in DOMAIN own[t] :
       \/ k \in Users \/ vlock["scope"] = t
       \/ pc[t] \in InStmt /\ k = Stmt(t).key
  /\ \A u \in Users \cap DOMAIN own[t] :
       \/ own[t][u] = db[u] \/ vlock["global"] = t
       \/ pc[t] \in InStmt /\ u = Stmt(t).key
  /\ pc[t] \in InStmt /\ Stmt(t).key \in Users =>
       image[t] = db[Stmt(t).key] \/ vlock["global"] = t
  /\ pc[t] \in InStmt /\ Stmt(t).key \in Rows =>
       image[t] = db[Stmt(t).key] \/ vlock["scope"] = t
  /\ pc[t] \in InStmt /\ Stmt(t).key \in Assigns => SubjectOk(image[t])

\* REPEATABLE READ: the snapshot is that of the rows while the version is.
Snap(t) ==
  prog[t].rr /\ pc[t] \notin Ended =>
    /\ seen[t].ver["scope"] \in Nat /\ seen[t].ver["scope"] <= ver["scope"]
    /\ seen[t].ver["scope"] = ver["scope"] => \A k \in Rows : seen[t].db[k] = db[k]
    /\ vlock["scope"] = t => seen[t].ver["scope"] = ver["scope"]
    /\ \A u \in Users : seen[t].db[u] => db[u] \/ u \in gone
    /\ SubjectsOk(seen[t].db)

RoleOk(d, r) == ~(d[r].mark /\ \E a \in Assigns : Live(d, a) /\ d[a].role = r)

\* The live assignments of full access to a user, and those who need not be valid
\* any more when t commits.
FullOf(d) == {a \in Assigns : Live(d, a) /\ d[a].role = Full /\ UserOf(d, a) \in Users}
Alive(t, u) == u \in DOMAIN own[t] \/ db[u] \/ u \in gone
HolderIn(t, d) == \E a \in FullOf(d) : Alive(t, UserOf(d, a))
Keeps(d) == \A a \in FullOf(db) : a \in FullOf(d) /\ UserOf(d, a) = UserOf(db, a)

\* What the checks of t have seen or will still see, while t has the version.
Judged(t) ==
  vlock["scope"] = t =>
    /\ \A r \in Customs : Key("role", r) \in pend[t] \/ RoleOk(Prior(t), r)
    /\ Key("holders", None) \in pend[t] \/ HolderIn(t, Prior(t)) \/ Keeps(Prior(t))

\* A member that goes has no assignment, seen from its own transaction.
Deleted(t) ==
  pc[t] \in InStmt /\ Stmt(t).key \in Members /\ Stmt(t).value = Absent =>
    \A a \in Assigns : View(t)[a] # Absent => View(t)[a].subject # Stmt(t).key

\* The tool.
IsTool(t) == pc[t] # "idle" /\ prog[t].tool # None
ToolInv(t) ==
  IsTool(t) =>
    /\ pc[t] \notin Ended \cup Early =>
         \A i \in 1..Len(prog[t].stmts) : prog[t].stmts[i].key \notin Users
    /\ pc[t] \in Late => vlock["scope"] = t
    /\ pc[t] \in {"check", "commit"} => HolderIn(t, View(t))
    /\ pc[t] \notin Ended \cup {"lock"} => tlock = t
    /\ pc[t] = "committed" => Held
    /\ pc[t] \notin {"lock", "holders", "rolledBack"} =>
         \A u \in Txns \ {t} : IsTool(u) /\ pc[u] = "committed" => gone # {}

Answered(t) ==
  /\ pc[t] \notin {"committed", "rolledBack"} => answer[t] = None
  /\ answer[t] = "done" => pc[t] = "committed"
  /\ answer[t] \in {"refused", "thrown"} => pc[t] = "rolledBack"

TxnInv(t) ==
  /\ Place(t) /\ Locks(t) /\ Snap(t) /\ Judged(t) /\ Deleted(t) /\ ToolInv(t) /\ Answered(t)

\* Two transactions: no row is written by both, and no assignment is to a member
\* the other one deletes.
Apart(t, u) ==
  /\ DOMAIN own[t] \cap DOMAIN own[u] = {}
  /\ \A m \in Members \cap DOMAIN own[t], a \in Assigns \cap DOMAIN own[u] :
       own[t][m] = Absent /\ own[u][a] # Absent => own[u][a].subject # m

GuardInv ==
  /\ State /\ MarkedRoleUnused
  /\ \A t \in Txns : TxnInv(t)
  /\ \A t, u \in Txns : t # u => Apart(t, u)


-----------------------------------------------------------------------------
(* Frames *)

\* A step of t that commits nothing leaves alone what is known of the others.
Aside(t) ==
  /\ UNCHANGED <<db, ver, gone>>
  /\ \A u \in Txns \ {t} :
       /\ pc'[u] = pc[u] /\ prog'[u] = prog[u] /\ at'[u] = at[u] /\ seen'[u] = seen[u]
       /\ own'[u] = own[u] /\ image'[u] = image[u] /\ pend'[u] = pend[u]
       /\ answer'[u] = answer[u]
       /\ \A v \in Versions : vlock'[v] = u <=> vlock[v] = u
       /\ tlock = u => tlock' = u
  /\ IsTool(t)' /\ pc'[t] = "committed" => IsTool(t) /\ pc[t] = "committed"

\* The rows a transaction sees are made of its writes, its snapshot and the tables.
LEMMA ViewSame ==
  ASSUME NEW t, own'[t] = own[t], prog'[t].rr = prog[t].rr, seen'[t] = seen[t], db' = db
  PROVE  View(t)' = View(t)
BY DEF View

\* A transaction whose own state and locks stay keeps all that is known of it.
LEMMA OtherKeeps ==
  ASSUME NEW t \in Txns, Aside(t), NEW u \in Txns, u # t, TxnInv(u)
  PROVE  TxnInv(u)'
<1>1. /\ UNCHANGED <<db, ver, gone>>
      /\ pc'[u] = pc[u] /\ prog'[u] = prog[u] /\ at'[u] = at[u] /\ seen'[u] = seen[u]
      /\ own'[u] = own[u] /\ image'[u] = image[u] /\ pend'[u] = pend[u]
      /\ answer'[u] = answer[u]
      /\ \A v \in Versions : vlock'[v] = u <=> vlock[v] = u
      /\ tlock = u => tlock' = u
    BY DEF Aside
<1>2. Stmt(u)' = Stmt(u) /\ View(u)' = View(u)
    BY <1>1, ViewSame DEF Stmt
<1>3. Prior(u)' = Prior(u)
    BY <1>1, <1>2 DEF Prior
<1>4. vlock'["scope"] = u <=> vlock["scope"] = u
    BY <1>1 DEF Versions
<1>5. vlock'["global"] = u <=> vlock["global"] = u
    BY <1>1 DEF Versions
<1>6. Place(u)'
    BY <1>1, <1>2 DEF TxnInv, Place
<1>7. Locks(u)'
    BY <1>1, <1>2, <1>4, <1>5 DEF TxnInv, Locks
<1>8. Snap(u)'
    BY <1>1, <1>4 DEF TxnInv, Snap
<1>9. \A d : (HolderIn(u, d) => HolderIn(u, d)') /\ (Keeps(d) => Keeps(d)')
    BY <1>1 DEF HolderIn, Alive, Keeps
<1>10. Judged(u)'
    BY <1>1, <1>3, <1>4 DEF TxnInv, Judged, HolderIn, Alive, Keeps
<1>11. Deleted(u)'
    BY <1>1, <1>2 DEF TxnInv, Deleted
<1>12. ToolInv(u)'
  <2>1. Held' <=> Held
      BY <1>1 DEF Held
  <2>2. HolderIn(u, View(u)) => HolderIn(u, View(u))'
      BY <1>1, <1>2 DEF HolderIn, Alive
  <2>3. IsTool(u)' <=> IsTool(u)
      BY <1>1 DEF IsTool
  <2>4. ASSUME NEW w \in Txns \ {u}, IsTool(w)', pc'[w] = "committed"
        PROVE  IsTool(w) /\ pc[w] = "committed"
      BY <2>4 DEF Aside, IsTool
  <2> QED
      BY <1>1, <1>4, <2>1, <2>2, <2>3, <2>4 DEF TxnInv, ToolInv
<1>13. Answered(u)'
    BY <1>1 DEF TxnInv, Answered
<1> QED
    BY <1>6, <1>7, <1>8, <1>10, <1>11, <1>12, <1>13 DEF TxnInv

\* The transaction that steps without committing answers for itself alone.
LEMMA StepKeeps ==
  ASSUME NEW t \in Txns, GuardInv, Aside(t), State', TxnInv(t)',
         own'[t] = own[t] \/ DOMAIN own'[t] = {}
  PROVE  GuardInv'
<1>1. MarkedRoleUnused'
    BY DEF GuardInv, Aside, MarkedRoleUnused, Live
<1>2. \A u \in Txns : TxnInv(u)'
    BY OtherKeeps DEF GuardInv
<1>3. \A u \in Txns : own'[u] = own[u] \/ DOMAIN own'[u] = {}
    BY DEF Aside
<1>4. \A u, w \in Txns : u # w => Apart(u, w)'
    BY <1>3 DEF GuardInv, Apart
<1> QED
    BY <1>1, <1>2, <1>4 DEF GuardInv

\* A transaction that is rolled back leaves nothing behind, wherever it was.
LEMMA FailKeeps ==
  ASSUME NEW t \in Txns, GuardInv, NEW a \in {"refused", "thrown", "unknown"},
         pc[t] \notin Ended, Fail(t, a)
  PROVE  GuardInv'
<1> USE DEF Fail, Goto, Release, Answer
<1>1. State /\ TxnInv(t)
    BY DEF GuardInv
<1>2. pc' = [pc EXCEPT ![t] = "rolledBack"] /\ pc'[t] = "rolledBack" /\ prog' = prog /\ at' = at
    BY <1>1 DEF State
<1>3. DOMAIN own'[t] = {} /\ \A v \in Versions : vlock'[v] # t
    BY <1>1, RightsAssumption DEF State, Empty
<1>4. State'
    BY <1>1, <1>2 DEF State, Places, Ended, SubjectsOk, SubjectOk
<1>5. Aside(t)
  <2>1. ASSUME NEW u \in Txns \ {t}, NEW v \in Versions
        PROVE  vlock'[v] = u <=> vlock[v] = u
      BY <2>1, RightsAssumption
  <2>2. ASSUME NEW u \in Txns \ {t}
        PROVE  /\ pc'[u] = pc[u] /\ seen'[u] = seen[u] /\ own'[u] = own[u] /\ image'[u] = image[u]
               /\ pend'[u] = pend[u] /\ answer'[u] = answer[u]
               /\ tlock = u => tlock' = u
      BY <2>2, <1>1 DEF State
  <2> QED
      BY <1>2, <2>1, <2>2 DEF Aside
<1>6. Place(t)'
    BY <1>1, <1>2, <1>3 DEF TxnInv, Place, Ended, InStmt
<1>7. Locks(t)' /\ Snap(t)' /\ Judged(t)' /\ Deleted(t)'
    BY <1>2, <1>3 DEF Locks, Snap, Judged, Deleted, InStmt, Ended, Versions
<1>8. ToolInv(t)'
    BY <1>2 DEF ToolInv, Ended, Late
<1>9. Answered(t)'
    BY <1>1, <1>2, RightsAssumption DEF State, TxnInv, Answered, Ended
<1> QED
    BY <1>3, <1>4, <1>5, <1>6, <1>7, <1>8, <1>9, StepKeeps DEF TxnInv

-----------------------------------------------------------------------------
(* Steps that neither write nor lock *)

\* t goes from one of its places to l: its rows, its locks and its snapshot stay.
Moves(t, l) ==
  /\ pc[t] \notin Ended /\ l \in Places \ Ended /\ Goto(t, l)
  /\ UNCHANGED <<db, ver, own, image, vlock, answer, gone, seen>>
  /\ prog' = prog \/ \E s : prog' = [prog EXCEPT ![t].stmts = s]
  /\ at' = at \/ \E i : at' = [at EXCEPT ![t] = i]
  /\ pend' = pend \/ \E q : pend' = [pend EXCEPT ![t] = q]
  /\ tlock' = tlock \/ (tlock = None /\ tlock' = t)
  /\ l \in InStmt <=> pc[t] \in InStmt
  /\ l \in InStmt => prog' = prog /\ at' = at

\* Such a step has to account for its place, its checks and the tool.
LEMMA MoveKeeps ==
  ASSUME NEW t \in Txns, NEW l, GuardInv, Moves(t, l), Place(t)', Judged(t)', ToolInv(t)'
  PROVE  GuardInv'
<1>1. State /\ TxnInv(t)
    BY DEF GuardInv
<1>2. /\ UNCHANGED <<db, ver, own, image, vlock, answer, gone, seen>>
      /\ pc' = [pc EXCEPT ![t] = l] /\ pc'[t] = l /\ l \in Places \ Ended
    BY <1>1 DEF Moves, Goto, State
<1>3. DOMAIN prog' = Txns /\ \A u \in Txns \ {t} : prog'[u] = prog[u]
    BY <1>1 DEF Moves, State
<1>4. DOMAIN at' = Txns /\ \A u \in Txns \ {t} : at'[u] = at[u]
    BY <1>1 DEF Moves, State
<1>5. DOMAIN pend' = Txns /\ \A u \in Txns \ {t} : pend'[u] = pend[u]
    BY <1>1 DEF Moves, State
<1>6. prog'[t].rr = prog[t].rr
  <2>1. CASE prog' = prog
      BY <2>1
  <2>2. CASE prog' # prog
    <3>1. PICK s : prog' = [prog EXCEPT ![t].stmts = s]
        BY <2>2 DEF Moves
    <3>2. prog'[t] = [prog[t] EXCEPT !.stmts = s]
        BY <3>1, <1>1 DEF State
    <3>3. prog[t] = [stmts |-> prog[t].stmts, rr |-> prog[t].rr,
                     immediate |-> prog[t].immediate, tool |-> prog[t].tool]
        BY <1>1 DEF TxnInv, Place, ProgOk, Moves, Ended
    <3>4. "rr" \in DOMAIN prog[t]
        BY <3>3
    <3> QED
        BY <3>2, <3>4
  <2> QED
      BY <2>1, <2>2
<1>7. State'
    BY <1>1, <1>2, <1>3, <1>4, <1>5 DEF State, SubjectsOk, SubjectOk
<1>8. Aside(t)
  <2>1. \A u \in Txns \ {t} : tlock = u => tlock' = u
      BY RightsAssumption DEF Moves
  <2>2. \A u \in Txns \ {t} : pc'[u] = pc[u]
      BY <1>1, <1>2 DEF State
  <2> QED
      BY <1>2, <1>3, <1>4, <1>5, <2>1, <2>2 DEF Aside, Ended
<1>9. l \in InStmt => Stmt(t)' = Stmt(t)
    BY DEF Moves, Stmt
<1>10. View(t)' = View(t)
    BY <1>2, <1>6, ViewSame
<1>11. Locks(t)'
    BY <1>1, <1>2, <1>9 DEF TxnInv, Locks, Moves
<1>12. Snap(t)'
    BY <1>1, <1>2, <1>6 DEF TxnInv, Snap, Moves
<1>13. Deleted(t)'
    BY <1>1, <1>2, <1>9, <1>10 DEF TxnInv, Deleted, Moves
<1>14. Answered(t)'
    BY <1>1, <1>2, RightsAssumption DEF TxnInv, Answered, Moves, Ended
<1> QED
    BY <1>2, <1>7, <1>8, <1>11, <1>12, <1>13, <1>14, StepKeeps DEF TxnInv

\* A program the constants allow is one.
LEMMA ProgramOk ==
  ASSUME NEW p \in Programs
  PROVE  ProgOk(p)
<1>1. ASSUME NEW i \in DOMAIN p.stmts
      PROVE  StmtOk(p.stmts[i])
  <2> DEFINE s == p.stmts[i]
  <2>1. s.key \in Keys /\ s.value \in Value(s.key)
      BY RightsAssumption
  <2>2. s.key \in Assigns => Value(s.key) = Assignment \cup {Absent}
      BY RightsAssumption DEF Value
  <2> QED
      BY <2>1, <2>2 DEF StmtOk, SubjectOk, Assignment
<1> QED
    BY <1>1, RightsAssumption DEF ProgOk

\* BEGIN.
LEMMA BeginKeeps ==
  ASSUME NEW t \in Txns, GuardInv, NEW p \in Programs, Begin(t, p)
  PROVE  GuardInv'
<1>1. State /\ TxnInv(t) /\ pc[t] = "idle"
    BY DEF GuardInv, Begin
<1>2. /\ UNCHANGED <<db, ver, own, image, pend, vlock, tlock, answer, gone>>
      /\ prog' = [prog EXCEPT ![t] = p] /\ prog'[t] = p
    BY <1>1 DEF Begin, queue, State
<1>3. PICK l \in {"snapshot", "lock"} : pc' = [pc EXCEPT ![t] = l]
    BY DEF Begin, Goto
<1>4. pc'[t] = l /\ (p.tool = None <=> l = "snapshot")
    BY <1>1, <1>3 DEF Begin, Goto, State
<1>5. /\ DOMAIN at' = Txns /\ \A u \in Txns \ {t} : at'[u] = at[u]
      /\ l = "snapshot" => at'[t] = 1
    BY <1>1, <1>4 DEF Begin, Goto, State
<1>6. seen' = [seen EXCEPT ![t] = IF p.rr THEN [db |-> db, ver |-> ver] ELSE None]
    BY DEF Begin
<1>7. State'
    BY <1>1, <1>2, <1>3, <1>5, <1>6 DEF State, Places, Early, SubjectsOk, SubjectOk
<1>8. Aside(t)
  <2>1. \A u \in Txns \ {t} : pc'[u] = pc[u] /\ prog'[u] = prog[u] /\ seen'[u] = seen[u]
      BY <1>1, <1>2, <1>3, <1>6 DEF State
  <2> QED
      BY <1>2, <1>4, <1>5, <2>1 DEF Aside
<1>9. DOMAIN own'[t] = {} /\ \A v \in Versions : vlock'[v] # t
    BY <1>1, <1>2 DEF TxnInv, Place, Ended
<1>10. Place(t)'
  <2>1. ProgOk(p)
      BY ProgramOk
  <2>2. l = "snapshot" => 1 \in 1..Len(p.stmts)
      BY <2>1, <1>4 DEF ProgOk
  <2> QED
      BY <1>2, <1>4, <1>5, <1>9, <2>1, <2>2 DEF Place, Ended, Early, InStmt
<1>11. Locks(t)' /\ Judged(t)' /\ Deleted(t)'
    BY <1>4, <1>9 DEF Locks, Judged, Deleted, InStmt, Versions
<1>12. Snap(t)'
  <2>1. p.rr => seen'[t].db = db /\ seen'[t].ver = ver
      BY <1>1, <1>6 DEF State
  <2>2. ver["scope"] \in Nat /\ SubjectsOk(db)
      BY <1>1 DEF State, Versions
  <2> QED
      BY <1>2, <1>9, <2>1, <2>2 DEF Snap, Versions, SubjectsOk, SubjectOk
<1>13. ToolInv(t)'
    BY <1>2, <1>4 DEF ToolInv, IsTool, Ended, Early, Late
<1>14. Answered(t)'
    BY <1>1, <1>2, <1>4, RightsAssumption DEF TxnInv, Answered
<1> QED
    BY <1>7, <1>8, <1>9, <1>10, <1>11, <1>12, <1>13, <1>14, StepKeeps DEF TxnInv

\* What the checks of t have seen is of the rows before its statement.
LEMMA JudgedSame ==
  ASSUME NEW t, Judged(t), Prior(t)' = Prior(t), own' = own,
         UNCHANGED <<db, gone, vlock>>, pend'[t] = pend[t]
  PROVE  Judged(t)'
BY DEF Judged, HolderIn, Alive, Keeps

\* The rows before the statement are the same at another place of the same kind.
LEMMA PriorSame ==
  ASSUME NEW t \in Txns, View(t)' = View(t), image' = image,
         \/ pc[t] \notin InStmt /\ pc'[t] \notin InStmt
         \/ pc[t] \in InStmt /\ pc'[t] \in InStmt /\ Stmt(t)' = Stmt(t)
  PROVE  Prior(t)' = Prior(t)
BY DEF Prior

\* The lock of the tool, or its refusal.
LEMMA ToolStartKeeps ==
  ASSUME NEW t \in Txns, GuardInv, ToolStart(t)
  PROVE  GuardInv'
<1>1. State /\ TxnInv(t) /\ pc[t] = "lock"
    BY DEF GuardInv, ToolStart
<1>2. CASE Fail(t, "refused")
    BY <1>1, <1>2, FailKeeps DEF Ended
<1>3. CASE ~Fail(t, "refused")
  <2>1. /\ ToolLock(t) /\ tlock' = t /\ Goto(t, "holders")
        /\ UNCHANGED <<db, ver, prog, at, seen, own, image, queue, vlock, answer, gone, first>>
      BY <1>3 DEF ToolStart
  <2>2. pc'[t] = "holders" /\ pend' = pend
      BY <1>1, <2>1 DEF Goto, State, queue
  <2>3. Moves(t, "holders")
      BY <1>1, <2>1, <2>2 DEF Moves, Ended, Places, Early, InStmt, ToolLock
  <2>4. Place(t)'
      BY <1>1, <2>1, <2>2 DEF TxnInv, Place, Early, Ended, InStmt, Stmt
  <2>5. View(t)' = View(t)
      BY <2>1, ViewSame
  <2>6. Judged(t)'
      BY <1>1, <2>1, <2>2, <2>5, PriorSame, JudgedSame DEF TxnInv, InStmt
  <2>7. ToolInv(t)'
      BY <2>1, <2>2 DEF ToolInv, Ended, Early, Late
  <2> QED
      BY <2>3, <2>4, <2>6, <2>7, MoveKeeps
<1> QED
    BY <1>2, <1>3

\* Nobody holds full access: whoever a finished run has given it to is invalid.
LEMMA ToolHoldersKeeps ==
  ASSUME NEW t \in Txns, GuardInv, ToolHolders(t)
  PROVE  GuardInv'
<1>1. State /\ TxnInv(t) /\ pc[t] = "holders"
    BY DEF GuardInv, ToolHolders
<1>2. CASE Fail(t, "refused")
    BY <1>1, <1>2, FailKeeps DEF Ended
<1>3. CASE ~Fail(t, "refused")
  <2>1. /\ Holders(db) = {} /\ Goto(t, "member")
        /\ UNCHANGED <<db, ver, prog, at, seen, own, image, queue, vlock, tlock, answer, gone, first>>
      BY <1>3 DEF ToolHolders
  <2>2. pc' = [pc EXCEPT ![t] = "member"] /\ pc'[t] = "member" /\ pend' = pend
      BY <1>1, <2>1 DEF Goto, State, queue
  <2>3. Moves(t, "member")
      BY <1>1, <2>1, <2>2 DEF Moves, Ended, Places, Early, InStmt
  <2>4. Place(t)'
      BY <1>1, <2>1, <2>2 DEF TxnInv, Place, Early, Ended, InStmt, Stmt
  <2>5. View(t)' = View(t)
      BY <2>1, ViewSame
  <2>6. Judged(t)'
      BY <1>1, <2>1, <2>2, <2>5, PriorSame, JudgedSame DEF TxnInv, InStmt
  <2>7. ASSUME NEW u \in Txns \ {t}, IsTool(u), pc[u] = "committed"
        PROVE  gone # {}
    <3>1. Held
        BY <2>7 DEF GuardInv, TxnInv, ToolInv
    <3>2. PICK a \in Assigns : /\ Live(db, a) /\ db[a].role = Full /\ UserOf(db, a) \in Users
                               /\ db[UserOf(db, a)] \/ UserOf(db, a) \in gone
        BY <3>1 DEF Held
    <3>3. db[UserOf(db, a)] => UserOf(db, a) \in Holders(db)
        BY <3>2 DEF Holders
    <3> QED
        BY <3>2, <3>3, <2>1
  <2>8. \A u \in Txns \ {t} : IsTool(u)' /\ pc'[u] = "committed" => IsTool(u) /\ pc[u] = "committed"
      BY <1>1, <2>1, <2>2 DEF IsTool, State
  <2>9. ToolInv(t)'
      BY <1>1, <2>1, <2>2, <2>7, <2>8 DEF TxnInv, ToolInv, IsTool, Ended, Early, Late
  <2> QED
      BY <2>3, <2>4, <2>6, <2>9, MoveKeeps
<1> QED
    BY <1>2, <1>3

\* The statements of the tool name a member and an assignment.
LEMMA ToolMemberKeeps ==
  ASSUME NEW t \in Txns, GuardInv, ToolMember(t)
  PROVE  GuardInv'
<1>1. State /\ TxnInv(t) /\ pc[t] = "member"
    BY DEF GuardInv, ToolMember
<1>2. /\ at' = [at EXCEPT ![t] = 1] /\ Goto(t, "snapshot")
      /\ UNCHANGED <<db, ver, seen, own, image, queue, vlock, tlock, answer, gone, first>>
    BY DEF ToolMember
<1>3. pc' = [pc EXCEPT ![t] = "snapshot"] /\ pc'[t] = "snapshot" /\ pend' = pend /\ at'[t] = 1
    BY <1>1, <1>2 DEF Goto, State, queue
<1>4. PICK s : /\ prog' = [prog EXCEPT ![t].stmts = s]
               /\ \E a \in Assigns, m \in Members :
                    \/ s = <<Maintenance(a, FullAccess(m))>>
                    \/ \E u : s = <<Maintenance(m, u), Maintenance(a, FullAccess(m))>>
  <2>1. PICK a \in Assigns, m \in Members :
          \/ prog' = [prog EXCEPT ![t].stmts = <<Maintenance(a, FullAccess(m))>>]
          \/ prog' = [prog EXCEPT ![t].stmts =
                         <<Maintenance(m, prog[t].tool), Maintenance(a, FullAccess(m))>>]
      BY Zenon DEF ToolMember
  <2>2. CASE prog' = [prog EXCEPT ![t].stmts = <<Maintenance(a, FullAccess(m))>>]
      BY <2>2, Zenon
  <2>3. CASE prog' = [prog EXCEPT ![t].stmts =
                        <<Maintenance(m, prog[t].tool), Maintenance(a, FullAccess(m))>>]
      BY <2>3, Zenon
  <2> QED
      BY <2>1, <2>2, <2>3
<1>5. /\ Len(s) \in Nat /\ Len(s) > 0 /\ DOMAIN s = 1..Len(s)
      /\ \A i \in 1..Len(s) : StmtOk(s[i]) /\ s[i].key \notin Users
  <2>1. PICK a \in Assigns, m \in Members :
             \/ s = <<Maintenance(a, FullAccess(m))>>
             \/ \E u : s = <<Maintenance(m, u), Maintenance(a, FullAccess(m))>>
      BY <1>4
  <2>2. StmtOk(Maintenance(a, FullAccess(m))) /\ Maintenance(a, FullAccess(m)).key \notin Users
      BY RightsAssumption DEF StmtOk, Maintenance, FullAccess, SubjectOk, Keys
  <2>3. \A u : StmtOk(Maintenance(m, u)) /\ Maintenance(m, u).key \notin Users
      BY RightsAssumption DEF StmtOk, Maintenance, Keys
  <2>4. CASE s = <<Maintenance(a, FullAccess(m))>>
      BY <2>2, <2>4
  <2>5. ASSUME NEW u, s = <<Maintenance(m, u), Maintenance(a, FullAccess(m))>>
        PROVE  /\ Len(s) \in Nat /\ Len(s) > 0 /\ DOMAIN s = 1..Len(s)
               /\ \A i \in 1..Len(s) : StmtOk(s[i]) /\ s[i].key \notin Users
      BY <2>2, <2>3, <2>5
  <2> QED
      BY <2>1, <2>4, <2>5
<1>6. prog[t] = [stmts |-> prog[t].stmts, rr |-> prog[t].rr,
                 immediate |-> prog[t].immediate, tool |-> prog[t].tool]
    BY <1>1 DEF TxnInv, Place, ProgOk
<1>7. prog'[t] = [stmts |-> s, rr |-> prog[t].rr,
                  immediate |-> prog[t].immediate, tool |-> prog[t].tool]
  <2>1. prog'[t] = [prog[t] EXCEPT !.stmts = s]
      BY <1>1, <1>4 DEF State
  <2> QED
      BY <2>1, <1>6
<1>8. Moves(t, "snapshot")
    BY <1>1, <1>2, <1>3, <1>4 DEF Moves, Ended, Early, Places, InStmt
<1>9. Place(t)'
  <2>1. ProgOk(prog'[t])
      BY <1>5, <1>7 DEF ProgOk
  <2>2. at'[t] \in 1..Len(prog'[t].stmts)
      BY <1>3, <1>5, <1>7
  <2>3. \A a \in Assigns \cap DOMAIN own'[t] : SubjectOk(own'[t][a])
      BY <1>1, <1>2 DEF TxnInv, Place
  <2> QED
      BY <1>3, <2>1, <2>2, <2>3 DEF Place, Ended, Early, InStmt, SubjectOk
<1>10. View(t)' = View(t)
    BY <1>2, <1>7, ViewSame
<1>11. Judged(t)'
    BY <1>1, <1>2, <1>3, <1>10, PriorSame, JudgedSame DEF TxnInv, InStmt
<1>12. ToolInv(t)'
  <2>1. \A u \in Txns \ {t} : IsTool(u)' /\ pc'[u] = "committed" => IsTool(u) /\ pc[u] = "committed"
    <3>1. \A u \in Txns \ {t} : prog'[u] = prog[u] /\ pc'[u] = pc[u]
        BY <1>1, <1>3, <1>4 DEF State
    <3> QED
        BY <3>1 DEF IsTool
  <2>2. IsTool(t)' => IsTool(t)
      BY <1>1, <1>7 DEF IsTool
  <2> QED
      BY <1>1, <1>2, <1>3, <1>5, <1>7, <2>1, <2>2 DEF TxnInv, ToolInv, Ended, Early, Late
<1> QED
    BY <1>8, <1>9, <1>11, <1>12, MoveKeeps

\* Who holds full access among the rows t sees is alive when it commits.
LEMMA HolderSeen ==
  ASSUME NEW t \in Txns, TxnInv(t), pc[t] \notin Ended, NEW u \in Holders(View(t))
  PROVE  HolderIn(t, View(t))
<1> DEFINE d == View(t)
<1>1. u \in Users /\ d[u] /\ u \in Keys
    BY DEF Holders, Keys
<1>2. PICK a \in Assigns : Live(d, a) /\ d[a].role = Full /\ UserOf(d, a) = u
    BY DEF Holders
<1>3. Alive(t, u)
    BY <1>1 DEF TxnInv, Snap, Alive, View
<1> QED
    BY <1>1, <1>2, <1>3 DEF HolderIn, FullOf

\* The last query of the tool has seen the holder.
LEMMA ToolEffectiveKeeps ==
  ASSUME NEW t \in Txns, GuardInv, ToolEffective(t)
  PROVE  GuardInv'
<1>1. State /\ TxnInv(t) /\ pc[t] = "effective"
    BY DEF GuardInv, ToolEffective
<1>2. CASE Fail(t, "refused")
    BY <1>1, <1>2, FailKeeps DEF Ended
<1>3. CASE ~Fail(t, "refused")
  <2>1. /\ prog[t].tool \in Holders(View(t)) /\ Goto(t, "check")
        /\ UNCHANGED <<db, ver, prog, at, seen, own, image, queue, vlock, tlock, answer, gone, first>>
      BY <1>3 DEF ToolEffective
  <2>2. pc' = [pc EXCEPT ![t] = "check"] /\ pc'[t] = "check" /\ pend' = pend
      BY <1>1, <2>1 DEF Goto, State, queue
  <2>3. Moves(t, "check")
      BY <1>1, <2>1, <2>2 DEF Moves, Ended, Places, Late, InStmt
  <2>4. Place(t)'
      BY <1>1, <2>1, <2>2 DEF TxnInv, Place, Early, Ended, InStmt, Stmt
  <2>5. View(t)' = View(t)
      BY <2>1, ViewSame
  <2>6. Judged(t)'
      BY <1>1, <2>1, <2>2, <2>5, PriorSame, JudgedSame DEF TxnInv, InStmt
  <2>7. HolderIn(t, View(t))
      BY <1>1, <2>1, HolderSeen DEF Ended
  <2>8. HolderIn(t, View(t))'
      BY <2>1, <2>5, <2>7 DEF HolderIn, Alive
  <2>9. \A u \in Txns \ {t} : IsTool(u)' /\ pc'[u] = "committed" => IsTool(u) /\ pc[u] = "committed"
      BY <1>1, <2>1, <2>2 DEF IsTool, State
  <2>10. ToolInv(t)'
      BY <1>1, <2>1, <2>2, <2>8, <2>9 DEF TxnInv, ToolInv, IsTool, Ended, Early, Late
  <2> QED
      BY <2>3, <2>4, <2>6, <2>10, MoveKeeps
<1> QED
    BY <1>2, <1>3

\* Neither the snapshot trigger nor the statement trigger moves a row.
LEMMA TriggersKeep ==
  ASSUME NEW t \in Txns, GuardInv, Snapshot(t) \/ Trigger(t)
  PROVE  GuardInv'
<1>1. State /\ TxnInv(t) /\ pc[t] \in {"snapshot", "trigger"}
    BY DEF GuardInv, Snapshot, Trigger
<1>2. CASE Fail(t, "refused")
    BY <1>1, <1>2, FailKeeps DEF Ended
<1>3. CASE ~Fail(t, "refused")
  <2>1. PICK l \in {"write", "bump"} :
           /\ l = "write" <=> pc[t] = "snapshot"
           /\ Goto(t, l)
           /\ UNCHANGED <<db, ver, prog, at, seen, own, image, pend, vlock, tlock, answer, gone>>
      BY <1>3 DEF Snapshot, Trigger, queue
  <2>2. pc' = [pc EXCEPT ![t] = l] /\ pc'[t] = l
      BY <1>1, <2>1 DEF Goto, State
  <2>3. Stmt(t)' = Stmt(t) /\ View(t)' = View(t)
      BY <2>1, ViewSame DEF Stmt
  <2>4. Moves(t, l)
      BY <1>1, <2>1, <2>2 DEF Moves, Ended, Places, InStmt
  <2>5. Place(t)'
      BY <1>1, <2>1, <2>2, <2>3 DEF TxnInv, Place, Early, Ended, InStmt
  <2>6. Judged(t)'
      BY <1>1, <2>1, <2>2, <2>3, PriorSame, JudgedSame DEF TxnInv, InStmt
  <2>7. \A u \in Txns \ {t} : IsTool(u)' /\ pc'[u] = "committed" => IsTool(u) /\ pc[u] = "committed"
      BY <1>1, <2>1, <2>2 DEF IsTool, State
  <2>8. ToolInv(t)'
      BY <1>1, <2>1, <2>2, <2>7 DEF TxnInv, ToolInv, IsTool, Ended, Early, Late
  <2> QED
      BY <2>4, <2>5, <2>6, <2>8, MoveKeeps
<1> QED
    BY <1>2, <1>3

\* A key leaves the queue when the rows t sees satisfy it; nothing is left at COMMIT.
LEMMA CheckKeeps ==
  ASSUME NEW t \in Txns, GuardInv, Check(t)
  PROVE  GuardInv'
<1>1. State /\ TxnInv(t) /\ pc[t] = "check"
    BY DEF GuardInv, Check
<1>2. CASE Fail(t, "refused")
    BY <1>1, <1>2, FailKeeps DEF Ended
<1>3. ASSUME NEW p \in pend[t], ~Refused(t, p), pend' = [pend EXCEPT ![t] = @ \ {p}],
             UNCHANGED <<db, ver, place, own, image, start, jrn, vlock, tlock, answer, gone, first>>
      PROVE  GuardInv'
  <2>1. /\ UNCHANGED <<db, ver, pc, prog, at, seen, own, image, vlock, tlock, answer, gone>>
        /\ pend'[t] = pend[t] \ {p}
      BY <1>1, <1>3 DEF place, State
  <2>2. Moves(t, "check")
    <3>1. pc' = [pc EXCEPT ![t] = "check"]
        BY <1>1, <2>1 DEF State
    <3> QED
        BY <1>1, <1>3, <2>1, <3>1 DEF Moves, Goto, Ended, Places, Late, InStmt
  <2>3. Stmt(t)' = Stmt(t) /\ View(t)' = View(t) /\ Prior(t)' = Prior(t)
      BY <1>1, <2>1, ViewSame, PriorSame DEF Stmt, InStmt
  <2>4. Place(t)'
      BY <1>1, <2>1, <2>3 DEF TxnInv, Place
  <2>5. Prior(t) = View(t)
      BY <1>1 DEF Prior, View, InStmt
  <2>6. Judged(t)'
    <3>1. SUFFICES ASSUME vlock["scope"] = t
                   PROVE  /\ \A r \in Customs : Key("role", r) \in pend'[t] \/ RoleOk(View(t), r)
                          /\ \/ Key("holders", None) \in pend'[t]
                             \/ HolderIn(t, View(t)) \/ Keeps(View(t))
      <4>1. HolderIn(t, View(t)) => HolderIn(t, View(t))'
          BY <2>1, <2>3 DEF HolderIn, Alive
      <4>2. Keeps(View(t)) => Keeps(View(t))'
          BY <2>1, <2>3 DEF Keeps
      <4> QED
          BY <2>1, <2>3, <2>5, <4>1, <4>2 DEF Judged
    <3>2. ASSUME NEW r \in Customs
          PROVE  Key("role", r) \in pend'[t] \/ RoleOk(View(t), r)
      <4>1. CASE p = Key("role", r)
        <5>1. p.kind = "role" /\ p.key = r
            BY <4>1 DEF Key
        <5> QED
            BY <1>3, <5>1 DEF Refused, RoleOk
      <4>2. CASE p # Key("role", r)
          BY <1>1, <2>1, <2>5, <3>1, <4>2 DEF TxnInv, Judged
      <4> QED
          BY <4>1, <4>2
    <3>3. Key("holders", None) \in pend'[t] \/ HolderIn(t, View(t)) \/ Keeps(View(t))
      <4>1. CASE p = Key("holders", None)
        <5>1. p.kind = "holders"
            BY <4>1 DEF Key
        <5>2. PICK u : u \in Holders(View(t))
            BY <1>3, <5>1 DEF Refused
        <5> QED
            BY <1>1, <5>2, HolderSeen DEF Ended
      <4>2. CASE p # Key("holders", None)
          BY <1>1, <2>1, <2>5, <3>1, <4>2 DEF TxnInv, Judged
      <4> QED
          BY <4>1, <4>2
    <3> QED
        BY <3>2, <3>3
  <2>7. ToolInv(t)'
    <3>1. HolderIn(t, View(t)) => HolderIn(t, View(t))'
        BY <2>1, <2>3 DEF HolderIn, Alive
    <3> QED
        BY <1>1, <2>1, <3>1 DEF TxnInv, ToolInv, IsTool, Ended
  <2> QED
      BY <2>2, <2>4, <2>6, <2>7, MoveKeeps
<1>4. ASSUME NEW l \in {"snapshot", "commit"}, NEW i, Goto(t, l), pend[t] = {},
             at'[t] = i, at' = at \/ at' = [at EXCEPT ![t] = i],
             l = "snapshot" => i = at[t] + 1 /\ at[t] < Len(prog[t].stmts),
             l = "commit" => i = at[t],
             UNCHANGED <<db, ver, prog, seen, own, image, queue, vlock, tlock, answer, gone, first>>
      PROVE  GuardInv'
  <2>1. /\ UNCHANGED <<db, ver, prog, seen, own, image, vlock, tlock, answer, gone, pend>>
        /\ pc' = [pc EXCEPT ![t] = l] /\ pc'[t] = l /\ at'[t] = i
      BY <1>1, <1>4 DEF State, Goto, queue
  <2>2. Moves(t, l)
      BY <1>1, <1>4, <2>1 DEF Moves, Ended, Places, Late, InStmt
  <2>3. View(t)' = View(t) /\ Prior(t)' = Prior(t)
      BY <1>1, <2>1, ViewSame, PriorSame DEF InStmt
  <2>4. Place(t)'
    <3>1. at[t] \in 1..Len(prog[t].stmts) /\ Len(prog[t].stmts) \in Nat
        BY <1>1 DEF TxnInv, Place, ProgOk, Ended, Early
    <3>2. at'[t] \in 1..Len(prog'[t].stmts)
        BY <1>4, <2>1, <3>1
    <3> QED
        BY <1>1, <1>4, <2>1, <3>2 DEF TxnInv, Place, Ended, Early, InStmt
  <2>5. Judged(t)'
      BY <1>1, <2>1, <2>3, JudgedSame DEF TxnInv
  <2>6. HolderIn(t, View(t)) => HolderIn(t, View(t))'
      BY <2>1, <2>3 DEF HolderIn, Alive
  <2>7. \A u \in Txns \ {t} : IsTool(u)' /\ pc'[u] = "committed" => IsTool(u) /\ pc[u] = "committed"
      BY <1>1, <2>1 DEF IsTool, State
  <2>8. ToolInv(t)'
      BY <1>1, <2>1, <2>6, <2>7 DEF TxnInv, ToolInv, IsTool, Ended, Early, Late
  <2> QED
      BY <2>2, <2>4, <2>5, <2>8, MoveKeeps
<1>5. CASE pend[t] = {} /\ at[t] < Len(prog[t].stmts) /\ Following(t)
           /\ UNCHANGED <<db, ver, prog, seen, own, image, queue, vlock, tlock, answer, gone, first>>
    BY <1>1, <1>4, <1>5 DEF Following, State
<1>6. CASE pend[t] = {} /\ at[t] = Len(prog[t].stmts) /\ Goto(t, "commit")
           /\ UNCHANGED <<db, ver, prog, at, seen, own, image, queue, vlock, tlock, answer, gone, first>>
    BY <1>4, <1>6
<1> QED
    BY <1>2, <1>3, <1>5, <1>6 DEF Check

\* A ROLLBACK at any moment.
LEMMA RollbackKeeps ==
  ASSUME NEW t \in Txns, GuardInv, Rollback(t)
  PROVE  GuardInv'
BY FailKeeps DEF Rollback, Lost, Ended

-----------------------------------------------------------------------------
(* The write *)

\* A row t writes, and is not the first to write here, it has seen as it is.
LEMMA WritesCurrent ==
  ASSUME NEW t \in Txns, State, TxnInv(t), pc[t] = "write", NEW k \in Keys,
         ~(prog[t].rr /\ k \notin DOMAIN own[t] /\ seen[t].db[k] # db[k])
  PROVE  /\ k \in Users => View(t)[k] = db[k] \/ vlock["global"] = t
         /\ k \in Rows => View(t)[k] = db[k] \/ vlock["scope"] = t
         /\ k \in Assigns => SubjectOk(View(t)[k])
<1>1. k \in DOMAIN own[t] => View(t)[k] = own[t][k]
    BY DEF View
<1>2. k \notin DOMAIN own[t] => View(t)[k] = db[k]
    BY DEF View
<1>3. k \in Users /\ k \in DOMAIN own[t] => own[t][k] = db[k] \/ vlock["global"] = t
    BY DEF TxnInv, Locks, InStmt
<1>4. k \in Rows /\ k \in DOMAIN own[t] => vlock["scope"] = t
    BY RightsAssumption DEF TxnInv, Locks, InStmt, Rows
<1>5. k \in Assigns => SubjectOk(db[k]) /\ (k \in DOMAIN own[t] => SubjectOk(own[t][k]))
    BY DEF State, SubjectsOk, TxnInv, Place
<1> QED
    BY <1>1, <1>2, <1>3, <1>4, <1>5

\* The row locks keep the writes of two transactions apart.
LEMMA WriteApart ==
  ASSUME NEW t \in Txns, NEW u \in Txns \ {t}, Apart(t, u), Apart(u, t), TxnInv(t),
         NEW k, k = Stmt(t).key, k \in Keys, k \in Assigns => SubjectOk(Stmt(t).value),
         k \notin DOMAIN own[u], ~Dangling(t, Beside(t, u)),
         own'[u] = own[u], own'[t] = With(own[t], k, Stmt(t).value)
  PROVE  Apart(t, u)' /\ Apart(u, t)'
<1>1. /\ DOMAIN own'[t] = DOMAIN own[t] \cup {k} /\ own'[t][k] = Stmt(t).value
      /\ \A j \in DOMAIN own[t] \ {k} : own'[t][j] = own[t][j]
    BY DEF With
<1>2. \A j \in DOMAIN own[u] \cap Keys : Beside(t, u)[j] = own[u][j]
    BY DEF Beside
<1>3. ASSUME NEW m \in Members \cap DOMAIN own'[t], NEW a \in Assigns \cap DOMAIN own'[u],
             own'[t][m] = Absent, own'[u][a] # Absent
      PROVE  own'[u][a].subject # m
  <2>1. CASE m = k
      BY <1>1, <1>2, <1>3, <2>1 DEF Dangling, Keys
  <2>2. CASE m # k
      BY <1>1, <1>3, <2>2 DEF Apart
  <2> QED
      BY <2>1, <2>2
<1>4. ASSUME NEW m \in Members \cap DOMAIN own'[u], NEW a \in Assigns \cap DOMAIN own'[t],
             own'[u][m] = Absent, own'[t][a] # Absent
      PROVE  own'[t][a].subject # m
  <2>1. CASE a = k
      BY <1>1, <1>2, <1>4, <2>1 DEF Dangling, Keys, SubjectOk
  <2>2. CASE a # k
      BY <1>1, <1>4, <2>2 DEF Apart
  <2> QED
      BY <2>1, <2>2
<1>5. DOMAIN own'[t] \cap DOMAIN own'[u] = {}
    BY <1>1 DEF Apart
<1> QED
    BY <1>3, <1>4, <1>5 DEF Apart

\* A statement writes its row.
LEMMA WriteKeeps ==
  ASSUME NEW t \in Txns, GuardInv, Write(t)
  PROVE  GuardInv'
<1> DEFINE k == Stmt(t).key
           v == Stmt(t).value
<1>1. State /\ TxnInv(t) /\ pc[t] = "write"
    BY DEF GuardInv, Write
<1>2. CASE Fail(t, "thrown")
    BY <1>1, <1>2, FailKeeps DEF Ended
<1>3. CASE ~Fail(t, "thrown")
  <2>1. /\ ~(prog[t].rr /\ k \notin DOMAIN own[t] /\ seen[t].db[k] # db[k])
        /\ ~Dangling(t, View(t))
        /\ \A u \in Txns \ {t} : k \notin DOMAIN own[u] /\ ~Dangling(t, Beside(t, u))
        /\ image' = [image EXCEPT ![t] = View(t)[k]]
        /\ own' = [own EXCEPT ![t] = With(own[t], k, v)]
        /\ Goto(t, "trigger")
        /\ UNCHANGED <<db, ver, prog, at, seen, queue, vlock, tlock, answer, gone, first>>
      BY <1>3 DEF Write
  <2>2. /\ pc' = [pc EXCEPT ![t] = "trigger"] /\ pc'[t] = "trigger" /\ pend' = pend
        /\ image'[t] = View(t)[k] /\ own'[t] = With(own[t], k, v)
        /\ \A u \in Txns \ {t} : own'[u] = own[u] /\ image'[u] = image[u] /\ pc'[u] = pc[u]
      BY <1>1, <2>1 DEF Goto, State, queue
  <2>3. /\ DOMAIN own'[t] = DOMAIN own[t] \cup {k} /\ own'[t][k] = v
        /\ \A j \in DOMAIN own[t] \ {k} : own'[t][j] = own[t][j]
      BY <2>2 DEF With
  <2>4. Stmt(t)' = Stmt(t)
      BY <2>1 DEF Stmt
  <2>5. k \in Keys /\ (k \in Assigns => SubjectOk(v))
      BY <1>1 DEF TxnInv, Place, ProgOk, StmtOk, Stmt, Ended, Early
  <2>6. \A j \in Keys : j # k => View(t)'[j] = View(t)[j]
      BY <2>1, <2>3 DEF View
  <2>7. Prior(t)' = Prior(t)
    <3>1. Prior(t) = View(t)
        BY <1>1 DEF Prior, View, InStmt
    <3>2. Prior(t)' = View(t)
        BY <2>2, <2>4, <2>6 DEF Prior, View, InStmt
    <3> QED
        BY <3>1, <3>2
  <2> HIDE DEF k, v
  <2>8. State'
      BY <1>1, <2>1, <2>2 DEF State, Places, InStmt, SubjectsOk, SubjectOk
  <2>9. Aside(t)
      BY <2>1, <2>2 DEF Aside
  <2>10. Place(t)'
    <3>1. at'[t] \in 1..Len(prog'[t].stmts) /\ ProgOk(prog'[t])
        BY <1>1, <2>1 DEF TxnInv, Place, Ended, Early
    <3>2. \A a \in Assigns \cap DOMAIN own'[t] : SubjectOk(own'[t][a])
        BY <1>1, <2>3, <2>5 DEF TxnInv, Place
    <3>3. Stmt(t)'.key \in DOMAIN own'[t] /\ own'[t][Stmt(t)'.key] = Stmt(t)'.value
        BY <2>3, <2>4 DEF k, v
    <3> QED
        BY <2>2, <3>1, <3>2, <3>3 DEF Place, Ended, Early, SubjectOk
  <2>11. Locks(t)'
    <3>1. Stmt(t)'.key = k
        BY <2>4 DEF k
    <3>2. /\ k \in Users => image'[t] = db[k] \/ vlock["global"] = t
          /\ k \in Rows => image'[t] = db[k] \/ vlock["scope"] = t
          /\ k \in Assigns => SubjectOk(image'[t])
        BY <1>1, <2>1, <2>2, <2>5, WritesCurrent
    <3>3. \A j \in DOMAIN own'[t] : j \in Users \/ vlock["scope"] = t \/ j = k
        BY <1>1, <2>3 DEF TxnInv, Locks, InStmt
    <3>4. \A u \in Users \cap DOMAIN own'[t] : own'[t][u] = db[u] \/ vlock["global"] = t \/ u = k
        BY <1>1, <2>3 DEF TxnInv, Locks, InStmt
    <3> QED
        BY <2>1, <2>2, <3>1, <3>2, <3>3, <3>4 DEF Locks, InStmt, SubjectOk
  <2>12. Snap(t)'
      BY <1>1, <2>1, <2>2 DEF TxnInv, Snap, Ended
  <2>13. Judged(t)'
    <3>1. \A d : (HolderIn(t, d) => \E a \in FullOf(d) : UserOf(d, a) \in DOMAIN own'[t]
                                                     \/ db[UserOf(d, a)] \/ UserOf(d, a) \in gone)
        BY <2>3 DEF HolderIn, Alive
    <3>2. HolderIn(t, Prior(t)) => HolderIn(t, Prior(t))'
        BY <2>1, <2>7, <3>1 DEF HolderIn, Alive
    <3>3. Keeps(Prior(t)) => Keeps(Prior(t))'
        BY <2>1, <2>7 DEF Keeps
    <3> QED
        BY <1>1, <2>1, <2>2, <2>7, <3>2, <3>3 DEF TxnInv, Judged
  <2>14. Deleted(t)'
    <3>1. ASSUME k \in Members, v = Absent, NEW a \in Assigns, View(t)'[a] # Absent
          PROVE  View(t)'[a].subject # k
      <4>1. View(t)'[a] = View(t)[a]
          BY <2>6, <3>1, RightsAssumption DEF Keys
      <4> QED
          BY <2>1, <3>1, <4>1 DEF Dangling, k, v
    <3> QED
        BY <2>4, <3>1 DEF Deleted, k, v
  <2>15. ToolInv(t)'
    <3>1. \A u \in Txns \ {t} : IsTool(u)' /\ pc'[u] = "committed" => IsTool(u) /\ pc[u] = "committed"
        BY <2>1, <2>2 DEF IsTool
    <3> QED
        BY <1>1, <2>1, <2>2, <3>1 DEF TxnInv, ToolInv, IsTool, Ended, Early, Late
  <2>16. Answered(t)'
      BY <1>1, <2>1, <2>2, RightsAssumption DEF TxnInv, Answered
  <2>17. \A u \in Txns \ {t} : Apart(t, u)' /\ Apart(u, t)'
    <3> TAKE u \in Txns \ {t}
    <3>1. Apart(t, u) /\ Apart(u, t)
        BY DEF GuardInv
    <3> QED
        BY <1>1, <2>1, <2>2, <2>5, <3>1, WriteApart DEF k, v
  <2>18. \A u, w \in Txns : u # w => Apart(u, w)'
    <3>1. ASSUME NEW u \in Txns \ {t}, NEW w \in Txns \ {t}, u # w
          PROVE  Apart(u, w)'
        BY <2>2, <3>1 DEF GuardInv, Apart
    <3> QED
        BY <2>17, <3>1
  <2>19. \A u \in Txns : TxnInv(u)'
      BY <2>9, <2>10, <2>11, <2>12, <2>13, <2>14, <2>15, <2>16, OtherKeeps DEF GuardInv, TxnInv
  <2>20. MarkedRoleUnused'
      BY <2>1 DEF GuardInv, MarkedRoleUnused, Live
  <2> QED
      BY <2>8, <2>18, <2>19, <2>20 DEF GuardInv
<1> QED
    BY <1>2, <1>3

-----------------------------------------------------------------------------
(* The queue of keys and the row of the version *)

\* Roles and holders are a matter of the rows of the scope.
LEMMA RowsAlike ==
  ASSUME NEW d, NEW e, SubjectsOk(e), \A j \in Rows : d[j] = e[j]
  PROVE  /\ FullOf(d) = FullOf(e)
         /\ \A a \in FullOf(e) : UserOf(d, a) = UserOf(e, a)
         /\ \A r \in Customs : RoleOk(d, r) <=> RoleOk(e, r)
<1>1. \A a \in Assigns : d[a] = e[a] /\ (Live(d, a) <=> Live(e, a))
    BY DEF Rows, Live
<1>2. \A a \in Assigns : Live(e, a) => UserOf(d, a) = UserOf(e, a)
    BY <1>1 DEF Live, SubjectsOk, SubjectOk, UserOf, Rows
<1>3. \A a \in Assigns : a \in FullOf(d) <=> a \in FullOf(e)
    BY <1>1, <1>2 DEF FullOf
<1>4. FullOf(d) = FullOf(e)
    BY <1>3 DEF FullOf
<1>5. \A a \in FullOf(e) : UserOf(d, a) = UserOf(e, a)
    BY <1>2 DEF FullOf
<1>6. \A r \in Customs : RoleOk(d, r) <=> RoleOk(e, r)
    BY <1>1 DEF RoleOk, Rows
<1> QED
    BY <1>4, <1>5, <1>6

\* The keys a statement queues: the roles of both images, and the holders whenever
\* an image of full access or a user of a member is replaced.
LEMMA Queued ==
  ASSUME NEW t, NEW k, k = Stmt(t).key
  PROVE  /\ k \in Assigns =>
              /\ \A i \in {image[t], Stmt(t).value} \ {Absent} :
                   i.role \in Customs => Key("role", i.role) \in Pending(t)
              /\ image[t] # Absent /\ image[t].role = Full => Key("holders", None) \in Pending(t)
         /\ k \in Customs => Key("role", k) \in Pending(t)
         /\ k \in Members /\ image[t] \in Users /\ Stmt(t).value \notin {image[t], Absent} =>
              Key("holders", None) \in Pending(t)
<1>1. CASE k \in Assigns
    BY <1>1, RightsAssumption DEF Pending, CustomRoles
<1>2. CASE k \in Customs
    BY <1>2, RightsAssumption DEF Pending
<1>3. CASE k \in Members
    BY <1>3, RightsAssumption DEF Pending
<1> QED
    BY <1>1, <1>2, <1>3

\* Every assignment t sees, and every one before its statement, names a member.
LEMMA SubjectsSeen ==
  ASSUME NEW t \in Txns, State, TxnInv(t), pc[t] \notin Ended
  PROVE  SubjectsOk(View(t)) /\ SubjectsOk(Prior(t))
<1>1. \A a \in Assigns : SubjectOk(View(t)[a])
    BY DEF State, SubjectsOk, TxnInv, Place, Snap, View, Keys
<1>2. \A a \in Assigns : SubjectOk(Prior(t)[a])
    BY <1>1 DEF Prior, TxnInv, Locks, Keys
<1> QED
    BY <1>1, <1>2 DEF SubjectsOk

\* A transaction that takes the version now has seen the rows as they are.
LEMMA TakesVersion ==
  ASSUME NEW t \in Txns, State, MarkedRoleUnused, TxnInv(t), pc[t] = "bump", Stmt(t).key \in Rows,
         vlock["scope"] # t, prog[t].rr => seen[t].ver["scope"] = ver["scope"]
  PROVE  /\ \A r \in Customs : RoleOk(Prior(t), r)
         /\ Keeps(Prior(t))
<1>1. \A j \in Rows : Prior(t)[j] = db[j]
  <2> TAKE j \in Rows
  <2>1. j \in Keys /\ j \notin Users
      BY RightsAssumption DEF Rows, Keys
  <2>2. CASE j = Stmt(t).key
      BY <2>1, <2>2 DEF TxnInv, Locks, Prior, InStmt
  <2>3. CASE j # Stmt(t).key
    <3>1. j \notin DOMAIN own[t]
        BY <2>1, <2>3 DEF TxnInv, Locks
    <3>2. prog[t].rr => seen[t].db[j] = db[j]
        BY DEF TxnInv, Snap, Ended
    <3> QED
        BY <2>1, <2>3, <3>1, <3>2 DEF Prior, View
  <2> QED
      BY <2>2, <2>3
<1>2. SubjectsOk(db)
    BY DEF State
<1>3. \A r \in Customs : RoleOk(db, r)
    BY DEF RoleOk, MarkedRoleUnused
<1>4. \A r \in Customs : RoleOk(Prior(t), r)
    BY <1>1, <1>2, <1>3, RowsAlike
<1>5. FullOf(Prior(t)) = FullOf(db) /\ \A a \in FullOf(db) : UserOf(Prior(t), a) = UserOf(db, a)
    BY <1>1, <1>2, RowsAlike
<1> QED
    BY <1>4, <1>5 DEF Keeps

\* A role whose key the statement does not queue is as it was.
LEMMA RoleCarried ==
  ASSUME NEW t \in Txns, State, TxnInv(t), pc[t] = "bump", NEW r \in Customs,
         RoleOk(Prior(t), r), Key("role", r) \notin Pending(t)
  PROVE  RoleOk(View(t), r)
<1> DEFINE k == Stmt(t).key
<1>1. \A j \in Keys : j # k => View(t)[j] = Prior(t)[j]
    BY DEF Prior
<1>2. k \in Keys => View(t)[k] = Stmt(t).value
    BY DEF TxnInv, Place, InStmt, View
<1>3. View(t)[r] = Prior(t)[r]
    BY <1>1, Queued DEF Keys
<1>4. ASSUME NEW a \in Assigns, Live(View(t), a), View(t)[a].role = r
      PROVE  Live(Prior(t), a) /\ Prior(t)[a].role = r
  <2>1. a \in Keys
      BY DEF Keys
  <2>2. a # k
    <3> SUFFICES ASSUME a = k PROVE FALSE
        OBVIOUS
    <3>1. Stmt(t).value # Absent /\ Stmt(t).value.role = r
        BY <1>2, <1>4, <2>1 DEF Live
    <3> QED
        BY <3>1, Queued
  <2> QED
      BY <1>1, <1>4, <2>1, <2>2 DEF Live
<1> QED
    BY <1>3, <1>4 DEF RoleOk

\* A holder goes only with the key of the holders queued.
LEMMA HolderCarried ==
  ASSUME NEW t \in Txns, State, TxnInv(t), pc[t] = "bump", Key("holders", None) \notin Pending(t),
         NEW a \in FullOf(Prior(t))
  PROVE  a \in FullOf(View(t)) /\ UserOf(View(t), a) = UserOf(Prior(t), a)
<1> DEFINE k == Stmt(t).key
           m == Prior(t)[a].subject
<1>1. \A j \in Keys : j # k => View(t)[j] = Prior(t)[j]
    BY DEF Prior
<1>2. k \in Keys => View(t)[k] = Stmt(t).value /\ Prior(t)[k] = image[t]
    BY DEF TxnInv, Place, InStmt, View, Prior
<1>3. /\ a \in Assigns /\ Live(Prior(t), a) /\ Prior(t)[a].role = Full
      /\ UserOf(Prior(t), a) \in Users /\ a \in Keys
    BY DEF FullOf, Keys
<1>4. a # k
    BY <1>2, <1>3, Queued DEF Live
<1>5. View(t)[a] = Prior(t)[a]
    BY <1>1, <1>3, <1>4
<1>6. m \in Members /\ m \in Keys
    BY <1>3, SubjectsSeen DEF Live, SubjectsOk, SubjectOk, Ended, Keys
<1>7. View(t)[m] = Prior(t)[m]
  <2>1. CASE m # k
      BY <1>1, <1>6, <2>1
  <2>2. CASE m = k
    <3>1. image[t] \in Users
        BY <1>2, <1>3, <1>6, <2>2 DEF UserOf
    <3>2. Stmt(t).value \in {image[t], Absent}
        BY <1>6, <2>2, <3>1, Queued
    <3>3. Stmt(t).value # Absent
        BY <1>3, <1>5, <1>6, <2>2 DEF TxnInv, Deleted, InStmt, Live
    <3> QED
        BY <1>2, <1>6, <2>2, <3>2, <3>3
  <2> QED
      BY <2>1, <2>2
<1> QED
    BY <1>3, <1>5, <1>7 DEF FullOf, Live, UserOf

\* The statement trigger takes the version and queues its keys.
LEMMA BumpKeeps ==
  ASSUME NEW t \in Txns, GuardInv, Bump(t)
  PROVE  GuardInv'
<1> DEFINE k == Stmt(t).key
<1>1. State /\ TxnInv(t) /\ pc[t] = "bump" /\ MarkedRoleUnused
    BY DEF GuardInv, Bump
<1>2. CASE Fail(t, "thrown")
    BY <1>1, <1>2, FailKeeps DEF Ended
<1>3. CASE ~Fail(t, "thrown")
  <2>1. /\ \A v \in Bumped(t) : vlock[v] \in {None, t}
        /\ prog[t].rr => \A v \in Bumped(t) : vlock[v] = t \/ seen[t].ver[v] = ver[v]
        /\ vlock' = [v \in Versions |-> IF v \in Bumped(t) THEN t ELSE vlock[v]]
        /\ pend' = [pend EXCEPT ![t] = pend[t] \cup Pending(t)]
        /\ UNCHANGED <<db, ver, prog, seen, own, image, start, tlock, answer, gone, first>>
      BY <1>3 DEF Bump
  <2>2. PICK l \in {"check", "effective", "snapshot"} :
             /\ pc' = [pc EXCEPT ![t] = l]
             /\ l = "check" => prog[t].tool = None
             /\ l # "snapshot" => at' = at
             /\ l = "snapshot" => at' = [at EXCEPT ![t] = @ + 1] /\ at[t] # Len(prog[t].stmts)
      BY <1>3 DEF Bump, After, Following, Goto
  <2>3. /\ pc'[t] = l /\ pend'[t] = pend[t] \cup Pending(t)
        /\ DOMAIN at' = Txns /\ DOMAIN pend' = Txns
        /\ \A u \in Txns \ {t} : pc'[u] = pc[u] /\ at'[u] = at[u] /\ pend'[u] = pend[u]
      BY <1>1, <2>1, <2>2 DEF State
  <2>4. /\ ProgOk(prog[t]) /\ at[t] \in 1..Len(prog[t].stmts) /\ Len(prog[t].stmts) \in Nat
        /\ k \in Keys /\ k \in DOMAIN own[t] /\ own[t][k] = Stmt(t).value
      BY <1>1 DEF TxnInv, Place, ProgOk, StmtOk, Stmt, Ended, Early, InStmt
  <2>5. View(t)' = View(t) /\ Prior(t)' = View(t)
    <3>1. View(t)' = View(t)
        BY <2>1, ViewSame
    <3> QED
        BY <2>3, <3>1 DEF Prior, View, InStmt
  <2>6. /\ k \notin Users => "scope" \in Bumped(t)
        /\ "scope" \in Bumped(t) => k \notin Users /\ k \in Rows
        /\ k \in Users /\ image[t] # Stmt(t).value => "global" \in Bumped(t)
      BY <2>4 DEF Bumped, Keys, Rows
  <2>7. /\ vlock'["scope"] = t <=> vlock["scope"] = t \/ "scope" \in Bumped(t)
        /\ vlock'["global"] = t <=> vlock["global"] = t \/ "global" \in Bumped(t)
      BY <2>1 DEF Versions
  <2> HIDE DEF k
  <2>8. State'
    <3>1. Bumped(t) \subseteq Versions
        BY DEF Bumped, Versions
    <3> QED
        BY <1>1, <2>1, <2>2, <2>3, <3>1 DEF State, Places, Late, SubjectsOk, SubjectOk
  <2>9. Aside(t)
    <3>1. \A u \in Txns \ {t}, v \in Versions : vlock'[v] = u <=> vlock[v] = u
        BY <2>1, RightsAssumption
    <3> QED
        BY <2>1, <2>3, <3>1 DEF Aside
  <2>10. Place(t)'
    <3>1. at'[t] \in 1..Len(prog'[t].stmts)
        BY <1>1, <2>1, <2>2, <2>4 DEF State
    <3>2. \A a \in Assigns \cap DOMAIN own'[t] : SubjectOk(own'[t][a])
        BY <1>1, <2>1 DEF TxnInv, Place
    <3> QED
        BY <2>1, <2>3, <2>4, <3>1, <3>2 DEF Place, Ended, Early, InStmt, SubjectOk
  <2>11. Locks(t)'
    <3>1. ASSUME NEW j \in DOMAIN own[t]
          PROVE  j \in Users \/ vlock'["scope"] = t
        BY <1>1, <2>6, <2>7 DEF TxnInv, Locks, k
    <3>2. ASSUME NEW u \in Users \cap DOMAIN own[t]
          PROVE  own[t][u] = db[u] \/ vlock'["global"] = t
      <4>1. CASE u # k
          BY <1>1, <2>7, <4>1 DEF TxnInv, Locks, k
      <4>2. CASE u = k
        <5>1. image[t] = db[k] \/ vlock["global"] = t
            BY <1>1, <4>2 DEF TxnInv, Locks, k, InStmt
        <5> QED
            BY <2>4, <2>6, <2>7, <4>2, <5>1
      <4> QED
          BY <4>1, <4>2
    <3> QED
        BY <2>1, <2>3, <3>1, <3>2 DEF Locks, InStmt
  <2>12. Snap(t)'
    <3>1. prog[t].rr /\ vlock'["scope"] = t => seen[t].ver["scope"] = ver["scope"]
        BY <1>1, <2>1, <2>7 DEF TxnInv, Snap, Ended
    <3> QED
        BY <1>1, <2>1, <3>1 DEF TxnInv, Snap, Ended
  <2>13. Judged(t)'
    <3>1. SUFFICES ASSUME vlock'["scope"] = t
                   PROVE  /\ \A r \in Customs : Key("role", r) \in pend'[t] \/ RoleOk(View(t), r)
                          /\ \/ Key("holders", None) \in pend'[t]
                             \/ HolderIn(t, View(t)) \/ Keeps(View(t))
      <4>1. HolderIn(t, View(t)) => HolderIn(t, View(t))'
          BY <2>1, <2>5 DEF HolderIn, Alive
      <4>2. Keeps(View(t)) => Keeps(View(t))'
          BY <2>1, <2>5 DEF Keeps
      <4> QED
          BY <2>5, <4>1, <4>2 DEF Judged, HolderIn, Alive, Keeps
    <3>2. /\ \A r \in Customs : Key("role", r) \in pend[t] \/ RoleOk(Prior(t), r)
          /\ Key("holders", None) \in pend[t] \/ HolderIn(t, Prior(t)) \/ Keeps(Prior(t))
      <4>1. CASE vlock["scope"] = t
          BY <1>1, <4>1 DEF TxnInv, Judged
      <4>2. CASE vlock["scope"] # t
        <5>1. "scope" \in Bumped(t) /\ Stmt(t).key \in Rows
            BY <2>6, <2>7, <3>1, <4>2 DEF k
        <5> QED
            BY <1>1, <2>1, <4>2, <5>1, TakesVersion
      <4> QED
          BY <4>1, <4>2
    <3>3. \A r \in Customs : Key("role", r) \in pend'[t] \/ RoleOk(View(t), r)
        BY <1>1, <2>3, <3>2, RoleCarried
    <3>4. CASE Key("holders", None) \notin pend'[t]
      <4>1. \A a \in FullOf(Prior(t)) : a \in FullOf(View(t)) /\ UserOf(View(t), a) = UserOf(Prior(t), a)
          BY <1>1, <2>3, <3>4, HolderCarried
      <4>2. HolderIn(t, Prior(t)) => HolderIn(t, View(t))
          BY <4>1 DEF HolderIn
      <4>3. Keeps(Prior(t)) => Keeps(View(t))
          BY <4>1 DEF Keeps
      <4> QED
          BY <2>3, <3>2, <3>3, <3>4, <4>2, <4>3
    <3> QED
        BY <3>3, <3>4
  <2>14. Deleted(t)'
      BY <2>3 DEF Deleted, InStmt
  <2>15. ToolInv(t)'
    <3>1. \A u \in Txns \ {t} : IsTool(u)' /\ pc'[u] = "committed" => IsTool(u) /\ pc[u] = "committed"
        BY <2>1, <2>3 DEF IsTool
    <3>2. IsTool(t) => k \notin Users
        BY <1>1, <2>4 DEF TxnInv, ToolInv, Stmt, k, Ended, Early
    <3>3. IsTool(t)' => IsTool(t) /\ l # "check"
        BY <1>1, <2>1, <2>2 DEF IsTool
    <3> QED
        BY <1>1, <2>1, <2>3, <2>6, <2>7, <3>1, <3>2, <3>3 DEF TxnInv, ToolInv, Ended, Early, Late
  <2>16. Answered(t)'
      BY <1>1, <2>1, <2>3, RightsAssumption DEF TxnInv, Answered
  <2> QED
      BY <2>1, <2>8, <2>9, <2>10, <2>11, <2>12, <2>13, <2>14, <2>15, <2>16, StepKeeps DEF TxnInv
<1> QED
    BY <1>2, <1>3

-----------------------------------------------------------------------------
(* COMMIT *)

\* What a commit makes of the tables: no marked role is used, a holder stays one, a
\* user is as valid as before or counted as gone.
LEMMA CommitTables ==
  ASSUME NEW t \in Txns, GuardInv, Commit(t)
  PROVE  /\ db' = [k \in Keys |-> db'[k]] /\ SubjectsOk(db') /\ gone \subseteq gone'
         /\ \A k \in Keys \ DOMAIN own[t] : db'[k] = db[k]
         /\ \A k \in Keys \cap DOMAIN own[t] : db'[k] = own[t][k]
         /\ vlock["scope"] # t => \A j \in Rows : db'[j] = db[j]
         /\ \A u \in Users : db[u] \/ u \in gone => db'[u] \/ u \in gone'
         /\ MarkedRoleUnused' /\ (Held => Held')
         /\ vlock["scope"] = t /\ HolderIn(t, View(t)) => Held'
<1>1. State /\ TxnInv(t) /\ MarkedRoleUnused /\ pc[t] = "commit" /\ pend[t] = {}
    BY DEF GuardInv, TxnInv, Place, Commit
<1>2. /\ db' = [k \in Keys |-> IF k \in DOMAIN own[t] THEN own[t][k] ELSE db[k]]
      /\ gone' = gone \cup {u \in Users \cap DOMAIN own[t] : ~own[t][u]}
    BY DEF Commit
<1>3. /\ db' = [k \in Keys |-> db'[k]] /\ gone \subseteq gone'
      /\ \A k \in Keys \ DOMAIN own[t] : db'[k] = db[k]
      /\ \A k \in Keys \cap DOMAIN own[t] : db'[k] = own[t][k]
    BY <1>2
<1>4. SubjectsOk(db')
    BY <1>1, <1>3 DEF State, TxnInv, Place, SubjectsOk, Keys
<1>5. ASSUME NEW u \in Users
      PROVE  /\ u \in DOMAIN own[t] => db'[u] \/ u \in gone'
             /\ db[u] \/ u \in gone => db'[u] \/ u \in gone'
    BY <1>2 DEF Keys
<1>6. \A j \in Rows : j \in Keys /\ j \notin Users
    BY RightsAssumption DEF Rows, Keys
<1>7. vlock["scope"] # t => \A j \in Rows : db'[j] = db[j]
    BY <1>1, <1>3, <1>6 DEF TxnInv, Locks, InStmt
<1>8. Prior(t) = View(t)
    BY <1>1 DEF Prior, View, InStmt
<1>9. vlock["scope"] = t => \A j \in Rows : db'[j] = View(t)[j]
    BY <1>1, <1>3, <1>6 DEF View, TxnInv, Snap, Ended
<1>10. SubjectsOk(View(t)) /\ SubjectsOk(db)
    BY <1>1, SubjectsSeen DEF State, Ended
<1>11. ASSUME NEW a \in FullOf(db'), db'[UserOf(db', a)] \/ UserOf(db', a) \in gone'
       PROVE  Held'
    BY <1>11 DEF Held, FullOf
<1>12. CASE vlock["scope"] = t
  <2>1. /\ FullOf(db') = FullOf(View(t))
        /\ \A a \in FullOf(View(t)) : UserOf(db', a) = UserOf(View(t), a)
        /\ \A r \in Customs : RoleOk(db', r) <=> RoleOk(View(t), r)
      BY <1>9, <1>10, <1>12, RowsAlike
  <2>2. /\ \A r \in Customs : RoleOk(View(t), r)
        /\ HolderIn(t, View(t)) \/ Keeps(View(t))
      BY <1>1, <1>8, <1>12 DEF TxnInv, Judged
  <2>3. MarkedRoleUnused'
      BY <2>1, <2>2 DEF MarkedRoleUnused, RoleOk, Live
  <2>4. ASSUME HolderIn(t, View(t)) PROVE Held'
    <3>1. PICK a \in FullOf(View(t)) : Alive(t, UserOf(View(t), a))
        BY <2>4 DEF HolderIn
    <3>2. UserOf(View(t), a) \in Users
        BY DEF FullOf
    <3> QED
        BY <1>5, <1>11, <2>1, <3>1, <3>2 DEF Alive
  <2>5. ASSUME Keeps(View(t)), Held PROVE Held'
    <3>1. PICK a \in FullOf(db) : db[UserOf(db, a)] \/ UserOf(db, a) \in gone
        BY <2>5 DEF Held, FullOf
    <3>2. a \in FullOf(View(t)) /\ UserOf(View(t), a) = UserOf(db, a) /\ UserOf(db, a) \in Users
        BY <2>5 DEF Keeps, FullOf
    <3> QED
        BY <1>5, <1>11, <2>1, <3>1, <3>2
  <2> QED
      BY <1>3, <1>4, <1>5, <1>7, <2>2, <2>3, <2>4, <2>5
<1>13. CASE vlock["scope"] # t
  <2>1. /\ FullOf(db') = FullOf(db)
        /\ \A a \in FullOf(db) : UserOf(db', a) = UserOf(db, a)
        /\ \A r \in Customs : RoleOk(db', r) <=> RoleOk(db, r)
      BY <1>7, <1>10, <1>13, RowsAlike
  <2>2. \A r \in Customs : RoleOk(db, r)
      BY <1>1 DEF MarkedRoleUnused, RoleOk
  <2>3. MarkedRoleUnused'
      BY <2>1, <2>2 DEF MarkedRoleUnused, RoleOk, Live
  <2>4. ASSUME Held PROVE Held'
    <3>1. PICK a \in FullOf(db) : db[UserOf(db, a)] \/ UserOf(db, a) \in gone
        BY <2>4 DEF Held, FullOf
    <3>2. UserOf(db, a) \in Users
        BY DEF FullOf
    <3> QED
        BY <1>5, <1>11, <2>1, <3>1, <3>2
  <2> QED
      BY <1>3, <1>4, <1>5, <1>7, <1>13, <2>3, <2>4
<1> QED
    BY <1>12, <1>13

\* What the other transactions have seen or locked is still so.
LEMMA CommitOthers ==
  ASSUME NEW t \in Txns, GuardInv, Commit(t), NEW u \in Txns \ {t}
  PROVE  TxnInv(u)'
<1>1. State /\ TxnInv(t) /\ TxnInv(u) /\ pc[t] = "commit" /\ Apart(t, u) /\ Apart(u, t)
    BY DEF GuardInv, Commit
<1>2. /\ pc'[u] = pc[u] /\ prog' = prog /\ at' = at /\ seen'[u] = seen[u] /\ own'[u] = own[u]
      /\ image'[u] = image[u] /\ pend'[u] = pend[u] /\ answer'[u] = answer[u]
      /\ pc'[t] = "committed"
      /\ tlock = u => tlock' = u
    BY <1>1 DEF Commit, Release, Goto, Answer, State
<1>3. \A v \in Versions : /\ vlock'[v] = u <=> vlock[v] = u
                          /\ ver'[v] = IF vlock[v] = t THEN ver[v] + 1 ELSE ver[v]
    BY RightsAssumption DEF Commit, Release
<1>4. /\ vlock'["scope"] = u <=> vlock["scope"] = u
      /\ vlock'["global"] = u <=> vlock["global"] = u
      /\ ver'["scope"] = IF vlock["scope"] = t THEN ver["scope"] + 1 ELSE ver["scope"]
    BY <1>3 DEF Versions
<1>5. Stmt(u)' = Stmt(u)
    BY <1>2 DEF Stmt
<1>6. /\ SubjectsOk(db') /\ gone \subseteq gone'
      /\ \A k \in Keys \ DOMAIN own[t] : db'[k] = db[k]
      /\ \A k \in Keys \cap DOMAIN own[t] : db'[k] = own[t][k]
      /\ vlock["scope"] # t => \A j \in Rows : db'[j] = db[j]
      /\ \A w \in Users : db[w] \/ w \in gone => db'[w] \/ w \in gone'
      /\ Held => Held'
    BY CommitTables
<1>7. Place(u)'
    BY <1>1, <1>2, <1>3, <1>5 DEF TxnInv, Place
<1>8. \A k \in Keys \cap DOMAIN own[u] : db'[k] = db[k]
    BY <1>1, <1>6 DEF Apart
<1>9. Locks(u)'
  <2>1. pc[u] \in InStmt => Stmt(u).key \in DOMAIN own[u]
      BY <1>1 DEF TxnInv, Place
  <2>2. pc[u] \in InStmt /\ Stmt(u).key \in Users \cup Rows => db'[Stmt(u).key] = db[Stmt(u).key]
      BY <1>8, <2>1 DEF Keys, Rows
  <2>3. \A w \in Users \cap DOMAIN own[u] : db'[w] = db[w]
      BY <1>8 DEF Keys
  <2> QED
      BY <1>1, <1>2, <1>4, <1>5, <2>2, <2>3 DEF TxnInv, Locks
<1>10. Snap(u)'
  <2>1. SUFFICES ASSUME prog[u].rr, pc[u] \notin Ended
                 PROVE  /\ seen[u].ver["scope"] \in Nat /\ seen[u].ver["scope"] <= ver'["scope"]
                        /\ seen[u].ver["scope"] = ver'["scope"] => \A k \in Rows : seen[u].db[k] = db'[k]
                        /\ vlock["scope"] = u => seen[u].ver["scope"] = ver'["scope"]
                        /\ \A w \in Users : seen[u].db[w] => db'[w] \/ w \in gone'
                        /\ SubjectsOk(seen[u].db)
      BY <1>2, <1>4 DEF Snap, SubjectsOk, SubjectOk
  <2>2. /\ seen[u].ver["scope"] \in Nat /\ seen[u].ver["scope"] <= ver["scope"]
        /\ seen[u].ver["scope"] = ver["scope"] => \A k \in Rows : seen[u].db[k] = db[k]
        /\ vlock["scope"] = u => seen[u].ver["scope"] = ver["scope"]
        /\ \A w \in Users : seen[u].db[w] => db[w] \/ w \in gone
        /\ SubjectsOk(seen[u].db)
      BY <1>1, <2>1 DEF TxnInv, Snap
  <2>3. ver["scope"] \in Nat
      BY <1>1 DEF State, Versions
  <2>4. \A w \in Users : seen[u].db[w] => db'[w] \/ w \in gone'
      BY <1>6, <2>2
  <2>5. /\ seen[u].ver["scope"] <= ver'["scope"]
        /\ seen[u].ver["scope"] = ver'["scope"] => vlock["scope"] # t /\ seen[u].ver["scope"] = ver["scope"]
        /\ vlock["scope"] = u => seen[u].ver["scope"] = ver'["scope"]
      BY <1>4, <2>2, <2>3
  <2> QED
      BY <1>6, <2>2, <2>4, <2>5
<1>11. ASSUME NEW d, NEW e, SubjectsOk(d), \A j \in Rows : e[j] = d[j], HolderIn(u, d)
       PROVE  \E a \in FullOf(e) : \/ UserOf(e, a) \in DOMAIN own[u]
                                   \/ db'[UserOf(e, a)] \/ UserOf(e, a) \in gone'
  <2>1. PICK a \in FullOf(d) : Alive(u, UserOf(d, a))
      BY <1>11 DEF HolderIn
  <2>2. a \in FullOf(e) /\ UserOf(e, a) = UserOf(d, a) /\ UserOf(d, a) \in Users
      BY <1>11, RowsAlike DEF FullOf
  <2> QED
      BY <1>6, <2>1, <2>2 DEF Alive
<1>12. vlock["scope"] = u =>
         /\ \A j \in Rows : View(u)'[j] = View(u)[j] /\ Prior(u)'[j] = Prior(u)[j]
         /\ SubjectsOk(View(u)) /\ SubjectsOk(Prior(u))
  <2>1. SUFFICES ASSUME vlock["scope"] = u
                 PROVE  /\ \A j \in Rows : View(u)'[j] = View(u)[j] /\ Prior(u)'[j] = Prior(u)[j]
                        /\ SubjectsOk(View(u)) /\ SubjectsOk(Prior(u))
      OBVIOUS
  <2>2. \A j \in Rows : View(u)'[j] = View(u)[j]
      BY <1>2, <1>6, <2>1 DEF View, Rows, Keys
  <2>3. \A j \in Rows : Prior(u)'[j] = Prior(u)[j]
      BY <1>2, <1>5, <2>2 DEF Prior, Rows, Keys
  <2>4. pc[u] \notin Ended
      BY <1>1, <2>1 DEF TxnInv, Place, Versions
  <2> QED
      BY <1>1, <2>2, <2>3, <2>4, SubjectsSeen
<1>13. Judged(u)'
  <2>1. SUFFICES ASSUME vlock["scope"] = u
                 PROVE  /\ \A r \in Customs : Key("role", r) \in pend[u] \/ RoleOk(Prior(u), r)'
                        /\ \/ Key("holders", None) \in pend[u]
                           \/ HolderIn(u, Prior(u))' \/ Keeps(Prior(u))'
      BY <1>2, <1>4 DEF Judged, RoleOk, HolderIn, Alive, Keeps
  <2>2. /\ \A r \in Customs : Key("role", r) \in pend[u] \/ RoleOk(Prior(u), r)
        /\ \/ Key("holders", None) \in pend[u]
           \/ HolderIn(u, Prior(u)) \/ Keeps(Prior(u))
      BY <1>1, <2>1 DEF TxnInv, Judged
  <2>3. PICK e : e = Prior(u)'
      OBVIOUS
  <2>4. /\ FullOf(e) = FullOf(Prior(u))
        /\ \A a \in FullOf(Prior(u)) : UserOf(e, a) = UserOf(Prior(u), a)
        /\ \A r \in Customs : RoleOk(e, r) <=> RoleOk(Prior(u), r)
      BY <1>12, <2>1, <2>3, RowsAlike
  <2>5. HolderIn(u, Prior(u)) => HolderIn(u, Prior(u))'
      BY <1>2, <1>11, <1>12, <2>1 DEF HolderIn, Alive
  <2>6. Keeps(Prior(u)) => Keeps(Prior(u))'
    <3>1. FullOf(db') = FullOf(db) /\ \A a \in FullOf(db) : UserOf(db', a) = UserOf(db, a)
        BY <1>1, <1>6, <2>1, RowsAlike DEF State
    <3> QED
        BY <2>3, <2>4, <3>1 DEF Keeps
  <2>7. \A r \in Customs : RoleOk(Prior(u), r) => RoleOk(Prior(u), r)'
      BY <2>3, <2>4 DEF RoleOk, Live
  <2> QED
      BY <2>2, <2>5, <2>6, <2>7
<1>14. Deleted(u)'
  <2>1. SUFFICES ASSUME pc[u] \in InStmt, Stmt(u).key \in Members, Stmt(u).value = Absent,
                        NEW a \in Assigns, View(u)'[a] # Absent
                 PROVE  View(u)'[a].subject # Stmt(u).key
      BY <1>2, <1>5 DEF Deleted
  <2>2. Stmt(u).key \in DOMAIN own[u] /\ own[u][Stmt(u).key] = Absent
      BY <1>1, <2>1 DEF TxnInv, Place
  <2>3. CASE View(u)'[a] = View(u)[a]
      BY <1>1, <2>1, <2>3 DEF TxnInv, Deleted
  <2>4. CASE View(u)'[a] # View(u)[a]
    <3>1. a \in DOMAIN own[t] /\ View(u)'[a] = own[t][a]
        BY <1>2, <1>6, <2>4 DEF View, Keys
    <3> QED
        BY <1>1, <2>1, <2>2, <3>1 DEF Apart
  <2> QED
      BY <2>3, <2>4
<1>15. ToolInv(u)'
  <2>1. SUFFICES ASSUME IsTool(u)
                 PROVE  /\ pc[u] \notin Ended \cup Early =>
                             \A i \in 1..Len(prog[u].stmts) : prog[u].stmts[i].key \notin Users
                        /\ pc[u] \in Late => vlock'["scope"] = u
                        /\ pc[u] \in {"check", "commit"} => HolderIn(u, View(u))'
                        /\ pc[u] \notin Ended \cup {"lock"} => tlock' = u
                        /\ pc[u] = "committed" => Held'
                        /\ pc[u] \notin {"lock", "holders", "rolledBack"} =>
                             \A w \in Txns \ {u} : IsTool(w)' /\ pc'[w] = "committed" => gone' # {}
      BY <1>2, Zenon DEF ToolInv, IsTool
  <2>2. pc[u] \in {"check", "commit"} => HolderIn(u, View(u))'
    <3>1. pc[u] \in {"check", "commit"} => HolderIn(u, View(u)) /\ vlock["scope"] = u
        BY <1>1, <2>1 DEF TxnInv, ToolInv, Late
    <3> QED
        BY <1>2, <1>11, <1>12, <3>1 DEF HolderIn, Alive
  <2>3. ASSUME pc[u] \notin {"lock", "holders", "rolledBack"}, NEW w \in Txns \ {u},
               IsTool(w)', pc'[w] = "committed"
        PROVE  gone' # {}
    <3>1. CASE w # t
      <4>1. IsTool(w) /\ pc[w] = "committed"
          BY <1>1, <1>2, <2>3, <3>1 DEF IsTool, Commit, Goto, State
      <4> QED
          BY <1>1, <1>6, <2>1, <2>3, <4>1 DEF TxnInv, ToolInv
    <3>2. CASE w = t
      <4>1. IsTool(t)
          BY <1>1, <1>2, <2>3, <3>2 DEF IsTool
      <4>2. tlock = t
          BY <1>1, <4>1 DEF TxnInv, ToolInv, Ended
      <4>3. pc[u] = "committed"
          BY <1>1, <2>1, <2>3, <4>2 DEF TxnInv, ToolInv, Ended, IsTool
      <4> QED
          BY <1>1, <1>6, <2>1, <4>1, <4>3 DEF TxnInv, ToolInv
    <3> QED
        BY <3>1, <3>2
  <2> QED
      BY <1>1, <1>2, <1>4, <1>6, <2>1, <2>2, <2>3 DEF TxnInv, ToolInv
<1>16. Answered(u)'
    BY <1>1, <1>2 DEF TxnInv, Answered
<1> QED
    BY <1>7, <1>9, <1>10, <1>13, <1>14, <1>15, <1>16 DEF TxnInv

\* COMMIT, with the deferred checks behind it.
LEMMA CommitKeeps ==
  ASSUME NEW t \in Txns, GuardInv, Commit(t)
  PROVE  GuardInv'
<1>1. State /\ TxnInv(t) /\ pc[t] = "commit"
    BY DEF GuardInv, Commit
<1>2. /\ pc' = [pc EXCEPT ![t] = "committed"] /\ pc'[t] = "committed" /\ prog' = prog /\ at' = at
      /\ DOMAIN own'[t] = {} /\ \A u \in Txns \ {t} : own'[u] = own[u]
    BY <1>1 DEF Commit, Goto, Release, State, Empty
<1>3. \A v \in Versions : vlock'[v] # t
    BY RightsAssumption DEF Commit, Release
<1>4. /\ db' = [k \in Keys |-> db'[k]] /\ SubjectsOk(db') /\ gone \subseteq gone'
      /\ MarkedRoleUnused'
      /\ vlock["scope"] = t /\ HolderIn(t, View(t)) => Held'
    BY CommitTables
<1>5. State'
  <2>1. ver' \in [Versions -> Nat] /\ vlock' \in [Versions -> Txns \cup {None}]
      BY <1>1 DEF Commit, Release, State
  <2>2. /\ DOMAIN seen' = Txns /\ DOMAIN own' = Txns /\ DOMAIN image' = Txns
        /\ DOMAIN pend' = Txns /\ DOMAIN answer' = Txns
      BY <1>1 DEF Commit, Release, Answer, State
  <2>3. pc' \in [Txns -> Places]
      BY <1>1, <1>2 DEF State, Places, Ended
  <2> QED
      BY <1>1, <1>2, <1>4, <2>1, <2>2, <2>3 DEF State, SubjectsOk, SubjectOk
<1>6. Place(t)'
    BY <1>1, <1>2, <1>3 DEF TxnInv, Place, Ended, InStmt
<1>7. Locks(t)' /\ Snap(t)' /\ Judged(t)' /\ Deleted(t)'
    BY <1>2, <1>3 DEF Locks, Snap, Judged, Deleted, InStmt, Ended, Versions
<1>8. ToolInv(t)'
  <2>1. SUFFICES ASSUME IsTool(t)
                 PROVE  /\ Held'
                        /\ \A u \in Txns \ {t} : IsTool(u)' /\ pc'[u] = "committed" => gone' # {}
      BY <1>1, <1>2 DEF ToolInv, IsTool, Ended, Late
  <2>2. vlock["scope"] = t /\ HolderIn(t, View(t))
      BY <1>1, <2>1 DEF TxnInv, ToolInv, Late
  <2>3. \A u \in Txns \ {t} : IsTool(u)' /\ pc'[u] = "committed" => IsTool(u) /\ pc[u] = "committed"
      BY <1>1, <1>2 DEF IsTool, State
  <2>4. \A u \in Txns \ {t} : IsTool(u) /\ pc[u] = "committed" => gone # {}
      BY <1>1, <2>1 DEF TxnInv, ToolInv
  <2> QED
      BY <1>4, <2>2, <2>3, <2>4
<1>9. Answered(t)'
  <2>1. PICK a \in {"done", "unknown"} : Answer(t, a)
      BY <1>1 DEF Commit, Lost, Finished
  <2> QED
      BY <1>1, <1>2, <2>1, RightsAssumption DEF TxnInv, Answered, Answer, State
<1>10. \A u \in Txns : TxnInv(u)'
    BY <1>6, <1>7, <1>8, <1>9, CommitOthers DEF TxnInv
<1>11. \A u, w \in Txns : u # w => Apart(u, w)'
    BY <1>2 DEF GuardInv, Apart
<1> QED
    BY <1>4, <1>5, <1>10, <1>11 DEF GuardInv

-----------------------------------------------------------------------------
(* The theorems *)

\* The invariant holds at the start.
LEMMA InitGuard == Init => GuardInv
<1> SUFFICES ASSUME Init PROVE GuardInv
    OBVIOUS
<1> USE DEF Init
<1>1. State /\ MarkedRoleUnused
  <2>1. Table(db) /\ MarkedRoleUnused
      BY RightsAssumption DEF MarkedRoleUnused
  <2>2. SubjectsOk(db)
    <3> SUFFICES ASSUME NEW a \in Assigns, db[a] # Absent PROVE db[a].subject \in Members
        BY DEF SubjectsOk, SubjectOk
    <3>1. db[a] \in Assignment \cup {Absent}
        BY <2>1, RightsAssumption DEF Table, Value, Keys
    <3> QED
        BY <3>1 DEF Assignment
  <2> QED
      BY <2>1, <2>2 DEF State, Table, Places, Ended
<1>2. \A t \in Txns : Place(t) /\ Locks(t) /\ Snap(t) /\ Judged(t) /\ Deleted(t)
    BY RightsAssumption DEF Place, Locks, Snap, Judged, Deleted, Empty, Ended, Early, InStmt, Versions
<1>3. \A t \in Txns : ToolInv(t) /\ Answered(t)
    BY RightsAssumption DEF ToolInv, IsTool, Answered
<1>4. \A t, u \in Txns : t # u => Apart(t, u)
    BY DEF Apart, Empty
<1> QED
    BY <1>1, <1>2, <1>3, <1>4 DEF GuardInv, TxnInv

\* Every step keeps it.
LEMMA NextGuard == GuardInv /\ [Next]_vars => GuardInv'
<1> SUFFICES ASSUME GuardInv, [Next]_vars PROVE GuardInv'
    OBVIOUS
<1>1. CASE UNCHANGED vars
  <2> USE <1>1 DEF vars, place, queue
  <2>1. State' /\ MarkedRoleUnused'
      BY DEF GuardInv, State, MarkedRoleUnused, SubjectsOk, SubjectOk, Live
  <2>2. ASSUME NEW t \in Txns PROVE Aside(t)
      BY DEF Aside, IsTool
  <2>3. ASSUME NEW t \in Txns PROVE TxnInv(t)'
    <3>1. Stmt(t)' = Stmt(t) /\ View(t)' = View(t)
        BY ViewSame DEF Stmt
    <3>2. Prior(t)' = Prior(t)
        BY <3>1 DEF Prior
    <3>3. Place(t)' /\ Locks(t)' /\ Snap(t)' /\ Deleted(t)' /\ Answered(t)'
        BY <3>1 DEF GuardInv, TxnInv, Place, Locks, Snap, Deleted, Answered
    <3>4. Judged(t)'
        BY <3>2, JudgedSame DEF GuardInv, TxnInv
    <3>5. ToolInv(t)'
      <4>1. HolderIn(t, View(t)) => HolderIn(t, View(t))'
          BY <3>1 DEF HolderIn, Alive
      <4>2. Held => Held'
          BY DEF Held
      <4> QED
          BY <4>1, <4>2 DEF GuardInv, TxnInv, ToolInv, IsTool
    <3> QED
        BY <3>3, <3>4, <3>5 DEF TxnInv
  <2> QED
      BY <2>1, <2>3 DEF GuardInv, Apart
<1>2. ASSUME NEW t \in Txns, NEW p \in Programs, Begin(t, p) PROVE GuardInv'
    BY <1>2, BeginKeeps
<1>3. ASSUME NEW t \in Txns, Step(t) PROVE GuardInv'
    BY <1>3, ToolStartKeeps, ToolHoldersKeeps, ToolMemberKeeps, ToolEffectiveKeeps, TriggersKeep,
       WriteKeeps, BumpKeeps, CheckKeeps, CommitKeeps DEF Step
<1>4. ASSUME NEW t \in Txns, Rollback(t) PROVE GuardInv'
    BY <1>4, RollbackKeeps
<1> QED
    BY <1>1, <1>2, <1>3, <1>4 DEF Next

\* The inductive invariant, for any tables, programs and number of transactions.
THEOREM GuardInvariant == Spec => []GuardInv
BY InitGuard, NextGuard, PTL DEF Spec

\* No live assignment is of a role with a deletion mark: the two writers meet at the
\* version of the rights, and the second one's check sees the first one's row.
THEOREM NoMarkedRoleUsed == Spec => []MarkedRoleUnused
<1>1. GuardInv => MarkedRoleUnused
    BY DEF GuardInv
<1> QED
    BY <1>1, GuardInvariant, PTL

\* A run of the maintenance tool never denies what it did, and full access is
\* restored once as long as holders stay valid.
THEOREM ToolIsHonest == Spec => []ToolRuns
<1>1. GuardInv => ToolRuns
  <2> SUFFICES ASSUME GuardInv PROVE ToolRuns
      OBVIOUS
  <2>1. \A t \in Txns : Answered(t) /\ ToolInv(t)
      BY DEF GuardInv, TxnInv
  <2> QED
      BY <2>1 DEF ToolRuns, Answered, ToolInv, IsTool
<1> QED
    BY <1>1, GuardInvariant, PTL

\* The tables and the list of the gone change only by a commit.
LEMMA OnlyCommit ==
  ASSUME [Next]_vars
  PROVE  UNCHANGED <<db, gone>> \/ \E t \in Txns : Commit(t)
<1>1. CASE UNCHANGED vars
    BY <1>1 DEF vars
<1>2. \A t : \A a : Fail(t, a) => UNCHANGED <<db, gone>>
    BY DEF Fail
<1>3. ASSUME NEW t \in Txns, NEW p \in Programs, Begin(t, p) PROVE UNCHANGED <<db, gone>>
    BY <1>3 DEF Begin
<1>4. ASSUME NEW t \in Txns, Step(t), ~Commit(t) PROVE UNCHANGED <<db, gone>>
  <2>1. CASE ToolStart(t) \/ ToolHolders(t) \/ ToolMember(t) \/ ToolEffective(t)
      BY <1>2, <2>1 DEF ToolStart, ToolHolders, ToolMember, ToolEffective
  <2>2. CASE Snapshot(t)
      BY <1>2, <2>2 DEF Snapshot
  <2>3. CASE Write(t)
      BY <1>2, <2>3 DEF Write
  <2>4. CASE Trigger(t)
      BY <1>2, <2>4 DEF Trigger
  <2>5. CASE Bump(t)
      BY <1>2, <2>5 DEF Bump
  <2>6. CASE Check(t)
      BY <1>2, <2>6 DEF Check
  <2> QED
      BY <1>4, <2>1, <2>2, <2>3, <2>4, <2>5, <2>6 DEF Step
<1>5. ASSUME NEW t \in Txns, Rollback(t) PROVE UNCHANGED <<db, gone>>
    BY <1>2, <1>5 DEF Rollback
<1> QED
    BY <1>1, <1>3, <1>4, <1>5 DEF Next

\* The last holder of full access cannot be removed, by any number of transactions
\* at any isolation level.
THEOREM LastHolderKept == Spec => LastHolderStays
<1>1. GuardInv /\ [Next]_vars => (Held => Held')
  <2> SUFFICES ASSUME GuardInv, [Next]_vars, Held PROVE Held'
      OBVIOUS
  <2>1. CASE UNCHANGED <<db, gone>>
      BY <2>1 DEF Held
  <2>2. CASE \E t \in Txns : Commit(t)
      BY <2>2, CommitTables
  <2> QED
      BY <2>1, <2>2, OnlyCommit
<1>2. GuardInv /\ [Next]_vars => [Held => Held']_vars
    BY <1>1
<1> QED
    BY <1>2, GuardInvariant, PTL DEF Spec, LastHolderStays

\* A commit that changes anybody's rights raises a version: a cache keyed by the
\* versions never answers from other rows.
THEOREM VersionRaised == Spec => RightsRaiseVersion
<1>1. ASSUME GuardInv, [Next]_vars, NEW u \in Users, RightsOf(db', u) # RightsOf(db, u)
      PROVE  ver' # ver
  <2>1. db' # db
      BY <1>1
  <2>2. PICK t \in Txns : Commit(t)
      BY <1>1, <2>1, OnlyCommit
  <2>3. State /\ TxnInv(t) /\ pc[t] = "commit"
      BY <1>1, <2>2 DEF GuardInv, Commit
  <2>4. /\ db' = [k \in Keys |-> db'[k]]
        /\ \A k \in Keys \ DOMAIN own[t] : db'[k] = db[k]
        /\ \A k \in Keys \cap DOMAIN own[t] : db'[k] = own[t][k]
      BY <1>1, <2>2, CommitTables
  <2>5. PICK k \in Keys \cap DOMAIN own[t] : own[t][k] # db[k]
      BY <2>1, <2>3, <2>4 DEF State
  <2>6. PICK v \in Versions : vlock[v] = t
      BY <2>3, <2>5 DEF TxnInv, Locks, InStmt, Versions
  <2>7. ver'[v] = ver[v] + 1 /\ ver[v] \in Nat
      BY <2>2, <2>3, <2>6 DEF Commit, State
  <2> QED
      BY <2>7
<1>2. GuardInv /\ [Next]_vars => [(\E u \in Users : RightsOf(db', u) # RightsOf(db, u)) => ver' # ver]_vars
    BY <1>1
<1> QED
    BY <1>2, GuardInvariant, PTL DEF Spec, RightsRaiseVersion
-----------------------------------------------------------------------------
(* Escalation: what else is known of a transaction *)

\* No program of maintenance makes a user valid again.
NobodyRestored ==
  \A p \in Programs : \A i \in DOMAIN p.stmts :
    p.stmts[i].mode = "maintenance" /\ p.stmts[i].key \in Users => ~p.stmts[i].value

\* A transaction of the command runtime: commands only, READ COMMITTED, the checks at
\* the end.  One of the application's other logins: no statement in a command.
AllIn(p, m)  == p.tool = None /\ \A i \in 1..Len(p.stmts) : p.stmts[i].mode = m
ByCommand(p) == AllIn(p, "command") /\ ~p.rr /\ ~p.immediate
Outside(p)   == AllIn(p, "outside")
Plain(p)     == ByCommand(p) \/ Outside(p)

\* The rows t commits.
Over(t) == [k \in Keys |-> IF k \in DOMAIN own[t] THEN own[t][k] ELSE db[k]]

\* Rows have values of their tables; the tool, whose user need not be one, writes no
\* others than members and assignments.
Typed(k, v) == k \in Members \/ v \in Value(k)
\* Programs are those of the constants, but for the tool's.
ProgKept(t) ==
  pc[t] # "idle" =>
    IF prog[t].tool = None THEN prog[t] \in Programs /\ pc[t] \notin Early \cup {"effective"}
    ELSE pc[t] \notin Ended \cup Early =>
           \A i \in 1..Len(prog[t].stmts) :
             LET s == prog[t].stmts[i] IN
             /\ s.mode = "maintenance"
             /\ s.key \in Members \/ (s.key \in Assigns /\ s.value \in Assignment)
\* Before its first statement a transaction has nothing.
Fresh(t) == pc[t] = "idle" => start[t] = None /\ DOMAIN jrn[t] = {} /\ exempt[t] = {}

\* Past its trigger a write makes no user valid who is not.
Invalid(t) ==
  /\ \A u \in Users \cap DOMAIN own[t] :
       own[t][u] => db[u] \/ (pc[t] = "trigger" /\ u = Stmt(t).key)
  /\ pc[t] = "trigger" /\ Stmt(t).key \in Users => (image[t] => db[Stmt(t).key])
  /\ pc[t] = "trigger" /\ Stmt(t).key \in Users => Stmt(t).mode # "command"

\* The foreign key, in the tables and in what t leaves of them: under REPEATABLE READ
\* only as long as its snapshot is of the current version.
Linked(d)  == \A a \in Assigns : d[a] # Absent => d[d[a].subject] # Absent
Current(t) == prog[t].rr /\ pc[t] \notin Ended => seen[t].ver["scope"] = ver["scope"]

\* Outside the commands a member may be deleted and inserted again, under whatever user:
\* no assignment refers to it, and the version, which t holds, keeps it so.
Unused(t, m) == /\ Outside(prog[t]) /\ vlock["scope"] = t
                /\ \A a \in Assigns : db[a] # Absent => db[a].subject # m
Dropped(t, m) == Outside(prog[t]) /\ own[t][m] = Absent

\* The user of a member of the tables: as it was, filled by that user, or the member
\* is new or unused.
AcceptedIn(p, m, v) == \E i \in 1..Len(p.stmts) : /\ p.stmts[i].key = m
                                                  /\ p.stmts[i].value = v /\ p.stmts[i].actor = v
Filled(t, m, v) == \/ db[m] = Absent \/ v = db[m] \/ Unused(t, m)
                   \/ db[m] = None /\ AcceptedIn(prog[t], m, v)
InFlight(t, k) == pc[t] \in InStmt /\ k = Stmt(t).key
Memberships(t) ==
  /\ \A m \in Members \cap DOMAIN own[t] :
       Filled(t, m, own[t][m]) \/ Dropped(t, m) \/ (pc[t] = "trigger" /\ m = Stmt(t).key)
  /\ pc[t] = "trigger" /\ Stmt(t).key \in Members =>
       /\ Filled(t, Stmt(t).key, image[t])
       /\ Stmt(t).mode = "command" => \/ image[t] \in {Absent, Stmt(t).value}
                                      \/ image[t] = None /\ Stmt(t).value = Stmt(t).actor

\* Outside the commands no role and no assignment passes its trigger.
Roles == Customs \cup Assigns
NoRoles(t) == \A k \in Roles \cap DOMAIN own[t] : pc[t] = "trigger" /\ k = Stmt(t).key

\* The snapshot of a transaction of commands: the rights of its only actor.
Snapped(t) ==
  \/ pc[t] = "snapshot" /\ at[t] = 1 /\ start[t] = None /\ DOMAIN own[t] = {}
  \/ /\ start[t] # None
     /\ start[t].rights = RightsOf(first[t], start[t].actor)
     /\ start[t].full <=> start[t].actor \in Holders(first[t])
     /\ ~(pc[t] = "snapshot" /\ at[t] = 1)
     /\ \A i \in 1..at[t] : i < at[t] \/ pc[t] # "snapshot" => prog[t].stmts[i].actor = start[t].actor

\* The journal has the committed row of every role and assignment that was written.
Journaled(t) ==
  /\ \A k \in DOMAIN jrn[t] : k \in Roles \cap DOMAIN own[t] /\ jrn[t][k] = db[k]
  /\ \A k \in Roles \cap DOMAIN own[t] : k \in DOMAIN jrn[t] \/ InFlight(t, k)
  /\ pc[t] \in InStmt /\ Stmt(t).key \in Roles =>
       Stmt(t).key \in DOMAIN jrn[t] \/ image[t] = db[Stmt(t).key]

\* What the checks compare, with the tables in place of the journal.
Within(t, g) == start[t].full \/ g \subseteq start[t].rights
GivenIn(d, e, a) ==
  IF d[a] # Absent /\ e[a] # Absent /\ d[a].subject = e[a].subject THEN Given(d, a) ELSE {}
AssignFine(t, a) == Within(t, Given(View(t), a) \ GivenIn(db, View(t), a))
RoleFine(t, c)   == Within(t, RoleGrants(View(t), c) \ RoleGrants(db, c))
ActorFine(t)     == Within(t, RightsOf(View(t), start[t].actor))

\* Every row that was written is judged, or its key is in the queue.
Checking == {"check", "commit"}
Queues(t) ==
  /\ \A a \in Assigns \cap DOMAIN own[t] :
       InFlight(t, a) \/ Key("assignment", a) \in pend[t] \/ (pc[t] \in Checking /\ AssignFine(t, a))
  /\ \A c \in Customs \cap DOMAIN own[t] :
       InFlight(t, c) \/ Key("role", c) \in pend[t] \/ (pc[t] \in Checking /\ RoleFine(t, c))
  /\ \A k \in Rows \cap DOMAIN own[t] :
       InFlight(t, k) \/ Key("actor", None) \in pend[t] \/ (pc[t] \in Checking /\ ActorFine(t))

Commanded(t) ==
  /\ exempt[t] = {} /\ Snapped(t) /\ Journaled(t) /\ Queues(t)
  /\ pc[t] \in Checking => at[t] = Len(prog[t].stmts)

TxnGrant(t) ==
  /\ ProgKept(t) /\ Fresh(t) /\ Invalid(t)
  /\ \A k \in Keys \cap DOMAIN own[t] : Typed(k, own[t][k])
  /\ Current(t) => Linked(Over(t))
  /\ Plain(prog[t]) /\ pc[t] \notin Ended => Memberships(t)
  /\ Outside(prog[t]) /\ pc[t] \notin Ended => NoRoles(t)
  /\ ByCommand(prog[t]) /\ pc[t] \notin Ended => Commanded(t)

GrantInv ==
  /\ DOMAIN start = Txns /\ DOMAIN jrn = Txns /\ DOMAIN exempt = Txns /\ DOMAIN first = Txns
  /\ \A k \in Keys : Typed(k, db[k])
  /\ Linked(db)
  /\ \A t \in Txns : TxnGrant(t)

-----------------------------------------------------------------------------
(* What the tables say, row by row *)

\* A typed row of an assignment has a role of the code or of the table.
LEMMA RoleTyped ==
  ASSUME NEW a \in Assigns, NEW v, Typed(a, v), v # Absent
  PROVE  v.role \in Archetypes \cup Customs
<1>1. v \in Assignment
    BY RightsAssumption DEF Typed, Value
<1> QED
    BY <1>1 DEF Assignment

\* What a role grants, and an assignment gives, is a matter of the rows of the scope.
LEMMA GivenAlike ==
  ASSUME NEW d, NEW e, \A k \in Rows : e[k] = d[k], \A a \in Assigns : Typed(a, d[a])
  PROVE  /\ \A c \in Archetypes \cup Customs : RoleGrants(e, c) = RoleGrants(d, c)
         /\ \A a \in Assigns : Given(e, a) = Given(d, a)
<1>1. \A c \in Archetypes \cup Customs : RoleGrants(e, c) = RoleGrants(d, c)
    BY DEF RoleGrants, Rows
<1>2. ASSUME NEW a \in Assigns PROVE Given(e, a) = Given(d, a)
  <2>1. e[a] = d[a] /\ (Live(e, a) <=> Live(d, a))
      BY DEF Rows, Live
  <2>2. Live(d, a) => d[a].role \in Archetypes \cup Customs
      BY RoleTyped DEF Live
  <2> QED
      BY <1>1, <2>1, <2>2 DEF Given
<1> QED
    BY <1>1, <1>2

\* A right of a user comes from an assignment to a member of that user.
LEMMA RightIs ==
  ASSUME NEW d, NEW u \in Users, NEW x
  PROVE  x \in RightsOf(d, u) <=>
           d[u] /\ \E a \in Assigns : d[a] # Absent /\ UserOf(d, a) = u /\ x \in Given(d, a)
BY DEF RightsOf

\* With the same rows of the scope and no user made valid nobody has more rights.
LEMMA RightsShrink ==
  ASSUME NEW d, NEW e, \A k \in Rows : e[k] = d[k], \A a \in Assigns : Typed(a, d[a]), SubjectsOk(d),
         \A u \in Users : e[u] => d[u], NEW x
  PROVE  RightsOf(e, x) \subseteq RightsOf(d, x)
<1>1. CASE x \notin Users
    BY <1>1 DEF RightsOf
<1>2. CASE x \in Users
  <2> SUFFICES ASSUME NEW g \in RightsOf(e, x) PROVE g \in RightsOf(d, x)
      OBVIOUS
  <2>1. e[x] /\ \E a \in Assigns : e[a] # Absent /\ UserOf(e, a) = x /\ g \in Given(e, a)
      BY <1>2, RightIs
  <2>2. PICK a \in Assigns : e[a] # Absent /\ UserOf(e, a) = x /\ g \in Given(e, a)
      BY <2>1
  <2>3. d[a] = e[a] /\ g \in Given(d, a)
      BY <2>2, GivenAlike DEF Rows
  <2>4. UserOf(d, a) = x
    <3>1. d[a].subject \in Members
        BY <2>2, <2>3 DEF SubjectsOk, SubjectOk
    <3> QED
        BY <2>2, <2>3, <3>1 DEF UserOf, Rows
  <2> QED
      BY <1>2, <2>1, <2>2, <2>3, <2>4, RightIs
<1> QED
    BY <1>1, <1>2

\* Rights are rights.
LEMMA RightsTyped ==
  ASSUME NEW d, \A k \in Keys : Typed(k, d[k]), NEW u
  PROVE  RightsOf(d, u) \subseteq Rights
<1>1. ASSUME NEW a \in Assigns PROVE Given(d, a) \subseteq Rights
  <2>1. CASE ~Live(d, a)
      BY <2>1 DEF Given
  <2>2. CASE Live(d, a)
    <3>1. d[a].role \in Archetypes \cup Customs
        BY <2>2, RoleTyped DEF Live, Keys
    <3>2. CASE d[a].role \in Archetypes
        BY <2>2, <3>2, RightsAssumption DEF Given, RoleGrants
    <3>3. CASE d[a].role \in Customs \ Archetypes
      <4>1. d[d[a].role] \in Custom
          BY <3>3, RightsAssumption DEF Typed, Value, Keys
      <4> QED
          BY <2>2, <3>3, <4>1 DEF Given, RoleGrants, Custom
    <3> QED
        BY <3>1, <3>2, <3>3
  <2> QED
      BY <2>1, <2>2
<1> QED
    BY <1>1 DEF RightsOf

\* The foreign key is a matter of the rows of the scope.
LEMMA LinkedAlike ==
  ASSUME NEW d, NEW e, \A k \in Rows : e[k] = d[k], SubjectsOk(d), Linked(d)
  PROVE  Linked(e)
BY DEF Linked, SubjectsOk, SubjectOk, Rows

-----------------------------------------------------------------------------
(* Frames of the new invariant *)

Domains == DOMAIN start = Txns /\ DOMAIN jrn = Txns /\ DOMAIN exempt = Txns /\ DOMAIN first = Txns

\* The state of u is as it was, and the version still its own.
Still(u) ==
  /\ pc'[u] = pc[u] /\ prog'[u] = prog[u] /\ at'[u] = at[u] /\ seen'[u] = seen[u]
  /\ own'[u] = own[u] /\ image'[u] = image[u] /\ pend'[u] = pend[u]
  /\ start'[u] = start[u] /\ jrn'[u] = jrn[u] /\ exempt'[u] = exempt[u] /\ first'[u] = first[u]
  /\ vlock["scope"] = u => vlock'["scope"] = u

\* A refusal leaves the others alone.
LEMMA FailStill ==
  ASSUME NEW t \in Txns, State, Domains, NEW a, Fail(t, a)
  PROVE  Domains' /\ UNCHANGED <<db, ver>> /\ \A u \in Txns \ {t} : Still(u)
BY DEF State, Domains, Fail, Goto, Release, Still, Versions

\* So does every other step of a transaction; only COMMIT changes the tables.
LEMMA StepStill ==
  ASSUME NEW t \in Txns, State, Domains,
         Rollback(t) \/ Step(t) \/ \E p \in Programs : Begin(t, p)
  PROVE  /\ Domains' /\ \A u \in Txns \ {t} : Still(u)
         /\ UNCHANGED <<db, ver>> \/ Commit(t)
<1> DEFINE Goal == /\ Domains' /\ \A u \in Txns \ {t} : Still(u)
                   /\ UNCHANGED <<db, ver>> \/ Commit(t)
<1>1. ASSUME NEW a, Fail(t, a) PROVE Goal
    BY <1>1, FailStill
<1>2. CASE \E p \in Programs : Begin(t, p)
    BY <1>2 DEF Begin, State, Domains, Goto, Still, queue
<1>3. CASE ToolStart(t) \/ ToolHolders(t) \/ ToolMember(t) \/ ToolEffective(t)
    BY <1>1, <1>3 DEF ToolStart, ToolHolders, ToolMember, ToolEffective, State, Domains, Goto, Still, queue
<1>4. CASE Snapshot(t)
    BY <1>1, <1>4 DEF Snapshot, State, Domains, Goto, Still
<1>5. CASE Write(t) \/ Trigger(t)
    BY <1>1, <1>5 DEF Write, Trigger, State, Domains, Goto, Still, queue
<1>6. CASE Bump(t)
    BY <1>1, <1>6, RightsAssumption DEF Bump, State, Domains, Goto, Still, After, Following, Versions
<1>7. CASE Check(t)
  <2>1. CASE pend[t] = {} /\ at[t] < Len(prog[t].stmts) /\ Following(t) /\ Check(t)
      BY <1>1, <1>7 DEF Check, State, Domains, Goto, Still, Following, queue, place
  <2> QED
      BY <1>1, <1>7 DEF Check, State, Domains, Goto, Still, Following, queue, place
<1>8. CASE Commit(t)
    BY <1>8 DEF Commit, Release, State, Domains, Goto, Still, Versions
<1>9. CASE Rollback(t)
    BY <1>1, <1>9 DEF Rollback
<1> QED
    BY <1>2, <1>3, <1>4, <1>5, <1>6, <1>7, <1>8, <1>9 DEF Step

\* A transaction that is left alone, with the tables it had, keeps what is known of it.
LEMMA StillKeeps ==
  ASSUME NEW u \in Txns, Still(u), UNCHANGED <<db, ver>>, TxnGrant(u)
  PROVE  TxnGrant(u)'
<1>1. Stmt(u)' = Stmt(u) /\ View(u)' = View(u)
    BY ViewSame DEF Still, Stmt
<1>2. Over(u)' = Over(u)
    BY DEF Still, Over
<1>3. ProgKept(u)' /\ Fresh(u)'
    BY DEF Still, TxnGrant, ProgKept, Fresh
<1>4. Invalid(u)'
    BY <1>1 DEF Still, TxnGrant, Invalid
<1>5. (Current(u) => Linked(Over(u)))'
    BY <1>2 DEF Still, TxnGrant, Current, Linked
<1>6. ASSUME Memberships(u) PROVE Memberships(u)'
    BY <1>1, <1>6 DEF Still, Memberships, Filled, Unused, Dropped
<1>7. ASSUME NoRoles(u) PROVE NoRoles(u)'
    BY <1>1, <1>7 DEF Still, NoRoles
<1>8. ASSUME Commanded(u) PROVE Commanded(u)'
  <2>1. Snapped(u)'
      BY <1>8 DEF Still, Commanded, Snapped
  <2>2. Journaled(u)'
      BY <1>1, <1>8 DEF Still, Commanded, Journaled, InFlight
  <2>3. \A a : AssignFine(u, a)' <=> AssignFine(u, a)
      BY <1>1 DEF Still, AssignFine, Within, GivenIn
  <2>4. \A c : RoleFine(u, c)' <=> RoleFine(u, c)
      BY <1>1 DEF Still, RoleFine, Within
  <2>5. ActorFine(u)' <=> ActorFine(u)
      BY <1>1 DEF Still, ActorFine, Within
  <2>6. Queues(u)'
      BY <1>1, <1>8, <2>3, <2>4, <2>5 DEF Still, Commanded, Queues, InFlight
  <2> QED
      BY <1>8, <2>1, <2>2, <2>6 DEF Commanded, Still
<1> QED
    BY <1>3, <1>4, <1>5, <1>6, <1>7, <1>8 DEF TxnGrant, Still

\* A step without a commit: the transaction that takes it answers for itself.
LEMMA OneStep ==
  ASSUME NEW t \in Txns, GuardInv, GrantInv, TxnGrant(t)', UNCHANGED <<db, ver>>,
         Rollback(t) \/ Step(t) \/ \E p \in Programs : Begin(t, p)
  PROVE  GrantInv'
<1>1. Domains /\ State
    BY DEF GrantInv, GuardInv, Domains
<1>2. Domains' /\ \A u \in Txns \ {t} : Still(u)
    BY <1>1, StepStill
<1>3. \A u \in Txns : TxnGrant(u)'
    BY <1>2, StillKeeps DEF GrantInv
<1> QED
    BY <1>2, <1>3 DEF GrantInv, Domains, Linked

-----------------------------------------------------------------------------
(* One transaction: statements and rows *)

\* What is known of a statement: its row is typed, the actor is a user or nobody, and
\* maintenance makes no user valid.
LEMMA StmtIs ==
  ASSUME NobodyRestored, NEW t \in Txns, ProgKept(t), Place(t), pc[t] \notin Ended \cup Early
  PROVE  /\ at[t] \in 1..Len(prog[t].stmts) /\ Len(prog[t].stmts) \in Nat /\ at[t] # 0
         /\ Stmt(t) = prog[t].stmts[at[t]] /\ Stmt(t).key \in Keys
         /\ Typed(Stmt(t).key, Stmt(t).value)
         /\ Stmt(t).key \in Users /\ Stmt(t).mode = "maintenance" => ~Stmt(t).value
         /\ Stmt(t).mode \in Modes
         /\ prog[t].tool = None => Stmt(t).actor \in Users \cup {None}
<1>1. /\ at[t] \in 1..Len(prog[t].stmts) /\ Len(prog[t].stmts) \in Nat /\ at[t] # 0
      /\ DOMAIN prog[t].stmts = 1..Len(prog[t].stmts) /\ StmtOk(prog[t].stmts[at[t]])
    BY DEF Place, ProgOk, Ended
<1>2. PICK s : s = prog[t].stmts[at[t]]
    OBVIOUS
<1>3. s.key \in Keys
    BY <1>1, <1>2 DEF StmtOk
<1>4. CASE prog[t].tool = None
  <2>1. prog[t] \in Programs
      BY <1>4 DEF ProgKept, Ended
  <2>2. s.value \in Value(s.key) /\ s.mode \in Modes /\ s.actor \in Users \cup {None}
      BY <1>1, <1>2, <2>1, RightsAssumption
  <2>3. s.key \in Users /\ s.mode = "maintenance" => ~s.value
      BY <1>1, <1>2, <2>1 DEF NobodyRestored
  <2> QED
      BY <1>1, <1>2, <1>3, <2>2, <2>3 DEF Stmt, Typed
<1>5. CASE prog[t].tool # None
  <2>1. s.mode = "maintenance" /\ (s.key \in Members \/ (s.key \in Assigns /\ s.value \in Assignment))
      BY <1>1, <1>2, <1>5 DEF ProgKept, Ended
  <2>2. s.key \notin Users
      BY <2>1, RightsAssumption
  <2>3. Typed(s.key, s.value)
      BY <2>1, RightsAssumption DEF Typed, Value
  <2> QED
      BY <1>1, <1>2, <1>3, <1>5, <2>1, <2>2, <2>3 DEF Stmt, Modes
<1> QED
    BY <1>4, <1>5

\* Statements of plain transactions have the mode of their kind.
LEMMA PlainMode ==
  ASSUME NEW t \in Txns, at[t] \in 1..Len(prog[t].stmts)
  PROVE  /\ ByCommand(prog[t]) => Stmt(t).mode = "command"
         /\ Outside(prog[t]) => Stmt(t).mode = "outside"
BY DEF ByCommand, Outside, AllIn, Stmt

\* Without a snapshot, or with a current one, t sees the rows it would commit.
LEMMA ViewIsOver ==
  ASSUME NEW t \in Txns, Snap(t), Current(t), pc[t] \notin Ended
  PROVE  /\ \A k \in Rows : View(t)[k] = Over(t)[k]
         /\ ~prog[t].rr => View(t) = Over(t)
<1>1. ASSUME NEW k \in Rows PROVE View(t)[k] = Over(t)[k]
  <2>1. k \in Keys
      BY DEF Rows, Keys
  <2>2. prog[t].rr => seen[t].db[k] = db[k]
      BY DEF Snap, Current
  <2> QED
      BY <2>1, <2>2 DEF View, Over
<1> QED
    BY <1>1 DEF View, Over

\* What t would commit names members.
LEMMA OverSubjects ==
  ASSUME NEW t \in Txns, State, Place(t)
  PROVE  SubjectsOk(Over(t))
<1>1. \A a \in Assigns : SubjectOk(Over(t)[a])
    BY DEF State, SubjectsOk, Place, Over, Keys
<1> QED
    BY <1>1 DEF SubjectsOk

-----------------------------------------------------------------------------
(* One transaction: its steps *)

\* What only the rows and the program decide stays while they do.
LEMMA RowsKeep ==
  ASSUME NEW t \in Txns, TxnGrant(t), UNCHANGED <<db, ver>>, own'[t] = own[t], seen'[t] = seen[t],
         prog'[t].rr = prog[t].rr, pc[t] \notin Ended, pc'[t] \notin Ended
  PROVE  /\ (\A k \in Keys \cap DOMAIN own[t] : Typed(k, own[t][k]))'
         /\ (Current(t) => Linked(Over(t)))' /\ Fresh(t)'
<1>1. Over(t)' = Over(t)
    BY DEF Over
<1> QED
    BY <1>1 DEF TxnGrant, Current, Linked, Typed, Value, Fresh, Ended

\* A transaction without rows of its own, that is not in a plain program, has little
\* to account for.
LEMMA EmptyGrant ==
  ASSUME NEW t \in Txns, State, GrantInv, UNCHANGED <<db, ver>>, DOMAIN own'[t] = {},
         ProgKept(t)', Fresh(t)', pc'[t] # "trigger",
         pc'[t] \in Ended \/ ~(Plain(prog[t])')
  PROVE  TxnGrant(t)'
<1>1. \A k \in Rows : Over(t)'[k] = db'[k]
    BY DEF Over, Rows, Keys
<1>2. Linked(db') /\ SubjectsOk(db')
    BY DEF GrantInv, State, Linked, SubjectsOk, SubjectOk
<1>3. PICK e : e = Over(t)'
    OBVIOUS
<1>4. PICK d : d = db'
    OBVIOUS
<1>5. Linked(e)
    BY <1>1, <1>2, <1>3, <1>4, LinkedAlike
<1>6. Linked(Over(t)')
    BY <1>3, <1>5
<1>7. Invalid(t)'
    BY DEF Invalid
<1>8. (ByCommand(prog[t]) => Plain(prog[t]))' /\ (Outside(prog[t]) => Plain(prog[t]))'
    BY DEF Plain
<1> QED
    BY <1>6, <1>7, <1>8 DEF TxnGrant

\* A refusal, a rollback.
LEMMA FailGrant ==
  ASSUME NEW t \in Txns, GuardInv, GrantInv, NEW a, Fail(t, a), pc[t] \notin Ended
  PROVE  TxnGrant(t)'
<1>1. State /\ TxnGrant(t)
    BY DEF GuardInv, GrantInv
<1>2. pc'[t] = "rolledBack" /\ DOMAIN own'[t] = {} /\ UNCHANGED <<db, ver, prog>>
    BY <1>1 DEF Fail, Goto, Release, State, Empty
<1>3. ProgKept(t)' /\ Fresh(t)'
    BY <1>1, <1>2 DEF TxnGrant, ProgKept, Fresh, Ended, Early
<1> QED
    BY <1>1, <1>2, <1>3, EmptyGrant DEF Ended

\* BEGIN.
LEMMA BeginGrant ==
  ASSUME NEW t \in Txns, GuardInv, GrantInv, NEW p \in Programs, Begin(t, p)
  PROVE  TxnGrant(t)'
<1>1. State /\ TxnGrant(t) /\ pc[t] = "idle" /\ DOMAIN own[t] = {}
    BY DEF GuardInv, GrantInv, TxnInv, Place, Begin, Ended
<1>2. /\ UNCHANGED <<db, ver, own, image, start, jrn, pend, exempt, first>>
      /\ prog'[t] = p
    BY <1>1 DEF Begin, queue, State
<1>3. /\ p.tool = None => pc'[t] = "snapshot" /\ at'[t] = 1
      /\ p.tool # None => pc'[t] = "lock"
    BY <1>1 DEF Begin, Goto, State
<1>4. ProgKept(t)' /\ Fresh(t)' /\ pc'[t] # "trigger"
    BY <1>2, <1>3 DEF ProgKept, Fresh, Ended, Early
<1>5. CASE p.tool # None
  <2>1. ~(Plain(prog[t])')
      BY <1>2, <1>5 DEF Plain, ByCommand, Outside, AllIn
  <2> QED
      BY <1>1, <1>2, <1>4, <2>1, EmptyGrant
<1>6. CASE p.tool = None
  <2>1. Memberships(t)' /\ NoRoles(t)' /\ Invalid(t)'
      BY <1>1, <1>2, <1>4 DEF Memberships, NoRoles, Invalid
  <2>2. Commanded(t)'
    <3>1. Snapped(t)'
        BY <1>1, <1>2, <1>3, <1>6 DEF TxnGrant, Fresh, Snapped
    <3>2. Journaled(t)' /\ Queues(t)'
        BY <1>1, <1>2, <1>3, <1>6 DEF TxnGrant, Fresh, Journaled, Queues, InStmt
    <3> QED
        BY <1>1, <1>2, <1>3, <1>6, <3>1, <3>2 DEF TxnGrant, Fresh, Commanded, Checking
  <2>3. Linked(Over(t)')
    <3>1. \A k \in Rows : Over(t)'[k] = db[k]
        BY <1>1, <1>2 DEF Over, Rows, Keys
    <3>2. PICK e : e = Over(t)'
        OBVIOUS
    <3>3. Linked(db) /\ SubjectsOk(db)
        BY <1>1 DEF GrantInv, State
    <3>4. Linked(e)
        BY <3>1, <3>2, <3>3, LinkedAlike
    <3> QED
        BY <3>2, <3>4
  <2> QED
      BY <1>1, <1>2, <1>4, <2>1, <2>2, <2>3 DEF TxnGrant
<1> QED
    BY <1>5, <1>6

\* The steps of the maintenance tool.
LEMMA ToolGrant ==
  ASSUME NEW t \in Txns, GuardInv, GrantInv,
         ToolStart(t) \/ ToolHolders(t) \/ ToolMember(t) \/ ToolEffective(t)
  PROVE  TxnGrant(t)'
<1>1. State /\ TxnGrant(t) /\ Place(t) /\ pc[t] \notin Ended /\ pc[t] \in Early \cup {"effective"}
    BY DEF GuardInv, GrantInv, TxnInv, ToolStart, ToolHolders, ToolMember, ToolEffective, Ended, Early
<1>2. CASE Fail(t, "refused")
    BY <1>1, <1>2, FailGrant
<1>3. CASE ~Fail(t, "refused")
  <2>1. prog[t].tool # None
      BY <1>1 DEF TxnGrant, ProgKept, Ended
  <2>2. /\ UNCHANGED <<db, ver, own, seen, image>>
        /\ pc'[t] \in {"holders", "member", "snapshot", "check"}
      BY <1>1, <1>3 DEF ToolStart, ToolHolders, ToolMember, ToolEffective, Goto, State
  <2>3. prog'[t].rr = prog[t].rr /\ prog'[t].tool = prog[t].tool /\ ProgKept(t)'
    <3>1. CASE ToolMember(t)
      <4>1. PICK s : /\ prog' = [prog EXCEPT ![t].stmts = s]
                     /\ \A i \in 1..Len(s) : /\ s[i].mode = "maintenance"
                                             /\ \/ s[i].key \in Members
                                                \/ s[i].key \in Assigns /\ s[i].value \in Assignment
        <5>1. ASSUME NEW a \in Assigns, NEW m \in Members
              PROVE  /\ Maintenance(a, FullAccess(m)).mode = "maintenance"
                     /\ Maintenance(a, FullAccess(m)).key = a
                     /\ Maintenance(a, FullAccess(m)).value \in Assignment
            BY RightsAssumption DEF Maintenance, FullAccess, Assignment
        <5>2. ASSUME NEW m, NEW u
              PROVE  Maintenance(m, u).mode = "maintenance" /\ Maintenance(m, u).key = m
            BY DEF Maintenance
        <5>3. PICK a \in Assigns, m \in Members :
                \/ prog' = [prog EXCEPT ![t].stmts = <<Maintenance(a, FullAccess(m))>>]
                \/ prog' = [prog EXCEPT ![t].stmts = <<Maintenance(m, prog[t].tool),
                                                       Maintenance(a, FullAccess(m))>>]
            BY <3>1 DEF ToolMember
        <5>4. CASE prog' = [prog EXCEPT ![t].stmts = <<Maintenance(a, FullAccess(m))>>]
          <6>1. PICK x : x = Maintenance(a, FullAccess(m))
              OBVIOUS
          <6>2. x.mode = "maintenance" /\ x.key \in Assigns /\ x.value \in Assignment
              BY <5>1, <6>1
          <6>3. Len(<<x>>) = 1 /\ <<x>>[1] = x
              OBVIOUS
          <6>4. \A i \in 1..Len(<<x>>) : <<x>>[i] = x
              BY <6>3
          <6> QED
              BY <5>4, <6>1, <6>2, <6>4
        <5>5. CASE prog' = [prog EXCEPT ![t].stmts = <<Maintenance(m, prog[t].tool),
                                                       Maintenance(a, FullAccess(m))>>]
          <6>1. PICK x, y : x = Maintenance(a, FullAccess(m)) /\ y = Maintenance(m, prog[t].tool)
              OBVIOUS
          <6>2. /\ x.mode = "maintenance" /\ x.key \in Assigns /\ x.value \in Assignment
                /\ y.mode = "maintenance" /\ y.key \in Members
              BY <5>1, <5>2, <6>1
          <6>3. Len(<<y, x>>) = 2 /\ <<y, x>>[1] = y /\ <<y, x>>[2] = x
              OBVIOUS
          <6>4. \A i \in 1..Len(<<y, x>>) : <<y, x>>[i] \in {x, y}
              BY <6>3
          <6> QED
              BY <5>5, <6>1, <6>2, <6>4
        <5> QED
            BY <5>3, <5>4, <5>5
      <4>2. prog[t] = [stmts |-> prog[t].stmts, rr |-> prog[t].rr,
                       immediate |-> prog[t].immediate, tool |-> prog[t].tool]
          BY <1>1 DEF Place, ProgOk, Ended
      <4>3. prog'[t] = [prog[t] EXCEPT !.stmts = s]
          BY <1>1, <4>1 DEF State
      <4>4. prog'[t].rr = prog[t].rr /\ prog'[t].tool = prog[t].tool /\ prog'[t].stmts = s
          BY <4>2, <4>3
      <4> QED
          BY <2>1, <4>1, <4>4 DEF ProgKept
    <3>2. CASE ~ToolMember(t)
      <4>1. prog' = prog /\ (pc'[t] \in Early \/ pc[t] = "effective")
          BY <1>1, <1>3, <3>2 DEF ToolStart, ToolHolders, ToolEffective, Early, Goto, State
      <4> QED
          BY <1>1, <2>1, <4>1 DEF TxnGrant, ProgKept, Ended, Early
    <3> QED
        BY <3>1, <3>2
  <2>4. ~(Plain(prog[t])') /\ (ByCommand(prog[t]) => Plain(prog[t]))' /\ (Outside(prog[t]) => Plain(prog[t]))'
      BY <2>1, <2>3 DEF Plain, ByCommand, Outside, AllIn
  <2>5. Invalid(t)'
    <3>1. \A u \in Users \cap DOMAIN own[t] : own[t][u] => db[u]
        BY <1>1 DEF TxnGrant, Invalid, Early
    <3> QED
        BY <2>2, <3>1 DEF Invalid
  <2>6. /\ (\A k \in Keys \cap DOMAIN own[t] : Typed(k, own[t][k]))'
        /\ (Current(t) => Linked(Over(t)))' /\ Fresh(t)'
      BY <1>1, <2>2, <2>3, RowsKeep DEF Ended
  <2> QED
      BY <2>3, <2>4, <2>5, <2>6 DEF TxnGrant
<1> QED
    BY <1>2, <1>3

\* The snapshot of the rights.
LEMMA SnapshotGrant ==
  ASSUME NobodyRestored, NEW t \in Txns, GuardInv, GrantInv, Snapshot(t)
  PROVE  TxnGrant(t)'
<1>1. State /\ TxnGrant(t) /\ Place(t) /\ Snap(t) /\ pc[t] = "snapshot"
    BY DEF GuardInv, GrantInv, TxnInv, Snapshot
<1>2. CASE Fail(t, "refused")
    BY <1>1, <1>2, FailGrant DEF Ended
<1>3. CASE ~Fail(t, "refused")
  <2>1. /\ UNCHANGED <<db, ver, prog, at, seen, own, image, jrn, pend, exempt, vlock>>
        /\ pc'[t] = "write" /\ (Stmt(t).mode = "command" => SameActor(t))
      BY <1>1, <1>3 DEF Snapshot, Goto, State
  <2>2. ProgKept(t)'
      BY <1>1, <2>1 DEF TxnGrant, ProgKept, Ended, Early
  <2>3. /\ (\A k \in Keys \cap DOMAIN own[t] : Typed(k, own[t][k]))'
        /\ (Current(t) => Linked(Over(t)))' /\ Fresh(t)'
      BY <1>1, <2>1, RowsKeep DEF Ended
  <2>4. Invalid(t)'
      BY <1>1, <2>1 DEF TxnGrant, Invalid
  <2>5. ASSUME Plain(prog[t]) PROVE Memberships(t)'
    <3>1. Memberships(t)
        BY <1>1, <2>5 DEF TxnGrant, Ended
    <3> QED
        BY <1>1, <2>1, <3>1 DEF Memberships, Filled, Unused, Dropped
  <2>6. ASSUME Outside(prog[t]) PROVE NoRoles(t)'
    <3>1. NoRoles(t)
        BY <1>1, <2>6 DEF TxnGrant, Ended
    <3> QED
        BY <1>1, <2>1, <3>1 DEF NoRoles
  <2>7. ASSUME ByCommand(prog[t]) PROVE Commanded(t)'
    <3>1. Commanded(t)
        BY <1>1, <2>7 DEF TxnGrant, Ended
    <3>2. /\ at[t] \in 1..Len(prog[t].stmts) /\ at[t] # 0 /\ Stmt(t).mode = "command"
          /\ Stmt(t) = prog[t].stmts[at[t]] /\ Stmt(t).actor \in Users \cup {None}
      <4>1. /\ at[t] \in 1..Len(prog[t].stmts) /\ at[t] # 0
            /\ Stmt(t) = prog[t].stmts[at[t]]
            /\ prog[t].tool = None => Stmt(t).actor \in Users \cup {None}
          BY <1>1, StmtIs DEF TxnGrant, Ended, Early
      <4>2. prog[t].tool = None
          BY <2>7 DEF ByCommand, AllIn
      <4> QED
          BY <2>7, <4>1, <4>2, PlainMode
    <3>3. Claims(t) = Stmt(t).actor /\ SameActor(t)
        BY <2>1, <3>2 DEF Claims
    <3>4. Snapped(t)'
      <4>1. CASE start[t] = None
        <5>1. at[t] = 1 /\ DOMAIN own[t] = {}
            BY <3>1, <4>1 DEF Commanded, Snapped
        <5>2. View(t) = db
          <6>1. ~prog[t].rr
              BY <2>7 DEF ByCommand
          <6> QED
              BY <1>1, <5>1, <6>1 DEF View, State
        <5>3. PICK x : x = [actor |-> Stmt(t).actor, rights |-> RightsOf(db, Stmt(t).actor),
                            full |-> Stmt(t).actor \in Holders(db)]
            OBVIOUS
        <5>4. start' = [start EXCEPT ![t] = x] /\ first' = [first EXCEPT ![t] = db]
            BY <1>3, <3>2, <3>3, <4>1, <5>1, <5>2, <5>3 DEF Snapshot, SnapshotMissing
        <5>5. start'[t] = x /\ first'[t] = db
            BY <5>4 DEF GrantInv
        <5>6. x # None
          <6>1. RightsOf(db, Stmt(t).actor) \subseteq Rights
              BY RightsTyped DEF GrantInv
          <6>2. x \in [actor : Users \cup {None}, rights : SUBSET Rights, full : BOOLEAN]
              BY <3>2, <5>3, <6>1
          <6> QED
              BY <6>2, RightsAssumption
        <5>7. /\ x.actor = Stmt(t).actor /\ x.rights = RightsOf(db, x.actor)
              /\ x.full <=> x.actor \in Holders(db)
            BY <5>3
        <5>8. \A i \in 1..at[t] : prog[t].stmts[i].actor = x.actor
            BY <3>2, <5>1, <5>7
        <5>9. /\ x.rights = RightsOf(first'[t], x.actor)
              /\ x.full <=> x.actor \in Holders(first'[t])
            BY <5>5, <5>7
        <5> QED
            BY <2>1, <5>5, <5>6, <5>8, <5>9 DEF Snapped
      <4>2. CASE start[t] # None
        <5>1. /\ start[t].rights = RightsOf(first[t], start[t].actor)
              /\ start[t].full <=> start[t].actor \in Holders(first[t])
              /\ at[t] # 1
              /\ \A i \in 1..at[t] : i < at[t] => prog[t].stmts[i].actor = start[t].actor
            BY <1>1, <3>1, <4>2 DEF Commanded, Snapped
        <5>2. start[t].actor = Stmt(t).actor
            BY <3>3, <4>2 DEF SameActor
        <5>3. start' = start /\ first' = first
            BY <1>3, <4>2, <5>1 DEF Snapshot, SnapshotMissing
        <5>4. \A i \in 1..at[t] : prog[t].stmts[i].actor = start[t].actor
            BY <3>2, <5>1, <5>2
        <5> QED
            BY <2>1, <4>2, <5>1, <5>3, <5>4 DEF Snapped
      <4> QED
          BY <4>1, <4>2
    <3>5. Journaled(t)'
        BY <1>1, <2>1, <3>1 DEF Commanded, Journaled, InFlight, InStmt
    <3>6. Queues(t)'
        BY <1>1, <2>1, <3>1 DEF Commanded, Queues, InFlight, InStmt, Checking
    <3> QED
        BY <2>1, <3>1, <3>4, <3>5, <3>6 DEF Commanded, Checking
  <2> QED
      BY <2>1, <2>2, <2>3, <2>4, <2>5, <2>6, <2>7 DEF TxnGrant
<1> QED
    BY <1>2, <1>3

\* The statement triggers.
LEMMA TriggerGrant ==
  ASSUME NobodyRestored, NEW t \in Txns, GuardInv, GrantInv, Trigger(t)
  PROVE  TxnGrant(t)'
<1>1. State /\ TxnGrant(t) /\ Place(t) /\ pc[t] = "trigger"
    BY DEF GuardInv, GrantInv, TxnInv, Trigger
<1>2. CASE Fail(t, "refused")
    BY <1>1, <1>2, FailGrant DEF Ended
<1>3. CASE ~Fail(t, "refused")
  <2>1. /\ UNCHANGED <<db, ver, prog, at, seen, own, image, start, jrn, pend, exempt, first, vlock>>
        /\ pc'[t] = "bump" /\ ~TriggerRefuses(t)
      BY <1>1, <1>3 DEF Trigger, Goto, State, queue
  <2>2. PICK k, v, s : k = Stmt(t).key /\ v = Stmt(t).value /\ s = Stmt(t)
      OBVIOUS
  <2>3. /\ at[t] \in 1..Len(prog[t].stmts) /\ at[t] # 0 /\ s = prog[t].stmts[at[t]] /\ k \in Keys
        /\ k \in Users /\ s.mode = "maintenance" => ~v
        /\ s.mode \in Modes /\ (prog[t].tool = None => s.actor \in Users \cup {None})
      BY <1>1, <2>2, StmtIs DEF TxnGrant, Ended, Early
  <2>4. Claims(t) = s.actor
      BY <2>2, <2>3 DEF Claims
  <2>5. k \in DOMAIN own[t] /\ own[t][k] = v
      BY <1>1, <2>2 DEF Place, InStmt
  <2>6. ProgKept(t)'
      BY <1>1, <2>1 DEF TxnGrant, ProgKept, Ended, Early
  <2>7. /\ (\A j \in Keys \cap DOMAIN own[t] : Typed(j, own[t][j]))'
        /\ (Current(t) => Linked(Over(t)))' /\ Fresh(t)'
      BY <1>1, <2>1, RowsKeep DEF Ended
  <2>8. Invalid(t)'
    <3>1. ASSUME NEW u \in Users \cap DOMAIN own[t], own[t][u] PROVE db[u]
      <4>1. CASE u # k
          BY <1>1, <2>2, <3>1, <4>1 DEF TxnGrant, Invalid
      <4>2. CASE u = k
        <5>1. v /\ s.mode = "outside" /\ (image[t] => db[k])
            BY <1>1, <2>2, <2>3, <2>5, <3>1, <4>2 DEF TxnGrant, Invalid, Modes
        <5>2. image[t] = v \/ image[t]
            BY <2>1, <2>2, <4>2, <5>1 DEF TriggerRefuses
        <5> QED
            BY <4>2, <5>1, <5>2
      <4> QED
          BY <4>1, <4>2
    <3> QED
        BY <2>1, <3>1 DEF Invalid
  <2>9. ASSUME Plain(prog[t]) PROVE Memberships(t)'
    <3>1. Memberships(t)
        BY <1>1, <2>9 DEF TxnGrant, Ended
    <3>2. ASSUME k \in Members PROVE Filled(t, k, v) \/ Dropped(t, k)
      <4>1. /\ Filled(t, k, image[t])
            /\ s.mode = "command" => image[t] \in {Absent, v} \/ (image[t] = None /\ v = s.actor)
          BY <1>1, <2>2, <3>1, <3>2 DEF Memberships
      <4>2. prog[t].tool = None /\ s.mode \in {"command", "outside"}
          BY <2>2, <2>3, <2>9, PlainMode DEF Plain, ByCommand, Outside, AllIn
      <4>3. \/ image[t] \in {Absent, v} \/ (image[t] = None /\ v = s.actor)
            \/ s.mode = "outside" /\ v = Absent
          BY <2>1, <2>2, <2>4, <3>2, <4>1, <4>2 DEF TriggerRefuses
      <4>4. prog[t] \in Programs
          BY <1>1, <4>2 DEF TxnGrant, ProgKept, Ended
      <4>5. image[t] = Absent => db[k] = Absent \/ Unused(t, k)
        <5>1. ~AcceptedIn(prog[t], k, Absent)
          <6>1. \A i \in 1..Len(prog[t].stmts) : prog[t].stmts[i].actor \in Users \cup {None}
            <7>1. PICK p \in Programs : p = prog[t]
                BY <4>4
            <7>2. DOMAIN p.stmts = 1..Len(p.stmts)
                BY RightsAssumption
            <7>3. \A i \in DOMAIN p.stmts : p.stmts[i].actor \in Users \cup {None}
                BY RightsAssumption
            <7> QED
                BY <7>1, <7>2, <7>3
          <6>2. Absent \notin Users \cup {None}
              BY RightsAssumption DEF Keys
          <6> QED
              BY <6>1, <6>2 DEF AcceptedIn
        <5> QED
            BY <4>1, <5>1 DEF Filled
      <4>6. image[t] = None /\ v = s.actor => AcceptedIn(prog[t], k, v)
          BY <2>2, <2>3 DEF AcceptedIn
      <4>7. image[t] = None => db[k] \in {Absent, None} \/ Unused(t, k)
          BY <4>1 DEF Filled
      <4>8. s.mode = "outside" /\ v = Absent => Dropped(t, k)
          BY <2>2, <2>3, <2>5, <2>9, PlainMode DEF Plain, Dropped
      <4> QED
          BY <4>1, <4>3, <4>5, <4>6, <4>7, <4>8 DEF Filled
    <3>3. \A m \in Members \cap DOMAIN own[t] : Filled(t, m, own[t][m]) \/ Dropped(t, m)
        BY <2>2, <2>5, <3>1, <3>2 DEF Memberships
    <3> QED
        BY <2>1, <3>3 DEF Memberships, Filled, Unused, Dropped
  <2>10. ASSUME Outside(prog[t]) PROVE NoRoles(t)'
    <3>1. NoRoles(t)
        BY <1>1, <2>10 DEF TxnGrant, Ended
    <3>2. k \notin Roles
        BY <2>1, <2>2, <2>3, <2>10, PlainMode DEF TriggerRefuses, Roles
    <3> QED
        BY <2>1, <2>2, <3>1, <3>2 DEF NoRoles
  <2>11. ASSUME ByCommand(prog[t]) PROVE Commanded(t)'
    <3>1. Commanded(t)
        BY <1>1, <2>11 DEF TxnGrant, Ended
    <3>2. Stmt(t)' = Stmt(t)
        BY <2>1 DEF Stmt
    <3>3. Snapped(t)'
        BY <1>1, <2>1, <3>1 DEF Commanded, Snapped
    <3>4. Journaled(t)'
        BY <1>1, <2>1, <3>1, <3>2 DEF Commanded, Journaled, InFlight, InStmt
    <3>5. Queues(t)'
        BY <1>1, <2>1, <3>1, <3>2 DEF Commanded, Queues, InFlight, InStmt, Checking
    <3> QED
        BY <2>1, <3>1, <3>3, <3>4, <3>5 DEF Commanded, Checking
  <2> QED
      BY <2>1, <2>6, <2>7, <2>8, <2>9, <2>10, <2>11 DEF TxnGrant
<1> QED
    BY <1>2, <1>3

\* A statement writes its row.
LEMMA WriteGrant ==
  ASSUME NobodyRestored, NEW t \in Txns, GuardInv, GrantInv, Write(t)
  PROVE  TxnGrant(t)'
<1>1. State /\ TxnGrant(t) /\ Place(t) /\ Locks(t) /\ Snap(t) /\ pc[t] = "write"
    BY DEF GuardInv, GrantInv, TxnInv, Write
<1>2. CASE Fail(t, "thrown")
    BY <1>1, <1>2, FailGrant DEF Ended
<1>3. CASE ~Fail(t, "thrown")
  <2>1. PICK k, v, s : k = Stmt(t).key /\ v = Stmt(t).value /\ s = Stmt(t)
      OBVIOUS
  <2>2. /\ ~(prog[t].rr /\ k \notin DOMAIN own[t] /\ seen[t].db[k] # db[k])
        /\ ~Dangling(t, View(t)) /\ ~Ungranted(t) /\ ~Effects(t)
        /\ image' = [image EXCEPT ![t] = View(t)[k]] /\ own' = [own EXCEPT ![t] = With(own[t], k, v)]
        /\ Goto(t, "trigger")
        /\ UNCHANGED <<db, ver, prog, at, seen, queue, vlock, tlock, answer, gone, first>>
      BY <1>3, <2>1 DEF Write
  <2>3. /\ UNCHANGED <<db, ver, prog, at, seen, start, jrn, pend, exempt, first, vlock>>
        /\ pc'[t] = "trigger" /\ image'[t] = View(t)[k] /\ own'[t] = With(own[t], k, v)
        /\ Stmt(t)' = Stmt(t)
      BY <1>1, <2>2 DEF Goto, State, queue, Stmt
  <2>4. /\ DOMAIN own'[t] = DOMAIN own[t] \cup {k} /\ own'[t][k] = v
        /\ \A j \in DOMAIN own[t] \ {k} : own'[t][j] = own[t][j]
      BY <2>3 DEF With
  <2>5. /\ at[t] \in 1..Len(prog[t].stmts) /\ at[t] # 0 /\ s = prog[t].stmts[at[t]] /\ k \in Keys
        /\ Typed(k, v)
      BY <1>1, <2>1, StmtIs DEF TxnGrant, Ended, Early
  <2>6. Claims(t) = s.actor
      BY <2>1, <2>5 DEF Claims
  <2>7. View(t)[k] = IF k \in DOMAIN own[t] THEN own[t][k] ELSE db[k]
      BY <2>2, <2>5 DEF View
  <2>8. ProgKept(t)' /\ Fresh(t)'
      BY <1>1, <2>3 DEF TxnGrant, ProgKept, Fresh, Ended, Early
  <2>9. (\A j \in Keys \cap DOMAIN own[t] : Typed(j, own[t][j]))'
      BY <1>1, <2>4, <2>5 DEF TxnGrant, Typed, Value
  <2>10. Invalid(t)'
    <3>1. \A u \in Users \cap DOMAIN own[t] : own[t][u] => db[u]
        BY <1>1 DEF TxnGrant, Invalid
    <3>2. \A u \in Users \cap DOMAIN own'[t] : own'[t][u] => db[u] \/ u = k
        BY <2>4, <3>1
    <3>3. k \in Users => (image'[t] => db[k])
        BY <2>3, <2>7, <3>1
    <3>4. k \in Users => s.mode # "command"
        BY <2>1, <2>2 DEF Effects
    <3> QED
        BY <2>1, <2>3, <3>2, <3>3, <3>4 DEF Invalid
  <2>11. ASSUME Current(t)' PROVE Linked(Over(t)')
    <3>1. Current(t)
        BY <1>1, <2>3, <2>11 DEF Current, Ended
    <3>2. \A j \in Rows : View(t)[j] = Over(t)[j]
        BY <1>1, <3>1, ViewIsOver DEF Ended
    <3>3. PICK d, e : d = Over(t) /\ e = Over(t)'
        OBVIOUS
    <3>4. Linked(d) /\ SubjectsOk(d)
        BY <1>1, <3>1, <3>3, OverSubjects DEF TxnGrant
    <3>5. e[k] = v /\ \A j \in Keys \ {k} : e[j] = d[j]
        BY <2>3, <2>4, <2>5, <3>3 DEF Over
    <3>6. \A j \in Rows : j \in Keys
        BY DEF Rows, Keys
    <3>7. /\ k \in Members /\ v = Absent => \A a \in Assigns : d[a] # Absent => d[a].subject # k
          /\ k \in Assigns /\ v # Absent => v.subject \in Members /\ d[v.subject] # Absent
      <4>1. k \in Assigns /\ v # Absent => v.subject \in Members
          BY <2>5, RightsAssumption DEF Typed, Value, Assignment
      <4> QED
          BY <2>1, <2>2, <3>2, <3>3, <4>1 DEF Dangling, Rows
    <3>8. ASSUME NEW a \in Assigns, e[a] # Absent PROVE e[e[a].subject] # Absent
      <4>0. a \in Keys /\ a \notin Members
          BY RightsAssumption DEF Keys
      <4>1. CASE a = k
        <5>1. v.subject \in Members /\ d[v.subject] # Absent /\ v.subject \in Keys /\ v.subject # k
            BY <3>5, <3>7, <3>8, <4>0, <4>1 DEF Keys
        <5> QED
            BY <3>5, <4>1, <5>1
      <4>2. CASE a # k
        <5>1. e[a] = d[a] /\ d[a] # Absent /\ d[a].subject \in Members /\ d[d[a].subject] # Absent
            BY <3>4, <3>5, <3>8, <4>0, <4>2 DEF Linked, SubjectsOk, SubjectOk
        <5>2. CASE d[a].subject = k
            BY <3>5, <3>7, <5>1, <5>2
        <5>3. CASE d[a].subject # k
            BY <3>5, <5>1, <5>3 DEF Keys
        <5> QED
            BY <5>2, <5>3
      <4> QED
          BY <4>1, <4>2
    <3>9. Linked(e)
        BY <3>8 DEF Linked
    <3> QED
        BY <3>3, <3>9
  <2>12. ASSUME Plain(prog[t]) PROVE Memberships(t)'
    <3>1. Memberships(t)
        BY <1>1, <2>12 DEF TxnGrant, Ended
    <3>2. \A m \in Members \cap DOMAIN own[t] : Filled(t, m, own[t][m]) \/ Dropped(t, m)
        BY <1>1, <3>1 DEF Memberships
    <3>3. k \in Members => Filled(t, k, View(t)[k])
      <4>1. ASSUME k \in Members, k \in DOMAIN own[t], Dropped(t, k) PROVE Unused(t, k)
        <5>1. vlock["scope"] = t
            BY <1>1, <4>1, RightsAssumption DEF Locks, InStmt
        <5>2. Linked(Over(t))
            BY <1>1, <5>1 DEF TxnGrant, Current, Snap
        <5>3. \A a \in Assigns : Over(t)[a] = db[a]
            BY <1>1, <4>1 DEF TxnGrant, Dropped, NoRoles, Ended, Roles, Over, Keys
        <5>4. Over(t)[k] = Absent
            BY <2>5, <4>1 DEF Dropped, Over
        <5> QED
            BY <4>1, <5>1, <5>2, <5>3, <5>4 DEF Unused, Dropped, Linked
      <4> QED
          BY <2>7, <3>2, <4>1 DEF Filled
    <3>4. k \in Members /\ s.mode = "command" =>
            View(t)[k] \in {Absent, v} \/ (View(t)[k] = None /\ v = s.actor)
        BY <2>1, <2>2, <2>6 DEF Effects, Ungranted
    <3>5. \A m \in Members \cap DOMAIN own'[t] : m = k \/ Filled(t, m, own'[t][m]) \/ Dropped(t, m)'
        BY <2>3, <2>4, <3>2 DEF Dropped
    <3>6. \A m \in Members \cap DOMAIN own'[t] :
            \/ m = k \/ db'[m] = Absent \/ own'[t][m] = db'[m] \/ Unused(t, m)' \/ Dropped(t, m)'
            \/ db'[m] = None /\ AcceptedIn(prog'[t], m, own'[t][m])
        BY <2>3, <3>5 DEF Filled, Unused
    <3>7. k \in Members =>
            \/ db'[k] = Absent \/ image'[t] = db'[k] \/ Unused(t, k)'
            \/ db'[k] = None /\ AcceptedIn(prog'[t], k, image'[t])
        BY <2>3, <3>3 DEF Filled, Unused
    <3>8. k = Stmt(t)'.key /\ v = Stmt(t)'.value /\ s = Stmt(t)'
        BY <2>1, <2>3
    <3>9. k \in Members /\ s.mode = "command" =>
            image'[t] \in {Absent, v} \/ (image'[t] = None /\ v = s.actor)
        BY <2>3, <3>4
    <3> QED
        BY <2>3, <3>6, <3>7, <3>8, <3>9 DEF Memberships, Filled
  <2>13. ASSUME Outside(prog[t]) PROVE NoRoles(t)'
    <3>1. NoRoles(t)
        BY <1>1, <2>13 DEF TxnGrant, Ended
    <3> QED
        BY <1>1, <2>1, <2>3, <2>4, <3>1 DEF NoRoles
  <2>14. ASSUME ByCommand(prog[t]) PROVE Commanded(t)'
    <3>1. Commanded(t)
        BY <1>1, <2>14 DEF TxnGrant, Ended
    <3>2. Snapped(t)'
        BY <1>1, <2>3, <3>1 DEF Commanded, Snapped
    <3>3. Journaled(t)'
      <4>1. /\ \A j \in DOMAIN jrn[t] : j \in Roles \cap DOMAIN own[t] /\ jrn[t][j] = db[j]
            /\ \A j \in Roles \cap DOMAIN own[t] : j \in DOMAIN jrn[t]
          BY <1>1, <3>1 DEF Commanded, Journaled, InFlight, InStmt
      <4>2. k \in Roles => k \in DOMAIN jrn[t] \/ image'[t] = db[k]
          BY <2>3, <2>7, <4>1
      <4> QED
          BY <2>1, <2>3, <2>4, <4>1, <4>2 DEF Journaled, InFlight, InStmt
    <3>4. Queues(t)'
      <4>1. /\ \A a \in Assigns \cap DOMAIN own[t] : Key("assignment", a) \in pend[t]
            /\ \A c \in Customs \cap DOMAIN own[t] : Key("role", c) \in pend[t]
            /\ \A j \in Rows \cap DOMAIN own[t] : Key("actor", None) \in pend[t]
          BY <1>1, <3>1 DEF Commanded, Queues, InFlight, InStmt, Checking
      <4>2. /\ pc'[t] \in InStmt /\ k = Stmt(t)'.key /\ pend' = pend
            /\ \A j \in DOMAIN own'[t] : j \in DOMAIN own[t] \/ j = k
          BY <2>1, <2>3, <2>4 DEF InStmt
      <4> QED
          BY <4>1, <4>2 DEF Queues, InFlight
    <3> QED
        BY <2>3, <3>1, <3>2, <3>3, <3>4 DEF Commanded, Checking
  <2> QED
      BY <2>3, <2>8, <2>9, <2>10, <2>11, <2>12, <2>13, <2>14 DEF TxnGrant
<1> QED
    BY <1>2, <1>3

\* The keys a row of a transaction with a snapshot queues.
LEMMA KeysQueued ==
  ASSUME NEW t, NEW k, k = Stmt(t).key, start[t] # None
  PROVE  /\ k \in Assigns => Key("assignment", k) \in Pending(t)
         /\ k \in Customs => Key("role", k) \in Pending(t)
         /\ k \in Rows => Key("actor", None) \in Pending(t)
<1>1. CASE k \in Assigns
    BY <1>1, RightsAssumption DEF Pending
<1>2. CASE k \in Customs
    BY <1>2, RightsAssumption DEF Pending
<1>3. CASE k \in Members
    BY <1>3, RightsAssumption DEF Pending
<1> QED
    BY <1>1, <1>2, <1>3 DEF Rows

\* The end of a statement: the version, the journal, the queue.
LEMMA BumpGrant ==
  ASSUME NobodyRestored, NEW t \in Txns, GuardInv, GrantInv, Bump(t)
  PROVE  TxnGrant(t)'
<1>1. State /\ TxnGrant(t) /\ Place(t) /\ pc[t] = "bump"
    BY DEF GuardInv, GrantInv, TxnInv, Bump
<1>2. CASE Fail(t, "thrown")
    BY <1>1, <1>2, FailGrant DEF Ended
<1>3. CASE ~Fail(t, "thrown")
  <2>1. PICK k : k = Stmt(t).key
      OBVIOUS
  <2>2. /\ UNCHANGED <<db, ver, prog, seen, own, image, start, first>>
        /\ jrn' = IF k \in Roles /\ Stmt(t).mode = "command" /\ k \notin DOMAIN jrn[t]
                  THEN [jrn EXCEPT ![t] = With(jrn[t], k, image[t])] ELSE jrn
        /\ vlock["scope"] = t => vlock'["scope"] = t
        /\ pend' = [pend EXCEPT ![t] = pend[t] \cup Pending(t)]
        /\ exempt' = [exempt EXCEPT ![t] = Merge(t, Pending(t))]
        /\ IF prog[t].immediate \/ at[t] = Len(prog[t].stmts) THEN After(t) ELSE Following(t)
      BY <1>1, <1>3, <2>1 DEF Bump, Roles, Versions
  <2>3. /\ pend'[t] = pend[t] \cup Pending(t) /\ exempt'[t] = Merge(t, Pending(t))
        /\ k \in Roles /\ Stmt(t).mode = "command" /\ k \notin DOMAIN jrn[t] =>
             jrn'[t] = With(jrn[t], k, image[t])
        /\ ~(k \in Roles /\ Stmt(t).mode = "command" /\ k \notin DOMAIN jrn[t]) => jrn'[t] = jrn[t]
      BY <1>1, <2>2 DEF State, GrantInv
  <2>4. /\ at[t] \in 1..Len(prog[t].stmts) /\ Len(prog[t].stmts) \in Nat /\ k \in Keys
        /\ Stmt(t) = prog[t].stmts[at[t]]
      BY <1>1, <2>1, StmtIs DEF TxnGrant, Ended, Early
  <2>5. \/ /\ pc'[t] = "snapshot" /\ at'[t] = at[t] + 1
           /\ ~prog[t].immediate /\ at[t] # Len(prog[t].stmts)
        \/ /\ pc'[t] = (IF prog[t].tool = None THEN "check" ELSE "effective") /\ at'[t] = at[t]
           /\ prog[t].immediate \/ at[t] = Len(prog[t].stmts)
    <3>1. CASE prog[t].immediate \/ at[t] = Len(prog[t].stmts)
        BY <1>1, <2>2, <3>1 DEF After, Goto, State
    <3>2. CASE ~(prog[t].immediate \/ at[t] = Len(prog[t].stmts))
        BY <1>1, <2>2, <3>2 DEF Following, Goto, State
    <3> QED
        BY <3>1, <3>2
  <2>6. ProgKept(t)'
      BY <1>1, <2>2, <2>5 DEF TxnGrant, ProgKept, Ended, Early
  <2>7. pc'[t] \in {"snapshot", "check", "effective"}
      BY <2>5
  <2>8. /\ (\A j \in Keys \cap DOMAIN own[t] : Typed(j, own[t][j]))'
        /\ (Current(t) => Linked(Over(t)))' /\ Fresh(t)'
      BY <1>1, <2>2, <2>7, RowsKeep DEF Ended
  <2>9. Invalid(t)'
      BY <1>1, <2>2, <2>7 DEF TxnGrant, Invalid
  <2>10. ASSUME Plain(prog[t]) PROVE Memberships(t)'
    <3>1. Memberships(t)
        BY <1>1, <2>10 DEF TxnGrant, Ended
    <3> QED
        BY <1>1, <2>2, <2>7, <3>1 DEF Memberships, Filled, Unused, Dropped
  <2>11. ASSUME Outside(prog[t]) PROVE NoRoles(t)'
    <3>1. NoRoles(t)
        BY <1>1, <2>11 DEF TxnGrant, Ended
    <3> QED
        BY <1>1, <2>2, <2>7, <3>1 DEF NoRoles
  <2>12. ASSUME ByCommand(prog[t]) PROVE Commanded(t)'
    <3>1. Commanded(t)
        BY <1>1, <2>12 DEF TxnGrant, Ended
    <3>2. Stmt(t).mode = "command" /\ ~prog[t].immediate /\ prog[t].tool = None
        BY <2>4, <2>12, PlainMode DEF ByCommand, AllIn
    <3>3. exempt'[t] = {}
        BY <2>3, <3>1, <3>2 DEF Merge, Commanded
    <3>4. start[t] # None /\ pc'[t] \notin InStmt
        BY <1>1, <2>7, <3>1 DEF Commanded, Snapped, InStmt
    <3>5. Snapped(t)'
      <4>1. /\ start[t].rights = RightsOf(first[t], start[t].actor)
            /\ start[t].full <=> start[t].actor \in Holders(first[t])
            /\ \A i \in 1..at[t] : prog[t].stmts[i].actor = start[t].actor
          BY <1>1, <3>1 DEF Commanded, Snapped
      <4>2. CASE pc'[t] = "snapshot" /\ at'[t] = at[t] + 1
        <5>1. at'[t] # 1 /\ \A i \in 1..at'[t] : i < at'[t] => i \in 1..at[t]
            BY <2>4, <4>2
        <5> QED
            BY <2>2, <3>4, <4>1, <4>2, <5>1 DEF Snapped
      <4>3. CASE pc'[t] # "snapshot" /\ at'[t] = at[t]
          BY <2>2, <3>4, <4>1, <4>3 DEF Snapped
      <4> QED
          BY <2>5, <4>2, <4>3
    <3>6. Journaled(t)'
      <4>1. Journaled(t)
          BY <3>1 DEF Commanded
      <4>2. \A j \in Roles \cap DOMAIN own[t] : j \in DOMAIN jrn[t] \/ j = k
          BY <2>1, <4>1 DEF Journaled, InFlight
      <4>3. k \in DOMAIN own[t]
          BY <1>1, <2>1 DEF Place, InStmt
      <4>4. CASE k \in Roles /\ k \notin DOMAIN jrn[t]
        <5>1. jrn'[t] = With(jrn[t], k, image[t]) /\ image[t] = db[k]
            BY <1>1, <2>1, <2>3, <3>2, <4>1, <4>4 DEF Journaled, InStmt
        <5>2. /\ DOMAIN jrn'[t] = DOMAIN jrn[t] \cup {k} /\ jrn'[t][k] = db[k]
              /\ \A j \in DOMAIN jrn[t] : jrn'[t][j] = jrn[t][j]
            BY <4>4, <5>1 DEF With
        <5>3. \A j \in DOMAIN jrn'[t] : j \in Roles \cap DOMAIN own[t] /\ jrn'[t][j] = db[j]
            BY <4>1, <4>3, <4>4, <5>2 DEF Journaled
        <5> QED
            BY <2>2, <3>4, <4>2, <5>2, <5>3 DEF Journaled
      <4>5. CASE k \notin Roles \/ k \in DOMAIN jrn[t]
          BY <2>2, <2>3, <3>4, <4>1, <4>2, <4>5 DEF Journaled
      <4> QED
          BY <4>4, <4>5
    <3>7. Queues(t)'
      <4>1. /\ \A a \in Assigns \cap DOMAIN own[t] : a = k \/ Key("assignment", a) \in pend[t]
            /\ \A c \in Customs \cap DOMAIN own[t] : c = k \/ Key("role", c) \in pend[t]
            /\ \A j \in Rows \cap DOMAIN own[t] : j = k \/ Key("actor", None) \in pend[t]
          BY <1>1, <2>1, <3>1 DEF Commanded, Queues, InFlight, Checking
      <4>2. /\ \A a \in Assigns \cap DOMAIN own[t] : Key("assignment", a) \in pend'[t]
            /\ \A c \in Customs \cap DOMAIN own[t] : Key("role", c) \in pend'[t]
            /\ \A j \in Rows \cap DOMAIN own[t] : Key("actor", None) \in pend'[t]
          BY <2>1, <2>3, <3>4, <4>1, KeysQueued
      <4> QED
          BY <2>2, <4>2 DEF Queues
    <3>8. (pc[t] \in Checking => at[t] = Len(prog[t].stmts))'
        BY <2>2, <2>5, <3>2 DEF Checking
    <3> QED
        BY <3>3, <3>5, <3>6, <3>7, <3>8 DEF Commanded
  <2> QED
      BY <2>2, <2>6, <2>8, <2>9, <2>10, <2>11, <2>12 DEF TxnGrant
<1> QED
    BY <1>2, <1>3

\* Where the checks run, the journal gives the tables back.
LEMMA EarlierIs ==
  ASSUME NEW t \in Txns, ByCommand(prog[t]), Journaled(t), pc[t] \notin InStmt
  PROVE  \A k \in Roles : Earlier(t)[k] = db[k]
<1> SUFFICES ASSUME NEW k \in Roles PROVE Earlier(t)[k] = db[k]
    OBVIOUS
<1>1. k \in Keys
    BY DEF Roles, Keys
<1>2. CASE k \in DOMAIN jrn[t]
    BY <1>1, <1>2 DEF Earlier, Journaled
<1>3. CASE k \notin DOMAIN jrn[t]
  <2>1. k \notin DOMAIN own[t] /\ ~prog[t].rr
      BY <1>3 DEF Journaled, InFlight, ByCommand
  <2> QED
      BY <1>1, <1>3, <2>1 DEF Earlier, View
<1> QED
    BY <1>2, <1>3

\* What the rows of roles and assignments alone decide.
LEMMA RolesAlike ==
  ASSUME NEW d, NEW e, \A k \in Roles : e[k] = d[k], \A a \in Assigns : Typed(a, d[a])
  PROVE  /\ \A c \in Archetypes \cup Customs : RoleGrants(e, c) = RoleGrants(d, c)
         /\ \A a \in Assigns : e[a] = d[a] /\ Given(e, a) = Given(d, a)
<1>1. \A c \in Archetypes \cup Customs : RoleGrants(e, c) = RoleGrants(d, c)
    BY DEF RoleGrants, Roles
<1>2. ASSUME NEW a \in Assigns PROVE e[a] = d[a] /\ Given(e, a) = Given(d, a)
  <2>1. e[a] = d[a] /\ (Live(e, a) <=> Live(d, a))
      BY DEF Roles, Live
  <2>2. Live(d, a) => d[a].role \in Archetypes \cup Customs
      BY RoleTyped DEF Live
  <2> QED
      BY <1>1, <2>1, <2>2 DEF Given
<1> QED
    BY <1>1, <1>2

\* A key that is not refused finds its row within the rights of the start.
LEMMA NotRefused ==
  ASSUME NEW t \in Txns, GrantInv, ByCommand(prog[t]), Commanded(t), pc[t] = "check"
  PROVE  /\ \A a \in Assigns : ~Refused(t, Key("assignment", a)) => AssignFine(t, a)
         /\ \A c \in Customs : ~Refused(t, Key("role", c)) => RoleFine(t, c)
         /\ ~Refused(t, Key("actor", None)) => ActorFine(t)
<1>1. exempt[t] = {} /\ start[t] # None
    BY DEF Commanded, Snapped
<1>2. \A g : ~Escalates(t, g) => Within(t, g)
    BY <1>1 DEF Escalates, Within
<1>3. \A k \in Roles : Earlier(t)[k] = db[k]
    BY EarlierIs DEF Commanded, InStmt
<1>4. PICK e : e = Earlier(t)
    OBVIOUS
<1>5. \A a \in Assigns : Typed(a, db[a])
    BY DEF GrantInv, Keys
<1>6. /\ \A c \in Archetypes \cup Customs : RoleGrants(e, c) = RoleGrants(db, c)
      /\ \A a \in Assigns : e[a] = db[a] /\ Given(e, a) = Given(db, a)
    BY <1>3, <1>4, <1>5, RolesAlike
<1>7. ASSUME NEW a \in Assigns, ~Refused(t, Key("assignment", a)) PROVE AssignFine(t, a)
  <2>1. ~Escalates(t, Given(View(t), a) \ GivenBefore(t, a))
    <3>1. PICK p : p = Key("assignment", a)
        OBVIOUS
    <3>2. p.kind = "assignment" /\ p.key = a /\ p \notin exempt[t]
        BY <1>1, <3>1 DEF Key
    <3> QED
        BY <1>7, <3>1, <3>2 DEF Refused
  <2>2. GivenBefore(t, a) = GivenIn(db, View(t), a)
      BY <1>4, <1>6 DEF GivenBefore, GivenIn
  <2> QED
      BY <1>2, <2>1, <2>2 DEF AssignFine
<1>8. ASSUME NEW c \in Customs, ~Refused(t, Key("role", c)) PROVE RoleFine(t, c)
  <2>1. ~Escalates(t, RoleGrants(View(t), c) \ RoleGrants(e, c))
    <3>1. PICK p : p = Key("role", c)
        OBVIOUS
    <3>2. p.kind = "role" /\ p.key = c /\ p \notin exempt[t]
        BY <1>1, <3>1 DEF Key
    <3> QED
        BY <1>4, <1>8, <3>1, <3>2 DEF Refused
  <2>2. RoleGrants(e, c) = RoleGrants(db, c)
      BY <1>6
  <2> QED
      BY <1>2, <2>1, <2>2 DEF RoleFine
<1>9. ASSUME ~Refused(t, Key("actor", None)) PROVE ActorFine(t)
  <2>1. ~Escalates(t, RightsOf(View(t), start[t].actor) \ start[t].rights)
    <3>1. PICK p : p = Key("actor", None)
        OBVIOUS
    <3>2. p.kind = "actor" /\ p \notin exempt[t]
        BY <1>1, <3>1 DEF Key
    <3> QED
        BY <1>9, <3>1, <3>2 DEF Refused
  <2>2. Within(t, RightsOf(View(t), start[t].actor) \ start[t].rights)
      BY <1>2, <2>1
  <2> QED
      BY <2>2 DEF ActorFine, Within
<1> QED
    BY <1>7, <1>8, <1>9

\* The checks of the keys, the way to the next statement or to COMMIT.
LEMMA CheckGrant ==
  ASSUME NEW t \in Txns, GuardInv, GrantInv, Check(t)
  PROVE  TxnGrant(t)'
<1>1. State /\ TxnGrant(t) /\ Place(t) /\ pc[t] = "check"
    BY DEF GuardInv, GrantInv, TxnInv, Check
<1>2. CASE Fail(t, "refused")
    BY <1>1, <1>2, FailGrant DEF Ended
<1>3. CASE ~Fail(t, "refused")
  <2>1. /\ UNCHANGED <<db, ver, prog, seen, own, image, start, jrn, first, vlock>>
        /\ \/ /\ pc'[t] = "check" /\ at'[t] = at[t]
              /\ \E p \in pend[t] : ~Refused(t, p) /\ pend'[t] = pend[t] \ {p} /\ exempt'[t] = exempt[t] \ {p}
           \/ /\ pc'[t] = "snapshot" /\ at[t] < Len(prog[t].stmts)
              /\ pend'[t] = pend[t] /\ exempt'[t] = exempt[t]
           \/ /\ pc'[t] = "commit" /\ at'[t] = at[t] /\ pend'[t] = pend[t] /\ exempt'[t] = exempt[t]
    <3>1. CASE \E p \in pend[t] :
                 /\ ~Refused(t, p)
                 /\ pend' = [pend EXCEPT ![t] = @ \ {p}]
                 /\ exempt' = [exempt EXCEPT ![t] = @ \ {p}]
                 /\ UNCHANGED <<db, ver, place, own, image, start, jrn, vlock, tlock, answer, gone, first>>
        BY <1>1, <3>1 DEF State, GrantInv, place
    <3>2. CASE /\ pend[t] = {} /\ at[t] < Len(prog[t].stmts) /\ Following(t)
               /\ UNCHANGED <<db, ver, prog, seen, own, image, queue, vlock, tlock, answer, gone, first>>
        BY <1>1, <3>2 DEF State, Following, Goto, queue
    <3>3. CASE /\ pend[t] = {} /\ at[t] = Len(prog[t].stmts) /\ Goto(t, "commit")
               /\ UNCHANGED <<db, ver, prog, at, seen, own, image, queue, vlock, tlock, answer, gone, first>>
        BY <1>1, <3>3 DEF State, Goto, queue
    <3> QED
        BY <1>3, <3>1, <3>2, <3>3 DEF Check
  <2>2. pc'[t] \in {"check", "snapshot", "commit"}
      BY <2>1
  <2>3. ProgKept(t)'
      BY <1>1, <2>1, <2>2 DEF TxnGrant, ProgKept, Ended, Early
  <2>4. /\ (\A j \in Keys \cap DOMAIN own[t] : Typed(j, own[t][j]))'
        /\ (Current(t) => Linked(Over(t)))' /\ Fresh(t)'
      BY <1>1, <2>1, <2>2, RowsKeep DEF Ended
  <2>5. Invalid(t)'
      BY <1>1, <2>1, <2>2 DEF TxnGrant, Invalid
  <2>6. ASSUME Plain(prog[t]) PROVE Memberships(t)'
    <3>1. Memberships(t)
        BY <1>1, <2>6 DEF TxnGrant, Ended
    <3> QED
        BY <1>1, <2>1, <2>2, <3>1 DEF Memberships, Filled, Unused, Dropped
  <2>7. ASSUME Outside(prog[t]) PROVE NoRoles(t)'
    <3>1. NoRoles(t)
        BY <1>1, <2>7 DEF TxnGrant, Ended
    <3> QED
        BY <1>1, <2>1, <2>2, <3>1 DEF NoRoles
  <2>8. ASSUME ByCommand(prog[t]) PROVE Commanded(t)'
    <3>1. Commanded(t)
        BY <1>1, <2>8 DEF TxnGrant, Ended
    <3>2. at[t] = Len(prog[t].stmts) /\ Len(prog[t].stmts) \in Nat
        BY <1>1, <3>1 DEF Commanded, Checking, Place, ProgOk, Ended
    <3>3. pc'[t] \in Checking /\ at'[t] = at[t]
        BY <2>1, <3>2 DEF Checking
    <3>4. \/ pend'[t] = pend[t] /\ exempt'[t] = exempt[t]
          \/ \E p \in pend[t] : ~Refused(t, p) /\ pend'[t] = pend[t] \ {p} /\ exempt'[t] = exempt[t] \ {p}
        BY <2>1
    <3>5. exempt'[t] = {}
        BY <3>1, <3>4 DEF Commanded
    <3>6. Snapped(t)'
        BY <1>1, <2>1, <3>1, <3>3 DEF Commanded, Snapped, Checking
    <3>7. Journaled(t)'
        BY <1>1, <2>1, <3>1, <3>3 DEF Commanded, Journaled, InFlight, InStmt, Checking
    <3>8. Queues(t)'
      <4>1. \A q : q \in pend[t] => q \in pend'[t] \/ ~Refused(t, q)
          BY <3>4
      <4>2. /\ \A a \in Assigns \cap DOMAIN own[t] : Key("assignment", a) \in pend'[t] \/ AssignFine(t, a)
            /\ \A c \in Customs \cap DOMAIN own[t] : Key("role", c) \in pend'[t] \/ RoleFine(t, c)
            /\ \A k \in Rows \cap DOMAIN own[t] : Key("actor", None) \in pend'[t] \/ ActorFine(t)
          BY <1>1, <2>8, <3>1, <4>1, NotRefused DEF Commanded, Queues, InFlight, InStmt
      <4>3. View(t)' = View(t)
          BY <2>1, ViewSame
      <4>4. /\ \A a : AssignFine(t, a)' <=> AssignFine(t, a)
            /\ \A c : RoleFine(t, c)' <=> RoleFine(t, c)
            /\ ActorFine(t)' <=> ActorFine(t)
          BY <2>1, <4>3 DEF AssignFine, RoleFine, ActorFine, Within, GivenIn
      <4> QED
          BY <2>1, <3>3, <4>2, <4>4 DEF Queues
    <3> QED
        BY <2>1, <3>2, <3>3, <3>5, <3>6, <3>7, <3>8 DEF Commanded
  <2> QED
      BY <2>1, <2>3, <2>4, <2>5, <2>6, <2>7, <2>8 DEF TxnGrant
<1> QED
    BY <1>2, <1>3

-----------------------------------------------------------------------------
(* COMMIT and the foreign key *)

\* A commit leaves the rows of the transaction over the tables, typed and linked, and
\* makes nobody valid.
LEMMA CommitRows ==
  ASSUME NEW t \in Txns, GuardInv, GrantInv, Commit(t)
  PROVE  /\ db' = Over(t) /\ Linked(db') /\ \A k \in Keys : Typed(k, db'[k])
         /\ \A u \in Users : db'[u] => db[u]
         /\ vlock["scope"] # t => \A k \in Rows : k \notin DOMAIN own[t] /\ db'[k] = db[k]
<1>1. State /\ TxnInv(t) /\ TxnGrant(t) /\ pc[t] = "commit"
    BY DEF GuardInv, GrantInv, Commit
<1>2. db' = Over(t)
    BY DEF Commit, Over
<1>3. \A k \in Keys : db'[k] = IF k \in DOMAIN own[t] THEN own[t][k] ELSE db[k]
    BY DEF Commit
<1>4. \A k \in Keys : Typed(k, db'[k])
    BY <1>1, <1>3 DEF TxnGrant, GrantInv
<1>5. \A u \in Users : db'[u] => db[u]
    BY <1>1, <1>3 DEF TxnGrant, Invalid, Keys
<1>6. vlock["scope"] # t => \A k \in Rows : k \notin DOMAIN own[t] /\ db'[k] = db[k]
  <2> SUFFICES ASSUME vlock["scope"] # t, NEW k \in Rows PROVE k \notin DOMAIN own[t] /\ db'[k] = db[k]
      OBVIOUS
  <2>1. k \in Keys /\ k \notin Users
      BY RightsAssumption DEF Rows, Keys
  <2>2. k \notin DOMAIN own[t]
      BY <1>1, <2>1 DEF TxnInv, Locks, InStmt
  <2> QED
      BY <1>3, <2>1, <2>2
<1>7. Linked(db')
  <2>1. CASE vlock["scope"] = t
    <3>1. Current(t)
        BY <1>1, <2>1 DEF TxnInv, Snap, Current
    <3> QED
        BY <1>1, <1>2, <3>1 DEF TxnGrant
  <2>2. CASE vlock["scope"] # t
    <3>1. PICK e : e = db'
        OBVIOUS
    <3>2. (\A k \in Rows : e[k] = db[k]) /\ Linked(db) /\ SubjectsOk(db)
        BY <1>1, <1>6, <2>2, <3>1 DEF GrantInv, State
    <3>3. Linked(e)
        BY <3>2, LinkedAlike
    <3> QED
        BY <3>1, <3>3
  <2> QED
      BY <2>1, <2>2
<1> QED
    BY <1>2, <1>4, <1>5, <1>6, <1>7

\* Another transaction at READ COMMITTED stays linked: the locks of the rows keep an
\* assignment and the deletion of its member apart.
LEMMA LinkedBeside ==
  ASSUME NEW t \in Txns, NEW u \in Txns \ {t}, GuardInv, Linked(Over(t)), Linked(Over(u)), Linked(db)
  PROVE  Linked([k \in Keys |-> IF k \in DOMAIN own[u] THEN own[u][k] ELSE Over(t)[k]])
<1>1. State /\ Place(t) /\ Place(u) /\ Apart(t, u) /\ Apart(u, t)
    BY DEF GuardInv, TxnInv
<1>2. PICK d, e, f : /\ d = Over(t) /\ e = Over(u)
                     /\ f = [k \in Keys |-> IF k \in DOMAIN own[u] THEN own[u][k] ELSE Over(t)[k]]
    OBVIOUS
<1>3. /\ \A k \in Keys : d[k] = IF k \in DOMAIN own[t] THEN own[t][k] ELSE db[k]
      /\ \A k \in Keys : e[k] = IF k \in DOMAIN own[u] THEN own[u][k] ELSE db[k]
      /\ \A k \in Keys : f[k] = IF k \in DOMAIN own[u] THEN own[u][k] ELSE d[k]
    BY <1>2 DEF Over
<1>4. Linked(d) /\ Linked(e) /\ SubjectsOk(d) /\ SubjectsOk(e)
    BY <1>1, <1>2, OverSubjects
<1>5. DOMAIN own[t] \cap DOMAIN own[u] = {}
    BY <1>1 DEF Apart
<1>6. ASSUME NEW a \in Assigns, f[a] # Absent PROVE f[f[a].subject] # Absent
  <2>1. a \in Keys
      BY DEF Keys
  <2>2. CASE a \in DOMAIN own[u]
    <3>1. e[a] = f[a] /\ f[a] = own[u][a] /\ f[a].subject \in Members /\ e[f[a].subject] # Absent
        BY <1>3, <1>4, <1>6, <2>1, <2>2 DEF Linked, SubjectsOk, SubjectOk
    <3>2. PICK m \in Members : m = f[a].subject
        BY <3>1
    <3>3. m \in Keys
        BY DEF Keys
    <3>4. CASE m \in DOMAIN own[t]
      <4>1. own[t][m] # Absent
          BY <1>1, <1>6, <2>2, <3>1, <3>2, <3>4 DEF Apart
      <4>2. m \notin DOMAIN own[u]
          BY <1>5, <3>4
      <4> QED
          BY <1>3, <3>2, <3>3, <3>4, <4>1, <4>2
    <3>5. CASE m \notin DOMAIN own[t]
        BY <1>3, <3>1, <3>2, <3>3, <3>5
    <3> QED
        BY <3>4, <3>5
  <2>3. CASE a \notin DOMAIN own[u]
    <3>1. f[a] = d[a] /\ d[a] # Absent /\ d[a].subject \in Members /\ d[d[a].subject] # Absent
        BY <1>3, <1>4, <1>6, <2>1, <2>3 DEF Linked, SubjectsOk, SubjectOk
    <3>2. PICK m \in Members : m = f[a].subject /\ d[m] # Absent
        BY <3>1
    <3>3. m \in Keys
        BY DEF Keys
    <3>4. CASE m \in DOMAIN own[u]
      <4>1. own[u][m] # Absent
        <5>1. CASE a \in DOMAIN own[t]
          <6>1. own[t][a] = f[a] /\ own[t][a] # Absent /\ own[t][a].subject = m
              BY <1>3, <1>6, <2>1, <3>1, <3>2, <5>1
          <6> QED
              BY <1>1, <3>4, <5>1, <6>1 DEF Apart
        <5>2. CASE a \notin DOMAIN own[t]
          <6>1. e[a] = f[a]
              BY <1>3, <2>1, <2>3, <3>1, <5>2
          <6>2. e[m] # Absent
              BY <1>4, <1>6, <3>2, <6>1 DEF Linked
          <6> QED
              BY <1>3, <3>3, <3>4, <6>2
        <5> QED
            BY <5>1, <5>2
      <4> QED
          BY <1>3, <3>2, <3>3, <3>4, <4>1
    <3>5. CASE m \notin DOMAIN own[u]
        BY <1>3, <3>2, <3>3, <3>5
    <3> QED
        BY <3>4, <3>5
  <2> QED
      BY <2>2, <2>3
<1> QED
    BY <1>2, <1>6 DEF Linked

\* What t has accounted for before a commit of another transaction.
LEMMA BesideCommit ==
  ASSUME NEW t \in Txns, NEW u \in Txns \ {t}, GuardInv, GrantInv, Commit(t)
  PROVE  TxnGrant(u)'
<1>1. /\ State /\ TxnInv(u) /\ TxnGrant(u) /\ TxnInv(t) /\ TxnGrant(t) /\ pc[t] = "commit"
      /\ Apart(t, u)
    BY DEF GuardInv, GrantInv, Commit
<1>2. Still(u)
  <2>1. Domains /\ Step(t)
      BY DEF GrantInv, Domains, Step
  <2> QED
      BY <1>1, <2>1, StepStill
<1>3. Stmt(u)' = Stmt(u)
    BY <1>2 DEF Still, Stmt
<1>4. /\ db' = Over(t) /\ Linked(db')
      /\ \A x \in Users : db'[x] => db[x]
      /\ vlock["scope"] # t => \A k \in Rows : k \notin DOMAIN own[t] /\ db'[k] = db[k]
    BY CommitRows
<1>5. \A k \in Keys \cap DOMAIN own[u] : db'[k] = db[k]
    BY <1>1 DEF Commit, Apart
<1>6. pc[u] \in InStmt => Stmt(u).key \in Keys \cap DOMAIN own[u]
  <2>1. pc[u] \in InStmt => at[u] \in 1..Len(prog[u].stmts) /\ \A i \in 1..Len(prog[u].stmts) : StmtOk(prog[u].stmts[i])
      BY <1>1 DEF TxnInv, Place, ProgOk, InStmt, Ended, Early
  <2> QED
      BY <1>1, <2>1 DEF TxnInv, Place, StmtOk, Stmt
<1>7. ProgKept(u)' /\ Fresh(u)' /\ (\A k \in Keys \cap DOMAIN own[u] : Typed(k, own[u][k]))'
    BY <1>1, <1>2 DEF TxnGrant, Still, ProgKept, Fresh, Typed, Value
<1>8. Invalid(u)'
  <2>1. \A x \in Users \cap DOMAIN own[u] : own[u][x] => db'[x] \/ (pc[u] = "trigger" /\ x = Stmt(u).key)
      BY <1>1, <1>5 DEF TxnGrant, Invalid, Keys
  <2>2. pc[u] = "trigger" /\ Stmt(u).key \in Users => (image[u] => db'[Stmt(u).key])
      BY <1>1, <1>5, <1>6 DEF TxnGrant, Invalid, InStmt
  <2>3. pc[u] = "trigger" /\ Stmt(u).key \in Users => Stmt(u).mode # "command"
      BY <1>1 DEF TxnGrant, Invalid
  <2> QED
      BY <1>2, <1>3, <2>1, <2>2, <2>3 DEF Still, Invalid
<1>9. ASSUME Current(u)' PROVE Linked(Over(u)')
  <2>1. PICK e, d : e = Over(u)' /\ d = db'
      OBVIOUS
  <2>2. Linked(d) /\ SubjectsOk(d)
      BY <1>4, <2>1, CommitTables
  <2>3. \A k \in Keys : e[k] = IF k \in DOMAIN own[u] THEN own[u][k] ELSE d[k]
      BY <1>2, <2>1 DEF Over, Still
  <2>4. CASE pc[u] \in Ended
    <3>1. \A k \in Rows : e[k] = d[k]
        BY <1>1, <2>3, <2>4 DEF TxnInv, Place, Rows, Keys
    <3>2. Linked(e)
        BY <2>2, <3>1, LinkedAlike
    <3> QED
        BY <2>1, <3>2
  <2>5. CASE pc[u] \notin Ended /\ prog[u].rr
    <3>1. seen[u].ver["scope"] = ver'["scope"]
        BY <1>2, <1>9, <2>5 DEF Current, Still
    <3>2. seen[u].ver["scope"] <= ver["scope"] /\ ver["scope"] \in Nat
        BY <1>1, <2>5 DEF TxnInv, Snap, State, Versions
    <3>3. vlock["scope"] = t => ver'["scope"] = ver["scope"] + 1
        BY DEF Commit, Versions
    <3>4. vlock["scope"] # t => ver'["scope"] = ver["scope"]
        BY DEF Commit, Versions
    <3>5. vlock["scope"] # t
        BY <3>1, <3>2, <3>3
    <3>6. Current(u)
        BY <3>1, <3>4, <3>5 DEF Current
    <3>7. PICK f : f = Over(u)
        OBVIOUS
    <3>8. Linked(f) /\ SubjectsOk(f)
        BY <1>1, <3>6, <3>7, OverSubjects DEF TxnGrant, TxnInv
    <3>9. \A k \in Rows : e[k] = f[k]
        BY <1>4, <2>1, <2>3, <3>5, <3>7 DEF Over, Rows, Keys
    <3>10. Linked(e)
        BY <3>8, <3>9, LinkedAlike
    <3> QED
        BY <2>1, <3>10
  <2>6. CASE pc[u] \notin Ended /\ ~prog[u].rr
    <3>1. Linked(Over(u)) /\ Linked(Over(t)) /\ Linked(db)
        BY <1>1, <1>4, <2>6 DEF TxnGrant, Current, GrantInv
    <3>2. e = [k \in Keys |-> IF k \in DOMAIN own[u] THEN own[u][k] ELSE Over(t)[k]]
        BY <1>2, <1>4, <2>1 DEF Over, Still
    <3>3. Linked(e)
        BY <3>1, <3>2, LinkedBeside
    <3> QED
        BY <2>1, <3>3
  <2> QED
      BY <2>4, <2>5, <2>6
<1>10. ASSUME Memberships(u) PROVE Memberships(u)'
  <2>1. \A m \in Members \cap DOMAIN own[u] : db'[m] = db[m]
      BY <1>5 DEF Keys
  <2>2. pc[u] = "trigger" => db'[Stmt(u).key] = db[Stmt(u).key]
      BY <1>5, <1>6 DEF InStmt
  <2>3. ASSUME NEW m, Unused(u, m) PROVE Unused(u, m)'
    <3>1. vlock'["scope"] = u /\ \A a \in Assigns : db'[a] = db[a]
        BY <1>2, <1>4, <2>3 DEF Unused, Still, Rows
    <3> QED
        BY <1>2, <2>3, <3>1 DEF Unused, Still
  <2>4. \A m : Dropped(u, m) => Dropped(u, m)'
      BY <1>2 DEF Dropped, Still
  <2>5. \A m \in Members \cap DOMAIN own[u] : \A v : Filled(u, m, v) => Filled(u, m, v)'
      BY <1>2, <2>1, <2>3 DEF Filled, Still
  <2>6. pc[u] = "trigger" => \A v : Filled(u, Stmt(u).key, v) => Filled(u, Stmt(u).key, v)'
      BY <1>2, <1>3, <2>2, <2>3 DEF Filled, Still
  <2> QED
      BY <1>2, <1>3, <1>10, <2>4, <2>5, <2>6 DEF Memberships, Still
<1>11. ASSUME NoRoles(u) PROVE NoRoles(u)'
    BY <1>2, <1>3, <1>11 DEF NoRoles, Still
<1>12. ASSUME ByCommand(prog[u]), Commanded(u), pc[u] \notin Ended PROVE Commanded(u)'
  <2>1. Snapped(u)'
      BY <1>2, <1>12 DEF Commanded, Snapped, Still
  <2>2. Journaled(u)'
    <3>1. \A k \in Roles \cap DOMAIN own[u] : db'[k] = db[k]
        BY <1>5 DEF Roles, Keys
    <3>2. pc[u] \in InStmt => db'[Stmt(u).key] = db[Stmt(u).key]
        BY <1>5, <1>6
    <3> QED
        BY <1>2, <1>3, <1>12, <3>1, <3>2 DEF Commanded, Journaled, InFlight, Still
  <2>3. ASSUME pc[u] \in Checking, NEW k \in Rows \cap DOMAIN own[u]
        PROVE  /\ \A a : AssignFine(u, a) /\ a \in Assigns => AssignFine(u, a)'
               /\ \A c : RoleFine(u, c) /\ c \in Customs => RoleFine(u, c)'
               /\ ActorFine(u) => ActorFine(u)'
    <3>1. vlock["scope"] # t
      <4>1. vlock["scope"] = u
          BY <1>1, <2>3, RightsAssumption DEF TxnInv, Locks, Checking, InStmt, Rows
      <4> QED
          BY <4>1
    <3>2. PICK d, e : d = View(u) /\ e = View(u)'
        OBVIOUS
    <3>3. ~prog[u].rr /\ d = Over(u) /\ SubjectsOk(d)
      <4>1. ~prog[u].rr
          BY <1>12 DEF ByCommand
      <4> QED
          BY <1>1, <1>12, <3>2, <4>1, OverSubjects DEF TxnInv, View, Over
    <3>4. \A j \in Keys : /\ e[j] = IF j \in DOMAIN own[u] THEN own[u][j] ELSE db'[j]
                          /\ d[j] = IF j \in DOMAIN own[u] THEN own[u][j] ELSE db[j]
        BY <1>2, <3>2, <3>3 DEF View, Over, Still
    <3>5. (\A j \in Rows : e[j] = d[j] /\ db'[j] = db[j]) /\ \A x \in Users : e[x] => d[x]
        BY <1>4, <3>1, <3>4 DEF Rows, Keys
    <3>6. (\A a \in Assigns : Typed(a, d[a])) /\ (\A a \in Assigns : Typed(a, db[a]))
        BY <1>1, <3>4 DEF TxnGrant, GrantInv, Keys
    <3>7. /\ \A c \in Customs : RoleGrants(e, c) = RoleGrants(d, c)
          /\ \A a \in Assigns : Given(e, a) = Given(d, a)
        BY <3>5, <3>6, GivenAlike
    <3>8. PICK b : b = db'
        OBVIOUS
    <3>9. \A j \in Rows : b[j] = db[j]
        BY <3>5, <3>8
    <3>10. /\ \A c \in Customs : RoleGrants(b, c) = RoleGrants(db, c)
           /\ \A a \in Assigns : Given(b, a) = Given(db, a)
        BY <3>6, <3>9, GivenAlike
    <3>11. \A a \in Assigns : GivenIn(b, e, a) = GivenIn(db, d, a)
        BY <3>5, <3>9, <3>10 DEF GivenIn, Rows
    <3>12. \A g, h : h \subseteq g => (Within(u, g) => Within(u, h)')
        BY <1>2 DEF Within, Still
    <3>13. ASSUME NEW a \in Assigns, AssignFine(u, a) PROVE AssignFine(u, a)'
      <4>1. Given(e, a) \ GivenIn(b, e, a) = Given(d, a) \ GivenIn(db, d, a)
          BY <3>7, <3>11
      <4>2. Within(u, Given(d, a) \ GivenIn(db, d, a))
          BY <3>2, <3>13 DEF AssignFine
      <4>3. PICK g : g = Given(d, a) \ GivenIn(db, d, a)
          OBVIOUS
      <4>4. Given(View(u), a)' \ GivenIn(db, View(u), a)' = g
          BY <3>2, <3>8, <4>1, <4>3
      <4>5. Within(u, g)'
          BY <3>12, <4>2, <4>3
      <4> QED
          BY <4>4, <4>5 DEF AssignFine
    <3>14. ASSUME NEW c \in Customs, RoleFine(u, c) PROVE RoleFine(u, c)'
      <4>1. PICK g : g = RoleGrants(d, c) \ RoleGrants(db, c)
          OBVIOUS
      <4>2. Within(u, g)
          BY <3>2, <3>14, <4>1 DEF RoleFine
      <4>3. RoleGrants(View(u), c)' \ RoleGrants(db, c)' = g
          BY <3>2, <3>7, <3>8, <3>10, <4>1
      <4>4. Within(u, g)'
          BY <3>12, <4>2
      <4> QED
          BY <4>3, <4>4 DEF RoleFine
    <3>15. ASSUME ActorFine(u) PROVE ActorFine(u)'
      <4>1. PICK x : x = start[u].actor
          OBVIOUS
      <4>2. PICK g, h : g = RightsOf(d, x) /\ h = RightsOf(e, x)
          OBVIOUS
      <4>3. h \subseteq g
          BY <3>3, <3>5, <3>6, <4>2, RightsShrink
      <4>4. Within(u, g)
          BY <3>2, <3>15, <4>1, <4>2 DEF ActorFine
      <4>5. Within(u, h)'
          BY <3>12, <4>3, <4>4
      <4>6. RightsOf(View(u), start[u].actor)' = h
          BY <1>2, <3>2, <4>1, <4>2 DEF Still
      <4> QED
          BY <4>5, <4>6 DEF ActorFine
    <3> QED
        BY <3>13, <3>14, <3>15
  <2>4. Queues(u)'
    <3>1. Queues(u)
        BY <1>12 DEF Commanded
    <3>2. \A a \in Assigns \cap DOMAIN own[u] :
            InFlight(u, a) \/ Key("assignment", a) \in pend[u] \/ (pc[u] \in Checking /\ AssignFine(u, a)')
        BY <2>3, <3>1 DEF Queues, Rows
    <3>3. \A c \in Customs \cap DOMAIN own[u] :
            InFlight(u, c) \/ Key("role", c) \in pend[u] \/ (pc[u] \in Checking /\ RoleFine(u, c)')
        BY <2>3, <3>1 DEF Queues, Rows
    <3>4. \A k \in Rows \cap DOMAIN own[u] :
            InFlight(u, k) \/ Key("actor", None) \in pend[u] \/ (pc[u] \in Checking /\ ActorFine(u)')
        BY <2>3, <3>1 DEF Queues
    <3>5. \A k : InFlight(u, k)' <=> InFlight(u, k)
        BY <1>2, <1>3 DEF InFlight, Still
    <3> QED
        BY <1>2, <3>2, <3>3, <3>4, <3>5 DEF Queues, Still
  <2> QED
      BY <1>2, <1>12, <2>1, <2>2, <2>4 DEF Commanded, Still
<1> QED
    BY <1>1, <1>2, <1>7, <1>8, <1>9, <1>10, <1>11, <1>12 DEF TxnGrant, Still

\* COMMIT keeps the invariant.
LEMMA CommitGrant ==
  ASSUME NEW t \in Txns, GuardInv, GrantInv, Commit(t)
  PROVE  GrantInv'
<1>1. State /\ TxnGrant(t) /\ pc[t] = "commit"
    BY DEF GuardInv, GrantInv, Commit
<1>2. Domains'
  <2>1. Domains /\ Step(t)
      BY DEF GrantInv, Domains, Step
  <2> QED
      BY <1>1, <2>1, StepStill
<1>3. /\ Linked(db') /\ \A k \in Keys : Typed(k, db'[k])
    BY CommitRows
<1>4. TxnGrant(t)'
  <2>1. /\ pc'[t] = "committed" /\ DOMAIN own'[t] = {} /\ prog' = prog
      BY <1>1 DEF Commit, Goto, Release, State, Empty
  <2>2. ProgKept(t)' /\ Fresh(t)' /\ Invalid(t)'
      BY <1>1, <2>1 DEF TxnGrant, ProgKept, Fresh, Invalid, Ended, Early
  <2>3. PICK d, e : d = db' /\ e = Over(t)'
      OBVIOUS
  <2>4. \A k \in Rows : e[k] = d[k]
      BY <2>1, <2>3 DEF Over, Rows, Keys
  <2>5. Linked(d) /\ SubjectsOk(d)
      BY <1>3, <2>3, CommitTables
  <2>6. Linked(e)
      BY <2>4, <2>5, LinkedAlike
  <2>7. Linked(Over(t)')
      BY <2>3, <2>6
  <2> QED
      BY <2>1, <2>2, <2>7 DEF TxnGrant, Ended
<1>5. \A u \in Txns : TxnGrant(u)'
    BY <1>4, BesideCommit
<1>6. (\A k \in Keys : Typed(k, db[k]))' /\ Linked(db)'
    BY <1>3 DEF Typed, Value
<1> QED
    BY <1>2, <1>5, <1>6 DEF GrantInv, Domains

-----------------------------------------------------------------------------
(* Nobody is granted more than the actor had *)

\* The invariant holds at the start.
LEMMA InitGrants == Init => GrantInv
<1> SUFFICES ASSUME Init PROVE GrantInv
    OBVIOUS
<1>1. /\ State /\ Table(db) /\ \A a \in Assigns : db[a] # Absent => db[db[a].subject] # Absent
  <2>1. State
      BY InitGuard DEF GuardInv
  <2> QED
      BY <2>1, RightsAssumption DEF Init
<1>2. (\A k \in Keys : Typed(k, db[k])) /\ Linked(db)
    BY <1>1 DEF Table, Typed, Linked
<1>3. ASSUME NEW t \in Txns PROVE TxnGrant(t)
  <2>1. /\ pc[t] = "idle" /\ DOMAIN own[t] = {} /\ start[t] = None /\ DOMAIN jrn[t] = {}
        /\ exempt[t] = {}
      BY DEF Init, Empty
  <2>2. PICK e : e = Over(t)
      OBVIOUS
  <2>3. \A k \in Rows : e[k] = db[k]
      BY <2>1, <2>2 DEF Over, Rows, Keys
  <2>4. Linked(e)
      BY <1>1, <1>2, <2>3, LinkedAlike DEF State
  <2>5. ProgKept(t) /\ Fresh(t) /\ Invalid(t)
      BY <2>1 DEF ProgKept, Fresh, Invalid
  <2> QED
      BY <2>1, <2>2, <2>4, <2>5 DEF TxnGrant, Ended
<1>4. Domains
    BY DEF Init, Domains
<1> QED
    BY <1>2, <1>3, <1>4 DEF GrantInv, Domains

\* Every step keeps it.
LEMMA NextGrants == NobodyRestored /\ GuardInv /\ GrantInv /\ [Next]_vars => GrantInv'
<1> SUFFICES ASSUME NobodyRestored, GuardInv, GrantInv, [Next]_vars PROVE GrantInv'
    OBVIOUS
<1>1. CASE UNCHANGED vars
  <2>1. /\ UNCHANGED <<db, ver, start, jrn, exempt, first>>
        /\ \A u \in Txns : Still(u)
      BY <1>1 DEF vars, place, queue, Still
  <2>2. \A u \in Txns : TxnGrant(u)'
      BY <2>1, StillKeeps DEF GrantInv
  <2> QED
      BY <2>1, <2>2 DEF GrantInv, Linked
<1>2. ASSUME NEW t \in Txns, TxnGrant(t)', ~Commit(t),
             Rollback(t) \/ Step(t) \/ \E p \in Programs : Begin(t, p)
      PROVE  GrantInv'
  <2>1. Domains /\ State
      BY DEF GrantInv, GuardInv, Domains
  <2>2. UNCHANGED <<db, ver>>
      BY <1>2, <2>1, StepStill
  <2> QED
      BY <1>2, <2>2, OneStep
<1>3. ASSUME NEW t \in Txns, NEW p \in Programs, Begin(t, p) PROVE GrantInv'
  <2>1. TxnGrant(t)'
      BY <1>3, BeginGrant
  <2>2. ~Commit(t)
      BY <1>3 DEF Begin, Commit
  <2> QED
      BY <1>2, <1>3, <2>1, <2>2
<1>4. ASSUME NEW t \in Txns, Step(t) PROVE GrantInv'
  <2>1. CASE Commit(t)
      BY <2>1, CommitGrant
  <2>2. CASE ~Commit(t)
    <3>1. TxnGrant(t)'
        BY <1>4, <2>2, ToolGrant, SnapshotGrant, WriteGrant, TriggerGrant, BumpGrant, CheckGrant DEF Step
    <3> QED
        BY <1>2, <1>4, <2>2, <3>1
  <2> QED
      BY <2>1, <2>2
<1>5. ASSUME NEW t \in Txns, Rollback(t), ~Commit(t) PROVE GrantInv'
  <2>1. TxnGrant(t)'
      BY <1>5, FailGrant DEF Rollback, Ended
  <2> QED
      BY <1>2, <1>5, <2>1
<1> QED
    BY <1>1, <1>3, <1>4, <1>5, CommitGrant DEF Next

\* The inductive invariant, where no program of maintenance makes a user valid again.
THEOREM GrantInvariant ==
  ASSUME NobodyRestored
  PROVE  Spec => []GrantInv
<1>1. GuardInv /\ GrantInv /\ [Next]_vars => GrantInv'
    BY NextGrants
<1> QED
    BY <1>1, InitGrants, GuardInvariant, PTL DEF Spec

\* Where a right of u comes from that the commit of t adds.
LEMMA GainIs ==
  ASSUME NEW t \in Txns, GuardInv, GrantInv, Commit(t), NEW u \in Users,
         NEW x \in RightsOf(db', u) \ RightsOf(db, u)
  PROVE  \E a \in Assigns, m \in Members :
           /\ Over(t)[a] # Absent /\ x \in Given(Over(t), a)
           /\ m = Over(t)[a].subject /\ Over(t)[m] = u
           /\ ~(db[a] # Absent /\ db[a].subject = m /\ db[m] = u /\ x \in Given(db, a))
<1>1. PICK e : e = db' /\ e = Over(t)
    BY CommitRows
<1>2. \A v \in Users : e[v] => db[v]
    BY <1>1, CommitRows
<1>3. e[u] /\ \E a \in Assigns : e[a] # Absent /\ UserOf(e, a) = u /\ x \in Given(e, a)
    BY <1>1, RightIs
<1>4. PICK a \in Assigns : e[a] # Absent /\ UserOf(e, a) = u /\ x \in Given(e, a)
    BY <1>3
<1>5. e[a].subject \in Members
  <2>1. SubjectsOk(e)
      BY <1>1, CommitTables
  <2> QED
      BY <1>4, <2>1 DEF SubjectsOk, SubjectOk
<1>6. e[e[a].subject] = u
    BY <1>4 DEF UserOf
<1>7. ~(db[a] # Absent /\ UserOf(db, a) = u /\ x \in Given(db, a))
    BY <1>2, <1>3, RightIs
<1> QED
    BY <1>1, <1>4, <1>5, <1>6, <1>7 DEF UserOf

\* Outside the commands somebody gains by accepting an invitation only.
LEMMA OutsideEntitled ==
  ASSUME NEW t \in Txns, GuardInv, GrantInv, Commit(t), Outside(prog[t]), NEW u \in Users
  PROVE  Entitled(t, u)
<1>1. State /\ TxnInv(t) /\ TxnGrant(t) /\ pc[t] = "commit"
    BY DEF GuardInv, GrantInv, Commit
<1> SUFFICES ASSUME NEW x \in RightsOf(db', u) \ RightsOf(db, u)
             PROVE  \E i \in DOMAIN prog[t].stmts :
                      /\ prog[t].stmts[i].mode = "outside" /\ prog[t].stmts[i].key \in Members
                      /\ prog[t].stmts[i].value = u /\ prog[t].stmts[i].actor = u
    BY DEF Entitled
<1>2. PICK a \in Assigns, m \in Members :
        /\ Over(t)[a] # Absent /\ x \in Given(Over(t), a)
        /\ m = Over(t)[a].subject /\ Over(t)[m] = u
        /\ ~(db[a] # Absent /\ db[a].subject = m /\ db[m] = u /\ x \in Given(db, a))
    BY GainIs
<1>3. Memberships(t) /\ NoRoles(t)
    BY <1>1 DEF TxnGrant, Plain, Ended
<1>4. PICK e : e = Over(t)
    OBVIOUS
<1>5. \A k \in Roles : e[k] = db[k]
    BY <1>1, <1>3, <1>4 DEF NoRoles, Over, Roles, Keys
<1>6. e[a] = db[a] /\ Given(e, a) = Given(db, a)
  <2>1. \A b \in Assigns : Typed(b, db[b])
      BY DEF GrantInv, Keys
  <2> QED
      BY <1>5, <2>1, RolesAlike
<1>7. db[m] # Absent /\ db[m] # u
    BY <1>2, <1>4, <1>6 DEF GrantInv, Linked
<1>8. m \in DOMAIN own[t] /\ own[t][m] = u
    BY <1>2, <1>7 DEF Over, Keys
<1>9. AcceptedIn(prog[t], m, u)
  <2>1. ~Unused(t, m)
      BY <1>2, <1>4, <1>6 DEF Unused
  <2>2. u # Absent
      BY RightsAssumption DEF Keys
  <2> QED
      BY <1>1, <1>3, <1>7, <1>8, <2>1, <2>2 DEF Memberships, Filled, Dropped
<1>10. DOMAIN prog[t].stmts = 1..Len(prog[t].stmts)
    BY <1>1 DEF TxnInv, Place, ProgOk
<1> QED
    BY <1>9, <1>10 DEF AcceptedIn, Outside, AllIn

\* A right of somebody else than the actor that a commit of commands adds comes from
\* an assignment or a role that was written, and the check of its key has seen it.
LEMMA OthersGain ==
  ASSUME NEW t \in Txns, GuardInv, GrantInv, Commit(t), ByCommand(prog[t]), NEW u \in Users,
         u # start[t].actor, ~start[t].full,
         NEW x \in RightsOf(db', u) \ RightsOf(db, u)
  PROVE  x \in start[t].rights
<1>1. State /\ TxnInv(t) /\ TxnGrant(t) /\ pc[t] = "commit" /\ pend[t] = {}
    BY DEF GuardInv, GrantInv, Commit, TxnInv, Place
<1>2. PICK a \in Assigns, m \in Members :
        /\ Over(t)[a] # Absent /\ x \in Given(Over(t), a)
        /\ m = Over(t)[a].subject /\ Over(t)[m] = u
        /\ ~(db[a] # Absent /\ db[a].subject = m /\ db[m] = u /\ x \in Given(db, a))
    BY GainIs
<1>3. Memberships(t) /\ Commanded(t)
    BY <1>1 DEF TxnGrant, Plain, Ended
<1>4. PICK e : e = Over(t) /\ e = View(t)
    BY DEF ByCommand, View, Over
<1>5. \A i \in 1..Len(prog[t].stmts) : prog[t].stmts[i].actor = start[t].actor
    BY <1>1, <1>3 DEF Commanded, Snapped, Checking
<1>6. db[m] \in {Absent, u}
  <2>1. ~Outside(prog[t])
      BY <1>1, PlainMode DEF TxnInv, Place, Ended, Early
  <2>2. CASE m \notin DOMAIN own[t]
      BY <1>2, <2>2 DEF Over, Keys
  <2>3. CASE m \in DOMAIN own[t]
    <3>1. own[t][m] = u /\ Filled(t, m, u)
        BY <1>1, <1>2, <1>3, <2>1, <2>3 DEF Over, Keys, Memberships, Dropped
    <3>2. ~AcceptedIn(prog[t], m, u)
        BY <1>5 DEF AcceptedIn
    <3> QED
        BY <2>1, <3>1, <3>2 DEF Filled, Unused
  <2> QED
      BY <2>2, <2>3
<1>7. db[a] # Absent /\ db[a].subject = m => db[m] = u
    BY <1>6 DEF GrantInv, Linked
<1>8. CASE a \in DOMAIN own[t]
  <2>1. AssignFine(t, a)
      BY <1>1, <1>3, <1>8 DEF Commanded, Queues, InFlight, InStmt
  <2>2. x \notin GivenIn(db, e, a)
      BY <1>2, <1>4, <1>7 DEF GivenIn
  <2> QED
      BY <1>2, <1>4, <2>1, <2>2 DEF AssignFine, Within
<1>9. CASE a \notin DOMAIN own[t]
  <2>1. e[a] = db[a]
      BY <1>4, <1>9 DEF Over, Keys
  <2>2. x \notin Given(db, a)
      BY <1>2, <1>4, <1>7, <2>1
  <2>3. PICK c : c = db[a].role
      OBVIOUS
  <2>4. Live(e, a) /\ Live(db, a) /\ x \in RoleGrants(e, c) /\ x \notin RoleGrants(db, c)
      BY <1>2, <1>4, <2>1, <2>2, <2>3 DEF Given, Live
  <2>5. c \in Archetypes \cup Customs
    <3>1. Typed(a, db[a]) /\ db[a] # Absent
        BY <2>4 DEF GrantInv, Live, Keys
    <3> QED
        BY <2>3, <3>1, RoleTyped
  <2>6. c \in Customs
      BY <2>4, <2>5 DEF RoleGrants
  <2>7. c \in DOMAIN own[t]
      BY <1>4, <2>4, <2>6 DEF RoleGrants, Over, Keys
  <2>8. RoleFine(t, c)
      BY <1>1, <1>3, <2>6, <2>7 DEF Commanded, Queues, InFlight, InStmt
  <2> QED
      BY <1>4, <2>4, <2>8 DEF RoleFine, Within
<1> QED
    BY <1>8, <1>9

\* What the actor gains is seen by the check of the actor.
LEMMA ActorGain ==
  ASSUME NEW t \in Txns, GuardInv, GrantInv, Commit(t), ByCommand(prog[t]), NEW u \in Users,
         u = start[t].actor, ~start[t].full,
         NEW x \in RightsOf(db', u) \ RightsOf(db, u)
  PROVE  x \in start[t].rights
<1>1. State /\ TxnInv(t) /\ TxnGrant(t) /\ pc[t] = "commit" /\ pend[t] = {}
    BY DEF GuardInv, GrantInv, Commit, TxnInv, Place
<1>2. Commanded(t)
    BY <1>1 DEF TxnGrant, Ended
<1>3. PICK e : e = db' /\ e = Over(t) /\ e = View(t)
  <2>1. db' = Over(t)
      BY CommitRows
  <2>2. Over(t) = View(t)
      BY DEF ByCommand, View, Over
  <2> QED
      BY <2>1, <2>2
<1>4. CASE Rows \cap DOMAIN own[t] = {}
  <2>1. (\A k \in Rows : e[k] = db[k]) /\ (\A v \in Users : e[v] => db[v])
    <3>1. \A v \in Users : e[v] => db[v]
        BY <1>3, CommitRows
    <3> QED
        BY <1>3, <1>4, <3>1 DEF Over, Rows, Keys
  <2>2. SubjectsOk(db) /\ \A b \in Assigns : Typed(b, db[b])
      BY <1>1 DEF State, GrantInv, Keys
  <2>3. RightsOf(e, u) \subseteq RightsOf(db, u)
      BY <2>1, <2>2, RightsShrink
  <2> QED
      BY <1>3, <2>3
<1>5. CASE Rows \cap DOMAIN own[t] # {}
  <2>1. ActorFine(t)
      BY <1>1, <1>2, <1>5 DEF Commanded, Queues, InFlight, InStmt
  <2> QED
      BY <1>3, <2>1 DEF ActorFine, Within
<1> QED
    BY <1>4, <1>5

\* What a commit of commands adds was the actor's at the first statement.
LEMMA CommandEntitled ==
  ASSUME NEW t \in Txns, GuardInv, GrantInv, Commit(t), ByCommand(prog[t]), NEW u \in Users
  PROVE  Entitled(t, u)
<1>1. State /\ TxnInv(t) /\ TxnGrant(t) /\ pc[t] = "commit"
    BY DEF GuardInv, GrantInv, Commit
<1>2. Commanded(t)
    BY <1>1 DEF TxnGrant, Ended
<1>3. /\ start[t].rights = RightsOf(first[t], start[t].actor)
      /\ start[t].full <=> start[t].actor \in Holders(first[t])
      /\ \A i \in 1..Len(prog[t].stmts) : prog[t].stmts[i].actor = start[t].actor
    BY <1>1, <1>2 DEF Commanded, Snapped, Checking
<1>4. DOMAIN prog[t].stmts = 1..Len(prog[t].stmts)
    BY <1>1 DEF TxnInv, Place, ProgOk
<1>5. ~start[t].full => RightsOf(db', u) \ RightsOf(db, u) \subseteq start[t].rights
    BY OthersGain, ActorGain
<1>6. ASSUME NEW i \in DOMAIN prog[t].stmts
      PROVE  \/ prog[t].stmts[i].actor \in Holders(first[t])
             \/ RightsOf(db', u) \ RightsOf(db, u) \subseteq RightsOf(first[t], prog[t].stmts[i].actor)
    BY <1>3, <1>4, <1>5
<1> QED
    BY <1>6 DEF Entitled

\* The step of a commit is the action.
LEMMA CommitsIs ==
  ASSUME GuardInv, GrantInv, [Next]_vars, NEW t \in Txns, Commits(t)
  PROVE  Commit(t)
<1>1. State /\ Domains /\ pc[t] = "commit" /\ pc'[t] = "committed"
    BY DEF GuardInv, GrantInv, Domains, Commits
<1>2. PICK u \in Txns : Rollback(u) \/ Step(u) \/ \E p \in Programs : Begin(u, p)
    BY <1>1 DEF Next, vars, place
<1>3. u = t
    BY <1>1, <1>2, StepStill DEF Still
<1>4. ~(\E a : Fail(t, a))
    BY <1>1 DEF Fail, Goto, State
<1> QED
    BY <1>1, <1>2, <1>3, <1>4 DEF Rollback, Step, Begin, ToolStart, ToolHolders, ToolMember,
       ToolEffective, Snapshot, Write, Trigger, Bump, Check

\* Every transaction of commands, and every one outside of them, grants nobody what its
\* actor did not have at its first statement, whatever runs beside it: mixed programs,
\* maintenance, other isolation levels, the tool.
THEOREM PlainGrantsOwn ==
  ASSUME NobodyRestored
  PROVE  Spec => [][\A t \in Txns : Commits(t) /\ Plain(prog[t]) => \A u \in Users : Entitled(t, u)]_vars
<1>1. ASSUME GuardInv, GrantInv, [Next]_vars, NEW t \in Txns, Commits(t), Plain(prog[t]), NEW u \in Users
      PROVE  Entitled(t, u)
    BY <1>1, CommitsIs, OutsideEntitled, CommandEntitled DEF Plain
<1>2. GuardInv /\ GrantInv /\ [Next]_vars =>
        [\A t \in Txns : Commits(t) /\ Plain(prog[t]) => \A u \in Users : Entitled(t, u)]_vars
    BY <1>1
<1> QED
    BY <1>2, GuardInvariant, GrantInvariant, PTL DEF Spec

\* No program mixes commands with statements outside of them, and commands run as the
\* command runtime runs them; programs with a statement of maintenance, and the tool,
\* are free.
KindsApart ==
  \A p \in Programs : \/ p.tool # None \/ Plain(p)
                      \/ \E i \in 1..Len(p.stmts) : p.stmts[i].mode = "maintenance"

\* Nobody is granted what the actor did not have before the transaction.
THEOREM NobodyEscalates ==
  ASSUME NobodyRestored, KindsApart
  PROVE  Spec => NoEscalation
<1>1. ASSUME GuardInv, GrantInv, [Next]_vars, NEW t \in Txns, Commits(t),
             \A i \in DOMAIN prog[t].stmts : prog[t].stmts[i].mode # "maintenance", NEW u \in Users
      PROVE  Entitled(t, u)
  <2>1. TxnInv(t) /\ TxnGrant(t) /\ pc[t] = "commit"
      BY <1>1 DEF GuardInv, GrantInv, Commits
  <2>2. /\ DOMAIN prog[t].stmts = 1..Len(prog[t].stmts) /\ at[t] \in 1..Len(prog[t].stmts)
      BY <2>1 DEF TxnInv, Place, ProgOk, Ended, Early
  <2>3. prog[t].tool = None /\ prog[t] \in Programs
      BY <1>1, <2>1, <2>2 DEF TxnGrant, ProgKept, Ended, Early
  <2>4. Plain(prog[t])
      BY <1>1, <2>2, <2>3 DEF KindsApart
  <2> QED
      BY <1>1, <2>4, CommitsIs, OutsideEntitled, CommandEntitled DEF Plain
<1>2. GuardInv /\ GrantInv /\ [Next]_vars =>
        [\A t \in Txns : (Commits(t) /\ \A i \in DOMAIN prog[t].stmts : prog[t].stmts[i].mode # "maintenance") =>
           \A u \in Users : Entitled(t, u)]_vars
    BY <1>1
<1> QED
    BY <1>2, GuardInvariant, GrantInvariant, PTL DEF Spec, NoEscalation
=============================================================================
