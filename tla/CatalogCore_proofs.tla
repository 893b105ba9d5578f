------------------------- MODULE CatalogCore_proofs -------------------------
(***************************************************************************)
(* Proofs about CatalogCore for every catalog, every set of transactions    *)
(* and every set of requests: type correctness, the committed hierarchy is  *)
(* a forest, and no update is lost.                                         *)
(***************************************************************************)
EXTENDS CatalogCore, TLAPS

-----------------------------------------------------------------------------
\* Rows the model computes are rows.

\* The value of a row that is not there has the type of a row.
LEMMA AbsentRow == Absent \in Row
  BY DEF Absent, Row

\* What a request makes of the old row is a row.
LEMMA NewOfRow ==
  ASSUME NEW t \in Txns, req[t] \in Requests, NEW v \in Row
  PROVE  NewOf(t, v) \in Row /\ NewOf(t, v).ver = v.ver
  BY CatalogAssumption DEF NewOf, Given, Row, Request

\* What the handlers of a save make of a row is a row.
LEMMA HandledRow ==
  ASSUME NEW v \in Row, NEW w \in Handled(v)
  PROVE  w \in Row /\ w.ver = v.ver
  BY DEF Handled, Row

\* A row written again is a row: only its version grows.
LEMMA TouchRow ==
  ASSUME NEW t \in Txns, NEW v \in Row
  PROVE  Touch(t, v) \in Row /\ Touch(t, v).ver = v.ver + 1 /\ Touch(t, v).parent = v.parent
  BY DEF Touch, Row

\* The parents of a table are rows or none.
LEMMA ParentOfType ==
  ASSUME NEW f \in [Rows -> Row]
  PROVE  ParentOf(f) \in [Rows -> Rows \cup {None}]
  BY DEF ParentOf, Row

\* The fields of a request have their types.
LEMMA RequestFields ==
  ASSUME NEW q \in Requests
  PROVE  /\ q.row \in Rows /\ q.kind \in Kinds /\ q.related \in Rows \cup {None}
         /\ q.lines = Keep \/ q.lines \in SUBSET Lines
         /\ q.rr => q.kind = "direct"
  BY CatalogAssumption DEF Request

-----------------------------------------------------------------------------
\* The pieces the actions are made of keep the types.

\* A step to the next statement keeps the types.
LEMMA GotoType ==
  ASSUME TypeOK, NEW t \in Txns, NEW l, Goto(t, l), req[t] \in Requests,
         l \in Active \cup {"failed", "committed", "rolledBack"}, UNCHANGED req
  PROVE  /\ pc' \in [Txns -> Active \cup {"idle", "failed", "committed", "rolledBack"}]
         /\ \A u \in Txns : pc'[u] # "idle" => req'[u] \in Requests
  BY DEF TypeOK, Goto

\* What is left to do is of the right sort, in a step of one transaction.
LEMMA TodoType ==
  ASSUME TypeOK, NEW t \in Txns, NEW l, Goto(t, l), UNCHANGED req,
         \A u \in Txns \ {t} : todo'[u] = todo[u],
         l \in {"keys", "lineKeys"} => todo'[t] \subseteq Rows,
         l = "insertLines" => todo'[t] \subseteq Lines,
         l \in {"lines", "insertLines"} => req[t].lines # Keep
  PROVE  \A u \in Txns : /\ pc'[u] \in {"keys", "lineKeys"} => todo'[u] \subseteq Rows
                         /\ pc'[u] = "insertLines" => todo'[u] \subseteq Lines
                         /\ pc'[u] \in {"lines", "insertLines"} => req'[u].lines # Keep
  BY DEF TypeOK, Goto

\* A step that ends the transaction with an error keeps the types.
LEMMA FailType ==
  ASSUME TypeOK, NEW t \in Txns, Fail(t), req[t] \in Requests
  PROVE  TypeOK'
<1>1. Goto(t, "failed") /\ UNCHANGED req
  BY DEF Fail, input
<1>2. /\ pc' \in [Txns -> Active \cup {"idle", "failed", "committed", "rolledBack"}]
      /\ \A u \in Txns : pc'[u] # "idle" => req'[u] \in Requests
  BY <1>1, GotoType
<1>3. \A u \in Txns : /\ pc'[u] \in {"keys", "lineKeys"} => todo'[u] \subseteq Rows
                      /\ pc'[u] = "insertLines" => todo'[u] \subseteq Lines
                      /\ pc'[u] \in {"lines", "insertLines"} => req'[u].lines # Keep
  BY <1>1, TodoType DEF Fail, work
<1>. QED
  BY <1>2, <1>3 DEF Fail, TypeOK, data, input, work, locks

\* A lock that is granted is recorded with a mode.
LEMMA LockType ==
  ASSUME TypeOK, NEW t \in Txns, NEW r \in Rows, NEW mode \in Modes, Lock(t, r, mode)
  PROVE  held' \in [Txns -> SUBSET (Rows \X Modes)]
  BY DEF TypeOK, Lock

\* A written row, and the references it leaves for RI to check, have their types.
LEMMA WrittenType ==
  ASSUME TypeOK, NEW t \in Txns, NEW b, NEW v \in Row, Written(t, b, v)
  PROVE  /\ new' \in [Txns -> Row] /\ wrote' \in [Txns -> BOOLEAN]
         /\ todo' \in [Txns -> SUBSET (Rows \cup Lines)]
         /\ todo'[t] \subseteq Rows /\ \A u \in Txns \ {t} : todo'[u] = todo[u]
<1>1. NewKeys(b, v) \in SUBSET (Rows \cup Lines) /\ NewKeys(b, v) \subseteq Rows
  BY DEF NewKeys
<1>. QED
  BY <1>1 DEF TypeOK, Written

\* Every step of a transaction keeps the types.
LEMMA StepType ==
  ASSUME TypeOK, NEW t \in Txns, Step(t)
  PROVE  TypeOK'
<1>0. pc[t] # "idle"
  BY DEF Step, Called, CheckNew, AdvisoryLock, LockedOld, CheckOld, HeaderWrite, DirectWrite, Insert, Keys, HierarchyTrigger, Walk, TabularLock, TabularWrite, TabularInsert, LineKeys, Commit, KeyShare
<1>q. /\ req[t] \in Requests /\ req[t].row \in Rows /\ req[t].kind \in Kinds
      /\ req[t].related \in Rows \cup {None}
      /\ req[t].lines = Keep \/ req[t].lines \in SUBSET Lines
  BY <1>0, RequestFields DEF TypeOK
<1>r. Absent \in Row /\ tab[req[t].row] \in Row /\ old[t] \in Row /\ new[t] \in Row
  BY <1>q, AbsentRow DEF TypeOK
<1>t. /\ new \in [Txns -> Row] /\ own \in [Txns -> SUBSET Lines]
      /\ todo \in [Txns -> SUBSET (Rows \cup Lines)]
      /\ pc[t] \in {"lines", "insertLines"} => req[t].lines \in SUBSET Lines
      /\ pc[t] = "insertLines" => todo[t] \subseteq Lines
  BY <1>q DEF TypeOK
<1>f. CASE Fail(t)
  BY <1>f, <1>q, FailType
<1> DEFINE PcOK == /\ pc' \in [Txns -> Active \cup {"idle", "failed", "committed", "rolledBack"}]
                   /\ \A u \in Txns : pc'[u] # "idle" => req'[u] \in Requests
<1>g. ASSUME NEW l \in Active \cup {"failed", "committed", "rolledBack"}, Goto(t, l), UNCHANGED req
      PROVE  PcOK
  BY <1>g, <1>q, GotoType
<1> DEFINE TodoOK == \A u \in Txns : /\ pc'[u] \in {"keys", "lineKeys"} => todo'[u] \subseteq Rows
                                     /\ pc'[u] = "insertLines" => todo'[u] \subseteq Lines
                                     /\ pc'[u] \in {"lines", "insertLines"} => req'[u].lines # Keep
<1>h. ASSUME NEW l, Goto(t, l), UNCHANGED req, \A u \in Txns \ {t} : todo'[u] = todo[u],
             l \in {"keys", "lineKeys"} => todo'[t] \subseteq Rows,
             l = "insertLines" => todo'[t] \subseteq Lines,
             l \in {"lines", "insertLines"} => req[t].lines # Keep
      PROVE  TodoOK
  BY <1>h, TodoType
<1>k. req[t].lines # Keep => req[t].lines \in SUBSET Lines
  BY <1>q
<1> HIDE DEF PcOK, TodoOK
<1> USE DEF data, input, work, locks
<1>1. CASE Called(t) /\ ~Fail(t)
  <2>1. PcOK
    BY <1>1, <1>q, <1>g DEF Called, Active
  <2>2. TodoOK
    BY <1>1, <1>q, <1>k, <1>h DEF Called, TypeOK
  <2>. QED
    BY <1>1, <1>q, <1>r, <2>1, <2>2 DEF Called, TypeOK, PcOK, TodoOK
<1>2. CASE CheckNew(t) /\ ~Fail(t)
  <2>1. PcOK
    BY <1>2, <1>q, <1>g DEF CheckNew, Active
  <2>n. NewOf(t, Absent) \in Row
    BY <1>q, <1>r, NewOfRow
  <2>2. new' \in [Txns -> Row]
    BY <1>2, <2>n, <1>t DEF CheckNew
  <2>3. TodoOK
    BY <1>2, <1>q, <1>k, <1>h DEF CheckNew, TypeOK
  <2>. QED
    BY <1>2, <1>q, <1>r, <2>1, <2>2, <2>3 DEF CheckNew, TypeOK, PcOK, TodoOK
<1>3. CASE AdvisoryLock(t) /\ ~Fail(t)
  <2>1. PcOK
    BY <1>3, <1>q, <1>g DEF AdvisoryLock, Active
  <2>2. TodoOK
    BY <1>3, <1>q, <1>k, <1>h DEF AdvisoryLock, TypeOK
  <2>. QED
    BY <1>3, <1>q, <1>r, <2>1, <2>2 DEF AdvisoryLock, TypeOK, PcOK, TodoOK
<1>4. CASE LockedOld(t) /\ ~Fail(t)
  <2>1. PcOK
    BY <1>4, <1>q, <1>g DEF LockedOld, Strength, Modes, Active
  <2>2. old' \in [Txns -> Row]
    BY <1>4, <1>r DEF LockedOld, Strength, Modes, TypeOK
  <2>3. held' \in [Txns -> SUBSET (Rows \X Modes)]
    BY <1>4, <1>q, LockType DEF LockedOld, Strength, Modes
  <2>4. TodoOK
    BY <1>4, <1>q, <1>k, <1>h DEF LockedOld, TypeOK
  <2>. QED
    BY <1>4, <1>q, <1>r, <2>1, <2>2, <2>3, <2>4 DEF LockedOld, Strength, Modes, TypeOK, PcOK, TodoOK
<1>5. CASE CheckOld(t) /\ ~Fail(t)
  <2>1. PcOK
    BY <1>5, <1>q, <1>g DEF CheckOld, Active
  <2>n. NewOf(t, old[t]) \in Row
    BY <1>q, <1>r, NewOfRow
  <2>2. new' \in [Txns -> Row]
    BY <1>5, <2>n, <1>r, <1>t DEF CheckOld
  <2>3. TodoOK
    BY <1>5, <1>q, <1>k, <1>h DEF CheckOld, TypeOK
  <2>. QED
    BY <1>5, <1>q, <1>r, <2>1, <2>2, <2>3 DEF CheckOld, TypeOK, PcOK, TodoOK
<1>6. CASE HeaderWrite(t) /\ ~Fail(t)
  <2>1. PcOK
    BY <1>6, <1>q, <1>g DEF HeaderWrite, ZeroRows, Modes, Active
  <2>2. held' \in [Txns -> SUBSET (Rows \X Modes)]
    BY <1>6, <1>q, LockType DEF HeaderWrite, ZeroRows, Modes
  <2>3. /\ new' \in [Txns -> Row] /\ wrote' \in [Txns -> BOOLEAN]
         /\ todo' \in [Txns -> SUBSET (Rows \cup Lines)]
         /\ todo'[t] \subseteq Rows /\ \A u \in Txns \ {t} : todo'[u] = todo[u]
    BY <1>6, <1>q, <1>r, WrittenType, HandledRow, TouchRow DEF HeaderWrite, ZeroRows, Modes
  <2>4. TodoOK
    BY <1>6, <2>3, <1>h DEF HeaderWrite, ZeroRows
  <2>. QED
    BY <1>6, <1>q, <1>r, <2>1, <2>2, <2>3, <2>4 DEF HeaderWrite, ZeroRows, Modes, TypeOK, PcOK, TodoOK
<1>7. CASE DirectWrite(t) /\ ~Fail(t)
  <2>1. PcOK
    BY <1>7, <1>q, <1>g DEF DirectWrite, Modes, Active
  <2>2. old' \in [Txns -> Row]
    BY <1>7, <1>r DEF DirectWrite, Modes, TypeOK
  <2>3. held' \in [Txns -> SUBSET (Rows \X Modes)]
    BY <1>7, <1>q, LockType DEF DirectWrite, Modes
  <2>4. /\ new' \in [Txns -> Row] /\ wrote' \in [Txns -> BOOLEAN]
         /\ todo' \in [Txns -> SUBSET (Rows \cup Lines)]
         /\ todo'[t] \subseteq Rows /\ \A u \in Txns \ {t} : todo'[u] = todo[u]
    BY <1>7, <1>q, <1>r, WrittenType, NewOfRow, HandledRow, TouchRow DEF DirectWrite, Modes
  <2>5. TodoOK
    BY <1>7, <2>4, <1>h DEF DirectWrite
  <2>. QED
    BY <1>7, <1>q, <1>r, <2>1, <2>2, <2>3, <2>4, <2>5 DEF DirectWrite, Modes, TypeOK, PcOK, TodoOK
<1>8. CASE Insert(t) /\ ~Fail(t)
  <2>1. PcOK
    BY <1>8, <1>q, <1>g DEF Insert, DuplicateKey, Modes, Active
  <2>2. held' \in [Txns -> SUBSET (Rows \X Modes)]
    BY <1>8, <1>q, LockType DEF Insert, DuplicateKey, Modes
  <2>3. /\ new' \in [Txns -> Row] /\ wrote' \in [Txns -> BOOLEAN]
         /\ todo' \in [Txns -> SUBSET (Rows \cup Lines)]
         /\ todo'[t] \subseteq Rows /\ \A u \in Txns \ {t} : todo'[u] = todo[u]
    BY <1>8, <1>q, <1>r, WrittenType, HandledRow, TouchRow DEF Insert, DuplicateKey, Modes
  <2>4. TodoOK
    BY <1>8, <2>3, <1>h DEF Insert, DuplicateKey
  <2>. QED
    BY <1>8, <1>q, <1>r, <2>1, <2>2, <2>3, <2>4 DEF Insert, DuplicateKey, Modes, TypeOK, PcOK, TodoOK
<1>9. CASE Keys(t) /\ ~Fail(t)
  <2>1. CASE todo[t] = {} /\ UNCHANGED <<data, input, right, work, locks>>
    <3>1. PcOK
      BY <1>9, <2>1, <1>q, <1>g DEF Keys, KeyShare, AfterRow, Modes, Active
    <3>3. TodoOK
      BY <1>9, <2>1, <1>q, <1>h DEF Keys, KeyShare, AfterRow, TypeOK
    <3>. QED
      BY <2>1, <3>1, <3>3 DEF TypeOK, PcOK, TodoOK
  <2>2. CASE \E r \in todo[t] : /\ r \in Rows /\ Lock(t, r, "KeyShare")
                               /\ todo' = [todo EXCEPT ![t] = @ \ {r}]
                               /\ UNCHANGED <<data, pc, input, right, old, new, wrote, own, adv>>
    <3>1. held' \in [Txns -> SUBSET (Rows \X Modes)]
      BY <2>2, LockType DEF Modes
    <3>2. todo' \in [Txns -> SUBSET (Rows \cup Lines)]
      BY <2>2 DEF TypeOK
    <3>. QED
      BY <2>2, <3>1, <3>2 DEF TypeOK
  <2>. QED
    BY <1>9, <2>1, <2>2, <1>q DEF Keys, KeyShare, TypeOK
<1>10. CASE HierarchyTrigger(t) /\ ~Fail(t)
  <2>1. PcOK
    BY <1>10, <1>q, <1>g DEF HierarchyTrigger, TriggerLock, Active
  <2>2. TodoOK
    BY <1>10, <1>q, <1>k, <1>h DEF HierarchyTrigger, TypeOK
  <2>. QED
    BY <1>10, <1>q, <1>r, <2>1, <2>2 DEF HierarchyTrigger, TriggerLock, TypeOK, PcOK, TodoOK
<1>11. CASE Walk(t) /\ ~Fail(t)
  <2>1. PcOK
    BY <1>11, <1>q, <1>g DEF Walk, AfterRow, Active
  <2>2. TodoOK
    BY <1>11, <1>q, <1>k, <1>h DEF Walk, AfterRow, TypeOK
  <2>. QED
    BY <1>11, <1>q, <1>r, <2>1, <2>2 DEF Walk, AfterRow, TypeOK, PcOK, TodoOK
<1>12. CASE TabularLock(t) /\ ~Fail(t)
  <2>1. PcOK
    BY <1>12, <1>q, <1>g DEF TabularLock, LinesOf, Ids, Active
  <2>l. LinesOf(req[t].row) \subseteq Lines
    BY DEF LinesOf
  <2>2. own' \in [Txns -> SUBSET Lines]
    BY <1>12, <2>l, <1>t DEF TabularLock
  <2>3. TodoOK
    BY <1>12, <1>q, <1>k, <1>h DEF TabularLock, Ids, TypeOK
  <2>. QED
    BY <1>12, <1>q, <1>r, <2>1, <2>2, <2>3 DEF TabularLock, LinesOf, Ids, TypeOK, PcOK, TodoOK
<1>13. CASE TabularWrite(t) /\ ~Fail(t)
  <2>1. PcOK
    BY <1>13, <1>q, <1>g DEF TabularWrite, Ids, Active
  <2>2. todo' \in [Txns -> SUBSET (Rows \cup Lines)]
    BY <1>13, <1>t DEF TabularWrite, Ids
  <2>3. TodoOK
    BY <1>13, <1>q, <1>k, <1>h, SMTT(30) DEF TabularWrite, Ids, TypeOK
  <2>. QED
    BY <1>13, <1>q, <1>r, <2>1, <2>2, <2>3 DEF TabularWrite, Ids, TypeOK, PcOK, TodoOK
<1>14. CASE TabularInsert(t) /\ ~Fail(t)
  <2>1. CASE \E l \in todo[t] : /\ own' = [own EXCEPT ![t] = @ \cup {l}]
                               /\ todo' = [todo EXCEPT ![t] = @ \ {l}]
                               /\ UNCHANGED <<data, pc, input, right, old, new, wrote, held, adv>>
    <3>0. pc[t] = "insertLines"
      BY <1>14 DEF TabularInsert
    <3>1. own' \in [Txns -> SUBSET Lines] /\ todo' \in [Txns -> SUBSET (Rows \cup Lines)]
      BY <2>1, <3>0, <1>t
    <3>2. TodoOK
      BY <2>1 DEF TypeOK, TodoOK
    <3>. QED
      BY <2>1, <3>1, <3>2 DEF TypeOK, TodoOK
  <2>2. CASE /\ Goto(t, "lineKeys")
             /\ \E S \in SUBSET Rows : todo' = [todo EXCEPT ![t] = S]
             /\ UNCHANGED <<data, input, right, old, new, wrote, locks>>
    <3>1. PcOK
      BY <2>2, <1>g DEF Active
    <3>2. todo' \in [Txns -> SUBSET (Rows \cup Lines)]
      BY <2>2, <1>t
    <3>3. TodoOK
      BY <2>2, <1>h, <1>t
    <3>. QED
      BY <2>2, <3>1, <3>2, <3>3 DEF TypeOK, PcOK, TodoOK
  <2>3. (IF Ids(t) = {} THEN {} ELSE {req[t].related} \ {None}) \in SUBSET Rows
    BY <1>q
  <2>. QED
    BY <1>14, <2>1, <2>2, <2>3 DEF TabularInsert
<1>15. CASE LineKeys(t) /\ ~Fail(t)
  <2>1. CASE todo[t] = {} /\ UNCHANGED <<data, input, right, work, locks>>
    <3>1. PcOK
      BY <1>15, <2>1, <1>q, <1>g DEF LineKeys, KeyShare, Modes, Active
    <3>3. TodoOK
      BY <1>15, <2>1, <1>q, <1>h DEF LineKeys, KeyShare, TypeOK
    <3>. QED
      BY <2>1, <3>1, <3>3 DEF TypeOK, PcOK, TodoOK
  <2>2. CASE \E r \in todo[t] : /\ r \in Rows /\ Lock(t, r, "KeyShare")
                               /\ todo' = [todo EXCEPT ![t] = @ \ {r}]
                               /\ UNCHANGED <<data, pc, input, right, old, new, wrote, own, adv>>
    <3>1. held' \in [Txns -> SUBSET (Rows \X Modes)]
      BY <2>2, LockType DEF Modes
    <3>2. todo' \in [Txns -> SUBSET (Rows \cup Lines)]
      BY <2>2 DEF TypeOK
    <3>. QED
      BY <2>2, <3>1, <3>2 DEF TypeOK
  <2>. QED
    BY <1>15, <2>1, <2>2, <1>q DEF LineKeys, KeyShare, TypeOK
<1>16. CASE Commit(t) /\ ~Fail(t)
  <2>1. PcOK
    BY <1>16, <1>q, <1>g DEF Commit, Release, End, Ids, Active
  <2>2. tab' \in [Rows -> Row] /\ lines' \in [Lines -> Rows \cup {None}]
    BY <1>16, <1>q, <1>r DEF Commit, Release, End, Ids, TypeOK
  <2>3. TodoOK
    BY <1>16, <1>q, <1>k, <1>h DEF Commit, Release, End, TypeOK
  <2>. QED
    BY <1>16, <1>q, <1>r, <2>1, <2>2, <2>3 DEF Commit, Release, End, Ids, TypeOK, PcOK, TodoOK
<1>. QED
  BY <1>f, <1>1, <1>2, <1>3, <1>4, <1>5, <1>6, <1>7, <1>8, <1>9, <1>10, <1>11, <1>12, <1>13, <1>14, <1>15, <1>16 DEF Step

\* The types hold at the start.
LEMMA InitType == Init => TypeOK
<1> SUFFICES ASSUME Init PROVE TypeOK
  OBVIOUS
<1>1. tab \in [Rows -> Row]
  BY CatalogAssumption DEF Init
<1>2. ParentOf(tab) \in [Rows -> Rows \cup {None}]
  BY <1>1, ParentOfType
<1>. QED
  BY <1>1, <1>2, AbsentRow DEF Init, TypeOK, Active

\* The first statement of a transaction keeps the types.
LEMMA BeginType ==
  ASSUME TypeOK, NEW t \in Txns, NEW q \in Requests, Begin(t, q)
  PROVE  TypeOK'
<1>1. pc' \in [Txns -> Active \cup {"idle", "failed", "committed", "rolledBack"}]
  BY DEF Begin, Goto, TypeOK, Active
<1>2. /\ req' \in [Txns -> {None} \cup Requests]
      /\ \A u \in Txns : pc'[u] # "idle" => req'[u] \in Requests
  BY DEF Begin, Goto, TypeOK
<1>3. q.row \in Rows /\ exp' \in [Txns -> Nat]
  BY RequestFields DEF Begin, TypeOK, Row, Exists
<1>4. snap' \in [Txns -> [Rows -> Rows \cup {None}]]
  BY ParentOfType DEF Begin, TypeOK
<1>5. \A u \in Txns : /\ pc'[u] \in {"keys", "lineKeys"} => todo'[u] \subseteq Rows
                      /\ pc'[u] = "insertLines" => todo'[u] \subseteq Lines
                      /\ pc'[u] \in {"lines", "insertLines"} => req'[u].lines # Keep
  BY DEF Begin, Goto, TypeOK, work
<1>. QED
  BY <1>1, <1>2, <1>3, <1>4, <1>5 DEF Begin, TypeOK, data, work, locks

\* ROLLBACK keeps the types.
LEMMA RollbackType ==
  ASSUME TypeOK, NEW t \in Txns, Rollback(t)
  PROVE  TypeOK'
<1>1. Goto(t, "rolledBack") /\ UNCHANGED req /\ req[t] \in Requests
  BY DEF Rollback, input, TypeOK, Active
<1>2. /\ pc' \in [Txns -> Active \cup {"idle", "failed", "committed", "rolledBack"}]
      /\ \A u \in Txns : pc'[u] # "idle" => req'[u] \in Requests
  BY <1>1, GotoType
<1>3. \A u \in Txns : /\ pc'[u] \in {"keys", "lineKeys"} => todo'[u] \subseteq Rows
                      /\ pc'[u] = "insertLines" => todo'[u] \subseteq Lines
                      /\ pc'[u] \in {"lines", "insertLines"} => req'[u].lines # Keep
  BY <1>1, TodoType DEF Rollback, Release, End, TypeOK
<1>. QED
  BY <1>2, <1>3, AbsentRow DEF Rollback, Release, End, TypeOK, data, input

\* Every step keeps the types.
LEMMA NextType == TypeOK /\ [Next]_vars => TypeOK'
<1> SUFFICES ASSUME TypeOK, [Next]_vars PROVE TypeOK'
  OBVIOUS
<1>1. ASSUME NEW t \in Txns, NEW q \in Requests, Begin(t, q) PROVE TypeOK'
  BY <1>1, BeginType
<1>2. ASSUME NEW t \in Txns, Step(t) PROVE TypeOK'
  BY <1>2, StepType
<1>3. ASSUME NEW t \in Txns, Revoke(t) PROVE TypeOK'
  BY <1>3 DEF Revoke, TypeOK, data, input, work, locks
<1>4. ASSUME NEW t \in Txns, Rollback(t) PROVE TypeOK'
  BY <1>4, RollbackType
<1>5. ASSUME NEW t \in Txns, Detect(t) PROVE TypeOK'
  <2>1. Fail(t)
    BY <1>5 DEF Detect
  <2>2. pc[t] # "idle"
    <3>1. PICK S \in SUBSET Txns : t \in S /\ Stuck(S)
      BY <1>5 DEF Detect
    <3>2. WaitsFor(t) # {}
      BY <3>1 DEF Stuck
    <3>. QED
      BY <3>2 DEF WaitsFor
  <2>. QED
    BY <2>1, <2>2, FailType DEF TypeOK
<1>6. CASE UNCHANGED vars
  BY <1>6 DEF TypeOK, vars, data, input, work, locks
<1>. QED
  BY <1>1, <1>2, <1>3, <1>4, <1>5, <1>6 DEF Next

\* Type correctness of the core functions and the triggers.
THEOREM TypeCorrect == Spec => []TypeOK
<1>1. Init => TypeOK
  BY InitType
<1>2. TypeOK /\ [Next]_vars => TypeOK'
  BY NextType
<1>. QED
  BY <1>1, <1>2, PTL DEF Spec

-----------------------------------------------------------------------------
\* The inductive invariant behind the two safety theorems.

\* Locks under which a row is written: no two transactions hold one of them.
Strong == {"NoKeyUpdate", "Update"}
Owns(t, r) == \E m \in Strong : <<r, m>> \in held[t]
Exclusive == \A t, u \in Txns, r \in Rows : Owns(t, r) /\ Owns(u, r) => t = u

\* After the write of the row, and after the hierarchy has accepted it.
Accepted  == {"tabular", "lines", "insertLines", "lineKeys", "done"}
PostWrite == {"keys", "trigger", "walk"} \cup Accepted

\* The table: a row that is not there is Absent; no parents without a hierarchy.
TableInv ==
  /\ \A r \in Rows : tab[r].ver = 0 => tab[r] = Absent
  /\ ~contract.hierarchy => \A r \in Rows : tab[r].parent = None
  /\ HierarchyIsForest

\* The request fits the catalog, and the place of the transaction its request.
AskedInv(t) ==
  /\ pc[t] # "idle" => /\ req[t].kind = "create" => exp[t] = 0
                       /\ req[t].kind = "delete" => ~contract.hierarchy
                       /\ req[t].parent # Keep => contract.hierarchy
  /\ pc[t] \in {"exists", "insert"} => req[t].kind = "create"
  /\ pc[t] = "statement" => req[t].kind = "direct"
  /\ pc[t] \in {"idle", "called", "exists", "advisory", "insert"} => old[t] = Absent
  /\ ~contract.hierarchy => old[t].parent = None /\ new[t].parent = None

\* From its lock to its end a transaction owns the row it has read.
ReadInv(t) ==
  pc[t] \in {"check", "write"} \cup PostWrite =>
    /\ Owns(t, req[t].row)
    /\ old[t] = tab[req[t].row]
    /\ req[t].kind # "direct" => old[t].ver = exp[t]

\* What it has written is a row, or the absence of one.
WriteInv(t) == pc[t] \in PostWrite => wrote[t] /\ (new[t].ver = 0 => new[t] = Absent)

\* The parents as they will be when t commits.
Next_Parents(t) == [ParentOf(tab) EXCEPT ![req[t].row] = new[t].parent]

\* An accepted move holds the lock of the hierarchy and stays harmless.
MoveInv(t) ==
  /\ pc[t] = "walk" => adv = t /\ ~req[t].rr
  /\ pc[t] \in Accepted /\ Moved(t) => adv = t /\ Acyclic(Next_Parents(t))

TxnInv(t) == AskedInv(t) /\ ReadInv(t) /\ WriteInv(t) /\ MoveInv(t)
CoreInv == TypeOK /\ TableInv /\ Exclusive /\ \A t \in Txns : TxnInv(t)

\* A lock of a strength that excludes others is granted only when no other has one.
LEMMA StrongGrant ==
  ASSUME TypeOK, Exclusive, NEW t \in Txns, NEW r \in Rows, NEW mode \in Strong,
         Blockers(t, r, mode) = {}, Lock(t, r, mode)
  PROVE  Exclusive' /\ Owns(t, r)'
<1>1. \A u \in Txns \ {t} : ~Owns(u, r)
  BY DEF Blockers, Conflicts, Strong, Modes, Owns
<1>2. \A u \in Txns \ {t}, s \in Rows : Owns(u, s)' <=> Owns(u, s)
  BY DEF Owns, Lock, TypeOK
<1>3. \A s \in Rows \ {r} : Owns(t, s)' <=> Owns(t, s)
  BY DEF Owns, Lock, TypeOK
<1>4. Owns(t, r)'
  BY DEF Owns, Lock, TypeOK
<1>. QED
  BY <1>1, <1>2, <1>3, <1>4 DEF Exclusive

\* A KEY SHARE lock owns nothing.
LEMMA ShareGrant ==
  ASSUME TypeOK, NEW t \in Txns, NEW r \in Rows, Lock(t, r, "KeyShare")
  PROVE  \A u \in Txns, s \in Rows : Owns(u, s)' <=> Owns(u, s)
  BY DEF Owns, Lock, TypeOK, Strong

\* A step of t that does not commit: the table and the other transactions stay,
\* and nobody loses the hierarchy lock.
Frame(t) ==
  /\ UNCHANGED <<contract, tab>>
  /\ \A u \in Txns \ {t} :
       /\ pc'[u] = pc[u] /\ req'[u] = req[u] /\ exp'[u] = exp[u] /\ old'[u] = old[u]
       /\ new'[u] = new[u] /\ wrote'[u] = wrote[u] /\ held'[u] = held[u]
       /\ adv = u => adv' = u

\* Such a step keeps what holds of the other transactions.
LEMMA OthersKeep ==
  ASSUME CoreInv, NEW t \in Txns, Frame(t), TypeOK', Exclusive', TxnInv(t)'
  PROVE  CoreInv'
<1>1. TableInv'
  BY DEF CoreInv, TableInv, HierarchyIsForest, Frame
<1>2. ASSUME NEW u \in Txns \ {t} PROVE TxnInv(u)'
  <2>1. TxnInv(u)
    BY DEF CoreInv
  <2>. USE <1>2, <2>1 DEF TxnInv, Frame
  <2>2. AskedInv(u)'
    BY DEF AskedInv
  <2>3. ReadInv(u)'
    BY DEF ReadInv, Owns
  <2>4. WriteInv(u)'
    BY DEF WriteInv
  <2>5. MoveInv(u)'
    BY DEF MoveInv, Moved, Next_Parents
  <2>. QED
    BY <2>2, <2>3, <2>4, <2>5
<1>. QED
  BY <1>1, <1>2 DEF CoreInv

\* A refusal.
LEMMA FailCore ==
  ASSUME CoreInv, NEW t \in Txns, Fail(t), pc[t] # "idle"
  PROVE  CoreInv'
<1>1. TypeOK'
  BY FailType DEF CoreInv, TypeOK
<1>2. Exclusive'
  BY DEF CoreInv, Exclusive, Owns, Fail, locks
<1>3. TxnInv(t)'
  <2>1. pc'[t] = "failed"
    BY DEF Fail, Goto, CoreInv, TypeOK
  <2>2. TxnInv(t)
    BY DEF CoreInv
  <2>3. AskedInv(t)'
    BY <2>1, <2>2 DEF TxnInv, AskedInv, Fail, data, input, work
  <2>. QED
    BY <2>1, <2>3 DEF TxnInv, ReadInv, WriteInv, MoveInv, PostWrite, Accepted
<1>4. Frame(t)
  BY DEF Frame, Fail, Goto, CoreInv, TypeOK, data, input, work, locks
<1>. QED
  BY <1>1, <1>2, <1>3, <1>4, OthersKeep

-----------------------------------------------------------------------------
\* What the walk establishes.  If r is not above its new parent, every set closed
\* under "has its parent in the set" would be closed without r too.
LEMMA WalkKeepsForest ==
  ASSUME NEW f \in [Rows -> Rows \cup {None}], Acyclic(f), NEW r \in Rows,
         NEW p \in Rows \cup {None},
         p \in Rows => r \notin Above([f EXCEPT ![r] = p], p)
  PROVE  Acyclic([f EXCEPT ![r] = p])
<1> DEFINE g == [f EXCEPT ![r] = p]
<1>0. g \in [Rows -> Rows \cup {None}] /\ g[r] = p /\ \A s \in Rows \ {r} : g[s] = f[s]
  OBVIOUS
<1> SUFFICES ASSUME NEW S \in SUBSET Rows, S # {}, \A s \in S : g[s] \in S PROVE FALSE
  BY DEF Acyclic
<1>n. None \notin Rows
  BY CatalogAssumption
<1>1. CASE r \notin S
  <2>1. \A s \in S : f[s] \in S
    BY <1>0, <1>1
  <2>. QED
    BY <2>1 DEF Acyclic
<1>2. CASE r \in S
  <2>1. p \in S /\ p \in Rows
    BY <1>2, <1>0
  <2>2. PICK T \in SUBSET Rows : /\ p \in T /\ \A s \in T : g[s] # None => g[s] \in T
                                 /\ r \notin T
    <3>1. r \notin Above(g, p)
      BY <2>1
    <3>. QED
      BY <3>1 DEF Above
  <2>3. \A s \in S \cap T : f[s] \in S \cap T
    BY <2>2, <1>0, <1>n
  <2>4. S \cap T # {} /\ S \cap T \in SUBSET Rows
    BY <2>1, <2>2
  <2>. QED
    BY <2>3, <2>4 DEF Acyclic
<1>. QED
  BY <1>1, <1>2

-----------------------------------------------------------------------------
\* Every step of a transaction before its COMMIT keeps the invariant.
LEMMA StepCore ==
  ASSUME CoreInv, NEW t \in Txns, Step(t), ~Commit(t)
  PROVE  CoreInv'
<1>0. pc[t] # "idle"
  BY DEF Step, Called, CheckNew, AdvisoryLock, LockedOld, CheckOld, HeaderWrite, DirectWrite, Insert, Keys, HierarchyTrigger, Walk, TabularLock, TabularWrite, TabularInsert, LineKeys, Commit, KeyShare
<1>a. TypeOK' /\ TypeOK /\ TableInv /\ Exclusive /\ TxnInv(t)
  BY StepType DEF CoreInv
<1>q. req[t] \in Requests /\ req[t].row \in Rows /\ req[t].kind \in Kinds /\ (req[t].rr => req[t].kind = "direct")
  BY <1>0, <1>a, RequestFields DEF TypeOK
<1>r. Absent \in Row /\ tab[req[t].row] \in Row /\ old[t] \in Row /\ new[t] \in Row
  BY <1>q, <1>a, AbsentRow DEF TypeOK
<1>f. CASE Fail(t)
  BY <1>f, <1>0, FailCore
<1>c. contract \in Contract /\ (contract.lockAlways => contract.hierarchy)
  BY <1>a, CatalogAssumption DEF TypeOK
<1>k. ASSUME UNCHANGED held PROVE Exclusive'
  BY <1>k, <1>a DEF Exclusive, Owns
<1>i. /\ AskedInv(t) /\ ReadInv(t) /\ WriteInv(t) /\ MoveInv(t)
  BY <1>a DEF TxnInv
<1> USE DEF data, input, work, locks
<1>1. CASE Called(t) /\ ~Fail(t)
  <2>1. Frame(t) /\ Exclusive'
    BY <1>1, <1>a, <1>k DEF Called, Frame, Goto, TypeOK
  <2>2. pc'[t] \in {"exists", "advisory", "row"} /\ (pc'[t] = "exists" => req[t].kind = "create")
    BY <1>1, <1>a DEF Called, Goto, TypeOK
  <2>3. AskedInv(t)'
    BY <1>1, <1>i, <2>2 DEF AskedInv, Called
  <2>4. TxnInv(t)'
    BY <2>2, <2>3 DEF TxnInv, ReadInv, WriteInv, MoveInv, PostWrite, Accepted
  <2>. QED
    BY <1>a, <2>1, <2>4, OthersKeep
<1>2. CASE CheckNew(t) /\ ~Fail(t)
  <2>1. Frame(t) /\ Exclusive'
    BY <1>2, <1>a, <1>k DEF CheckNew, Frame, Goto, TypeOK
  <2>2. pc'[t] \in {"advisory", "insert"} /\ pc[t] = "exists" /\ new'[t] = NewOf(t, Absent)
    BY <1>2, <1>a DEF CheckNew, Goto, TypeOK
  <2>3. ~contract.hierarchy => NewOf(t, Absent).parent = None
    BY <1>i, <1>0 DEF AskedInv, NewOf, Given, Absent
  <2>4. AskedInv(t)'
    BY <1>2, <1>i, <2>2, <2>3 DEF AskedInv, CheckNew
  <2>5. TxnInv(t)'
    BY <2>2, <2>4 DEF TxnInv, ReadInv, WriteInv, MoveInv, PostWrite, Accepted
  <2>. QED
    BY <1>a, <2>1, <2>5, OthersKeep
<1>3. CASE AdvisoryLock(t) /\ ~Fail(t)
  <2>0. t # None
    BY CatalogAssumption
  <2>1. Frame(t) /\ Exclusive'
    BY <1>3, <1>a, <1>k, CatalogAssumption DEF AdvisoryLock, Frame, Goto, TypeOK
  <2>2. pc'[t] \in {"insert", "row"} /\ (pc'[t] = "insert" => req[t].kind = "create") /\ pc[t] = "advisory"
    BY <1>3, <1>a DEF AdvisoryLock, Goto, TypeOK
  <2>3. AskedInv(t)'
    BY <1>3, <1>i, <2>2 DEF AskedInv, AdvisoryLock
  <2>4. TxnInv(t)'
    BY <2>2, <2>3 DEF TxnInv, ReadInv, WriteInv, MoveInv, PostWrite, Accepted
  <2>. QED
    BY <1>a, <2>1, <2>4, OthersKeep
<1>4. CASE LockedOld(t) /\ ~Fail(t)
  <2>1. Frame(t)
    BY <1>4, <1>a DEF LockedOld, Lock, Frame, Goto, TypeOK
  <2>2. Exclusive' /\ Owns(t, req[t].row)'
    BY <1>4, <1>a, <1>q, StrongGrant DEF LockedOld, Strength, Strong
  <2>3. /\ pc'[t] \in {"check", "failed"} /\ old'[t] = tab[req[t].row]
        /\ pc'[t] = "check" => tab[req[t].row].ver = exp[t]
    BY <1>4, <1>a DEF LockedOld, ExpectedVersion, Goto, TypeOK
  <2>4. AskedInv(t)'
    BY <1>4, <1>i, <1>a, <1>q, <1>0, <2>3 DEF AskedInv, LockedOld, TableInv
  <2>5. ReadInv(t)'
    BY <1>4, <2>2, <2>3 DEF ReadInv, LockedOld, Owns, PostWrite, Accepted
  <2>6. TxnInv(t)'
    BY <2>3, <2>4, <2>5 DEF TxnInv, WriteInv, MoveInv, PostWrite, Accepted
  <2>. QED
    BY <1>a, <2>1, <2>2, <2>6, OthersKeep
<1>5. CASE CheckOld(t) /\ ~Fail(t)
  <2>1. Frame(t) /\ Exclusive'
    BY <1>5, <1>a, <1>k DEF CheckOld, Frame, Goto, TypeOK
  <2>2. pc'[t] = "write" /\ pc[t] = "check" /\ new'[t] \in {Absent, NewOf(t, old[t])}
    BY <1>5, <1>a DEF CheckOld, Goto, TypeOK
  <2>3. ~contract.hierarchy => NewOf(t, old[t]).parent = None /\ Absent.parent = None
    BY <1>i, <1>0, <1>r DEF AskedInv, NewOf, Given, Absent, Row
  <2>4. AskedInv(t)'
    BY <1>5, <1>i, <2>2, <2>3 DEF AskedInv, CheckOld
  <2>5. ReadInv(t)'
    BY <1>5, <1>i, <2>2 DEF ReadInv, CheckOld, Owns
  <2>6. TxnInv(t)'
    BY <2>2, <2>4, <2>5 DEF TxnInv, WriteInv, MoveInv, PostWrite, Accepted
  <2>. QED
    BY <1>a, <2>1, <2>6, OthersKeep
<1>w. ASSUME NEW b, NEW v \in Row, NEW w \in Handled(v), Written(t, b, Touch(t, w)),
             ~contract.hierarchy => v.parent = None
      PROVE  /\ wrote'[t] /\ new'[t].ver # 0
             /\ ~contract.hierarchy => new'[t].parent = None
  <2>1. w \in Row /\ new'[t] = Touch(t, w) /\ wrote'[t]
    BY <1>w, <1>a, HandledRow DEF Written, TypeOK
  <2>2. ~contract.hierarchy => w = v
    BY <1>w, <1>c DEF Handled
  <2>3. Touch(t, w).ver = w.ver + 1 /\ Touch(t, w).parent = w.parent /\ w.ver \in Nat
    BY <2>1, TouchRow DEF Row
  <2>. QED
    BY <2>1, <2>2, <2>3, <1>w
<1>6. CASE HeaderWrite(t) /\ ~Fail(t)
  <2>1. Frame(t)
    BY <1>6, <1>a DEF HeaderWrite, ZeroRows, Written, Lock, Frame, Goto, TypeOK
  <2>2. Exclusive' /\ Owns(t, req[t].row)'
    BY <1>6, <1>a, <1>q, StrongGrant DEF HeaderWrite, ZeroRows, Strong
  <2>3. pc'[t] = "keys" /\ pc[t] = "write"
    BY <1>6, <1>a DEF HeaderWrite, ZeroRows, Goto, TypeOK
  <2>4. /\ wrote'[t] /\ (new'[t].ver = 0 => new'[t] = Absent)
        /\ ~contract.hierarchy => new'[t].parent = None
    <3>1. CASE Written(t, old[t], Absent)
      BY <3>1, <1>a DEF Written, TypeOK, Absent
    <3>2. CASE \E v \in Handled(new[t]) : Written(t, old[t], Touch(t, v))
      BY <3>2, <1>w, <1>r, <1>i DEF AskedInv
    <3>. QED
      BY <3>1, <3>2, <1>6 DEF HeaderWrite, ZeroRows
  <2>5. AskedInv(t)'
    BY <1>6, <1>i, <2>3, <2>4 DEF AskedInv, HeaderWrite, ZeroRows
  <2>6. ReadInv(t)'
    BY <1>6, <1>i, <2>2, <2>3 DEF ReadInv, HeaderWrite, ZeroRows, Owns
  <2>7. TxnInv(t)'
    BY <2>3, <2>4, <2>5, <2>6 DEF TxnInv, WriteInv, MoveInv, PostWrite, Accepted
  <2>. QED
    BY <1>a, <2>1, <2>2, <2>7, OthersKeep
<1>7. CASE DirectWrite(t) /\ ~Fail(t)
  <2>1. Frame(t)
    BY <1>7, <1>a DEF DirectWrite, Written, Lock, Frame, Goto, TypeOK
  <2>2. Exclusive' /\ Owns(t, req[t].row)'
    BY <1>7, <1>a, <1>q, StrongGrant DEF DirectWrite, Strong
  <2>3. pc'[t] = "keys" /\ pc[t] = "statement" /\ old'[t] = tab[req[t].row]
    BY <1>7, <1>a DEF DirectWrite, Goto, TypeOK
  <2>p. ~contract.hierarchy => tab[req[t].row].parent = None /\ NewOf(t, tab[req[t].row]).parent = None
    BY <1>i, <1>0, <1>r, <1>a, <1>q DEF AskedInv, NewOf, Given, Row, TableInv
  <2>4. /\ wrote'[t] /\ (new'[t].ver = 0 => new'[t] = Absent)
        /\ ~contract.hierarchy => new'[t].parent = None
    <3>1. NewOf(t, tab[req[t].row]) \in Row
      BY <1>q, <1>r, NewOfRow
    <3>. QED
      BY <1>7, <3>1, <2>p, <1>w DEF DirectWrite
  <2>5. AskedInv(t)'
    BY <1>7, <1>i, <2>3, <2>4, <2>p DEF AskedInv, DirectWrite
  <2>6. ReadInv(t)'
    BY <1>7, <1>i, <2>2, <2>3 DEF ReadInv, AskedInv, DirectWrite, Owns
  <2>7. TxnInv(t)'
    BY <2>3, <2>4, <2>5, <2>6 DEF TxnInv, WriteInv, MoveInv, PostWrite, Accepted
  <2>. QED
    BY <1>a, <2>1, <2>2, <2>7, OthersKeep
<1>8. CASE Insert(t) /\ ~Fail(t)
  <2>1. Frame(t)
    BY <1>8, <1>a DEF Insert, DuplicateKey, Written, Lock, Frame, Goto, TypeOK
  <2>2. Exclusive' /\ Owns(t, req[t].row)'
    BY <1>8, <1>a, <1>q, StrongGrant DEF Insert, DuplicateKey, Strong
  <2>3. pc'[t] = "keys" /\ pc[t] = "insert" /\ tab[req[t].row] = Absent
    BY <1>8, <1>a, <1>q, <1>r DEF Insert, DuplicateKey, Goto, TypeOK, TableInv, Exists, Row
  <2>4. /\ wrote'[t] /\ (new'[t].ver = 0 => new'[t] = Absent)
        /\ ~contract.hierarchy => new'[t].parent = None
    BY <1>8, <1>w, <1>r, <1>i DEF AskedInv, Insert, DuplicateKey
  <2>5. AskedInv(t)'
    BY <1>8, <1>i, <2>3, <2>4 DEF AskedInv, Insert, DuplicateKey
  <2>6. ReadInv(t)'
    BY <1>8, <1>i, <2>2, <2>3 DEF ReadInv, AskedInv, Insert, DuplicateKey, Owns, Absent
  <2>7. TxnInv(t)'
    BY <2>3, <2>4, <2>5, <2>6 DEF TxnInv, WriteInv, MoveInv, PostWrite, Accepted
  <2>. QED
    BY <1>a, <2>1, <2>2, <2>7, OthersKeep
\* A step of a transaction that has written: nothing of it changes but its place,
\* its locks and what is left to do.
<1>p. ASSUME pc[t] \in PostWrite, pc'[t] \in PostWrite, Frame(t), Exclusive', Owns(t, req[t].row)',
             UNCHANGED <<data, input, old, new, wrote>>, MoveInv(t)'
      PROVE  CoreInv'
  <2>1. AskedInv(t)'
    BY <1>p, <1>i DEF AskedInv, PostWrite, Accepted
  <2>2. ReadInv(t)' /\ WriteInv(t)'
    BY <1>p, <1>i DEF ReadInv, WriteInv, Owns
  <2>. QED
    BY <1>p, <1>a, <2>1, <2>2, OthersKeep DEF TxnInv
<1>o. pc[t] \in PostWrite /\ UNCHANGED <<held, req>> => Owns(t, req[t].row)'
  BY <1>i DEF ReadInv, Owns
<1>s. ASSUME NEW r \in Rows, pc[t] \in PostWrite, Lock(t, r, "KeyShare"),
             UNCHANGED <<data, pc, input, right, old, new, wrote, own, adv>>
      PROVE  CoreInv'
  <2>1. Frame(t)
    BY <1>s, <1>a DEF Frame, Lock, TypeOK
  <2>2. \A u \in Txns, s \in Rows : Owns(u, s)' <=> Owns(u, s)
    BY <1>s, <1>a, ShareGrant
  <2>3. Exclusive' /\ Owns(t, req[t].row)'
    BY <2>2, <1>s, <1>a, <1>i, <1>q DEF Exclusive, ReadInv
  <2>4. MoveInv(t)'
    BY <1>s, <1>i DEF MoveInv, Moved, Next_Parents
  <2>. QED
    BY <1>s, <1>p, <2>1, <2>3, <2>4
<1>9. CASE Keys(t) /\ ~Fail(t)
  <2>1. pc[t] = "keys" /\ pc[t] \in PostWrite
    BY <1>9 DEF Keys, KeyShare, PostWrite
  <2>2. CASE todo[t] = {} /\ Goto(t, IF Moved(t) THEN "trigger" ELSE AfterRow(t))
             /\ UNCHANGED <<data, input, right, work, locks>>
    <3>1. Frame(t) /\ Exclusive'
      BY <2>2, <1>a, <1>k DEF Frame, Goto, TypeOK
    <3>2. pc'[t] = IF Moved(t) THEN "trigger" ELSE AfterRow(t)
      BY <2>2, <1>a DEF Goto, TypeOK
    <3>3. pc'[t] \in PostWrite
      BY <3>2 DEF AfterRow, PostWrite, Accepted
    <3>4. MoveInv(t)'
      BY <2>2, <3>2 DEF MoveInv, Moved, AfterRow, Accepted
    <3>. QED
      BY <2>1, <2>2, <3>1, <3>3, <3>4, <1>p, <1>o
  <2>3. CASE \E r \in todo[t] : Lock(t, r, "KeyShare")
                               /\ UNCHANGED <<data, pc, input, right, old, new, wrote, own, adv>>
    <3>1. todo[t] \subseteq Rows
      BY <2>1, <1>a DEF TypeOK
    <3>. QED
      BY <2>1, <2>3, <3>1, <1>s
  <2>. QED
    BY <1>9, <2>2, <2>3 DEF Keys, KeyShare
<1>10. CASE HierarchyTrigger(t) /\ ~Fail(t)
  <2>1. pc[t] = "trigger" /\ pc'[t] = "walk" /\ pc[t] \in PostWrite /\ pc'[t] \in PostWrite
    BY <1>10, <1>a DEF HierarchyTrigger, Goto, TypeOK, PostWrite
  <2>2. Frame(t) /\ Exclusive'
    BY <1>10, <1>a, <1>k, CatalogAssumption DEF HierarchyTrigger, TriggerLock, Frame, Goto, TypeOK
  <2>3. MoveInv(t)'
    BY <1>10, <2>1 DEF MoveInv, HierarchyTrigger, TriggerLock, TriggerRefuses, Accepted
  <2>. QED
    BY <1>10, <2>1, <2>2, <2>3, <1>p, <1>o DEF HierarchyTrigger
<1>11. CASE Walk(t) /\ ~Fail(t)
  <2>1. pc[t] = "walk" /\ pc'[t] = AfterRow(t) /\ UNCHANGED <<data, input, right, work, locks>>
    BY <1>11, <1>a DEF Walk, Goto, TypeOK
  <2>2. pc[t] \in PostWrite /\ pc'[t] \in PostWrite /\ pc'[t] # "walk"
    BY <2>1 DEF AfterRow, PostWrite, Accepted
  <2>3. Frame(t) /\ Exclusive'
    BY <1>11, <2>1, <1>a, <1>k DEF Walk, Frame, Goto, TypeOK
  <2>4. adv = t /\ WalkReads(t) = ParentOf(tab)
    BY <2>1, <1>i DEF MoveInv, WalkReads
  <2>5. new[t].parent \in Rows => req[t].row \notin Above(Next_Parents(t), new[t].parent)
    BY <1>11, <2>4 DEF Walk, Next_Parents
  <2>6. Acyclic(Next_Parents(t))
    <3>1. ParentOf(tab) \in [Rows -> Rows \cup {None}] /\ Acyclic(ParentOf(tab))
      BY <1>a, ParentOfType DEF TypeOK, TableInv, HierarchyIsForest
    <3>2. new[t].parent \in Rows \cup {None}
      BY <1>r DEF Row
    <3>. QED
      BY <3>1, <3>2, <2>5, <1>q, WalkKeepsForest DEF Next_Parents
  <2>7. MoveInv(t)'
    BY <2>1, <2>2, <2>4, <2>6 DEF MoveInv, Next_Parents
  <2>. QED
    BY <2>1, <2>2, <2>3, <2>7, <1>p, <1>o
\* The steps over the lines.
<1>l. ASSUME pc[t] \in Accepted, pc'[t] \in Accepted, Frame(t), UNCHANGED <<data, input, old, new, wrote, held, adv>>
      PROVE  CoreInv'
  <2>1. MoveInv(t)'
    BY <1>l, <1>i DEF MoveInv, Moved, Next_Parents, Accepted
  <2>. QED
    BY <1>l, <2>1, <1>p, <1>o, <1>k DEF PostWrite
<1>12. CASE TabularLock(t) /\ ~Fail(t)
  <2>1. pc[t] \in Accepted /\ pc'[t] \in Accepted /\ Frame(t) /\ UNCHANGED <<data, input, old, new, wrote, held, adv>>
    BY <1>12, <1>a DEF TabularLock, Frame, Goto, TypeOK, Accepted
  <2>. QED
    BY <2>1, <1>l
<1>13. CASE TabularWrite(t) /\ ~Fail(t)
  <2>1. pc[t] \in Accepted /\ pc'[t] \in Accepted /\ Frame(t) /\ UNCHANGED <<data, input, old, new, wrote, held, adv>>
    BY <1>13, <1>a DEF TabularWrite, Frame, Goto, TypeOK, Accepted
  <2>. QED
    BY <2>1, <1>l
<1>14. CASE TabularInsert(t) /\ ~Fail(t)
  <2>1. pc[t] \in Accepted /\ pc'[t] \in Accepted /\ Frame(t) /\ UNCHANGED <<data, input, old, new, wrote, held, adv>>
    BY <1>14, <1>a DEF TabularInsert, Frame, Goto, TypeOK, Accepted
  <2>. QED
    BY <2>1, <1>l
<1>15. CASE LineKeys(t) /\ ~Fail(t)
  <2>1. pc[t] = "lineKeys" /\ pc[t] \in Accepted /\ pc[t] \in PostWrite
    BY <1>15 DEF LineKeys, KeyShare, PostWrite, Accepted
  <2>2. CASE Goto(t, "done") /\ UNCHANGED <<data, input, right, work, locks>>
    <3>1. pc'[t] \in Accepted /\ Frame(t)
      BY <2>2, <1>a DEF Frame, Goto, TypeOK, Accepted
    <3>. QED
      BY <2>1, <2>2, <3>1, <1>l
  <2>3. CASE \E r \in todo[t] : Lock(t, r, "KeyShare")
                               /\ UNCHANGED <<data, pc, input, right, old, new, wrote, own, adv>>
    <3>1. todo[t] \subseteq Rows
      BY <2>1, <1>a DEF TypeOK
    <3>. QED
      BY <2>1, <2>3, <3>1, <1>s
  <2>. QED
    BY <1>15, <2>2, <2>3 DEF LineKeys, KeyShare
<1>. QED
  BY <1>f, <1>1, <1>2, <1>3, <1>4, <1>5, <1>6, <1>7, <1>8, <1>9, <1>10, <1>11, <1>12, <1>13, <1>14, <1>15 DEF Step

\* COMMIT publishes the row.  The others own other rows, so what they have read
\* stays; a committed move was the only one that held the hierarchy lock.
LEMMA CommitCore ==
  ASSUME CoreInv, NEW t \in Txns, Commit(t)
  PROVE  CoreInv'
<1>0. pc[t] = "done" /\ pc[t] \in PostWrite /\ pc[t] \in Accepted /\ pc[t] # "idle"
  BY DEF Commit, PostWrite, Accepted
<1>a. TypeOK' /\ TypeOK /\ TableInv /\ Exclusive /\ TxnInv(t)
  BY StepType DEF CoreInv, Step
<1>q. req[t] \in Requests /\ req[t].row \in Rows
  BY <1>0, <1>a, RequestFields DEF TypeOK
<1>r. new[t] \in Row /\ Absent \in Row /\ tab \in [Rows -> Row]
  BY <1>a, AbsentRow DEF TypeOK
<1>n. t # None
  BY CatalogAssumption
<1>i. /\ AskedInv(t) /\ ReadInv(t) /\ WriteInv(t) /\ MoveInv(t)
  BY <1>a DEF TxnInv
<1>1. tab' = [tab EXCEPT ![req[t].row] = new[t]] /\ contract' = contract
  BY <1>0, <1>i DEF WriteInv, Commit
<1>2. ParentOf(tab') = Next_Parents(t)
  BY <1>1, <1>r, <1>q DEF ParentOf, Next_Parents
<1>3. ASSUME ~Moved(t) PROVE ParentOf(tab') = ParentOf(tab)
  <2>1. new[t].parent = tab[req[t].row].parent
    BY <1>3, <1>0, <1>i, <1>a, <1>q DEF Moved, AskedInv, ReadInv, TableInv
  <2>. QED
    BY <2>1, <1>2, <1>q DEF ParentOf, Next_Parents
<1>4. HierarchyIsForest'
  <2>1. CASE Moved(t)
    BY <2>1, <1>0, <1>i, <1>2 DEF MoveInv, HierarchyIsForest
  <2>2. CASE ~Moved(t)
    BY <2>2, <1>3, <1>a DEF TableInv, HierarchyIsForest
  <2>. QED
    BY <2>1, <2>2
<1>5. TableInv'
  <2>1. \A r \in Rows : tab'[r].ver = 0 => tab'[r] = Absent
    BY <1>0, <1>1, <1>r, <1>i, <1>a DEF WriteInv, TableInv
  <2>2. ~contract'.hierarchy => \A r \in Rows : tab'[r].parent = None
    BY <1>1, <1>r, <1>i, <1>a DEF AskedInv, TableInv
  <2>. QED
    BY <2>1, <2>2, <1>4 DEF TableInv
<1>6. Exclusive'
  BY <1>a DEF Exclusive, Owns, Commit, Release, End, TypeOK
<1>7. ASSUME NEW u \in Txns \ {t} PROVE TxnInv(u)'
  <2>0. TxnInv(u)
    BY DEF CoreInv
  <2>1. /\ pc'[u] = pc[u] /\ req'[u] = req[u] /\ exp'[u] = exp[u] /\ old'[u] = old[u]
        /\ new'[u] = new[u] /\ wrote'[u] = wrote[u] /\ held'[u] = held[u]
        /\ adv = u => adv' = u
    BY <1>7, <1>a DEF Commit, Release, End, Goto, TypeOK, input
  <2>2. AskedInv(u)'
    BY <2>0, <2>1, <1>1 DEF TxnInv, AskedInv
  <2>3. ReadInv(u)'
    <3>1. SUFFICES ASSUME pc[u] \in {"check", "write"} \cup PostWrite
                   PROVE  Owns(u, req[u].row)' /\ old'[u] = tab'[req'[u].row]
                          /\ (req'[u].kind # "direct" => old'[u].ver = exp'[u])
      BY <2>1 DEF ReadInv
    <3>2. Owns(u, req[u].row) /\ old[u] = tab[req[u].row] /\ (req[u].kind # "direct" => old[u].ver = exp[u])
      BY <3>1, <2>0 DEF TxnInv, ReadInv
    <3>3. Owns(t, req[t].row)
      BY <1>0, <1>i DEF ReadInv
    <3>4. req[u].row \in Rows
      BY <3>1, <1>a, RequestFields DEF TypeOK, PostWrite, Accepted
    <3>5. req[u].row # req[t].row
      BY <3>2, <3>3, <3>4, <1>a, <1>7 DEF Exclusive
    <3>. QED
      BY <3>2, <3>4, <3>5, <2>1, <1>1, <1>r DEF Owns
  <2>4. WriteInv(u)'
    BY <2>0, <2>1 DEF TxnInv, WriteInv
  <2>5. MoveInv(u)'
    <3>1. CASE Moved(t)
      <4>1. adv = t
        BY <3>1, <1>0, <1>i DEF MoveInv
      <4>. QED
        BY <4>1, <1>7, <2>0, <2>1, <1>1 DEF TxnInv, MoveInv, Moved
    <3>2. CASE ~Moved(t)
      BY <3>2, <1>3, <2>0, <2>1, <1>1 DEF TxnInv, MoveInv, Moved, Next_Parents
    <3>. QED
      BY <3>1, <3>2
  <2>. QED
    BY <2>2, <2>3, <2>4, <2>5 DEF TxnInv
<1>8. TxnInv(t)'
  <2>1. pc'[t] = "committed" /\ old'[t] = Absent /\ new'[t] = Absent /\ UNCHANGED <<req, exp>>
    BY <1>a DEF Commit, Release, End, Goto, TypeOK, input
  <2>. QED
    BY <2>1, <1>0, <1>1, <1>i DEF TxnInv, AskedInv, ReadInv, WriteInv, MoveInv, PostWrite, Accepted, Absent
<1>. QED
  BY <1>a, <1>5, <1>6, <1>7, <1>8 DEF CoreInv

\* The inductive invariant holds at the start.
LEMMA InitCore == Init => CoreInv
<1> SUFFICES ASSUME Init PROVE CoreInv
  OBVIOUS
<1>1. TypeOK
  BY InitType
<1>2. TableInv
  BY CatalogAssumption DEF Init, TableInv, HierarchyIsForest
<1>3. Exclusive
  BY DEF Init, Exclusive, Owns
<1>4. \A t \in Txns : TxnInv(t)
  BY DEF Init, TxnInv, AskedInv, ReadInv, WriteInv, MoveInv, PostWrite, Accepted, Absent
<1>. QED
  BY <1>1, <1>2, <1>3, <1>4 DEF CoreInv

\* A transaction that begins has read nothing and holds nothing.
LEMMA BeginCore ==
  ASSUME CoreInv, NEW t \in Txns, NEW q \in Requests, Begin(t, q)
  PROVE  CoreInv'
<1>a. TypeOK' /\ TypeOK /\ Exclusive /\ AskedInv(t)
  BY BeginType DEF CoreInv, TxnInv
<1>1. Frame(t)
  BY <1>a DEF Begin, Frame, Goto, TypeOK, data, work, locks
<1>2. Exclusive'
  BY <1>a DEF Exclusive, Owns, Begin, locks
<1>3. /\ pc[t] = "idle" /\ req'[t] = q /\ UNCHANGED <<contract, old, new>> /\ Offered(q)
      /\ pc'[t] = IF q.kind = "direct" THEN "statement" ELSE "called"
      /\ q.kind = "create" => exp'[t] = 0
  BY <1>a DEF Begin, Goto, TypeOK, data, work
<1>4. contract.deletable => ~contract.hierarchy
  BY <1>a, CatalogAssumption DEF TypeOK
<1>5. AskedInv(t)'
  BY <1>a, <1>3, <1>4 DEF AskedInv, Offered
<1>6. TxnInv(t)'
  BY <1>3, <1>5 DEF TxnInv, ReadInv, WriteInv, MoveInv, PostWrite, Accepted
<1>. QED
  BY <1>a, <1>1, <1>2, <1>6, OthersKeep

\* ROLLBACK gives back what the transaction held and relies on nothing any more.
LEMMA RollbackCore ==
  ASSUME CoreInv, NEW t \in Txns, Rollback(t)
  PROVE  CoreInv'
<1>a. TypeOK' /\ TypeOK /\ Exclusive /\ AskedInv(t)
  BY RollbackType DEF CoreInv, TxnInv
<1>1. Frame(t)
  BY <1>a DEF Rollback, Release, End, Frame, Goto, TypeOK, data, input
<1>2. Exclusive'
  BY <1>a DEF Exclusive, Owns, Rollback, Release, End, TypeOK
<1>3. /\ pc[t] # "idle" /\ pc'[t] = "rolledBack" /\ old'[t] = Absent /\ new'[t] = Absent
      /\ UNCHANGED <<contract, req, exp>>
  BY <1>a DEF Rollback, Release, End, Goto, TypeOK, data, input, Active
<1>4. TxnInv(t)'
  BY <1>a, <1>3 DEF TxnInv, AskedInv, ReadInv, WriteInv, MoveInv, PostWrite, Accepted, Absent
<1>. QED
  BY <1>a, <1>1, <1>2, <1>4, OthersKeep

\* Every step keeps the inductive invariant.
LEMMA NextCore == CoreInv /\ [Next]_vars => CoreInv'
<1> SUFFICES ASSUME CoreInv, [Next]_vars PROVE CoreInv'
  OBVIOUS
<1>1. ASSUME NEW t \in Txns, NEW q \in Requests, Begin(t, q) PROVE CoreInv'
  BY <1>1, BeginCore
<1>2. ASSUME NEW t \in Txns, Step(t) PROVE CoreInv'
  BY <1>2, StepCore, CommitCore
<1>3. ASSUME NEW t \in Txns, Revoke(t) PROVE CoreInv'
  <2>1. TypeOK'
    BY NextType, <1>3 DEF CoreInv, Next
  <2>. QED
    BY <1>3, <2>1, SMTT(30) DEF Revoke, CoreInv, TableInv, HierarchyIsForest, Exclusive, Owns, TxnInv, AskedInv, ReadInv, WriteInv, MoveInv, Moved, Next_Parents, data, input, work, locks
<1>4. ASSUME NEW t \in Txns, Rollback(t) PROVE CoreInv'
  BY <1>4, RollbackCore
<1>5. ASSUME NEW t \in Txns, Detect(t) PROVE CoreInv'
  <2>1. PICK S \in SUBSET Txns : t \in S /\ Stuck(S)
    BY <1>5 DEF Detect
  <2>2. WaitsFor(t) # {}
    BY <2>1 DEF Stuck
  <2>3. pc[t] # "idle"
    BY <2>2 DEF WaitsFor
  <2>. QED
    BY <1>5, <2>3, FailCore DEF Detect
<1>6. CASE UNCHANGED vars
  BY <1>6 DEF CoreInv, TypeOK, TableInv, HierarchyIsForest, Exclusive, Owns, TxnInv, AskedInv, ReadInv, WriteInv, MoveInv, Moved, Next_Parents, vars, data, input, work, locks
<1>. QED
  BY <1>1, <1>2, <1>3, <1>4, <1>5, <1>6 DEF Next

\* The inductive invariant holds in every reachable state.
THEOREM CoreInvariant == Spec => []CoreInv
<1>1. Init => CoreInv
  BY InitCore
<1>2. CoreInv /\ [Next]_vars => CoreInv'
  BY NextCore
<1>. QED
  BY <1>1, <1>2, PTL DEF Spec

\* The hierarchy trigger: whatever transactions move rows, through the commands
\* or around them, the committed parents are a forest.
THEOREM ForestHolds == Spec => []HierarchyIsForest
<1>1. CoreInv => HierarchyIsForest
  BY DEF CoreInv, TableInv
<1>. QED
  BY <1>1, CoreInvariant, PTL

\* The version check under the row lock: no committed change overwrites one its
\* author has not seen.
THEOREM UpdatesAreNotLost == Spec => NoLostUpdate
<1>1. CoreInv /\ [Next]_vars =>
        [\A t \in Txns : Commits(t) =>
           /\ tab[req[t].row] = old[t]
           /\ req[t].kind # "direct" => old[t].ver = exp[t]]_vars
  BY DEF CoreInv, TxnInv, ReadInv, Commits, PostWrite, Accepted
<1>. QED
  BY <1>1, CoreInvariant, PTL DEF Spec, NoLostUpdate

-----------------------------------------------------------------------------
\* The lines of the tabular section.  A line locked or inserted by one transaction
\* is nobody else's, and belongs to its row or to none.
LineInv ==
  /\ \A t, u \in Txns : t # u => own[t] \cap own[u] = {}
  /\ \A t \in Txns : /\ pc[t] = "idle" => own[t] = {}
                     /\ \A l \in own[t] : lines[l] \in {None, req[t].row}

\* What COMMIT does to a line.
LEMMA CommitLines ==
  ASSUME NEW t \in Txns, Commit(t), NEW l \in Lines
  PROVE  /\ l \notin own[t] => lines'[l] = lines[l]
         /\ lines'[l] \in {lines[l], req[t].row, None}
  BY DEF Commit

\* Every step of a transaction keeps the invariant of the lines.
LEMMA StepLines ==
  ASSUME TypeOK, LineInv, NEW t \in Txns, Step(t)
  PROVE  LineInv'
<1>0. /\ pc[t] # "idle" /\ req' = req
      /\ \A u \in Txns \ {t} : pc'[u] = pc[u]
      /\ pc'[t] # "idle"
  BY DEF Step, Called, CheckNew, AdvisoryLock, LockedOld, CheckOld, HeaderWrite, ZeroRows, DirectWrite, Insert, DuplicateKey, Keys, HierarchyTrigger, Walk, TabularLock, TabularWrite, TabularInsert, LineKeys, Commit, KeyShare, AfterRow, Fail, Goto, TypeOK, input
<1>1. CASE UNCHANGED <<lines, own>>
  BY <1>0, <1>1 DEF LineInv
<1>2. CASE lines' = lines /\ \E S \in SUBSET Lines :
             /\ own' = [own EXCEPT ![t] = @ \cup S]
             /\ \A l \in S : LineBlockers(t, l) = {} /\ lines[l] \in {None, req[t].row}
  <2>1. PICK S \in SUBSET Lines :
             /\ own' = [own EXCEPT ![t] = @ \cup S]
             /\ \A l \in S : LineBlockers(t, l) = {} /\ lines[l] \in {None, req[t].row}
    BY <1>2
  <2>2. own'[t] = own[t] \cup S /\ \A u \in Txns \ {t} : own'[u] = own[u] /\ own[u] \cap S = {}
    BY <2>1 DEF TypeOK, LineBlockers
  <2>3. \A u \in Txns : \A l \in own'[u] : lines'[l] \in {None, req'[u].row}
    BY <1>0, <1>2, <2>1, <2>2 DEF LineInv
  <2>. QED
    BY <1>0, <2>2, <2>3 DEF LineInv
<1>3. CASE Commit(t)
  <2>1. own'[t] = {} /\ \A u \in Txns \ {t} : own'[u] = own[u]
    BY <1>3 DEF Commit, Release, End, TypeOK
  <2>2. \A l \in Lines : l \notin own[t] => lines'[l] = lines[l]
    BY <1>3, CommitLines
  <2>3. \A u \in Txns : own[u] \subseteq Lines
    BY DEF TypeOK
  <2>4. \A u \in Txns \ {t} : \A l \in own[u] : lines'[l] \in {None, req[u].row}
    BY <2>2, <2>3 DEF LineInv
  <2>. QED
    BY <1>0, <2>1, <2>4 DEF LineInv
<1>4. CASE TabularLock(t)
  <2>1. LinesOf(req[t].row) \in SUBSET Lines /\ \A l \in LinesOf(req[t].row) : lines[l] = req[t].row
    BY DEF LinesOf
  <2>2. ASSUME NEW S \in {LinesOf(req[t].row), {}}, \A l \in S : LineBlockers(t, l) = {},
               lines' = lines, own' = [own EXCEPT ![t] = @ \cup S]
        PROVE  LineInv'
    <3>1. S \in SUBSET Lines /\ \A l \in S : lines[l] \in {None, req[t].row}
      BY <2>1
    <3>. QED
      BY <3>1, <2>2, <1>2
  <2>3. CASE UNCHANGED <<lines, own>>
    BY <2>3, <1>1
  <2>. QED
    BY <1>4, <2>2, <2>3 DEF TabularLock, Fail, data, locks
<1>5. CASE TabularInsert(t)
  <2>1. pc[t] = "insertLines" /\ todo[t] \subseteq Lines
    BY <1>5 DEF TabularInsert, TypeOK
  <2>2. ASSUME NEW l \in todo[t], LineBlockers(t, l) = {}, ~LineTaken(l), lines' = lines,
               own' = [own EXCEPT ![t] = @ \cup {l}]
        PROVE  LineInv'
    <3>1. {l} \in SUBSET Lines /\ lines[l] = None
      BY <2>1, <2>2 DEF LineTaken
    <3>. QED
      BY <3>1, <2>2, <1>2
  <2>. QED
    BY <1>1, <1>5, <2>2 DEF TabularInsert, Fail, data, locks
<1>. QED
  BY <1>1, <1>3, <1>4, <1>5 DEF Step, Called, CheckNew, AdvisoryLock, LockedOld, CheckOld, HeaderWrite, ZeroRows, DirectWrite, Insert, DuplicateKey, Keys, HierarchyTrigger, Walk, TabularWrite, LineKeys, KeyShare, Fail, data, locks

\* Every step keeps the invariant of the lines.
LEMMA NextLines == TypeOK /\ LineInv /\ [Next]_vars => LineInv'
<1> SUFFICES ASSUME TypeOK, LineInv, [Next]_vars PROVE LineInv'
  OBVIOUS
<1>1. ASSUME NEW t \in Txns, NEW q \in Requests, Begin(t, q) PROVE LineInv'
  BY <1>1 DEF Begin, Goto, TypeOK, LineInv, data, locks
<1>2. ASSUME NEW t \in Txns, Step(t) PROVE LineInv'
  BY <1>2, StepLines
<1>3. ASSUME NEW t \in Txns, Revoke(t) PROVE LineInv'
  BY <1>3 DEF Revoke, LineInv, data, input, locks
<1>4. ASSUME NEW t \in Txns, Rollback(t) PROVE LineInv'
  BY <1>4 DEF Rollback, Release, End, Goto, TypeOK, LineInv, data, input
<1>5. ASSUME NEW t \in Txns, Detect(t) PROVE LineInv'
  BY <1>5 DEF Detect, Fail, Goto, TypeOK, LineInv, data, input, locks
<1>6. CASE UNCHANGED vars
  BY <1>6 DEF LineInv, vars, data, input, locks
<1>. QED
  BY <1>1, <1>2, <1>3, <1>4, <1>5, <1>6 DEF Next

\* The key of the section and the check of the owner: however two saves interleave,
\* no line moves from one owner to another.
THEOREM LinesStay == Spec => LinesKeepOwner
<1>1. Init => LineInv
  BY DEF Init, LineInv
<1>2. TypeOK /\ LineInv /\ [Next]_vars => LineInv'
  BY NextLines
<1>3. TypeOK /\ LineInv /\ [Next]_vars =>
        [\A l \in Lines : lines[l] # None => lines'[l] \in {lines[l], None}]_vars
  <2> SUFFICES ASSUME TypeOK, LineInv, [Next]_vars, NEW l \in Lines, lines[l] # None
               PROVE  lines'[l] \in {lines[l], None}
    OBVIOUS
  <2>1. CASE lines' = lines
    BY <2>1
  <2>2. ASSUME NEW t \in Txns, Commit(t) PROVE lines'[l] \in {lines[l], None}
    <3>1. l \in own[t] => lines[l] = req[t].row
      BY DEF LineInv
    <3>. QED
      BY <2>2, <3>1, CommitLines
  <2>3. ASSUME NEW t \in Txns, Step(t), ~Commit(t) PROVE lines' = lines
    BY <2>3 DEF Step, Called, CheckNew, AdvisoryLock, LockedOld, CheckOld, HeaderWrite, ZeroRows, DirectWrite, Insert, DuplicateKey, Keys, HierarchyTrigger, Walk, TabularLock, TabularWrite, TabularInsert, LineKeys, KeyShare, Fail, data
  <2>. QED
    BY <2>1, <2>2, <2>3 DEF Next, Begin, Revoke, Rollback, Detect, Fail, vars, data
<1>. QED
  BY <1>1, <1>2, <1>3, TypeCorrect, PTL DEF Spec, LinesKeepOwner
=============================================================================
