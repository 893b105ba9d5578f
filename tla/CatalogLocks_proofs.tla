------------------------- MODULE CatalogLocks_proofs -------------------------
(***************************************************************************)
(* What a save commits is what it was asked for, and commands do not lock   *)
(* each other out: proofs over the inductive invariant of CatalogCore.      *)
(***************************************************************************)
EXTENDS CatalogCore_proofs

-----------------------------------------------------------------------------
\* Before its first row lock a transaction holds none; lines are locked last.
Unlocked  == {"idle", "called", "exists", "advisory", "row", "statement", "insert"}
WithLines == {"lines", "insertLines", "lineKeys", "done"}

\* The locks a transaction has where it stands: a strong one only on the row it
\* writes, FOR UPDATE only where the key goes or comes, and the lock of the
\* hierarchy before the row whenever a command may move it.
LockInv(t) ==
  /\ pc[t] # "idle" => /\ req[t].kind = "delete" => contract.deletable
                       /\ contract.deletable => req[t].ref = Keep /\ req[t].lines = Keep
  /\ pc[t] \in Unlocked => held[t] = {}
  /\ \A r \in Rows, m \in Modes : <<r, m>> \in held[t] =>
       /\ m # "KeyShare" => r = req[t].row
       /\ m = "Update" => req[t].kind \in {"create", "delete"} \/ req[t].key
  /\ pc[t] = "write" /\ req[t].kind = "delete" => <<req[t].row, "Update">> \in held[t]
  /\ pc[t] = "check" /\ req[t].kind = "delete" => <<req[t].row, "Update">> \in held[t]
  /\ pc[t] = "keys" /\ contract.deletable => todo[t] = {}
  /\ pc[t] = "lineKeys" => req[t].lines # Keep
  /\ pc[t] = "trigger" => Moved(t)
  /\ pc[t] \in {"row", "check", "write", "insert", "keys", "trigger"}
     /\ req[t].kind # "direct" /\ HierarchyLockFirst(t) => adv = t
  /\ pc[t] \notin WithLines \cup {"failed"} => own[t] = {}

\* The row under way is what the request makes of the row before.
SavedInv(t) ==
  /\ pc[t] = "insert" \/ (pc[t] = "advisory" /\ req[t].kind = "create")
       => new[t] = NewOf(t, Absent)
  /\ pc[t] = "write" /\ req[t].kind # "delete" => new[t] = NewOf(t, old[t])
  /\ pc[t] \in PostWrite /\ req[t].kind # "delete"
       => \E v \in Handled(NewOf(t, old[t])) : new[t] = Touch(t, v)

\* The lines: with the right, all lines of the row are locked; those named are
\* locked or still to be inserted.
LinesInv(t) ==
  pc[t] \in WithLines /\ req[t].kind \in {"create", "update"} /\ req[t].lines # Keep =>
    /\ right[t] => LinesOf(req[t].row) \subseteq own[t]
    /\ pc[t] = "insertLines" => req[t].lines \subseteq own[t] \cup todo[t]
    /\ pc[t] \in {"lineKeys", "done"} => req[t].lines \subseteq own[t]

LocalInv(t) == LockInv(t) /\ SavedInv(t) /\ LinesInv(t)

\* A row locked FOR UPDATE is locked by nobody else.
UpdateAlone ==
  \A t, u \in Txns, r \in Rows, m \in Modes :
    t # u /\ <<r, "Update">> \in held[t] => <<r, m>> \notin held[u]

LocksInv == UpdateAlone /\ \A t \in Txns : LocalInv(t)

-----------------------------------------------------------------------------
\* A lock is granted only beside compatible ones.
LEMMA GrantAlone ==
  ASSUME TypeOK, UpdateAlone, NEW t \in Txns, NEW r \in Rows, NEW mode \in Modes,
         Blockers(t, r, mode) = {}, Lock(t, r, mode)
  PROVE  UpdateAlone' /\ held'[t] = held[t] \cup {<<r, mode>>}
<1>1. held'[t] = held[t] \cup {<<r, mode>>} /\ \A u \in Txns \ {t} : held'[u] = held[u]
  BY DEF Lock, TypeOK
<1>2. \A u \in Txns \ {t} : \A m \in Conflicts(mode) : <<r, m>> \notin held[u]
  BY DEF Blockers
<1>3. "Update" \in Conflicts(mode) /\ (mode = "Update" => Conflicts(mode) = Modes)
  BY DEF Conflicts, Modes
<1>4. ASSUME NEW u \in Txns, NEW w \in Txns, NEW s \in Rows, NEW m \in Modes, u # w,
             <<s, "Update">> \in held'[u], <<s, m>> \in held'[w]
      PROVE  FALSE
  <2>1. CASE u = t
    <3>1. <<s, m>> \in held[w]
      BY <1>1, <1>4, <2>1
    <3>2. <<s, "Update">> \in held[t] \/ (s = r /\ mode = "Update")
      BY <1>1, <1>4, <2>1
    <3>. QED
      BY <3>1, <3>2, <1>2, <1>3, <1>4, <2>1 DEF UpdateAlone
  <2>2. CASE u # t
    <3>1. <<s, "Update">> \in held[u]
      BY <1>1, <1>4, <2>2
    <3>2. <<s, m>> \in held[w] \/ (w = t /\ s = r)
      BY <1>1, <1>4
    <3>. QED
      BY <3>1, <3>2, <1>2, <1>3, <1>4, <2>2 DEF UpdateAlone
  <2>. QED
    BY <2>1, <2>2
<1>. QED
  BY <1>1, <1>4 DEF UpdateAlone

\* A step of t that leaves the rest of the others alone too.
Apart(t) ==
  /\ Frame(t) /\ lines' = lines
  /\ \A u \in Txns \ {t} : todo'[u] = todo[u] /\ own'[u] = own[u] /\ right'[u] = right[u]

\* Such a step keeps what holds of the others.
LEMMA OthersLocal ==
  ASSUME LocksInv, NEW t \in Txns, Apart(t), UpdateAlone', LocalInv(t)'
  PROVE  LocksInv'
<1>1. ASSUME NEW u \in Txns \ {t} PROVE LocalInv(u)'
  <2>1. LockInv(u) /\ SavedInv(u) /\ LinesInv(u)
    BY DEF LocksInv, LocalInv
  <2>. USE <1>1, <2>1 DEF Apart, Frame
  <2>2. LockInv(u)'
    BY DEF LockInv, Moved, HierarchyLockFirst
  <2>3. SavedInv(u)'
    <3>1. NewOf(u, Absent)' = NewOf(u, Absent) /\ NewOf(u, old[u])' = NewOf(u, old[u])
      BY DEF NewOf
    <3>2. Handled(NewOf(u, old[u]))' = Handled(NewOf(u, old[u]))
      BY <3>1 DEF Handled
    <3>. QED
      BY <3>1, <3>2 DEF SavedInv, Touch
  <2>4. LinesInv(u)'
    BY DEF LinesInv, LinesOf
  <2>. QED
    BY <2>2, <2>3, <2>4 DEF LocalInv
<1>. QED
  BY <1>1 DEF LocksInv

\* A refusal keeps the locks and relies on nothing.
LEMMA FailLocks ==
  ASSUME TypeOK, LocksInv, NEW t \in Txns, Fail(t), pc[t] # "idle"
  PROVE  LocksInv'
<1>1. Apart(t) /\ UpdateAlone' /\ pc'[t] = "failed"
  BY DEF Apart, Frame, Fail, Goto, TypeOK, UpdateAlone, LocksInv, data, input, work, locks
<1>2. LockInv(t)
  BY DEF LocksInv, LocalInv
<1>3. LockInv(t)'
  BY <1>1, <1>2 DEF LockInv, Fail, Unlocked, data, input, work, locks
<1>4. SavedInv(t)' /\ LinesInv(t)'
  BY <1>1 DEF SavedInv, LinesInv, PostWrite, Accepted, WithLines
<1>. QED
  BY <1>1, <1>3, <1>4, OthersLocal DEF LocalInv

\* A command that has moved its row had to take the lock of the hierarchy first.
LEMMA MovedFirst ==
  ASSUME CoreInv, LocksInv, NEW t \in Txns, pc[t] \in {"keys", "trigger"}, Moved(t),
         req[t].kind # "direct"
  PROVE  HierarchyLockFirst(t) /\ adv = t
<1>1. /\ req[t] \in Requests /\ old[t] \in Row /\ new[t] \in Row /\ contract \in Contracts
      /\ AskedInv(t) /\ LockInv(t) /\ SavedInv(t) /\ ReadInv(t)
  BY DEF CoreInv, TypeOK, TxnInv, LocksInv, LocalInv
<1>2. req[t].kind \in Kinds \ {"direct", "delete"} /\ contract.hierarchy
  BY <1>1, RequestFields DEF Moved, AskedInv
<1>3. CASE ~contract.lockAlways
  <2>1. NewOf(t, old[t]) \in Row
    BY <1>1, NewOfRow
  <2>2. new[t] = Touch(t, NewOf(t, old[t]))
    BY <1>1, <1>2, <1>3 DEF SavedInv, Handled, PostWrite
  <2>3. new[t].parent = NewOf(t, old[t]).parent
    BY <2>1, <2>2, TouchRow
  <2>4. NewOf(t, old[t]).parent = Given(req[t].parent, old[t].parent)
    BY <1>1 DEF NewOf, Row
  <2>5. req[t].parent # Keep /\ req[t].parent # old[t].parent
    BY <2>3, <2>4 DEF Given, Moved
  <2>6. req[t].kind \in {"create", "update"}
    BY <1>1, <1>2, <2>5, CatalogAssumption DEF Kinds
  <2>7. ASSUME req[t].kind = "create" PROVE req[t].parent \in Rows
    <3>1. old[t].ver = 0 /\ old[t] = tab[req[t].row] /\ req[t].row \in Rows
      BY <1>1, <2>7, RequestFields DEF AskedInv, ReadInv, PostWrite
    <3>2. old[t].parent = None
      BY <3>1 DEF CoreInv, TableInv, Absent
    <3>. QED
      BY <3>2, <2>5, <1>1, CatalogAssumption DEF Request
  <2>. QED
    BY <1>1, <1>2, <2>5, <2>6, <2>7 DEF HierarchyLockFirst, LockInv
<1>4. CASE contract.lockAlways
  BY <1>1, <1>2, <1>4 DEF HierarchyLockFirst, LockInv
<1>. QED
  BY <1>3, <1>4

-----------------------------------------------------------------------------
\* Up to the write of the row.
LEMMA EarlySteps ==
  ASSUME CoreInv, LocksInv, NEW t \in Txns, ~Fail(t),
         Called(t) \/ CheckNew(t) \/ AdvisoryLock(t) \/ CheckOld(t)
  PROVE  LocksInv'
<1> USE DEF data, input, work, locks
<1>a. TypeOK /\ AskedInv(t) /\ LockInv(t) /\ SavedInv(t) /\ pc[t] # "idle"
  BY DEF CoreInv, TxnInv, LocksInv, LocalInv, Called, CheckNew, AdvisoryLock, CheckOld
<1>n. t # None
  BY CatalogAssumption
<1>1. Apart(t) /\ UpdateAlone' /\ UNCHANGED <<contract, held, own, todo, req, old>>
  <2>1. UNCHANGED <<contract, tab, lines, req, exp, right, old, wrote, todo, held, own>>
    BY DEF Called, CheckNew, AdvisoryLock, CheckOld
  <2>2. \A u \in Txns \ {t} : pc'[u] = pc[u] /\ new'[u] = new[u] /\ (adv = u => adv' = u)
    <3>1. adv' = adv \/ adv \in {None, t}
      BY DEF Called, CheckNew, AdvisoryLock, CheckOld
    <3>2. \E l : Goto(t, l)
      BY DEF Called, CheckNew, AdvisoryLock, CheckOld
    <3>3. new' = new \/ \E v : new' = [new EXCEPT ![t] = v]
      BY DEF Called, CheckNew, AdvisoryLock, CheckOld
    <3>. QED
      BY <1>a, <1>n, <3>1, <3>2, <3>3, CatalogAssumption DEF Goto, TypeOK
  <2>. QED
    BY <2>1, <2>2 DEF Apart, Frame, UpdateAlone, LocksInv
<1>2. \A v : NewOf(t, v)' = NewOf(t, v)
  BY <1>1 DEF NewOf
<1>3. CASE Called(t)
  <2>1. /\ pc[t] = "called" /\ new' = new /\ adv' = adv
        /\ pc'[t] = IF req[t].kind = "create" THEN "exists"
                     ELSE IF HierarchyLockFirst(t) THEN "advisory" ELSE "row"
    BY <1>3, <1>a DEF Called, Goto, TypeOK
  <2>2. LockInv(t)'
    BY <1>a, <1>1, <2>1 DEF LockInv, HierarchyLockFirst, Unlocked, WithLines
  <2>3. SavedInv(t)' /\ LinesInv(t)'
    BY <1>1, <2>1 DEF SavedInv, LinesInv, PostWrite, Accepted, WithLines
  <2>. QED
    BY <1>1, <2>2, <2>3, OthersLocal DEF LocalInv
<1>4. CASE CheckNew(t)
  <2>1. /\ pc[t] = "exists" /\ new'[t] = NewOf(t, Absent) /\ adv' = adv
        /\ pc'[t] = IF HierarchyLockFirst(t) THEN "advisory" ELSE "insert"
    BY <1>4, <1>a DEF CheckNew, Goto, TypeOK
  <2>2. LockInv(t)'
    BY <1>a, <1>1, <2>1 DEF LockInv, HierarchyLockFirst, Unlocked, WithLines
  <2>3. SavedInv(t)' /\ LinesInv(t)'
    BY <1>1, <1>2, <2>1 DEF SavedInv, LinesInv, PostWrite, Accepted, WithLines
  <2>. QED
    BY <1>1, <2>2, <2>3, OthersLocal DEF LocalInv
<1>5. CASE AdvisoryLock(t)
  <2>1. /\ pc[t] = "advisory" /\ new' = new /\ adv' = t
        /\ pc'[t] = IF req[t].kind = "create" THEN "insert" ELSE "row"
    BY <1>5, <1>a DEF AdvisoryLock, Goto, TypeOK
  <2>2. LockInv(t)'
    BY <1>a, <1>1, <2>1 DEF LockInv, HierarchyLockFirst, Unlocked, WithLines
  <2>3. SavedInv(t)' /\ LinesInv(t)'
    BY <1>a, <1>1, <1>2, <2>1 DEF SavedInv, LinesInv, PostWrite, Accepted, WithLines
  <2>. QED
    BY <1>1, <2>2, <2>3, OthersLocal DEF LocalInv
<1>6. CASE CheckOld(t)
  <2>1. /\ pc[t] = "check" /\ pc'[t] = "write" /\ adv' = adv
        /\ req[t].kind # "delete" => new'[t] = NewOf(t, old[t])
    BY <1>6, <1>a DEF CheckOld, Goto, TypeOK
  <2>2. LockInv(t)'
    BY <1>a, <1>1, <2>1 DEF LockInv, HierarchyLockFirst, Unlocked, WithLines
  <2>3. SavedInv(t)' /\ LinesInv(t)'
    BY <1>1, <1>2, <2>1 DEF SavedInv, LinesInv, PostWrite, Accepted, WithLines
  <2>. QED
    BY <1>1, <2>2, <2>3, OthersLocal DEF LocalInv
<1>. QED
  BY <1>3, <1>4, <1>5, <1>6

-----------------------------------------------------------------------------
\* Where rows can be deleted nothing refers to them: no write gives RI work.
LEMMA NoKeys ==
  ASSUME TypeOK, NEW t \in Txns, AskedInv(t), LockInv(t), pc[t] # "idle", contract.deletable,
         NEW b \in Row, NEW w \in Handled(NewOf(t, b))
  PROVE  NewKeys(b, Touch(t, w)) = {}
<1>1. ~contract.hierarchy /\ ~contract.lockAlways
  BY CatalogAssumption DEF TypeOK, Contract
<1>2. w = NewOf(t, b) /\ req[t].parent = Keep /\ req[t].ref = Keep
  BY <1>1 DEF Handled, AskedInv, LockInv
<1>3. w.parent = b.parent /\ w.ref = b.ref /\ w \in Row
  BY <1>2 DEF NewOf, Given, Row
<1>4. Touch(t, w).parent = w.parent /\ Touch(t, w).ref = w.ref
  BY <1>3 DEF Touch, Row
<1>. QED
  BY <1>3, <1>4 DEF NewKeys

\* The write of the row: what it leaves is what the request makes of the row before.
LEMMA WriteLocks ==
  ASSUME CoreInv, LocksInv, NEW t \in Txns, NEW b \in Row, NEW mode \in Strong,
         pc[t] \in {"write", "statement", "insert"}, pc'[t] = "keys",
         Blockers(t, req[t].row, mode) = {}, Lock(t, req[t].row, mode), Goto(t, "keys"),
         mode = "Update" => req[t].kind \in {"create", "delete"} \/ req[t].key,
         IF req[t].kind = "delete"
           THEN Written(t, b, Absent)
           ELSE \E v \in Handled(NewOf(t, b)) : Written(t, b, Touch(t, v)),
         old' = [old EXCEPT ![t] = b], UNCHANGED <<data, input, right, own, adv>>
  PROVE  LocksInv'
<1> USE DEF data, input, work, locks
<1>a. TypeOK /\ AskedInv(t) /\ LockInv(t) /\ SavedInv(t) /\ UpdateAlone /\ pc[t] # "idle"
  BY DEF CoreInv, TxnInv, LocksInv, LocalInv
<1>r. req[t].row \in Rows /\ mode \in Modes
  BY <1>a, RequestFields DEF TypeOK, Strong, Modes
<1>1. UpdateAlone' /\ held'[t] = held[t] \cup {<<req[t].row, mode>>}
  BY <1>a, <1>r, GrantAlone
<1>2. old'[t] = b
  BY <1>a DEF TypeOK
<1>3. contract.deletable => todo'[t] = {}
  <2>1. CASE req[t].kind = "delete"
    <3>1. NewKeys(b, Absent) = {}
      BY CatalogAssumption DEF NewKeys, Absent
    <3>. QED
      BY <2>1, <3>1, <1>a DEF Written, TypeOK
  <2>2. CASE req[t].kind # "delete"
    BY <2>2, <1>a, NoKeys DEF Written, TypeOK
  <2>. QED
    BY <2>1, <2>2
<1>4. Apart(t)
  <2>1. PICK x : Written(t, b, x)
    BY <1>a
  <2>. QED
    BY <1>a, <2>1 DEF Apart, Frame, Written, Lock, Goto, TypeOK
<1>5. LockInv(t)'
  <2>1. \A r \in Rows, m \in Modes : <<r, m>> \in held'[t] =>
          /\ m # "KeyShare" => r = req[t].row
          /\ m = "Update" => req[t].kind \in {"create", "delete"} \/ req[t].key
    BY <1>1, <1>a DEF LockInv
  <2>2. (pc[t] # "statement" /\ HierarchyLockFirst(t) /\ req[t].kind # "direct") => adv = t
    BY <1>a DEF LockInv
  <2>3. pc[t] = "statement" => req[t].kind = "direct"
    BY <1>a DEF AskedInv
  <2>4. own[t] = {}
    BY <1>a DEF LockInv, WithLines
  <2>5. HierarchyLockFirst(t)' = HierarchyLockFirst(t)
    BY DEF HierarchyLockFirst
  <2>. QED
    BY <1>a, <1>3, <2>1, <2>2, <2>3, <2>4, <2>5 DEF LockInv, Unlocked
<1>6. SavedInv(t)'
  <2>1. SUFFICES ASSUME req[t].kind # "delete"
                 PROVE  (\E v \in Handled(NewOf(t, old[t])) : new[t] = Touch(t, v))'
    BY DEF SavedInv
  <2>2. NewOf(t, old[t])' = NewOf(t, b)
    BY <1>2 DEF NewOf
  <2>3. Handled(NewOf(t, old[t]))' = Handled(NewOf(t, b))
    BY <2>2 DEF Handled
  <2>4. PICK v \in Handled(NewOf(t, b)) : Written(t, b, Touch(t, v))
    BY <2>1
  <2>5. new'[t] = Touch(t, v)
    BY <2>4, <1>a DEF Written, TypeOK
  <2>. QED
    BY <2>3, <2>5 DEF Touch
<1>7. LinesInv(t)'
  BY DEF LinesInv, WithLines
<1>. QED
  BY <1>1, <1>4, <1>5, <1>6, <1>7, OthersLocal DEF LocalInv

\* The lock of the row, and the three statements that write it.
LEMMA RowSteps ==
  ASSUME CoreInv, LocksInv, NEW t \in Txns, ~Fail(t),
         LockedOld(t) \/ HeaderWrite(t) \/ DirectWrite(t) \/ Insert(t)
  PROVE  LocksInv'
<1> USE DEF data, input, work, locks
<1>a. TypeOK /\ AskedInv(t) /\ ReadInv(t) /\ LockInv(t) /\ SavedInv(t) /\ UpdateAlone /\ pc[t] # "idle"
  BY DEF CoreInv, TxnInv, LocksInv, LocalInv, LockedOld, HeaderWrite, DirectWrite, Insert
<1>r. req[t].row \in Rows /\ old \in [Txns -> Row] /\ tab[req[t].row] \in Row /\ Absent \in Row
  BY <1>a, RequestFields, AbsentRow DEF TypeOK
<1>1. CASE LockedOld(t)
  <2> DEFINE mode == Strength(req[t].kind)
  <2>1. mode \in Modes /\ (mode = "Update" <=> req[t].kind = "delete")
    BY DEF Strength, Modes
  <2>2. /\ pc[t] = "row" /\ pc'[t] \in {"check", "failed"} /\ Lock(t, req[t].row, mode)
        /\ Blockers(t, req[t].row, mode) = {} /\ UNCHANGED <<data, input, right, new, wrote, todo, own, adv>>
    BY <1>1, <1>a DEF LockedOld, Goto, TypeOK
  <2>. HIDE DEF mode
  <2>3. UpdateAlone' /\ held'[t] = {<<req[t].row, mode>>}
    <3>1. held[t] = {}
      BY <1>a, <2>2 DEF LockInv, Unlocked
    <3>. QED
      BY <1>a, <1>r, <2>1, <2>2, <3>1, GrantAlone
  <2>4. Apart(t)
    BY <1>1, <1>a, <2>2 DEF LockedOld, Apart, Frame, Lock, Goto, TypeOK
  <2>5. LockInv(t)'
    <3>1. HierarchyLockFirst(t)' = HierarchyLockFirst(t)
      BY <2>2 DEF HierarchyLockFirst
    <3>2. own[t] = {}
      BY <1>a, <2>2 DEF LockInv, WithLines
    <3>. QED
      BY <1>a, <2>1, <2>2, <2>3, <3>1, <3>2 DEF LockInv, Unlocked
  <2>6. SavedInv(t)' /\ LinesInv(t)'
    BY <2>2 DEF SavedInv, LinesInv, PostWrite, Accepted, WithLines
  <2>. QED
    BY <2>3, <2>4, <2>5, <2>6, OthersLocal DEF LocalInv
<1>2. CASE HeaderWrite(t)
  <2>1. old' = [old EXCEPT ![t] = old[t]] /\ pc[t] = "write" /\ pc'[t] = "keys" /\ old[t] \in Row
    BY <1>2, <1>a, <1>r DEF HeaderWrite, ZeroRows, Goto, TypeOK
  <2>2. req[t].kind # "delete" => new[t] = NewOf(t, old[t])
    BY <1>a, <2>1 DEF SavedInv
  <2> DEFINE mode == IF req[t].kind = "delete" \/ req[t].key THEN "Update" ELSE "NoKeyUpdate"
  <2>3. /\ Blockers(t, req[t].row, mode) = {} /\ Lock(t, req[t].row, mode) /\ Goto(t, "keys")
        /\ IF req[t].kind = "delete" THEN Written(t, old[t], Absent)
           ELSE \E v \in Handled(new[t]) : Written(t, old[t], Touch(t, v))
        /\ UNCHANGED <<data, input, right, own, adv>>
    BY <1>2 DEF HeaderWrite, ZeroRows
  <2>4. mode \in Strong /\ (mode = "Update" => req[t].kind \in {"create", "delete"} \/ req[t].key)
    BY DEF Strong
  <2>. HIDE DEF mode
  <2>. QED
    BY <2>1, <2>2, <2>3, <2>4, WriteLocks
<1>3. CASE DirectWrite(t)
  <2>1. /\ pc[t] = "statement" /\ pc'[t] = "keys" /\ req[t].kind = "direct"
        /\ "NoKeyUpdate" \in Strong
    BY <1>3, <1>a DEF DirectWrite, Goto, TypeOK, AskedInv, Strong
  <2>. QED
    BY <1>3, <1>r, <2>1, WriteLocks DEF DirectWrite
<1>4. CASE Insert(t)
  <2>1. /\ pc[t] = "insert" /\ pc'[t] = "keys" /\ req[t].kind = "create" /\ "Update" \in Strong
        /\ old' = [old EXCEPT ![t] = Absent] /\ new[t] = NewOf(t, Absent)
    BY <1>4, <1>a DEF Insert, DuplicateKey, Goto, TypeOK, AskedInv, SavedInv, Strong
  <2>. QED
    BY <1>4, <1>r, <2>1, WriteLocks DEF Insert, DuplicateKey
<1>. QED
  BY <1>1, <1>2, <1>3, <1>4

-----------------------------------------------------------------------------
\* A step behind the write: the row stays, the locks are kept or grow by KEY SHARE.
LEMMA LaterLocks ==
  ASSUME CoreInv, LocksInv, NEW t \in Txns, pc[t] \in PostWrite, pc'[t] \in PostWrite,
         UNCHANGED <<contract, tab, lines, req, exp, right, old, new, wrote>>,
         \A u \in Txns \ {t} : /\ pc'[u] = pc[u] /\ todo'[u] = todo[u] /\ own'[u] = own[u]
                               /\ held'[u] = held[u] /\ (adv = u => adv' = u),
         adv = t => adv' = t,
         UpdateAlone', \A x \in held'[t] : x \in held[t] \/ \E r \in Rows : x = <<r, "KeyShare">>,
         pc'[t] = "keys" => pc[t] = "keys" /\ todo'[t] \subseteq todo[t],
         pc'[t] = "trigger" => pc[t] \in {"keys", "trigger"} /\ Moved(t),
         pc'[t] = "lineKeys" => req[t].lines # Keep,
         pc'[t] \notin WithLines => own'[t] = {},
         LinesInv(t)'
  PROVE  LocksInv'
<1>a. LockInv(t) /\ SavedInv(t)
  BY DEF LocksInv, LocalInv
<1>1. Apart(t)
  BY DEF Apart, Frame
<1>2. LockInv(t)'
  <2>1. \A r \in Rows, m \in Modes : <<r, m>> \in held'[t] =>
          /\ m # "KeyShare" => r = req[t].row
          /\ m = "Update" => req[t].kind \in {"create", "delete"} \/ req[t].key
    <3> SUFFICES ASSUME NEW r \in Rows, NEW m \in Modes, <<r, m>> \in held'[t], m # "KeyShare"
                 PROVE  /\ r = req[t].row
                        /\ m = "Update" => req[t].kind \in {"create", "delete"} \/ req[t].key
      OBVIOUS
    <3>1. <<r, m>> \in held[t]
      OBVIOUS
    <3>. QED
      BY <3>1, <1>a DEF LockInv
  <2>2. HierarchyLockFirst(t)' = HierarchyLockFirst(t) /\ Moved(t)' = Moved(t)
    BY DEF HierarchyLockFirst, Moved
  <2>3. pc'[t] \notin Unlocked \cup {"check", "write", "failed"}
    BY DEF Unlocked, PostWrite, Accepted
  <2>. QED
    BY <1>a, <2>1, <2>2, <2>3 DEF LockInv, PostWrite, Accepted, Unlocked
<1>3. SavedInv(t)'
  <2>1. NewOf(t, old[t])' = NewOf(t, old[t])
    BY DEF NewOf
  <2>2. Handled(NewOf(t, old[t]))' = Handled(NewOf(t, old[t]))
    BY <2>1 DEF Handled
  <2>. QED
    BY <1>a, <2>1, <2>2 DEF SavedInv, Touch, PostWrite, Accepted
<1>. QED
  BY <1>1, <1>2, <1>3, OthersLocal DEF LocalInv

\* RI's locks, behind the row and behind the lines.
LEMMA ShareLocks ==
  ASSUME CoreInv, LocksInv, NEW t \in Txns, pc[t] \in {"keys", "lineKeys"}, NEW r \in todo[t],
         Blockers(t, r, "KeyShare") = {}, Lock(t, r, "KeyShare"),
         todo' = [todo EXCEPT ![t] = @ \ {r}],
         UNCHANGED <<data, pc, input, right, old, new, wrote, own, adv>>
  PROVE  LocksInv'
<1> USE DEF data, input, work, locks
<1>a. TypeOK /\ LockInv(t) /\ LinesInv(t) /\ UpdateAlone /\ r \in Rows /\ "KeyShare" \in Modes
  BY DEF CoreInv, TypeOK, LocksInv, LocalInv, Modes
<1>1. UpdateAlone' /\ held'[t] = held[t] \cup {<<r, "KeyShare">>}
  BY <1>a, GrantAlone
<1>2. \A u \in Txns \ {t} : held'[u] = held[u] /\ todo'[u] = todo[u]
  BY <1>a DEF Lock, TypeOK
<1>3. todo'[t] = todo[t] \ {r}
  BY <1>a DEF TypeOK
<1>4. LinesInv(t)'
  BY <1>a DEF LinesInv, LinesOf
<1>5. pc[t] \in PostWrite /\ (pc[t] = "lineKeys" => req[t].lines # Keep)
  BY <1>a DEF LockInv, PostWrite, Accepted
<1>6. pc[t] \notin WithLines => own[t] = {}
  BY <1>a DEF LockInv, WithLines
<1>. QED
  BY <1>a, <1>1, <1>2, <1>3, <1>4, <1>5, <1>6, LaterLocks

\* Behind the write of the row, up to the lines.
LEMMA MiddleSteps ==
  ASSUME CoreInv, LocksInv, NEW t \in Txns, ~Fail(t),
         Keys(t) \/ HierarchyTrigger(t) \/ Walk(t)
  PROVE  LocksInv'
<1> USE DEF data, input, work, locks
<1>a. TypeOK /\ LockInv(t) /\ UpdateAlone /\ pc[t] \in {"keys", "trigger", "walk"}
  BY DEF CoreInv, LocksInv, LocalInv, Keys, KeyShare, HierarchyTrigger, Walk
<1>o. own[t] = {} /\ pc[t] \in PostWrite
  BY <1>a DEF LockInv, WithLines, PostWrite
<1>1. CASE \E r \in todo[t] : /\ pc[t] = "keys"
                              /\ Blockers(t, r, "KeyShare") = {} /\ Lock(t, r, "KeyShare")
                              /\ todo' = [todo EXCEPT ![t] = @ \ {r}]
                              /\ UNCHANGED <<data, pc, input, right, old, new, wrote, own, adv>>
  BY <1>1, ShareLocks
<1>2. ASSUME NEW l \in {"trigger", "walk", "tabular", "done"}, Goto(t, l),
             l = "trigger" => pc[t] = "keys" /\ Moved(t),
             l = "done" => req[t].kind \notin {"create", "update"},
             UNCHANGED <<data, input, right, work, held, own>>, adv' = adv \/ adv \in {None, t},
             adv' \in {adv, t}
      PROVE  LocksInv'
  <2>1. pc'[t] = l /\ \A u \in Txns \ {t} : pc'[u] = pc[u] /\ (adv = u => adv' = u)
    BY <1>2, <1>a, CatalogAssumption DEF Goto, TypeOK
  <2>2. LinesInv(t)'
    BY <1>2, <2>1 DEF LinesInv, WithLines
  <2>3. UpdateAlone'
    BY <1>2, <1>a DEF UpdateAlone
  <2>4. pc'[t] \in PostWrite
    BY <1>2, <2>1 DEF PostWrite, Accepted
  <2>. QED
    BY <1>2, <1>a, <1>o, <2>1, <2>2, <2>3, <2>4, LaterLocks
<1>3. CASE Keys(t)
  <2>1. CASE todo[t] = {} /\ Goto(t, IF Moved(t) THEN "trigger" ELSE AfterRow(t))
             /\ UNCHANGED <<data, input, right, work, locks>> /\ pc[t] = "keys"
    <3> DEFINE l == IF Moved(t) THEN "trigger" ELSE AfterRow(t)
    <3>1. l \in {"trigger", "walk", "tabular", "done"} /\ (l = "trigger" => Moved(t))
          /\ (l = "done" => req[t].kind \notin {"create", "update"})
      BY DEF AfterRow
    <3>2. Goto(t, l)
      BY <2>1
    <3>. HIDE DEF l
    <3>. QED
      BY <2>1, <3>1, <3>2, <1>2
  <2>. QED
    BY <1>1, <1>3, <2>1 DEF Keys, KeyShare
<1>4. CASE HierarchyTrigger(t)
  BY <1>4, <1>2 DEF HierarchyTrigger, TriggerLock
<1>5. CASE Walk(t)
  <2>1. /\ AfterRow(t) \in {"trigger", "walk", "tabular", "done"} /\ AfterRow(t) # "trigger"
        /\ AfterRow(t) = "done" => req[t].kind \notin {"create", "update"}
    BY DEF AfterRow
  <2>2. Goto(t, AfterRow(t)) /\ UNCHANGED <<data, input, right, work, locks>>
    BY <1>5 DEF Walk
  <2>. QED
    BY <2>1, <2>2, <1>2
<1>. QED
  BY <1>3, <1>4, <1>5

-----------------------------------------------------------------------------
\* The statements over the lines.
LEMMA LineSteps ==
  ASSUME CoreInv, LocksInv, NEW t \in Txns, ~Fail(t),
         TabularLock(t) \/ TabularWrite(t) \/ TabularInsert(t) \/ LineKeys(t)
  PROVE  LocksInv'
<1> USE DEF data, input, work, locks
<1>a. TypeOK /\ LockInv(t) /\ LinesInv(t) /\ UpdateAlone
  BY DEF CoreInv, LocksInv, LocalInv
<1>b. pc[t] \in {"tabular", "lines", "insertLines", "lineKeys"} /\ pc[t] \in PostWrite
  BY DEF TabularLock, TabularWrite, TabularInsert, LineKeys, KeyShare, PostWrite, Accepted
<1>1. ASSUME NEW l \in WithLines, pc'[t] = l, UNCHANGED <<data, input, right, old, new, wrote, held, adv>>,
             \A u \in Txns \ {t} : pc'[u] = pc[u] /\ todo'[u] = todo[u] /\ own'[u] = own[u],
             l = "lineKeys" => req[t].lines # Keep, LinesInv(t)'
      PROVE  LocksInv'
  <2>1. UpdateAlone'
    BY <1>1, <1>a DEF UpdateAlone
  <2>2. pc'[t] \in PostWrite
    BY <1>1 DEF WithLines, PostWrite, Accepted
  <2>. QED
    BY <1>1, <1>b, <2>1, <2>2, LaterLocks DEF WithLines
<1>2. CASE TabularLock(t)
  <2>1. CASE req[t].lines = Keep /\ Goto(t, "done") /\ UNCHANGED <<data, input, right, work, locks>>
    <3>1. pc'[t] = "done" /\ \A u \in Txns \ {t} : pc'[u] = pc[u]
      BY <2>1, <1>a DEF Goto, TypeOK
    <3>2. LinesInv(t)' /\ "done" \in WithLines
      BY <2>1 DEF LinesInv, WithLines
    <3>. QED
      BY <2>1, <3>1, <3>2, <1>1
  <2>2. ASSUME NEW S, right[t] => S = LinesOf(req[t].row), own' = [own EXCEPT ![t] = @ \cup S],
               Goto(t, "lines"), UNCHANGED <<data, input, right, work, held, adv>>
        PROVE  LocksInv'
    <3>1. /\ pc'[t] = "lines" /\ own'[t] = own[t] \cup S
          /\ \A u \in Txns \ {t} : pc'[u] = pc[u] /\ own'[u] = own[u]
      BY <2>2, <1>a DEF Goto, TypeOK
    <3>2. LinesInv(t)' /\ "lines" \in WithLines
      BY <2>2, <3>1 DEF LinesInv, LinesOf, WithLines
    <3>. QED
      BY <2>2, <3>1, <3>2, <1>1
  <2>. QED
    BY <1>2, <2>1, <2>2 DEF TabularLock, Ids
<1>3. CASE TabularWrite(t)
  <2>1. /\ pc[t] = "lines" /\ pc'[t] = "insertLines" /\ todo'[t] = req[t].lines \ own[t]
        /\ \A u \in Txns \ {t} : pc'[u] = pc[u] /\ todo'[u] = todo[u]
        /\ UNCHANGED <<data, input, right, old, new, wrote, locks>>
    BY <1>3, <1>a DEF TabularWrite, Goto, TypeOK, Ids
  <2>2. LinesInv(t)' /\ "insertLines" \in WithLines
    BY <2>1, <1>a DEF LinesInv, LinesOf, WithLines
  <2>. QED
    BY <2>1, <2>2, <1>1
<1>4. CASE TabularInsert(t)
  <2>0. pc[t] = "insertLines" /\ req[t].lines # Keep
    BY <1>4, <1>a DEF TabularInsert, TypeOK
  <2>1. ASSUME NEW l \in todo[t], own' = [own EXCEPT ![t] = @ \cup {l}], todo' = [todo EXCEPT ![t] = @ \ {l}],
               UNCHANGED <<data, pc, input, right, old, new, wrote, held, adv>>
        PROVE  LocksInv'
    <3>1. /\ own'[t] = own[t] \cup {l} /\ todo'[t] = todo[t] \ {l}
          /\ \A u \in Txns \ {t} : todo'[u] = todo[u] /\ own'[u] = own[u]
      BY <2>1, <1>a DEF TypeOK
    <3>2. LinesInv(t)' /\ "insertLines" \in WithLines
      BY <2>0, <2>1, <3>1, <1>a DEF LinesInv, LinesOf, WithLines
    <3>. QED
      BY <2>0, <2>1, <3>1, <3>2, <1>1
  <2>2. ASSUME NEW S, todo[t] = {}, todo' = [todo EXCEPT ![t] = S], Goto(t, "lineKeys"),
               UNCHANGED <<data, input, right, old, new, wrote, locks>>
        PROVE  LocksInv'
    <3>1. pc'[t] = "lineKeys" /\ \A u \in Txns \ {t} : pc'[u] = pc[u] /\ todo'[u] = todo[u]
      BY <2>2, <1>a DEF Goto, TypeOK
    <3>2. LinesInv(t)' /\ "lineKeys" \in WithLines
      BY <2>0, <2>2, <3>1, <1>a DEF LinesInv, LinesOf, WithLines
    <3>. QED
      BY <2>0, <2>2, <3>1, <3>2, <1>1
  <2>. QED
    BY <1>4, <2>1, <2>2 DEF TabularInsert
<1>5. CASE LineKeys(t)
  <2>1. CASE Goto(t, "done") /\ UNCHANGED <<data, input, right, work, locks>> /\ pc[t] = "lineKeys"
    <3>1. pc'[t] = "done" /\ \A u \in Txns \ {t} : pc'[u] = pc[u]
      BY <2>1, <1>a DEF Goto, TypeOK
    <3>2. LinesInv(t)' /\ "done" \in WithLines
      BY <2>1, <3>1, <1>a DEF LinesInv, LinesOf, WithLines
    <3>. QED
      BY <2>1, <3>1, <3>2, <1>1
  <2>2. CASE \E r \in todo[t] : /\ pc[t] = "lineKeys"
                                /\ Blockers(t, r, "KeyShare") = {} /\ Lock(t, r, "KeyShare")
                                /\ todo' = [todo EXCEPT ![t] = @ \ {r}]
                                /\ UNCHANGED <<data, pc, input, right, old, new, wrote, own, adv>>
    BY <2>2, ShareLocks
  <2>. QED
    BY <1>5, <2>1, <2>2 DEF LineKeys, KeyShare
<1>. QED
  BY <1>2, <1>3, <1>4, <1>5

\* A transaction that ends holds nothing; the lines it has committed are those of its
\* own row, which nobody else was writing.
LEMMA EndLocks ==
  ASSUME CoreInv, LocksInv, NEW t \in Txns, Commit(t) \/ Rollback(t)
  PROVE  LocksInv'
<1> USE DEF data, input
<1>a. TypeOK /\ UpdateAlone /\ LockInv(t)
  BY DEF CoreInv, LocksInv, LocalInv
<1>1. /\ pc'[t] \in {"committed", "rolledBack"} /\ held'[t] = {} /\ own'[t] = {} /\ todo'[t] = {}
      /\ UNCHANGED <<contract, req, exp, right>> /\ pc[t] # "idle"
      /\ \A u \in Txns \ {t} :
           /\ pc'[u] = pc[u] /\ old'[u] = old[u] /\ new'[u] = new[u] /\ todo'[u] = todo[u]
           /\ held'[u] = held[u] /\ own'[u] = own[u] /\ (adv = u => adv' = u)
  BY <1>a DEF Commit, Rollback, Release, End, Goto, TypeOK, Active
<1>2. UpdateAlone'
  BY <1>1, <1>a DEF UpdateAlone
<1>3. LocalInv(t)'
  <2>1. LockInv(t)'
    BY <1>1, <1>a DEF LockInv, Unlocked
  <2>2. SavedInv(t)' /\ LinesInv(t)'
    BY <1>1 DEF SavedInv, LinesInv, PostWrite, Accepted, WithLines
  <2>. QED
    BY <2>1, <2>2 DEF LocalInv
<1>4. ASSUME NEW u \in Txns \ {t} PROVE LocalInv(u)'
  <2>0. LockInv(u) /\ SavedInv(u) /\ LinesInv(u) /\ ReadInv(u) /\ ReadInv(t)
    BY DEF LocksInv, LocalInv, CoreInv, TxnInv
  <2>1. LockInv(u)'
    BY <1>1, <1>4, <2>0 DEF LockInv, Moved, HierarchyLockFirst
  <2>2. SavedInv(u)'
    <3>1. NewOf(u, Absent)' = NewOf(u, Absent) /\ NewOf(u, old[u])' = NewOf(u, old[u])
      BY <1>1, <1>4 DEF NewOf
    <3>2. Handled(NewOf(u, old[u]))' = Handled(NewOf(u, old[u]))
      BY <1>1, <3>1 DEF Handled
    <3>. QED
      BY <1>1, <1>4, <2>0, <3>1, <3>2 DEF SavedInv, Touch
  <2>3. LinesInv(u)'
    <3>1. SUFFICES ASSUME pc[u] \in WithLines PROVE LinesOf(req[u].row)' \subseteq LinesOf(req[u].row)
      BY <1>1, <1>4, <2>0 DEF LinesInv
    <3>2. req[u].row \in Rows /\ Owns(u, req[u].row)
      BY <3>1, <2>0, <1>a, RequestFields DEF ReadInv, PostWrite, Accepted, WithLines, TypeOK
    <3>3. CASE Commit(t)
      <4>1. pc[t] = "done" /\ Owns(t, req[t].row)
        BY <3>3, <2>0 DEF Commit, ReadInv, PostWrite, Accepted
      <4>2. req[u].row # req[t].row /\ req[u].row # None
        BY <3>2, <4>1, <1>4, CatalogAssumption DEF CoreInv, Exclusive
      <4>3. \A l \in Lines : lines'[l] \in {lines[l], req[t].row, None}
        BY <3>3, CommitLines
      <4>. QED
        BY <4>2, <4>3, <1>1 DEF LinesOf
    <3>4. CASE Rollback(t)
      BY <3>4, <1>1 DEF Rollback, LinesOf
    <3>. QED
      BY <3>3, <3>4
  <2>. QED
    BY <2>1, <2>2, <2>3 DEF LocalInv
<1>. QED
  BY <1>2, <1>3, <1>4 DEF LocksInv

\* A request is accepted; the right is withdrawn.
LEMMA OutsideLocks ==
  ASSUME CoreInv, LocksInv, NEW t \in Txns,
         (\E q \in Requests : Begin(t, q)) \/ Revoke(t)
  PROVE  LocksInv'
<1> USE DEF data, input, work, locks
<1>a. TypeOK /\ UpdateAlone /\ LockInv(t) /\ SavedInv(t) /\ LinesInv(t)
  BY DEF CoreInv, LocksInv, LocalInv
<1>1. CASE \E q \in Requests : Begin(t, q)
  <2>1. PICK q \in Requests : Begin(t, q)
    BY <1>1
  <2>2. /\ pc[t] = "idle" /\ pc'[t] \in {"statement", "called"} /\ req'[t] = q /\ Offered(q)
        /\ UNCHANGED <<data, right, work, locks>>
    BY <2>1, <1>a DEF Begin, Goto, TypeOK
  <2>3. Apart(t) /\ UpdateAlone'
    BY <2>1, <1>a DEF Begin, Goto, TypeOK, Apart, Frame, UpdateAlone
  <2>4. LockInv(t)'
    <3>1. held[t] = {} /\ own[t] = {}
      BY <1>a, <2>2 DEF LockInv, Unlocked, WithLines
    <3>. QED
      BY <2>2, <3>1 DEF LockInv, Offered
  <2>5. SavedInv(t)' /\ LinesInv(t)'
    BY <2>2 DEF SavedInv, LinesInv, PostWrite, Accepted, WithLines
  <2>. QED
    BY <2>3, <2>4, <2>5, OthersLocal DEF LocalInv
<1>2. CASE Revoke(t)
  <2>1. /\ UNCHANGED <<data, pc, input, work, locks>> /\ ~right'[t]
        /\ \A u \in Txns \ {t} : right'[u] = right[u]
    BY <1>2, <1>a DEF Revoke, TypeOK
  <2>2. Apart(t) /\ UpdateAlone'
    BY <2>1, <1>a DEF Apart, Frame, UpdateAlone
  <2>3. LockInv(t)'
    BY <2>1, <1>a DEF LockInv, Moved, HierarchyLockFirst
  <2>4. SavedInv(t)'
    <3>1. NewOf(t, Absent)' = NewOf(t, Absent) /\ NewOf(t, old[t])' = NewOf(t, old[t])
      BY <2>1 DEF NewOf
    <3>2. Handled(NewOf(t, old[t]))' = Handled(NewOf(t, old[t]))
      BY <2>1, <3>1 DEF Handled
    <3>. QED
      BY <2>1, <1>a, <3>1, <3>2 DEF SavedInv, Touch
  <2>5. LinesInv(t)'
    BY <2>1, <1>a DEF LinesInv
  <2>. QED
    BY <2>2, <2>3, <2>4, <2>5, OthersLocal DEF LocalInv
<1>. QED
  BY <1>1, <1>2

\* Every step keeps the invariant of the locks.
LEMMA NextLocks == CoreInv /\ LocksInv /\ [Next]_vars => LocksInv'
<1> SUFFICES ASSUME CoreInv, LocksInv, [Next]_vars PROVE LocksInv'
  OBVIOUS
<1>t. TypeOK
  BY DEF CoreInv
<1>1. ASSUME NEW t \in Txns, Fail(t), pc[t] # "idle" PROVE LocksInv'
  BY <1>t, <1>1, FailLocks
<1>2. ASSUME NEW t \in Txns, Step(t) PROVE LocksInv'
  <2>1. pc[t] # "idle"
    BY <1>2 DEF Step, Called, CheckNew, AdvisoryLock, LockedOld, CheckOld, HeaderWrite, DirectWrite, Insert, Keys, HierarchyTrigger, Walk, TabularLock, TabularWrite, TabularInsert, LineKeys, Commit, KeyShare
  <2>. QED
    BY <1>1, <1>2, <2>1, EarlySteps, RowSteps, MiddleSteps, LineSteps, EndLocks DEF Step
<1>3. ASSUME NEW t \in Txns, Detect(t) PROVE LocksInv'
  <2>1. PICK S \in SUBSET Txns : t \in S /\ Stuck(S)
    BY <1>3 DEF Detect
  <2>2. WaitsFor(t) # {}
    BY <2>1 DEF Stuck
  <2>3. pc[t] # "idle"
    BY <2>2 DEF WaitsFor
  <2>. QED
    BY <1>1, <1>3, <2>3 DEF Detect
<1>4. CASE UNCHANGED vars
  <2> USE <1>4 DEF vars, data, input, work, locks
  <2>1. ASSUME NEW t \in Txns PROVE LocalInv(t)'
    <3>0. LockInv(t) /\ SavedInv(t) /\ LinesInv(t)
      BY DEF LocksInv, LocalInv
    <3>1. LockInv(t)'
      BY <3>0 DEF LockInv, Moved, HierarchyLockFirst
    <3>2. NewOf(t, Absent)' = NewOf(t, Absent) /\ NewOf(t, old[t])' = NewOf(t, old[t])
      BY DEF NewOf
    <3>3. Handled(NewOf(t, old[t]))' = Handled(NewOf(t, old[t]))
      BY <3>2 DEF Handled
    <3>4. SavedInv(t)'
      BY <3>0, <3>2, <3>3 DEF SavedInv, Touch
    <3>5. LinesInv(t)'
      BY <3>0 DEF LinesInv, LinesOf
    <3>. QED
      BY <3>1, <3>4, <3>5 DEF LocalInv
  <2>2. UpdateAlone'
    BY DEF LocksInv, UpdateAlone
  <2>. QED
    BY <2>1, <2>2 DEF LocksInv
<1>. QED
  BY <1>2, <1>3, <1>4, OutsideLocks, EndLocks DEF Next

\* Where every transaction stands, what it has locked and what it is about to write:
\* for any rows, lines, requests and number of transactions.
THEOREM LocksInvariant == Spec => []LocksInv
<1>1. Init => LocksInv
  BY DEF Init, LocksInv, LocalInv, LockInv, SavedInv, LinesInv, UpdateAlone, PostWrite, Accepted, WithLines
<1>2. CoreInv /\ LocksInv /\ [Next]_vars => LocksInv'
  BY NextLocks
<1>. QED
  BY <1>1, <1>2, CoreInvariant, PTL DEF Spec

-----------------------------------------------------------------------------
\* What is saved.

\* Only COMMIT of the transaction itself commits it.
LEMMA CommitsIsCommit ==
  ASSUME TypeOK, [Next]_vars, NEW t \in Txns, Commits(t)
  PROVE  Commit(t)
<1>0. pc[t] = "done" /\ pc'[t] = "committed"
  BY DEF Commits
<1>1. PICK u \in Txns : (\E q \in Requests : Begin(u, q)) \/ Step(u) \/ Revoke(u) \/ Rollback(u) \/ Detect(u)
  BY <1>0 DEF Next, vars
<1>2. \A l : Goto(u, l) => u = t /\ l = "committed"
  BY <1>0 DEF Goto, TypeOK
<1>3. ~Fail(u)
  BY <1>2 DEF Fail
<1>4. pc' # pc
  BY <1>0
<1>5. (\A q \in Requests : ~Begin(u, q)) /\ ~Revoke(u) /\ ~Rollback(u) /\ ~Detect(u)
  BY <1>2, <1>3, <1>4 DEF Begin, Revoke, Rollback, Detect
<1>6. Commit(u)
  <2>1. ~Called(u) /\ ~CheckNew(u) /\ ~AdvisoryLock(u) /\ ~LockedOld(u)
    BY <1>2, <1>3, <1>4 DEF Called, CheckNew, AdvisoryLock, LockedOld
  <2>2. ~CheckOld(u) /\ ~HeaderWrite(u) /\ ~DirectWrite(u)
    BY <1>2, <1>3, <1>4 DEF CheckOld, HeaderWrite, DirectWrite, ZeroRows, DuplicateKey, AfterRow
  <2>3. ~Insert(u) /\ ~Keys(u) /\ ~HierarchyTrigger(u)
    BY <1>2, <1>3, <1>4 DEF Insert, DuplicateKey, Keys, KeyShare, HierarchyTrigger, AfterRow
  <2>4. ~Walk(u) /\ ~TabularLock(u)
    BY <1>2, <1>3, <1>4 DEF Walk, AfterRow, TabularLock
  <2>5. ~TabularWrite(u) /\ ~TabularInsert(u) /\ ~LineKeys(u)
    BY <1>2, <1>3, <1>4 DEF TabularWrite, TabularInsert, DuplicateKey, LineKeys, KeyShare
  <2>. QED
    BY <1>1, <1>5, <2>1, <2>2, <2>3, <2>4, <2>5 DEF Step
<1>. QED
  BY <1>2, <1>6 DEF Commit

\* A save that commits has written what it was asked for, and while the right is
\* held its section has exactly the lines named (writeLines, tabularLines).
THEOREM SavesAreTrue == Spec => SavedAsAsked
<1>1. ASSUME CoreInv, LocksInv, [Next]_vars, NEW t \in Txns, Commits(t),
             req[t].kind \in {"create", "update", "mark"}
      PROVE  /\ tab'[req[t].row] \in Handled([NewOf(t, tab[req[t].row]) EXCEPT !.ver = @ + 1])
             /\ Ids(t) # Keep /\ right[t] => {l \in Lines : lines'[l] = req[t].row} = Ids(t)
  <2>0. /\ TypeOK /\ ReadInv(t) /\ WriteInv(t) /\ SavedInv(t) /\ LinesInv(t)
        /\ pc[t] = "done" /\ Commit(t)
    BY <1>1, CommitsIsCommit DEF CoreInv, TxnInv, LocksInv, LocalInv, Commits
  <2>1. /\ req[t] \in Requests /\ req[t].row \in Rows /\ old[t] \in Row
        /\ req[t].lines = Keep \/ req[t].lines \in SUBSET Lines
    BY <2>0, RequestFields DEF TypeOK
  <2>2. old[t] = tab[req[t].row] /\ wrote[t]
    BY <2>0 DEF ReadInv, WriteInv, PostWrite, Accepted
  <2>3. tab'[req[t].row] = new[t]
    BY <2>0, <2>1, <2>2 DEF Commit, TypeOK
  <2>4. PICK v \in Handled(NewOf(t, old[t])) : new[t] = Touch(t, v)
    BY <1>1, <2>0 DEF SavedInv, PostWrite, Accepted
  <2>5. NewOf(t, old[t]) \in Row
    BY <2>1, NewOfRow
  <2>6. Touch(t, v) \in Handled([NewOf(t, old[t]) EXCEPT !.ver = @ + 1])
    <3> DEFINE w == NewOf(t, old[t])
    <3>. HIDE DEF w
    <3>1. ASSUME NEW p \in Rows \cup {None}, v = [w EXCEPT !.parent = p]
          PROVE  Touch(t, v) = [[w EXCEPT !.ver = @ + 1] EXCEPT !.parent = p]
      BY <3>1, <2>5 DEF Touch, Row, w
    <3>. QED
      BY <3>1, <2>4 DEF Handled, Touch, w
  <2>7. ASSUME Ids(t) # Keep, right[t]
        PROVE  {l \in Lines : lines'[l] = req[t].row} = Ids(t)
    <3>1. req[t].kind # "mark"
      BY <2>1, <2>7, CatalogAssumption DEF Ids
    <3>2. LinesOf(req[t].row) \subseteq own[t] /\ Ids(t) \subseteq own[t]
      BY <1>1, <2>0, <2>7, <3>1 DEF LinesInv, WithLines, Ids
    <3>3. \A l \in Lines : lines'[l] = IF l \notin own[t] THEN lines[l]
                                       ELSE IF l \in Ids(t) THEN req[t].row ELSE None
      BY <2>0, <2>7 DEF Commit
    <3>4. req[t].row # None /\ Ids(t) \subseteq Lines
      BY <2>1, <2>7, CatalogAssumption DEF Ids
    <3>. QED
      BY <3>2, <3>3, <3>4 DEF LinesOf
  <2>. QED
    BY <2>2, <2>3, <2>4, <2>6, <2>7
<1>2. CoreInv /\ LocksInv /\ [Next]_vars =>
        [\A t \in Txns : (Commits(t) /\ req[t].kind \in {"create", "update", "mark"}) =>
           LET r == req[t].row
               row == NewOf(t, tab[r]) IN
           /\ tab'[r] \in Handled([row EXCEPT !.ver = @ + 1])
           /\ Ids(t) # Keep /\ right[t] => {l \in Lines : lines'[l] = r} = Ids(t)]_vars
  BY <1>1
<1>. QED
  BY <1>2, CoreInvariant, LocksInvariant, PTL DEF Spec, SavedAsAsked

-----------------------------------------------------------------------------
\* Who waits for whom.

\* The members of a set of commands that wait for each other: none of them writes
\* outside the commands or changes a key value.
Waiting(S) ==
  /\ S \in SUBSET Txns /\ Stuck(S)
  /\ \A t \in S : req[t].kind # "direct" /\ ~req[t].key

\* Nobody of them waits at the row it deletes, at the trigger or at a reference.
LEMMA WaitSites ==
  ASSUME CoreInv, LocksInv, NEW S, Waiting(S), NEW t \in S
  PROVE  pc[t] \in {"advisory", "row", "insert", "insertLines"}
<1>a. /\ t \in Txns /\ TypeOK /\ AskedInv(t) /\ ReadInv(t) /\ LockInv(t) /\ UpdateAlone
      /\ req[t].kind # "direct" /\ ~req[t].key /\ WaitsFor(t) \cap S # {}
  BY DEF Waiting, Stuck, CoreInv, TxnInv, LocksInv, LocalInv
<1>1. PICK u \in S : u \in WaitsFor(t)
  BY <1>a
<1>b. u \in Txns /\ AskedInv(u) /\ ReadInv(u) /\ LockInv(u)
      /\ req[u].kind # "direct" /\ ~req[u].key /\ WaitsFor(u) # {}
  BY DEF Waiting, Stuck, CoreInv, TxnInv, LocksInv, LocalInv
<1>2. pc[t] \in {"advisory", "trigger", "row", "write", "statement", "insert", "keys", "lineKeys", "insertLines"}
      /\ pc[t] # "idle"
  BY <1>1 DEF WaitsFor
<1>r. req[t].row \in Rows /\ req[t].related \in Rows \cup {None}
  BY <1>a, <1>2, RequestFields DEF TypeOK
<1>3. pc[t] # "statement"
  BY <1>a DEF AskedInv
<1>4. ASSUME pc[t] = "trigger" PROVE FALSE
  <2>1. adv = t
    BY <1>4, <1>a, MovedFirst DEF LockInv
  <2>. QED
    BY <1>1, <1>4, <2>1 DEF WaitsFor
<1>5. ASSUME pc[t] = "write" PROVE FALSE
  <2>1. req[t].kind = "delete" /\ u \in Blockers(t, req[t].row, "Update")
    BY <1>1, <1>5, <1>a DEF WaitsFor
  <2>2. <<req[t].row, "Update">> \in held[t]
    BY <1>5, <2>1, <1>a DEF LockInv
  <2>3. u # t /\ \E m \in Modes : <<req[t].row, m>> \in held[u]
    BY <2>1 DEF Blockers, Conflicts, Modes
  <2>. QED
    BY <2>2, <2>3, <1>a, <1>b, <1>r DEF UpdateAlone
<1>6. ASSUME pc[t] \in {"keys", "lineKeys"} PROVE FALSE
  <2>1. PICK x \in todo[t] : /\ x = req[t].row \/ Exists(x)
                             /\ u \in Blockers(t, x, "KeyShare")
    BY <1>1, <1>6 DEF WaitsFor
  <2>2. x \in Rows /\ <<x, "Update">> \in held[u] /\ u # t /\ "Update" \in Modes
    BY <1>6, <1>a, <2>1 DEF TypeOK, Blockers, Conflicts, Modes
  <2>3. x = req[u].row /\ req[u].kind \in {"create", "delete"} /\ pc[u] \notin Unlocked
    BY <2>2, <1>b DEF LockInv
  <2>4. pc[u] \in {"write"} \cup PostWrite
    BY <1>b, <2>3 DEF WaitsFor, Unlocked, PostWrite, Accepted
  <2>5. Owns(u, x) /\ old[u] = tab[x] /\ old[u].ver = exp[u]
    BY <2>3, <2>4, <1>b DEF ReadInv
  <2>6. CASE req[u].kind = "create"
    <3>1. ~Exists(x)
      BY <2>4, <2>5, <2>6, <1>b DEF AskedInv, Exists, PostWrite, Accepted
    <3>2. x = req[t].row /\ Owns(t, x)
      BY <2>1, <3>1, <1>6, <1>a DEF ReadInv, PostWrite, Accepted
    <3>. QED
      BY <2>2, <2>5, <3>2, <1>a, <1>b DEF CoreInv, Exclusive
  <2>7. CASE req[u].kind = "delete"
    <3>1. contract.deletable
      BY <2>3, <2>7, <1>b DEF LockInv, Unlocked
    <3>2. todo[t] = {}
      BY <3>1, <1>6, <1>a DEF LockInv
    <3>. QED
      BY <2>1, <3>2
  <2>. QED
    BY <2>3, <2>6, <2>7
<1>. QED
  BY <1>2, <1>3, <1>4, <1>5, <1>6

\* Those who hold a row, or lines, wait only with inserts of lines.
LEMMA HoldersInsert ==
  ASSUME CoreInv, LocksInv, NEW S, Waiting(S), NEW t \in S, NEW u \in S, u \in WaitsFor(t),
         pc[t] # "advisory"
  PROVE  pc[u] = "insertLines"
<1>a. u \in Txns /\ LockInv(u) /\ t \in Txns /\ TypeOK
  BY DEF Waiting, CoreInv, LocksInv, LocalInv
<1>1. pc[t] \in {"row", "insert", "insertLines"}
  BY WaitSites
<1>2. pc[u] \in {"advisory", "row", "insert", "insertLines"}
  BY WaitSites
<1>3. CASE pc[t] \in {"row", "insert"}
  <2>1. PICK m \in Modes : u \in Blockers(t, req[t].row, m)
    BY <1>3 DEF WaitsFor, Strength, Modes
  <2>2. held[u] # {}
    BY <2>1 DEF Blockers
  <2>. QED
    BY <2>2, <1>2, <1>a DEF LockInv, Unlocked
<1>4. CASE pc[t] = "insertLines"
  <2>1. own[u] # {}
    BY <1>4 DEF WaitsFor, LineBlockers
  <2>. QED
    BY <2>1, <1>2, <1>a DEF LockInv, WithLines
<1>. QED
  BY <1>1, <1>3, <1>4

\* Commands do not lock each other out: the order of their locks (hierarchy, row,
\* references, lines) and the modes they take leave only inserts of shared line ids,
\* changes of key values and writers outside the commands to wait in a circle.
THEOREM CommandsLiveTogether == Spec => []CommandsDoNotDeadlock
<1>1. ASSUME CoreInv, LocksInv, NEW S \in SUBSET Txns, Stuck(S),
             ~\E t \in S : req[t].kind = "direct" \/ req[t].key
      PROVE  Stuck({t \in S : pc[t] = "insertLines"})
  <2> DEFINE I == {t \in S : pc[t] = "insertLines"}
  <2>0. Waiting(S) /\ S # {} /\ \A t \in S : \E u \in S : u \in WaitsFor(t)
    BY <1>1 DEF Waiting, Stuck
  <2>1. \A t, u \in S : u \in WaitsFor(t) /\ pc[t] # "advisory" => pc[u] = "insertLines"
    BY <1>1, <2>0, HoldersInsert
  <2>2. \A t, u \in S : pc[t] = "advisory" /\ u \in WaitsFor(t) => pc[u] # "advisory"
    <3> SUFFICES ASSUME NEW t \in S, NEW u \in S, pc[t] = "advisory", u \in WaitsFor(t), pc[u] = "advisory"
                 PROVE  FALSE
      OBVIOUS
    <3>1. adv = u
      BY DEF WaitsFor
    <3>2. WaitsFor(u) = {}
      BY <3>1 DEF WaitsFor
    <3>. QED
      BY <2>0, <3>2
  <2>3. I # {}
    BY <2>0, <2>1, <2>2
  <2>4. \A t \in I : WaitsFor(t) \cap I # {}
    BY <2>0, <2>1
  <2>. QED
    BY <2>3, <2>4 DEF Stuck
<1>2. CoreInv /\ LocksInv => CommandsDoNotDeadlock
  BY <1>1 DEF CommandsDoNotDeadlock
<1>. QED
  BY <1>2, CoreInvariant, LocksInvariant, PTL
=============================================================================
