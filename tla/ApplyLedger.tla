----------------------------- MODULE ApplyLedger -----------------------------
(***************************************************************************)
(* What executePlan promises to its caller, with no transactions, sessions  *)
(* or connections: a call appends one row to the ledger, atomically and     *)
(* only from the state the last row left, and what it answers about that    *)
(* row stays true.  A call that answered "unknown" may still append.        *)
(***************************************************************************)
EXTENDS Sequences, Integers

CONSTANTS Calls, Hashes, Past, None

VARIABLES ledger, answer

Recorded(c) == \E i \in DOMAIN ledger : ledger[i].id = c
Reached == IF ledger = <<>> THEN None ELSE ledger[Len(ledger)].to

Init ==
  /\ \/ ledger = <<>>
     \/ \E h \in Hashes : ledger = <<[id |-> Past, from |-> None, to |-> h]>>
  /\ answer = [c \in Calls |-> "pending"]

Commit(c) ==
  /\ ~Recorded(c) /\ answer[c] \in {"pending", "unknown"}
  /\ \E h \in Hashes :
       ledger' = Append(ledger, [id |-> c, from |-> Reached, to |-> h])
  /\ UNCHANGED answer

Answer(c) ==
  /\ answer[c] = "pending"
  /\ \E a \in {IF Recorded(c) THEN "committed" ELSE "notApplied", "unknown"} :
       answer' = [answer EXCEPT ![c] = a]
  /\ UNCHANGED ledger

Next == \E c \in Calls : Commit(c) \/ Answer(c)

Spec == Init /\ [][Next]_<<ledger, answer>>
=============================================================================
