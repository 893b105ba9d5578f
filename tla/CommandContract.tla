--------------------------- MODULE CommandContract ---------------------------
(***************************************************************************)
(* What runCommand promises to its caller, with no attempts that fail, no   *)
(* connections, queues or hooks: a command takes effect once or never, in   *)
(* one of its attempts; what it registered for after the COMMIT runs after  *)
(* it; it answers once; and an answer that is not vague is true and stays   *)
(* true.  A command that answered vaguely may still take effect.            *)
(***************************************************************************)
EXTENDS Integers, Sequences

CONSTANTS
  Commands,
  Attempts,  \* numbers of attempts
  Definite,  \* failures that deny every effect
  Vague      \* failures that say nothing about it

VARIABLES
  effect,    \* the attempt that took effect: a set of at most one
  ran,       \* what has run after it, by the attempt that registered it
  answer

Init ==
  /\ effect = [c \in Commands |-> {}]
  /\ ran = [c \in Commands |-> <<>>]
  /\ answer = [c \in Commands |-> "none"]

TakeEffect(c) ==
  /\ effect[c] = {} /\ answer[c] \in {"none"} \cup Vague
  /\ \E a \in Attempts : effect' = [effect EXCEPT ![c] = {a}]
  /\ UNCHANGED <<ran, answer>>

RunAfter(c) ==
  /\ answer[c] \in {"none", "ok"}
  /\ \E a \in effect[c] : ran' = [ran EXCEPT ![c] = Append(@, a)]
  /\ UNCHANGED <<effect, answer>>

Answer(c) ==
  /\ answer[c] = "none"
  /\ \E a \in Vague \cup (IF effect[c] = {} THEN Definite ELSE {"ok"}) :
       answer' = [answer EXCEPT ![c] = a]
  /\ UNCHANGED <<effect, ran>>

Next == \E c \in Commands : TakeEffect(c) \/ RunAfter(c) \/ Answer(c)

Spec == Init /\ [][Next]_<<effect, ran, answer>>
=============================================================================
