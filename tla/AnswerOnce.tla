----------------------------- MODULE AnswerOnce -----------------------------
(***************************************************************************)
(* What the idempotency ledger promises a device that retries: the first    *)
(* success a key is given settles it, and every later one is the same       *)
(* answer, however often and however concurrently the key is sent.          *)
(***************************************************************************)
EXTENDS Naturals

CONSTANTS Key, MaxRuns

Response == 1..MaxRuns
Unsettled == 0

VARIABLES
  settled,   \* the answer a key stands for, once it has one
  answers    \* the successes devices have been given

Init ==
  /\ settled = [k \in Key |-> Unsettled]
  /\ answers = [k \in Key |-> {}]

Settle(k, v) ==
  /\ settled[k] = Unsettled
  /\ settled' = [settled EXCEPT ![k] = v]
  /\ answers' = [answers EXCEPT ![k] = @ \cup {v}]

Replay(k) ==
  /\ settled[k] # Unsettled
  /\ answers' = [answers EXCEPT ![k] = @ \cup {settled[k]}]
  /\ UNCHANGED settled

Next == \E k \in Key : Replay(k) \/ \E v \in Response : Settle(k, v)

Spec == Init /\ [][Next]_<<settled, answers>>
=============================================================================
