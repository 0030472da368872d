--------------------------- MODULE OutboxPromise ---------------------------
(***************************************************************************)
(* What the outbox promises about a mail: between two times somebody       *)
(* releases it, it is handed to its provider at most once, and once it is  *)
(* known to be sent it is never handed over again.                         *)
(***************************************************************************)
EXTENDS Naturals

CONSTANT Intents

VARIABLES
  standing,    \* where a mail stands with its promise
  accepted     \* how often its provider has accepted it

Standing ==
  {"absent", "held",   \* not written; waiting for a decision
   "due",              \* released and not yet accepted
   "spent",            \* its release is used up
   "sent"}             \* known to be sent

PromiseType ==
  /\ standing \in [Intents -> Standing]
  /\ accepted \in [Intents -> Nat]

PromiseInit ==
  /\ standing = [i \in Intents |-> "absent"]
  /\ accepted = [i \in Intents |-> 0]

Moves(i, from, to) ==
  /\ standing[i] = from
  /\ standing' = [standing EXCEPT ![i] = to]
  /\ UNCHANGED accepted

Write(i) == Moves(i, "absent", "held") \/ Moves(i, "absent", "due")
Release(i) == Moves(i, "held", "due") \/ Moves(i, "spent", "due")
Refuse(i) == Moves(i, "held", "spent")

Accept(i) ==
  /\ standing[i] = "due"
  /\ standing' = [standing EXCEPT ![i] = "spent"]
  /\ accepted' = [accepted EXCEPT ![i] = @ + 1]

GiveUp(i) == Moves(i, "due", "spent")
Confirm(i) == accepted[i] > 0 /\ Moves(i, "spent", "sent")

PromiseNext ==
  \E i \in Intents :
    Write(i) \/ Release(i) \/ Refuse(i) \/ Accept(i) \/ GiveUp(i) \/ Confirm(i)

PromiseSpec == PromiseInit /\ [][PromiseNext]_<<standing, accepted>>
=============================================================================
