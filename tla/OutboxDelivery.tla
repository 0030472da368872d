--------------------------- MODULE OutboxDelivery ---------------------------
(***************************************************************************)
(* The governed outbox (src/providers/smtp.ts, outbox-intents.ts and the   *)
(* operator's calls of runtime.ts).  Passes of deliverQueuedOutbox run     *)
(* concurrently, in the server (POST /api/outbox/deliver) and in `mailctl` *)
(* processes, over one table.  A pass is cut at its two awaits: the        *)
(* sender's resolution and the sender's send.  An operator's decision is   *)
(* cut between its two writes, the mail's row and its approval request: no *)
(* transaction holds them together.  That it finds the row in the status   *)
(* it expects and writes it is one step.                                   *)
(*                                                                         *)
(* provider_message_id is not carried: a queued row never has one, because *)
(* only "sent" writes it and no row leaves "sent".  Whether an earlier     *)
(* attempt reached the provider is read off the attempts.                  *)
(***************************************************************************)
EXTENDS Integers

CONSTANTS
  Intents,        \* outbox_intents rows
  Gateable,       \* those that may need an approval
  Rooms, RoomOf,  \* room keys; the room of each intent
  Passes, NoIntent,   \* slots for concurrent passes; what an idle one holds
  MaxReleases,    \* bound on the releases of an intent
  MaxCrashes,     \* bound on the passes and calls that die
  MaxHandoffs     \* bound on the handoffs

ASSUME OutboxAssumption ==
  /\ RoomOf \in [Intents -> Rooms]
  /\ NoIntent \notin Intents
  /\ {MaxReleases, MaxCrashes, MaxHandoffs} \subseteq Nat

VARIABLES
  status,      \* outbox_intents.status, "absent" before the insertion
  approval,    \* approval_requests.status, "none" without a request
  decision,    \* what an operator's call wrote to the row and has yet to write
               \* to the request; "lost" when it died before it did
  attempts,    \* attempts[i][s]: rows of mail_outbox_attempts with status s
  pass,        \* the running calls of deliverQueuedOutbox
  handoff,     \* whether thread_rooms.state of the room is "handoff"
  accepted,    \* history: how often the provider accepted the mail
  releases,    \* history: how often the row became "queued"
  resent,      \* history: the mail with a request that an operator resent
  crashes, handoffs     \* counted against MaxCrashes and MaxHandoffs

counted == <<crashes, handoffs>>
vars == <<status, approval, decision, attempts, pass, handoff, accepted, releases,
          resent, counted>>

Status ==
  {"absent", "pending_approval", "queued", "sending", "sent", "failed", "rejected"}
AttemptStatus == {"sending", "sent", "failed"}

\* todo: the listed rows the pass has not come to; done: the provider has
\* accepted the mail and the pass does not know it yet.
Pass ==
  [at : {"idle", "scanning", "resolving", "sending"},
   todo : SUBSET Intents, intent : Intents \union {NoIntent}, done : BOOLEAN]
IdlePass == [at |-> "idle", todo |-> {}, intent |-> NoIntent, done |-> FALSE]

TypeOK ==
  /\ status \in [Intents -> Status]
  /\ approval \in [Intents -> {"none", "requested", "approved", "rejected"}]
  /\ decision \in [Intents -> {"none", "approved", "rejected", "lost"}]
  /\ attempts \in [Intents -> [AttemptStatus -> Nat]]
  /\ pass \in [Passes -> Pass]
  /\ handoff \in [Rooms -> BOOLEAN]
  /\ accepted \in [Intents -> Nat]
  /\ releases \in [Intents -> Nat]
  /\ resent \subseteq Intents
  /\ crashes \in Nat
  /\ handoffs \in Nat

Init ==
  /\ status = [i \in Intents |-> "absent"]
  /\ approval = [i \in Intents |-> "none"]
  /\ decision = [i \in Intents |-> "none"]
  /\ attempts = [i \in Intents |-> [s \in AttemptStatus |-> 0]]
  /\ pass = [p \in Passes |-> IdlePass]
  /\ handoff = [r \in Rooms |-> FALSE]
  /\ accepted = [i \in Intents |-> 0]
  /\ releases = [i \in Intents |-> 0]
  /\ resent = {}
  /\ crashes = 0
  /\ handoffs = 0

-----------------------------------------------------------------------------
SetStatus(i, s) == status' = [status EXCEPT ![i] = s]

\* The row becomes "queued".
Queue(i) ==
  /\ releases[i] < MaxReleases
  /\ SetStatus(i, "queued")
  /\ releases' = [releases EXCEPT ![i] = @ + 1]

(* insertControlPlaneOutboxRecord *)

\* Mail that goes out without an approval.
InsertQueued(i) ==
  /\ status[i] = "absent"
  /\ Queue(i)
  /\ UNCHANGED <<approval, decision, attempts, pass, handoff, accepted, resent,
                 counted>>

\* The row and then its approval request.
InsertGated(i) ==
  /\ i \in Gateable
  /\ status[i] = "absent"
  /\ SetStatus(i, "pending_approval")
  /\ approval' = [approval EXCEPT ![i] = "requested"]
  /\ UNCHANGED <<decision, attempts, pass, handoff, accepted, releases, resent,
                 counted>>

\* The process dies after the row: the mail waits and has no request.
InsertTorn(i) ==
  /\ i \in Gateable
  /\ status[i] = "absent"
  /\ crashes < MaxCrashes
  /\ SetStatus(i, "pending_approval")
  /\ crashes' = crashes + 1
  /\ UNCHANGED <<approval, decision, attempts, pass, handoff, accepted, releases,
                 resent, handoffs>>

(* The operator *)

\* Mutant: the expected status is not looked at.
Decidable_AnyRow(i) == status[i] \notin {"absent", "sent"}

\* transitionOutbox
Decidable(i) == status[i] = "pending_approval"

\* The row is written; its request, if there is one, comes next.
Decide(i, d) ==
  decision' = [decision EXCEPT ![i] = IF approval[i] = "none" THEN @ ELSE d]

ApproveOutbox(i) ==
  /\ Decidable(i)
  /\ Queue(i)
  /\ Decide(i, "approved")
  /\ UNCHANGED <<approval, attempts, pass, handoff, accepted, resent, counted>>

RejectOutbox(i) ==
  /\ Decidable(i)
  /\ SetStatus(i, "rejected")
  /\ Decide(i, "rejected")
  /\ UNCHANGED <<approval, attempts, pass, handoff, accepted, releases, resent,
                 counted>>

\* updateApprovalRequestStatus, the second write of both.
RecordDecision(i) ==
  /\ decision[i] \in {"approved", "rejected"}
  /\ approval' = [approval EXCEPT ![i] = decision[i]]
  /\ decision' = [decision EXCEPT ![i] = "none"]
  /\ UNCHANGED <<status, attempts, pass, handoff, accepted, releases, resent,
                 counted>>

\* The process dies between the two writes.
LoseDecision(i) ==
  /\ decision[i] \in {"approved", "rejected"}
  /\ crashes < MaxCrashes
  /\ decision' = [decision EXCEPT ![i] = "lost"]
  /\ crashes' = crashes + 1
  /\ UNCHANGED <<status, approval, attempts, pass, handoff, accepted, releases,
                 resent, handoffs>>

\* Mutant: mail that is being sent is resent.
Resendable_Sending(i) == status[i] \in {"failed", "rejected", "sending"}

Resendable(i) == status[i] \in {"failed", "rejected"}

\* Neither the approval nor the attempts are consulted.
ResendOutbox(i) ==
  /\ Resendable(i)
  /\ Queue(i)
  /\ resent' = IF approval[i] = "none" THEN resent ELSE resent \union {i}
  /\ UNCHANGED <<approval, decision, attempts, pass, handoff, accepted, counted>>

\* The room's state is MailRoom's business; here it only changes.
RequestHandoff(r) ==
  /\ ~ handoff[r]
  /\ handoffs < MaxHandoffs
  /\ handoff' = [handoff EXCEPT ![r] = TRUE]
  /\ handoffs' = handoffs + 1
  /\ UNCHANGED <<status, approval, decision, attempts, pass, accepted, releases,
                 resent, crashes>>

ReleaseHandoff(r) ==
  /\ handoff[r]
  /\ handoff' = [handoff EXCEPT ![r] = FALSE]
  /\ UNCHANGED <<status, approval, decision, attempts, pass, accepted, releases,
                 resent, counted>>

-----------------------------------------------------------------------------
(* deliverQueuedOutbox *)

\* Mutant: mail that failed once is not listed again.
Queued_Unfailed == {i \in Intents : status[i] = "queued" /\ attempts[i]["failed"] = 0}

Queued == {i \in Intents : status[i] = "queued"}

\* requested: the outboxIds asked for; deliverOutbox asks for all.
StartPass(p, requested) ==
  /\ pass[p].at = "idle"
  /\ Queued \intersect requested # {}
  /\ pass' = [pass EXCEPT ![p] =
       [IdlePass EXCEPT !.at = "scanning", !.todo = Queued \intersect requested]]
  /\ UNCHANGED <<status, approval, decision, attempts, handoff, accepted,
                 releases, resent, counted>>

\* The next row of the list is considered and left, whatever has become of it
\* since it was listed.
Leave(p, i) == pass' = [pass EXCEPT ![p].todo = @ \ {i}]

SkipHandedOff(p, i) ==
  /\ handoff[RoomOf[i]]
  /\ Leave(p, i)
  /\ UNCHANGED status

\* An earlier attempt reached the provider: nothing is sent.
SettleAccepted(p, i) ==
  /\ ~ handoff[RoomOf[i]]
  /\ attempts[i]["sent"] > 0
  /\ SetStatus(i, "sent")
  /\ Leave(p, i)

\* Mutant: the claim takes a row another pass has claimed.
Claimable_Unsent(i) == status[i] # "sent"

Claimable(i) == status[i] = "queued"

\* claimOutboxIntentForDelivery changes the row only if it is still queued.
Claim(p, i) ==
  /\ ~ handoff[RoomOf[i]]
  /\ attempts[i]["sent"] = 0
  /\ Claimable(i)
  /\ SetStatus(i, "sending")
  /\ pass' = [pass EXCEPT ![p].at = "resolving", ![p].intent = i,
                          ![p].todo = @ \ {i}]

LoseClaim(p, i) ==
  /\ ~ handoff[RoomOf[i]]
  /\ attempts[i]["sent"] = 0
  /\ ~ Claimable(i)
  /\ Leave(p, i)
  /\ UNCHANGED status

Consider(p, i) ==
  /\ pass[p].at = "scanning"
  /\ i \in pass[p].todo
  /\ SkipHandedOff(p, i) \/ SettleAccepted(p, i) \/ Claim(p, i) \/ LoseClaim(p, i)
  /\ UNCHANGED <<approval, decision, attempts, handoff, accepted, releases,
                 resent, counted>>

EndPass(p) ==
  /\ pass[p].at = "scanning"
  /\ pass[p].todo = {}
  /\ pass' = [pass EXCEPT ![p] = IdlePass]
  /\ UNCHANGED <<status, approval, decision, attempts, handoff, accepted,
                 releases, resent, counted>>

\* Mutant: the row is not settled.
Settle_RowLeft(p, s) ==
  /\ pass' = [pass EXCEPT ![p] =
       [@ EXCEPT !.at = "scanning", !.intent = NoIntent, !.done = FALSE]]
  /\ UNCHANGED status

\* The pass is over with the intent it holds, which gets the given status.
Settle(p, s) ==
  /\ SetStatus(pass[p].intent, s)
  /\ pass' = [pass EXCEPT ![p] =
       [@ EXCEPT !.at = "scanning", !.intent = NoIntent, !.done = FALSE]]

\* Mutants: the statuses are swapped; every attempt is recorded as sent.
Attempt_Swapped(i, from, to) ==
  attempts' = [attempts EXCEPT ![i][from] = @ + 1, ![i][to] = @ - 1]
Attempt_Sent(i, from, to) ==
  attempts' = [attempts EXCEPT ![i][from] = @ - 1, ![i]["sent"] = @ + 1]

Attempt(i, from, to) ==
  attempts' = [attempts EXCEPT ![i][from] = @ - 1, ![i][to] = @ + 1]

\* The sender is known; the attempt is written and the mail is being sent.
BeginSend(p) ==
  /\ pass[p].at = "resolving"
  /\ pass' = [pass EXCEPT ![p].at = "sending"]
  /\ attempts' = [attempts EXCEPT ![pass[p].intent]["sending"] = @ + 1]
  /\ UNCHANGED <<status, approval, decision, handoff, accepted, releases,
                 resent, counted>>

\* There is no sender, or the recipients or headers are not valid.
CannotSend(p) ==
  /\ pass[p].at = "resolving"
  /\ attempts' = [attempts EXCEPT ![pass[p].intent]["failed"] = @ + 1]
  /\ Settle(p, "failed")
  /\ UNCHANGED <<approval, decision, handoff, accepted, releases, resent,
                 counted>>

\* The provider takes the mail.
ProviderAccepts(p) ==
  /\ pass[p].at = "sending"
  /\ ~ pass[p].done
  /\ pass' = [pass EXCEPT ![p].done = TRUE]
  /\ accepted' = [accepted EXCEPT ![pass[p].intent] = @ + 1]
  /\ UNCHANGED <<status, approval, decision, attempts, handoff, releases,
                 resent, counted>>

SendSucceeds(p) ==
  /\ pass[p].at = "sending"
  /\ pass[p].done
  /\ Attempt(pass[p].intent, "sending", "sent")
  /\ Settle(p, "sent")
  /\ UNCHANGED <<approval, decision, handoff, accepted, releases, resent,
                 counted>>

\* The send throws; that does not tell whether the provider took the mail.
SendFails(p) ==
  /\ pass[p].at = "sending"
  /\ Attempt(pass[p].intent, "sending", "failed")
  /\ Settle(p, "failed")
  /\ UNCHANGED <<approval, decision, handoff, accepted, releases, resent,
                 counted>>

\* The process of the pass dies.
Crash(p) ==
  /\ pass[p].at # "idle"
  /\ crashes < MaxCrashes
  /\ pass' = [pass EXCEPT ![p] = IdlePass]
  /\ crashes' = crashes + 1
  /\ UNCHANGED <<status, approval, decision, attempts, handoff, accepted,
                 releases, resent, handoffs>>

\* It dies after the attempt is written as sent and before the intent is.
RecordTorn(p) ==
  /\ pass[p].at = "sending"
  /\ pass[p].done
  /\ crashes < MaxCrashes
  /\ Attempt(pass[p].intent, "sending", "sent")
  /\ pass' = [pass EXCEPT ![p] = IdlePass]
  /\ crashes' = crashes + 1
  /\ UNCHANGED <<status, approval, decision, handoff, accepted, releases,
                 resent, handoffs>>

Deliver(p) ==
  \/ \E i \in Intents : Consider(p, i)
  \/ EndPass(p) \/ BeginSend(p) \/ CannotSend(p) \/ SendSucceeds(p) \/ SendFails(p)

Next ==
  \/ \E i \in Intents : \/ InsertQueued(i) \/ InsertGated(i) \/ InsertTorn(i)
                        \/ ApproveOutbox(i) \/ RejectOutbox(i)
                        \/ RecordDecision(i) \/ LoseDecision(i) \/ ResendOutbox(i)
  \/ \E r \in Rooms : RequestHandoff(r) \/ ReleaseHandoff(r)
  \/ \E p \in Passes, i \in Intents : StartPass(p, Intents) \/ StartPass(p, {i})
  \/ \E p \in Passes : \/ Deliver(p) \/ ProviderAccepts(p)
                       \/ Crash(p) \/ RecordTorn(p)

Spec == Init /\ [][Next]_vars

(***************************************************************************)
(* Deliveries are asked for again and again and the awaits of a pass end.  *)
(* The number of slots for passes is a bound of the model, not of the      *)
(* code, so a request is not kept out of them for ever: hence SF.          *)
(***************************************************************************)
Fairness ==
  /\ SF_vars(\E p \in Passes : StartPass(p, Intents))
  /\ \A p \in Passes : WF_vars(Deliver(p))

FairSpec == Spec /\ Fairness

-----------------------------------------------------------------------------
(* Safety *)

InFlight(p) == pass[p].at \in {"resolving", "sending"}
Holds(p, i) == InFlight(p) /\ pass[p].intent = i

\* "claims queued outbox rows before send so repeated delivery passes do not
\* double send": a mail is in the hands of one pass at most, and its row stays
\* "sending" for as long, whatever the operator calls meanwhile.
OneDeliveryPerIntent ==
  \A p \in Passes, i \in Intents :
    Holds(p, i) => /\ status[i] = "sending"
                   /\ \A q \in Passes : Holds(q, i) => q = p

\* A provider accepts a mail at most once for every time it was queued, also
\* when passes overlap, die, or never learn that it was accepted.
AcceptedOncePerRelease == \A i \in Intents : accepted[i] <= releases[i]

\* "approval creates the release gate": mail that has an approval request is
\* not in the hands of any pass and has not gone out while the request is open
\* or after it was rejected, unless an operator resent it, is in the middle of
\* approving it, or a call that decided on it died before it wrote the request.
GatedMailWaits ==
  \A i \in Intents :
    /\ approval[i] \in {"requested", "rejected"}
    /\ i \notin resent
    /\ decision[i] \notin {"approved", "lost"}
    => accepted[i] = 0 /\ \A p \in Passes : ~ Holds(p, i)

\* What the tables say is so: a mail or an attempt recorded as sent was
\* accepted, by exactly one recorded attempt, and is not queued again.
SentIsAccepted ==
  \A i \in Intents :
    /\ status[i] = "sent" => attempts[i]["sent"] > 0
    /\ attempts[i]["sent"] > 0 => /\ attempts[i]["sent"] = 1
                                  /\ accepted[i] > 0
                                  /\ status[i] \in {"sending", "sent"}

(* Refinement *)

\* A mail is due from its release until a provider takes it or its pass is
\* over; a row left "sending" by a pass that died has used its release up.
DueAt(p, i) == Holds(p, i) /\ ~ pass[p].done

StandingOf(i) ==
  CASE status[i] = "absent" -> "absent"
    [] status[i] = "pending_approval" -> "held"
    [] status[i] = "queued" -> "due"
    [] status[i] = "sent" -> "sent"
    [] status[i] = "sending" /\ (\E p \in Passes : DueAt(p, i)) -> "due"
    [] OTHER -> "spent"

Promise == INSTANCE OutboxPromise
             WITH standing <- [i \in Intents |-> StandingOf(i)]

\* The table and its passes keep the promise of the outbox, step by step.
PromiseKept == Promise!PromiseSpec

(* Liveness *)

\* A queued mail is taken up, unless its room is under handoff.
QueuedMailIsTakenUp ==
  \A i \in Intents :
    status[i] = "queued" ~> (status[i] # "queued" \/ handoff[RoomOf[i]])

\* A mail that is being sent becomes "sent" or "failed", where it can be resent.
SendingConcludes ==
  \A i \in Intents : status[i] = "sending" ~> status[i] \in {"sent", "failed"}
=============================================================================
