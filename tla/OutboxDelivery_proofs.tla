----------------------- MODULE OutboxDelivery_proofs -----------------------
(***************************************************************************)
(* Proofs about OutboxDelivery for any intents, rooms, passes and bounds:  *)
(* its invariants, and that it implements OutboxPromise.                   *)
(***************************************************************************)
EXTENDS OutboxDelivery, TLAPS

-----------------------------------------------------------------------------
(* The inductive invariant *)

\* A pass that holds an intent holds a row, an accepted mail is one it is
\* sending, and an attempt it has begun is on record.
PassShape ==
  \A p \in Passes :
    /\ InFlight(p) => pass[p].intent \in Intents
    /\ pass[p].done => /\ pass[p].at = "sending"
                       /\ accepted[pass[p].intent] > 0
    /\ pass[p].at = "sending" => attempts[pass[p].intent]["sending"] > 0

\* A row that was not released has not been sent; a decision is taken on a
\* pending row only; and as long as its request says no, or is waiting for a
\* decision that is not an approval, the row is pending or rejected.
Unreleased ==
  \A i \in Intents :
    /\ status[i] \in {"absent", "pending_approval"} => accepted[i] = 0
    /\ status[i] = "absent" => approval[i] = "none" /\ decision[i] = "none"
    /\ status[i] = "pending_approval" => /\ approval[i] \in {"none", "requested"}
                                         /\ decision[i] = "none"
    /\ decision[i] \in {"approved", "rejected"} => approval[i] = "requested"
    /\ /\ approval[i] \in {"requested", "rejected"}
       /\ i \notin resent
       /\ decision[i] \notin {"approved", "lost"}
       => status[i] \in {"pending_approval", "rejected"} /\ accepted[i] = 0

\* The releases cover what was accepted and what still may be.
Due(i) == status[i] = "queued" \/ \E p \in Passes : DueAt(p, i)

Covered ==
  \A i \in Intents :
    /\ accepted[i] <= releases[i]
    /\ Due(i) => accepted[i] < releases[i]

\* An attempt recorded as sent is the only one, and no pass holds its intent.
Recorded ==
  \A i \in Intents :
    /\ status[i] = "sent" => attempts[i]["sent"] > 0
    /\ attempts[i]["sent"] > 0 =>
         /\ attempts[i]["sent"] = 1
         /\ accepted[i] > 0
         /\ status[i] \in {"sending", "sent"}
         /\ \A p \in Passes : ~ Holds(p, i)

IInv ==
  /\ TypeOK /\ PassShape /\ OneDeliveryPerIntent
  /\ Unreleased /\ Covered /\ Recorded
-----------------------------------------------------------------------------
\* The invariant holds of an empty outbox.
LEMMA InitInductive == Init => IInv
BY OutboxAssumption DEF Init, IInv, TypeOK, PassShape, OneDeliveryPerIntent,
  Unreleased, Covered, Recorded, Due, DueAt, Holds, InFlight, Status,
  AttemptStatus, Pass, IdlePass

\* What a pass becomes in a step is a pass.
LEMMA PassUpdates ==
  ASSUME NEW x \in Pass
  PROVE  /\ \A i \in Intents :
              [x EXCEPT !.at = "resolving", !.intent = i, !.todo = @ \ {i}] \in Pass
         /\ [x EXCEPT !.at = "scanning", !.intent = NoIntent, !.done = FALSE]
              \in Pass
         /\ [x EXCEPT !.done = TRUE] \in Pass
BY DEF Pass

\* A claim leaves passes.
LEMMA ClaimKeepsPasses ==
  ASSUME NEW p \in Passes, NEW i \in Intents, pass \in [Passes -> Pass],
         Claim(p, i)
  PROVE  pass' \in [Passes -> Pass]
<1>1. [pass[p] EXCEPT !.at = "resolving", !.intent = i, !.todo = @ \ {i}] \in Pass
  BY PassUpdates
<1>2. pass' = [pass EXCEPT ![p] =
        [pass[p] EXCEPT !.at = "resolving", !.intent = i, !.todo = @ \ {i}]]
  BY DEF Claim
<1> QED
  BY <1>1, <1>2

\* Every step of the operator, the provider and the passes keeps it.
LEMMA NextInductive == IInv /\ [Next]_vars => IInv'
<1> SUFFICES ASSUME IInv, [Next]_vars PROVE IInv'
  OBVIOUS
<1> USE OutboxAssumption
    DEF IInv, TypeOK, PassShape, OneDeliveryPerIntent, Unreleased, Covered,
        Recorded, Due, DueAt, Holds, InFlight, Status, AttemptStatus, Pass,
        IdlePass, counted
<1>1. ASSUME NEW i \in Intents, InsertQueued(i) PROVE IInv'
  BY <1>1, SMTT(30) DEF InsertQueued, Queue, SetStatus
<1>2. ASSUME NEW i \in Intents, InsertGated(i) PROVE IInv'
  <2>1. TypeOK'
    BY <1>2, SMTT(30) DEF InsertGated, SetStatus
  <2>2. PassShape'
    BY <1>2, SMTT(30) DEF InsertGated, SetStatus
  <2>3. OneDeliveryPerIntent'
    BY <1>2, SMTT(30) DEF InsertGated, SetStatus
  <2>4. Unreleased'
    BY <1>2, SMTT(30) DEF InsertGated, SetStatus
  <2>5. Covered'
    BY <1>2, SMTT(30) DEF InsertGated, SetStatus
  <2>6. Recorded'
    BY <1>2, SMTT(30) DEF InsertGated, SetStatus
  <2> QED
    BY <2>1, <2>2, <2>3, <2>4, <2>5, <2>6
<1>3. ASSUME NEW i \in Intents, ApproveOutbox(i) PROVE IInv'
  BY <1>3, SMTT(30) DEF ApproveOutbox, Decidable, Decide, Queue, SetStatus
<1>4. ASSUME NEW i \in Intents, RejectOutbox(i) PROVE IInv'
  BY <1>4, SMTT(30) DEF RejectOutbox, Decidable, Decide, SetStatus
<1>5. ASSUME NEW i \in Intents, ResendOutbox(i) PROVE IInv'
  BY <1>5, SMTT(30) DEF ResendOutbox, Resendable, Queue, SetStatus
<1>6. ASSUME NEW r \in Rooms, RequestHandoff(r) PROVE IInv'
  BY <1>6, SMTT(30) DEF RequestHandoff
<1>7. ASSUME NEW r \in Rooms, ReleaseHandoff(r) PROVE IInv'
  BY <1>7, SMTT(30) DEF ReleaseHandoff
<1>8. ASSUME NEW p \in Passes, NEW requested \in SUBSET Intents,
             StartPass(p, requested)
      PROVE  IInv'
  <2>1. TypeOK'
    <3>1. [IdlePass EXCEPT !.at = "scanning", !.todo = Queued \intersect requested]
            \in Pass
      BY DEF Queued
    <3>2. pass' \in [Passes -> Pass]
      BY <1>8, <3>1 DEF StartPass
    <3> QED
      BY <1>8, <3>2 DEF StartPass
  <2>2. PassShape'
    BY <1>8, SMTT(30) DEF StartPass, Queued
  <2>3. OneDeliveryPerIntent'
    BY <1>8, SMTT(30) DEF StartPass, Queued
  <2>4. Unreleased'
    BY <1>8, SMTT(30) DEF StartPass, Queued
  <2>5. Covered'
    BY <1>8, SMTT(30) DEF StartPass, Queued
  <2>6. Recorded'
    BY <1>8, SMTT(30) DEF StartPass, Queued
  <2> QED
    BY <2>1, <2>2, <2>3, <2>4, <2>5, <2>6
<1>9. ASSUME NEW p \in Passes, NEW i \in Intents, Consider(p, i) PROVE IInv'
  <2>1. CASE SkipHandedOff(p, i)
    BY <1>9, <2>1, SMTT(30) DEF Consider, SkipHandedOff, Leave
  <2>2. CASE SettleAccepted(p, i)
    BY <1>9, <2>2, SMTT(30) DEF Consider, SettleAccepted, Leave, SetStatus
  <2>3. CASE Claim(p, i)
    <3>1. TypeOK'
      <4>1. pass' \in [Passes -> Pass]
        <5> HIDE DEF Pass
        <5> QED
          BY <2>3, ClaimKeepsPasses
      <4>2. status' \in [Intents -> Status]
        BY <2>3 DEF Claim, SetStatus
      <4> QED
        BY <1>9, <4>1, <4>2 DEF Consider
    <3>2. PassShape'
      BY <1>9, <2>3, SMTT(30) DEF Consider, Claim, Claimable, SetStatus
    <3>3. OneDeliveryPerIntent'
      BY <1>9, <2>3, SMTT(30) DEF Consider, Claim, Claimable, SetStatus
    <3>4. Unreleased'
      BY <1>9, <2>3, SMTT(30) DEF Consider, Claim, Claimable, SetStatus
    <3>5. Covered'
      BY <1>9, <2>3, SMTT(30) DEF Consider, Claim, Claimable, SetStatus
    <3>6. Recorded'
      BY <1>9, <2>3, SMTT(30) DEF Consider, Claim, Claimable, SetStatus
    <3> QED
      BY <3>1, <3>2, <3>3, <3>4, <3>5, <3>6
  <2>4. CASE LoseClaim(p, i)
    BY <1>9, <2>4, SMTT(30) DEF Consider, LoseClaim, Claimable, Leave
  <2> QED
    BY <1>9, <2>1, <2>2, <2>3, <2>4 DEF Consider
<1>10. ASSUME NEW p \in Passes, EndPass(p) PROVE IInv'
  BY <1>10, SMTT(30) DEF EndPass
<1>11. ASSUME NEW p \in Passes, BeginSend(p) PROVE IInv'
  BY <1>11, SMTT(30) DEF BeginSend
<1>12. ASSUME NEW p \in Passes, CannotSend(p) PROVE IInv'
  <2>1. TypeOK'
    <3>1. attempts' \in [Intents -> [AttemptStatus -> Nat]]
      BY <1>12, SMTT(30) DEF CannotSend
    <3>2. pass' \in [Passes -> Pass]
      <4> HIDE DEF Pass
      <4>1. [pass[p] EXCEPT !.at = "scanning", !.intent = NoIntent, !.done = FALSE]
              \in Pass
        BY PassUpdates
      <4> QED
        BY <1>12, <4>1 DEF CannotSend, Settle
    <3> QED
      BY <1>12, <3>1, <3>2 DEF CannotSend, Settle, SetStatus
  <2>2. PassShape'
    BY <1>12, SMTT(30) DEF CannotSend, Settle, SetStatus
  <2>3. OneDeliveryPerIntent'
    BY <1>12, SMTT(30) DEF CannotSend, Settle, SetStatus
  <2>4. Unreleased'
    BY <1>12, SMTT(30) DEF CannotSend, Settle, SetStatus
  <2>5. Covered'
    BY <1>12, SMTT(30) DEF CannotSend, Settle, SetStatus
  <2>6. Recorded'
    BY <1>12, SMTT(30) DEF CannotSend, Settle, SetStatus
  <2> QED
    BY <2>1, <2>2, <2>3, <2>4, <2>5, <2>6
<1>13. ASSUME NEW p \in Passes, SendSucceeds(p) PROVE IInv'
  <2>1. TypeOK'
    BY <1>13, SMTT(30) DEF SendSucceeds, Settle, Attempt, SetStatus
  <2>2. PassShape'
    BY <1>13, SMTT(30) DEF SendSucceeds, Settle, Attempt, SetStatus
  <2>3. OneDeliveryPerIntent'
    BY <1>13, SMTT(30) DEF SendSucceeds, Settle, Attempt, SetStatus
  <2>4. Unreleased'
    BY <1>13, SMTT(30) DEF SendSucceeds, Settle, Attempt, SetStatus
  <2>5. Covered'
    BY <1>13, SMTT(30) DEF SendSucceeds, Settle, Attempt, SetStatus
  <2>6. Recorded'
    BY <1>13, SMTT(30) DEF SendSucceeds, Settle, Attempt, SetStatus
  <2> QED
    BY <2>1, <2>2, <2>3, <2>4, <2>5, <2>6
<1>14. ASSUME NEW p \in Passes, SendFails(p) PROVE IInv'
  <2>1. TypeOK'
    BY <1>14, SMTT(30) DEF SendFails, Settle, Attempt, SetStatus
  <2>2. PassShape'
    BY <1>14, SMTT(30) DEF SendFails, Settle, Attempt, SetStatus
  <2>3. OneDeliveryPerIntent'
    BY <1>14, SMTT(30) DEF SendFails, Settle, Attempt, SetStatus
  <2>4. Unreleased'
    BY <1>14, SMTT(30) DEF SendFails, Settle, Attempt, SetStatus
  <2>5. Covered'
    BY <1>14, SMTT(30) DEF SendFails, Settle, Attempt, SetStatus
  <2>6. Recorded'
    BY <1>14, SMTT(30) DEF SendFails, Settle, Attempt, SetStatus
  <2> QED
    BY <2>1, <2>2, <2>3, <2>4, <2>5, <2>6
<1>15. ASSUME NEW p \in Passes, ProviderAccepts(p) PROVE IInv'
  <2>1. TypeOK'
    <3>1. accepted' \in [Intents -> Nat]
      BY <1>15, SMTT(30) DEF ProviderAccepts
    <3>2. pass' \in [Passes -> Pass]
      <4> HIDE DEF Pass
      <4>1. [pass[p] EXCEPT !.done = TRUE] \in Pass
        BY PassUpdates
      <4> QED
        BY <1>15, <4>1 DEF ProviderAccepts
    <3> QED
      BY <1>15, <3>1, <3>2 DEF ProviderAccepts
  <2>2. PassShape'
    BY <1>15, SMTT(30) DEF ProviderAccepts
  <2>3. OneDeliveryPerIntent'
    BY <1>15, SMTT(30) DEF ProviderAccepts
  <2>4. Unreleased'
    BY <1>15, SMTT(30) DEF ProviderAccepts
  <2>5. Covered'
    BY <1>15, SMTT(30) DEF ProviderAccepts
  <2>6. Recorded'
    BY <1>15, SMTT(30) DEF ProviderAccepts
  <2> QED
    BY <2>1, <2>2, <2>3, <2>4, <2>5, <2>6
<1>16. ASSUME NEW p \in Passes, Crash(p) PROVE IInv'
  BY <1>16, SMTT(30) DEF Crash
<1>17. ASSUME NEW p \in Passes, RecordTorn(p) PROVE IInv'
  <2>1. TypeOK'
    BY <1>17, SMTT(30) DEF RecordTorn, Attempt
  <2>2. PassShape'
    BY <1>17, SMTT(30) DEF RecordTorn, Attempt
  <2>3. OneDeliveryPerIntent'
    BY <1>17, SMTT(30) DEF RecordTorn, Attempt
  <2>4. Unreleased'
    BY <1>17, SMTT(30) DEF RecordTorn, Attempt
  <2>5. Covered'
    BY <1>17, SMTT(30) DEF RecordTorn, Attempt
  <2>6. Recorded'
    BY <1>17, SMTT(30) DEF RecordTorn, Attempt
  <2> QED
    BY <2>1, <2>2, <2>3, <2>4, <2>5, <2>6
<1>18. ASSUME NEW i \in Intents, InsertTorn(i) PROVE IInv'
  <2>1. TypeOK'
    BY <1>18, SMTT(30) DEF InsertTorn, SetStatus
  <2>2. PassShape'
    BY <1>18, SMTT(30) DEF InsertTorn, SetStatus
  <2>3. OneDeliveryPerIntent'
    BY <1>18, SMTT(30) DEF InsertTorn, SetStatus
  <2>4. Unreleased'
    BY <1>18, SMTT(30) DEF InsertTorn, SetStatus
  <2>5. Covered'
    BY <1>18, SMTT(30) DEF InsertTorn, SetStatus
  <2>6. Recorded'
    BY <1>18, SMTT(30) DEF InsertTorn, SetStatus
  <2> QED
    BY <2>1, <2>2, <2>3, <2>4, <2>5, <2>6
<1>19. ASSUME NEW i \in Intents, RecordDecision(i) PROVE IInv'
  <2>1. TypeOK'
    BY <1>19, SMTT(30) DEF RecordDecision
  <2>2. PassShape'
    BY <1>19, SMTT(30) DEF RecordDecision
  <2>3. OneDeliveryPerIntent'
    BY <1>19, SMTT(30) DEF RecordDecision
  <2>4. Unreleased'
    BY <1>19, SMTT(30) DEF RecordDecision
  <2>5. Covered'
    BY <1>19, SMTT(30) DEF RecordDecision
  <2>6. Recorded'
    BY <1>19, SMTT(30) DEF RecordDecision
  <2> QED
    BY <2>1, <2>2, <2>3, <2>4, <2>5, <2>6
<1>20. ASSUME NEW i \in Intents, LoseDecision(i) PROVE IInv'
  BY <1>20, SMTT(30) DEF LoseDecision
<1>21. ASSUME UNCHANGED vars PROVE IInv'
  BY <1>21 DEF vars
<1> HIDE DEF IInv
<1> QED
  BY <1>1, <1>2, <1>3, <1>4, <1>5, <1>6, <1>7, <1>8, <1>9, <1>10, <1>11,
     <1>12, <1>13, <1>14, <1>15, <1>16, <1>17, <1>18, <1>19, <1>20, <1>21
  DEF Next, Deliver
-----------------------------------------------------------------------------
(* Safety *)

\* The invariant holds throughout.
LEMMA Inductive == Spec => []IInv
<1>1. IInv /\ UNCHANGED vars => IInv'
  BY NextInductive
<1> QED
  BY InitInductive, NextInductive, PTL DEF Spec

\* The tables and the passes hold what their types say.
THEOREM TypeCorrect == Spec => []TypeOK
<1>1. IInv => TypeOK
  BY DEF IInv
<1> QED
  BY <1>1, Inductive, PTL

\* However many passes run and whatever the operator calls, a mail is in the
\* hands of at most one pass, and its row says "sending" meanwhile.
THEOREM OneDelivery == Spec => []OneDeliveryPerIntent
<1>1. IInv => OneDeliveryPerIntent
  BY DEF IInv
<1> QED
  BY <1>1, Inductive, PTL

\* No mail is accepted more often than it was released.
THEOREM AcceptedOnce == Spec => []AcceptedOncePerRelease
<1>1. IInv => AcceptedOncePerRelease
  BY DEF IInv, Covered, AcceptedOncePerRelease
<1> QED
  BY <1>1, Inductive, PTL

\* A mail whose request is open or rejected has not been accepted and no pass
\* holds it, but for a resend, a call between its two writes, or one that died
\* there.
THEOREM GatedWaits == Spec => []GatedMailWaits
<1>1. IInv => GatedMailWaits
  BY DEF IInv, OneDeliveryPerIntent, Unreleased, GatedMailWaits
<1> QED
  BY <1>1, Inductive, PTL

\* A mail or an attempt on record as sent was accepted.
THEOREM SentAccepted == Spec => []SentIsAccepted
<1>1. IInv => SentIsAccepted
  BY DEF IInv, Recorded, SentIsAccepted
<1> QED
  BY <1>1, Inductive, PTL

-----------------------------------------------------------------------------
(* Refinement *)

standingBar == [i \in Intents |-> StandingOf(i)]

\* A step that changes the standing of one mail only is a move of the promise.
LEMMA OneMoves ==
  ASSUME NEW i \in Intents,
         \A j \in Intents \ {i} : StandingOf(j)' = StandingOf(j)
  PROVE  standingBar' = [standingBar EXCEPT ![i] = StandingOf(i)']
BY DEF standingBar

\* A step that moves none is no step of the promise.
LEMMA NoneMoves ==
  ASSUME NEW i \in Intents, StandingOf(i)' = StandingOf(i),
         \A j \in Intents \ {i} : StandingOf(j)' = StandingOf(j)
  PROVE  standingBar' = standingBar
BY DEF standingBar

\* A step that moves one and leaves the acceptances alone, by its name.
LEMMA Moving ==
  ASSUME NEW i \in Intents, NEW from, NEW to,
         StandingOf(i) = from, StandingOf(i)' = to,
         \A j \in Intents \ {i} : StandingOf(j)' = StandingOf(j),
         accepted' = accepted
  PROVE  Promise!Moves(i, from, to)
BY OneMoves DEF Promise!Moves, standingBar

\* Every step is a step of the promise or leaves it alone.
LEMMA NextKeepsPromise ==
  IInv /\ [Next]_vars => [Promise!PromiseNext]_<<standingBar, accepted>>
<1> SUFFICES ASSUME IInv, [Next]_vars
             PROVE  Promise!PromiseNext \/ UNCHANGED <<standingBar, accepted>>
  OBVIOUS
<1> USE OutboxAssumption
    DEF TypeOK, PassShape, OneDeliveryPerIntent, Unreleased, Recorded, Status,
        Pass, IInv, StandingOf, DueAt, Holds, InFlight
<1>1. ASSUME NEW i \in Intents, InsertQueued(i) PROVE Promise!PromiseNext
  <2>1. StandingOf(i) = "absent" /\ StandingOf(i)' = "due" /\ accepted' = accepted
    BY <1>1, SMTT(30) DEF InsertQueued, Queue, SetStatus
  <2>2. \A j \in Intents \ {i} : StandingOf(j)' = StandingOf(j)
    BY <1>1, SMTT(30) DEF InsertQueued, Queue, SetStatus
  <2> QED
    BY <2>1, <2>2, Moving DEF Promise!PromiseNext, Promise!Write
<1>2. ASSUME NEW i \in Intents, InsertGated(i) PROVE Promise!PromiseNext
  <2>1. StandingOf(i) = "absent" /\ StandingOf(i)' = "held" /\ accepted' = accepted
    BY <1>2, SMTT(30) DEF InsertGated, SetStatus
  <2>2. \A j \in Intents \ {i} : StandingOf(j)' = StandingOf(j)
    BY <1>2, SMTT(30) DEF InsertGated, SetStatus
  <2> QED
    BY <2>1, <2>2, Moving DEF Promise!PromiseNext, Promise!Write
<1>3. ASSUME NEW i \in Intents, ApproveOutbox(i) PROVE Promise!PromiseNext
  <2>1. StandingOf(i) = "held" /\ StandingOf(i)' = "due" /\ accepted' = accepted
    BY <1>3, SMTT(30) DEF ApproveOutbox, Decidable, Queue, SetStatus
  <2>2. \A j \in Intents \ {i} : StandingOf(j)' = StandingOf(j)
    BY <1>3, SMTT(30) DEF ApproveOutbox, Queue, SetStatus
  <2> QED
    BY <2>1, <2>2, Moving DEF Promise!PromiseNext, Promise!Release
<1>4. ASSUME NEW i \in Intents, RejectOutbox(i) PROVE Promise!PromiseNext
  <2>1. StandingOf(i) = "held" /\ StandingOf(i)' = "spent" /\ accepted' = accepted
    BY <1>4, SMTT(30) DEF RejectOutbox, Decidable, SetStatus
  <2>2. \A j \in Intents \ {i} : StandingOf(j)' = StandingOf(j)
    BY <1>4, SMTT(30) DEF RejectOutbox, SetStatus
  <2> QED
    BY <2>1, <2>2, Moving DEF Promise!PromiseNext, Promise!Refuse
<1>5. ASSUME NEW i \in Intents, ResendOutbox(i) PROVE Promise!PromiseNext
  <2>1. StandingOf(i) = "spent" /\ StandingOf(i)' = "due" /\ accepted' = accepted
    BY <1>5, SMTT(30) DEF ResendOutbox, Resendable, Queue, SetStatus
  <2>2. \A j \in Intents \ {i} : StandingOf(j)' = StandingOf(j)
    BY <1>5, SMTT(30) DEF ResendOutbox, Resendable, Queue, SetStatus
  <2> QED
    BY <2>1, <2>2, Moving DEF Promise!PromiseNext, Promise!Release
<1>6. ASSUME NEW r \in Rooms, RequestHandoff(r)
      PROVE  UNCHANGED <<standingBar, accepted>>
  BY <1>6, SMTT(30) DEF RequestHandoff, standingBar
<1>7. ASSUME NEW r \in Rooms, ReleaseHandoff(r)
      PROVE  UNCHANGED <<standingBar, accepted>>
  BY <1>7, SMTT(30) DEF ReleaseHandoff, standingBar
<1>8. ASSUME NEW p \in Passes, NEW requested \in SUBSET Intents,
             StartPass(p, requested)
      PROVE  UNCHANGED <<standingBar, accepted>>
  BY <1>8, SMTT(30) DEF StartPass, IdlePass, standingBar
<1>9. ASSUME NEW p \in Passes, NEW i \in Intents, Consider(p, i)
      PROVE  Promise!PromiseNext \/ UNCHANGED <<standingBar, accepted>>
  <2>1. CASE SkipHandedOff(p, i)
    BY <1>9, <2>1, SMTT(30) DEF Consider, SkipHandedOff, Leave, standingBar
  <2>2. CASE SettleAccepted(p, i)
    <3>1. /\ StandingOf(i) \in {"spent", "sent"}
          /\ StandingOf(i)' = "sent"
          /\ accepted' = accepted /\ accepted[i] > 0
      BY <1>9, <2>2, SMTT(30) DEF Consider, SettleAccepted, Leave, SetStatus
    <3>2. \A j \in Intents \ {i} : StandingOf(j)' = StandingOf(j)
      BY <1>9, <2>2, SMTT(30) DEF Consider, SettleAccepted, Leave, SetStatus
    <3>3. CASE StandingOf(i) = "spent"
      BY <3>1, <3>2, <3>3, Moving DEF Promise!PromiseNext, Promise!Confirm
    <3>4. CASE StandingOf(i) = "sent"
      <4> HIDE DEF StandingOf
      <4> QED
        BY <3>1, <3>2, <3>4, NoneMoves
    <3> QED
      BY <3>1, <3>3, <3>4
  <2>3. CASE Claim(p, i)
    <3>1. StandingOf(i) = "due" /\ StandingOf(i)' = "due" /\ accepted' = accepted
      BY <1>9, <2>3, SMTT(30) DEF Consider, Claim, Claimable, SetStatus
    <3>2. \A j \in Intents \ {i} : StandingOf(j)' = StandingOf(j)
      BY <1>9, <2>3, SMTT(30) DEF Consider, Claim, Claimable, SetStatus
    <3> QED
      <4> HIDE DEF StandingOf
      <4> QED
        BY <3>1, <3>2, NoneMoves
  <2>4. CASE LoseClaim(p, i)
    BY <1>9, <2>4, SMTT(30) DEF Consider, LoseClaim, Claimable, Leave, standingBar
  <2> QED
    BY <1>9, <2>1, <2>2, <2>3, <2>4, SMTT(30) DEF Consider
<1>10. ASSUME NEW p \in Passes, EndPass(p)
       PROVE  UNCHANGED <<standingBar, accepted>>
  BY <1>10, SMTT(30) DEF EndPass, IdlePass, standingBar
<1>11. ASSUME NEW p \in Passes, BeginSend(p)
       PROVE  UNCHANGED <<standingBar, accepted>>
  BY <1>11, SMTT(30) DEF BeginSend, standingBar
<1>12. ASSUME NEW p \in Passes, CannotSend(p) PROVE Promise!PromiseNext
  <2>1. PICK i \in Intents : i = pass[p].intent /\ status[i] = "sending"
    BY <1>12, SMTT(30) DEF CannotSend
  <2>2. StandingOf(i) = "due" /\ accepted' = accepted
    BY <1>12, <2>1, SMTT(30) DEF CannotSend, Settle, SetStatus
  <2>3. StandingOf(i)' = "spent"
    BY <1>12, <2>1, SMTT(30) DEF CannotSend, Settle, SetStatus
  <2>4. \A j \in Intents \ {i} : StandingOf(j)' = StandingOf(j)
    BY <1>12, <2>1, SMTT(30) DEF CannotSend, Settle, SetStatus
  <2> QED
    BY <2>1, <2>2, <2>3, <2>4, Moving DEF Promise!PromiseNext, Promise!GiveUp
<1>13. ASSUME NEW p \in Passes, SendSucceeds(p) PROVE Promise!PromiseNext
  <2>1. PICK i \in Intents : i = pass[p].intent /\ status[i] = "sending"
    BY <1>13, SMTT(30) DEF SendSucceeds
  <2>2. StandingOf(i) = "spent" /\ accepted' = accepted /\ accepted[i] > 0
    BY <1>13, <2>1, SMTT(30) DEF SendSucceeds, Attempt, Settle, SetStatus
  <2>3. StandingOf(i)' = "sent"
    BY <1>13, <2>1, SMTT(30) DEF SendSucceeds, Attempt, Settle, SetStatus
  <2>4. \A j \in Intents \ {i} : StandingOf(j)' = StandingOf(j)
    BY <1>13, <2>1, SMTT(30) DEF SendSucceeds, Attempt, Settle, SetStatus
  <2> QED
    BY <2>1, <2>2, <2>3, <2>4, Moving DEF Promise!PromiseNext, Promise!Confirm
<1>14. ASSUME NEW p \in Passes, SendFails(p)
       PROVE  Promise!PromiseNext \/ UNCHANGED <<standingBar, accepted>>
  <2>1. PICK i \in Intents :
          i = pass[p].intent /\ status[i] = "sending" /\ accepted' = accepted
    BY <1>14, SMTT(30) DEF SendFails
  <2>2. StandingOf(i) = (IF pass[p].done THEN "spent" ELSE "due")
    BY <1>14, <2>1, SMTT(30) DEF SendFails
  <2>3. StandingOf(i)' = "spent"
    BY <1>14, <2>1, SMTT(30) DEF SendFails, Settle, SetStatus
  <2>4. \A j \in Intents \ {i} : StandingOf(j)' = StandingOf(j)
    BY <1>14, <2>1, SMTT(30) DEF SendFails, Settle, SetStatus
  <2>5. CASE StandingOf(i) = "due"
    BY <2>1, <2>3, <2>4, <2>5, Moving DEF Promise!PromiseNext, Promise!GiveUp
  <2>6. CASE StandingOf(i) = "spent"
    <3> HIDE DEF StandingOf
    <3> QED
      BY <2>1, <2>3, <2>4, <2>6, NoneMoves
  <2> QED
    BY <2>2, <2>5, <2>6
<1>15. ASSUME NEW p \in Passes, ProviderAccepts(p) PROVE Promise!PromiseNext
  <2>1. PICK i \in Intents : i = pass[p].intent /\ status[i] = "sending"
    BY <1>15, SMTT(30) DEF ProviderAccepts
  <2>2. StandingOf(i) = "due" /\ accepted' = [accepted EXCEPT ![i] = @ + 1]
    BY <1>15, <2>1, SMTT(30) DEF ProviderAccepts
  <2>3. StandingOf(i)' = "spent"
    BY <1>15, <2>1, SMTT(30) DEF ProviderAccepts
  <2>4. \A j \in Intents \ {i} : StandingOf(j)' = StandingOf(j)
    BY <1>15, <2>1, SMTT(30) DEF ProviderAccepts
  <2> QED
    BY <2>1, <2>2, <2>3, <2>4, OneMoves
    DEF Promise!PromiseNext, Promise!Accept, standingBar
<1>16. ASSUME NEW p \in Passes, Crash(p)
       PROVE  Promise!PromiseNext \/ UNCHANGED <<standingBar, accepted>>
  <2>1. CASE InFlight(p) /\ ~ pass[p].done
    <3>1. PICK i \in Intents :
            i = pass[p].intent /\ status[i] = "sending" /\ accepted' = accepted
      BY <1>16, <2>1, SMTT(30) DEF Crash
    <3>2. StandingOf(i) = "due"
      BY <2>1, <3>1
    <3>3. StandingOf(i)' = "spent"
      BY <1>16, <2>1, <3>1, SMTT(30) DEF Crash, IdlePass
    <3>4. \A j \in Intents \ {i} : StandingOf(j)' = StandingOf(j)
      BY <1>16, <3>1, SMTT(30) DEF Crash, IdlePass
    <3> QED
      BY <3>1, <3>2, <3>3, <3>4, Moving DEF Promise!PromiseNext, Promise!GiveUp
  <2>2. CASE ~ InFlight(p) \/ pass[p].done
    BY <1>16, <2>2, SMTT(30) DEF Crash, IdlePass, standingBar
  <2> QED
    BY <2>1, <2>2
<1>17. ASSUME NEW p \in Passes, RecordTorn(p)
       PROVE  UNCHANGED <<standingBar, accepted>>
  BY <1>17, SMTT(30) DEF RecordTorn, IdlePass, standingBar
<1>18. ASSUME NEW i \in Intents, InsertTorn(i) PROVE Promise!PromiseNext
  <2>1. StandingOf(i) = "absent" /\ StandingOf(i)' = "held" /\ accepted' = accepted
    BY <1>18, SMTT(30) DEF InsertTorn, SetStatus
  <2>2. \A j \in Intents \ {i} : StandingOf(j)' = StandingOf(j)
    BY <1>18, SMTT(30) DEF InsertTorn, SetStatus
  <2> QED
    BY <2>1, <2>2, Moving DEF Promise!PromiseNext, Promise!Write
<1>19. ASSUME NEW i \in Intents, RecordDecision(i)
       PROVE  UNCHANGED <<standingBar, accepted>>
  BY <1>19, SMTT(30) DEF RecordDecision, standingBar
<1>20. ASSUME NEW i \in Intents, LoseDecision(i)
       PROVE  UNCHANGED <<standingBar, accepted>>
  BY <1>20, SMTT(30) DEF LoseDecision, standingBar
<1>21. ASSUME UNCHANGED vars PROVE UNCHANGED <<standingBar, accepted>>
  BY <1>21, SMTT(30) DEF vars, standingBar
<1> HIDE DEF IInv
<1> QED
  BY <1>1, <1>2, <1>3, <1>4, <1>5, <1>6, <1>7, <1>8, <1>9, <1>10, <1>11, <1>12,
     <1>13, <1>14, <1>15, <1>16, <1>17, <1>18, <1>19, <1>20, <1>21
  DEF Next, Deliver

\* The table and its passes implement the promise: between two releases a mail
\* is accepted at most once, and after it is known to be sent never again.
THEOREM Implements == Spec => PromiseKept
<1>1. Init => Promise!PromiseInit
  BY DEF Init, Promise!PromiseInit, StandingOf
<1>2. IInv /\ [Next]_vars
        => [Promise!PromiseNext]_<<[i \in Intents |-> StandingOf(i)], accepted>>
  BY NextKeepsPromise DEF standingBar
<1> QED
  BY <1>1, <1>2, Inductive, PTL DEF Spec, PromiseKept, Promise!PromiseSpec
=============================================================================
