----------------------------- MODULE MailIntake -----------------------------
(***************************************************************************)
(* Intake of the mail of one account: watchers that poll an IMAP mailbox   *)
(* or a Gmail history from a durable cursor (src/providers/watcher.ts,     *)
(* imap.ts, gmail.ts), Gmail's push notifications and the recovery of a    *)
(* whole mailbox (src/orchestration/runtime.ts).                           *)
(*                                                                         *)
(* Messages are numbered as they arrive.  The UID of a message counts from *)
(* the last rebuild of the box, its Gmail history id from the start; this  *)
(* is the id ingestion knows it by (src/threading/dedupe.ts).              *)
(* What a poll knows is what it read when it started; it awaits the        *)
(* provider, and then the ingestion of each message.  A watcher built of   *)
(* the fetchers of this repository polls once per start.                   *)
(***************************************************************************)
EXTENDS Integers, Sequences, SequencesExt, FiniteSets

CONSTANTS
  Polls,          \* slots of polls that run at the same time
  Idle,
  NoCursor,
  MaxMail, MaxValidity,   \* bounds
  BackfillMax,    \* backfillMaxMessages
  Scenarios       \* a provider, what may happen and how much mail arrives; one
                  \* of them is chosen at the start

Events ==
  {"stop",        \* a watcher is stopped or replaced while it polls
   "push",        \* Gmail notifications
   "recover",     \* an operator recovers the mailbox
   "fail",        \* a provider or the ingestion throws
   "crash", "torn_write",
   "validity",    \* the IMAP server renumbers the box
   "expunge",     \* mail is removed from an IMAP box
   "expiry",      \* Gmail does not know the history of the cursor any more
   "rewrite"}     \* the account is saved without what the watcher noted in it

ASSUME MailIntakeAssumption ==
  /\ MaxMail \in Nat /\ MaxValidity \in Nat \ {0} /\ BackfillMax \in Nat \ {0}
  /\ NoCursor \notin Nat
  /\ Scenarios \subseteq [provider : {"imap", "gmail"}, events : SUBSET Events, maxMail : 0 .. MaxMail]

VARIABLES
  box,        \* the mailbox, a sequence of messages
  validity,   \* UIDVALIDITY of the box
  base,       \* the newest message that never had a UID under it
  cursor,     \* provider_cursors: the watch cursor
  noted,      \* settings.watch: the UIDVALIDITY, or Gmail's watch history id
  ingested,   \* messages given to ingestMail
  recorded,   \* mail_messages: the message recorded under a key, 0 for none
  polls,
  skipped,    \* history: mail a first watch or a backfill leaves out
  answered,   \* history: the newest notification that was answered
  entered,    \* history: how often a message was taken for a new one
  scenario

boxVars == <<box, validity, base>>
intake == <<ingested, recorded, entered>>
durable == <<cursor, noted, intake>>
history == <<skipped, answered>>
vars == <<boxVars, durable, polls, history, scenario>>

Mail == 1 .. MaxMail
Cursor == 0 .. MaxMail \union {NoCursor}
Note == Cursor \union 1 .. MaxValidity

\* A message of a batch and the key ingestion will know it by.
Item == [key : Mail, message : Mail]

\* id: the notification a push stands for.  next and note: what persisting the
\* batch writes.
Poll ==
  [kind : {"watch", "push", "recover"}, at : {"asking", "listing", "ingesting"},
   id : 0 .. MaxMail, from : Cursor, knew : Note, todo : Seq(Item),
   next : Cursor, note : Note, aborted : BOOLEAN]

TypeOK ==
  /\ box \in Seq(Mail) /\ IsInjective(box)
  /\ validity \in 1 .. MaxValidity
  /\ base \in 0 .. MaxMail
  /\ cursor \in Cursor
  /\ noted \in Note
  /\ ingested \subseteq Mail
  /\ polls \in [Polls -> Poll \union {Idle}]
  /\ skipped \subseteq Mail
  /\ answered \in 0 .. MaxMail
  /\ recorded \in [Mail -> Mail \union {0}]
  /\ entered \in [Mail -> 0 .. MaxMail]
  /\ scenario \in Scenarios

Init ==
  /\ box = <<>> /\ validity = 1 /\ base = 0
  /\ cursor = NoCursor /\ noted = NoCursor
  /\ ingested = {}
  /\ recorded = [key \in Mail |-> 0]
  /\ entered = [m \in Mail |-> 0]
  /\ polls = [p \in Polls |-> Idle]
  /\ skipped = {} /\ answered = 0
  /\ scenario \in Scenarios

-----------------------------------------------------------------------------
May(event) == event \in scenario.events
Imap == scenario.provider = "imap"
Gmail == scenario.provider = "gmail"

Busy(p) == polls[p] # Idle
IsAt(p, place) == Busy(p) /\ polls[p].at = place
Watching == {p \in Polls : Busy(p) /\ polls[p].kind = "watch" /\ ~ polls[p].aborted}

NoPolls == [p \in Polls |-> Idle]
Ended(p) == [polls EXCEPT ![p] = Idle]

\* How far the mail before a cursor reaches.
Upto(c) == IF c = NoCursor THEN 0 ELSE c

\* stopWatcher: what runs is told, and goes on until it looks.
Aborted == [p \in Polls |-> IF p \in Watching THEN [polls[p] EXCEPT !.aborted = TRUE] ELSE polls[p]]

-----------------------------------------------------------------------------
(* The provider *)

NewestMail == Cardinality(Range(box) \union skipped)

Arrive ==
  /\ NewestMail < scenario.maxMail
  /\ box' = Append(box, NewestMail + 1)
  /\ UNCHANGED <<validity, base, durable, polls, history, scenario>>

\* Mail is removed; the UIDs of the others stay, their places do not.
Expunge ==
  /\ Imap /\ May("expunge")
  /\ \E k \in 1 .. Len(box) :
       /\ box' = RemoveAt(box, k)
       /\ skipped' = skipped \union {box[k]}
  /\ UNCHANGED <<validity, base, durable, polls, answered, scenario>>

\* The box is rebuilt under another UIDVALIDITY, maybe without its oldest mail.
Renumber ==
  /\ Imap /\ May("validity")
  /\ validity < MaxValidity
  /\ validity' = validity + 1
  /\ \E n \in 1 .. Len(box) + 1 :
       /\ box' = SubSeq(box, n, Len(box))
       /\ skipped' = skipped \union Range(SubSeq(box, 1, n - 1))
       /\ base' = IF n > Len(box) THEN NewestMail ELSE box[n] - 1
  /\ UNCHANGED <<durable, polls, answered, scenario>>

-----------------------------------------------------------------------------
(* Starting a poll *)

Started(kind, id, known) ==
  [kind |-> kind, at |-> IF Imap THEN "listing" ELSE "asking", id |-> id,
   from |-> cursor, knew |-> known, todo |-> <<>>, next |-> cursor,
   note |-> known, aborted |-> FALSE]

\* startWatchers or upsertAccount: the new controller is built, and starts to
\* poll, before the old one is stopped.
StartWatch(p) ==
  /\ ~ Busy(p)
  /\ Watching = {} \/ May("stop")
  /\ noted' \in {noted} \union (IF May("rewrite") THEN {NoCursor} ELSE {})
  /\ polls' = [Aborted EXCEPT ![p] = Started("watch", 0, noted')]
  /\ UNCHANGED <<boxVars, cursor, intake, history, scenario>>

StopWatchers ==
  /\ May("stop")
  /\ Watching # {}
  /\ polls' = Aborted
  /\ UNCHANGED <<boxVars, durable, history, scenario>>

\* Mutant: one too many.
UpToDate_Next(id) == cursor # NoCursor /\ cursor + 1 >= id

UpToDate(id) == cursor # NoCursor /\ cursor >= id

\* ingestGmailNotification: a notification comes late, twice or not at all.
\* Without a cursor the whole mailbox is recovered.
Push(p) ==
  /\ Gmail /\ May("push")
  /\ ~ Busy(p)
  /\ \E id \in 1 .. Len(box) :
       LET push == Started(IF cursor = NoCursor THEN "recover" ELSE "push", id, noted)
       IN  polls' = [polls EXCEPT ![p] =
             IF UpToDate(id) THEN [push EXCEPT !.at = "ingesting"] ELSE push]
  /\ UNCHANGED <<boxVars, durable, history, scenario>>

Recover(p) ==
  /\ Gmail /\ May("recover")
  /\ ~ Busy(p)
  /\ polls' = [polls EXCEPT ![p] = Started("recover", 0, noted)]
  /\ UNCHANGED <<boxVars, durable, history, scenario>>

-----------------------------------------------------------------------------
(* Listing the mail after the cursor *)

\* The UID of a message, or its history id.
Uid(message) == message - base

\* The messages of the box from one place to another.
Items(first, last) ==
  [i \in 1 .. last + 1 - first |->
    [key |-> Uid(box[first + i - 1]), message |-> box[first + i - 1]]]

\* What a listing gives; a watcher that was stopped meanwhile may have cut it
\* short at any place.
Listed(p, first, last) ==
  {Items(first, n) : n \in IF polls[p].aborted THEN first - 1 .. last ELSE {last}}

\* Mutant: the checkpoint is the next place to read.
Batch_Beyond(p, todo, next, note) ==
  polls' = [polls EXCEPT ![p] =
    [@ EXCEPT !.at = "ingesting", !.todo = todo, !.next = next + 1, !.note = note]]

Batch(p, todo, next, note) ==
  polls' = [polls EXCEPT ![p] =
    [@ EXCEPT !.at = "ingesting", !.todo = todo, !.next = next, !.note = note]]

Renumbered(poll) == poll.knew # NoCursor /\ poll.knew # validity

\* Mutant: a renumbered box is not read from its start.
StartUid_NoReset(poll) == Upto(poll.from) + 1

StartUid(poll) == IF Renumbered(poll) THEN 1 ELSE Upto(poll.from) + 1

\* fetchConfiguredImapMessages.  The range n:* of the UID after the cursor is
\* one of places in the box: createImapClient does not ask for UIDs.  Beyond
\* the end it holds the last message, or the server refuses it (Fail).
FetchImap(p) ==
  /\ Imap /\ IsAt(p, "listing")
  /\ LET poll == polls[p]
         first == IF StartUid(poll) > Len(box) /\ box # <<>> THEN Len(box) ELSE StartUid(poll)
     IN  \E todo \in Listed(p, first, Len(box)) :
           LET next == IF todo # <<>> THEN Last(todo).key
                       ELSE IF Renumbered(poll) THEN 0
                       ELSE poll.from
           IN  Batch(p, todo, next, validity)
  /\ UNCHANGED <<boxVars, durable, history, scenario>>

\* The watch is renewed when it is about to expire, and for a recovery; this
\* tells the history id of the moment.
AskGmail(p) ==
  /\ IsAt(p, "asking")
  /\ \/ polls' = [polls EXCEPT ![p].at = "listing", ![p].note = Len(box)]
     \/ /\ polls[p].kind # "recover" /\ polls[p].knew # NoCursor
        /\ polls' = [polls EXCEPT ![p].at = "listing"]
  /\ UNCHANGED <<boxVars, durable, history, scenario>>

\* listHistory.  The first watch starts at the moment it was set up.
FetchHistory(p) ==
  /\ Gmail /\ IsAt(p, "listing") /\ polls[p].kind # "recover"
  /\ LET poll == polls[p]
         start == IF poll.from = NoCursor THEN poll.note ELSE poll.from
     IN  /\ \E todo \in Listed(p, start + 1, Len(box)) :
              Batch(p, todo, start + Len(todo), poll.note)
         /\ skipped' = IF poll.from = NoCursor THEN skipped \union 1 .. start ELSE skipped
  /\ UNCHANGED <<boxVars, durable, answered, scenario>>

Window == {m \in Mail : m > Len(box) - BackfillMax /\ m <= Len(box)}

\* listHistory answers 404: a watcher takes the newest messages and goes on
\* from the history id of the watch.
Backfill(p) ==
  /\ Gmail /\ May("expiry")
  /\ IsAt(p, "listing") /\ polls[p].kind = "watch"
  /\ \E todo \in Listed(p, Len(box) - Cardinality(Window) + 1, Len(box)) :
       Batch(p, todo, polls[p].note, polls[p].note)
  /\ skipped' = skipped \union (1 .. Upto(polls[p].note) \ Window)
  /\ UNCHANGED <<boxVars, durable, answered, scenario>>

\* The same for a push: the whole mailbox is recovered.
RecoverForPush(p) ==
  /\ Gmail /\ May("expiry")
  /\ IsAt(p, "listing") /\ polls[p].kind = "push"
  /\ polls' = [polls EXCEPT ![p].at = "asking", ![p].kind = "recover"]
  /\ UNCHANGED <<boxVars, durable, history, scenario>>

\* recoverConfiguredGmailMailbox.
FetchAll(p) ==
  /\ IsAt(p, "listing") /\ polls[p].kind = "recover"
  /\ Batch(p, Items(1, Len(box)), polls[p].note, polls[p].note)
  /\ UNCHANGED <<boxVars, durable, history, scenario>>

-----------------------------------------------------------------------------
(* Ingesting the batch, and persisting where it ends *)

\* Mutant: every message is new.
Duplicate_Never(item) == FALSE

\* resolveThreadForMail.  The key of a message is the provider's number for it,
\* not its Message-ID, and for IMAP without the UIDVALIDITY.
Duplicate(item) == recorded[item.key] # 0

\* ingestMail, as far as it takes the message for a new one or a duplicate.
Ingest(p) ==
  /\ IsAt(p, "ingesting") /\ polls[p].todo # <<>>
  /\ LET item == Head(polls[p].todo)
     IN  /\ ingested' = ingested \union {item.message}
         /\ IF Duplicate(item) THEN UNCHANGED <<recorded, entered>>
            ELSE /\ recorded' = [recorded EXCEPT ![item.key] = item.message]
                 /\ entered' = [entered EXCEPT ![item.message] = @ + 1]
  /\ polls' = [polls EXCEPT ![p].todo = Tail(@)]
  /\ UNCHANGED <<boxVars, cursor, noted, history, scenario>>

\* fetchConfiguredGmailMessage gives nothing once the watcher is stopped, and
\* the watcher goes on with the next message.
PassOver(p) ==
  /\ Gmail /\ IsAt(p, "ingesting")
  /\ polls[p].todo # <<>> /\ polls[p].aborted
  /\ polls' = [polls EXCEPT ![p].todo = Tail(@)]
  /\ UNCHANGED <<boxVars, durable, history, scenario>>

\* persistWatchCheckpoint; then a push is answered.
Persist(p) ==
  /\ IsAt(p, "ingesting") /\ polls[p].todo = <<>>
  /\ LET poll == polls[p]
     IN  IF poll.next = NoCursor THEN UNCHANGED <<cursor, noted>>
         ELSE /\ cursor' = poll.next
              /\ noted' = poll.note
  /\ answered' = IF polls[p].id > answered THEN polls[p].id ELSE answered
  /\ polls' = Ended(p)
  /\ UNCHANGED <<boxVars, intake, skipped, scenario>>

\* The process dies between the cursor and the settings.
PersistTorn(p) ==
  /\ May("torn_write")
  /\ IsAt(p, "ingesting") /\ polls[p].todo = <<>>
  /\ cursor' = polls[p].next
  /\ polls' = NoPolls
  /\ UNCHANGED <<boxVars, noted, intake, history, scenario>>

\* Nothing catches what a watcher throws, unless it was stopped: the process
\* dies.
Fail(p) ==
  /\ Busy(p)
  /\ May("fail") \/ polls[p].aborted
  /\ polls' = IF p \in Watching THEN NoPolls ELSE Ended(p)
  /\ UNCHANGED <<boxVars, durable, history, scenario>>

Crash ==
  /\ May("crash")
  /\ polls # NoPolls
  /\ polls' = NoPolls
  /\ UNCHANGED <<boxVars, durable, history, scenario>>

-----------------------------------------------------------------------------
PollStep(p) ==
  \/ FetchImap(p) \/ AskGmail(p) \/ FetchHistory(p)
  \/ Backfill(p) \/ RecoverForPush(p) \/ FetchAll(p)
  \/ Ingest(p) \/ PassOver(p) \/ Persist(p) \/ PersistTorn(p) \/ Fail(p)

Next ==
  \/ Arrive \/ Expunge \/ Renumber
  \/ \E p \in Polls : StartWatch(p) \/ Push(p) \/ Recover(p) \/ PollStep(p)
  \/ StopWatchers
  \/ Crash

Spec == Init /\ [][Next]_vars

-----------------------------------------------------------------------------
(* Safety *)

\* Where the durable cursor says all about the past: not for Gmail if watchers
\* are stopped while they ingest; for IMAP only while no mail is removed from
\* the box, and not if a renumbering meets a torn write or settings that
\* forget the UIDVALIDITY.
Claimed ==
  IF Gmail THEN ~ May("stop")
  ELSE ~ May("expunge") /\ ~ (May("validity") /\ (May("torn_write") \/ May("rewrite")))

\* A poll goes on where the one before it ended: what the durable cursor has
\* passed is ingested, as the test of the fetcher has it, where the range after
\* checkpoint 100 gives the mail with the UIDs from 101 on.
PassedIsIngested ==
  \A i \in 1 .. Len(box) :
    Uid(box[i]) <= Upto(cursor) => box[i] \in ingested \union skipped

\* No mail is lost: what the durable cursor has passed is ingested, whatever
\* polls overlap, replace each other, fail and write it late.  For IMAP this
\* holds of a box from which no mail is removed.
CursorCoversMail ==
  Claimed /\ (Imap /\ May("validity") => noted = validity) => PassedIsIngested

\* A notification is answered only when the mail up to it is ingested: Gmail
\* does not send it again.
AnsweredIsIngested ==
  Claimed => \A n \in 1 .. answered : box[n] \in ingested \union skipped

\* Overlapping polls, retries and recoveries deliver a message again and again:
\* it enters its room once, and only once.  Not so if the box is renumbered:
\* then a message may pass for another that had its UID, or for a new one.
EntersOnce ==
  ~ May("validity") => \A m \in Mail : entered[m] = IF m \in ingested THEN 1 ELSE 0
=============================================================================
