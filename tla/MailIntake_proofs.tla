------------------------- MODULE MailIntake_proofs -------------------------
(***************************************************************************)
(* Proofs about MailIntake for any number of overlapping polls, any box    *)
(* and any combination of the events a scenario may allow.                 *)
(***************************************************************************)
EXTENDS MailIntake, SequenceTheorems, FiniteSetTheorems, TLAPS

-----------------------------------------------------------------------------
(* The inductive invariant *)

Seen == ingested \union skipped

\* The first k messages are seen, or are at least still to come in a batch.
Covers(k) == k <= Len(box) /\ \A n \in 1 .. k : box[n] \in Seen

CoversWith(k, todo) ==
  /\ k <= Len(box)
  /\ \A n \in 1 .. k :
       box[n] \in Seen \/ \E i \in 1 .. Len(todo) : todo[i].message = box[n]

\* Whether a cursor that was noted with this UIDVALIDITY is one of this box.
Fits(note) == Imap /\ May("validity") => note = validity

\* Whether mail may be removed from the middle of the box.
Expunges == Imap /\ May("expunge")

\* What arrived is numbered from 1, and is in the box or left out of it.
Arrived(n) == Range(box) \union skipped = 1 .. n

\* The box holds mail in the order of its arrival, with UIDs from 1 on.
Ordered ==
  /\ \E n \in base .. MaxMail : Arrived(n)
  /\ \A i \in 1 .. Len(box) : box[i] > base
  /\ \A i, j \in 1 .. Len(box) : i < j => box[i] < box[j]

\* Where nothing was removed, UIDs are places.
BoxFrom(gone) ==
  /\ gone + Len(box) <= MaxMail
  /\ \A i \in 1 .. Len(box) : box[i] = gone + i
  /\ 1 .. gone \subseteq skipped
  /\ skipped \subseteq 1 .. gone + Len(box)

BoxShape ==
  /\ base \in 0 .. MaxMail
  /\ Gmail \/ ~ May("validity") => base = 0
  /\ Ordered
  /\ ~ Expunges => BoxFrom(base)

\* A history id of Gmail is a place of the box.
Place(c) == c \in Cursor /\ Upto(c) <= Len(box)

\* An IMAP box has had the UIDVALIDITY that is noted, and a cursor has one,
\* unless a crash or another save of the account took it away.
Dated(note) == note \in {NoCursor} \union 1 .. validity

Paired(c, note) ==
  ~ May("torn_write") /\ ~ May("rewrite") /\ c # NoCursor => note # NoCursor

\* A message was taken for a new one as often as a key stands for it: without
\* a renumbering, that is its own key.
Counted ==
  /\ \A m \in Mail : entered[m] = Cardinality({k \in Mail : recorded[k] = m})
  /\ ~ May("validity") =>
       \A k \in Mail : recorded[k] = IF k \in ingested THEN k ELSE 0

StoreTyped ==
  /\ box \in Seq(Mail)
  /\ validity \in 1 .. MaxValidity
  /\ cursor \in Cursor /\ noted \in Note
  /\ ingested \subseteq Mail /\ skipped \subseteq Mail
  /\ answered \in 0 .. MaxMail
  /\ recorded \in [Mail -> Mail \union {0}]
  /\ entered \in [Mail -> Nat]
  /\ scenario \in Scenarios

\* What is durable: the mail that the cursor has passed, and the mail of an
\* answered notification, is seen.
StoreOK ==
  /\ StoreTyped /\ BoxShape /\ Counted
  /\ Gmail => Place(cursor) /\ Place(noted) /\ answered <= Len(box)
  /\ Imap => Dated(noted) /\ Paired(cursor, noted) /\ answered = 0
  /\ Claimed => (Fits(noted) => Covers(Upto(cursor))) /\ Covers(answered)

\* What a poll knows: it started at a place that was covered, and with its
\* batch it covers the place it will write and the notification it answers.
GmailPoll(x) ==
  /\ Place(x.from) /\ Place(x.knew) /\ Place(x.next) /\ Place(x.note)
  /\ x.id <= Len(box)
  /\ x.kind = "watch" => x.id = 0
  /\ x.kind = "push" => x.from # NoCursor
  /\ x.at = "listing" => x.note # NoCursor
  /\ x.at = "asking" /\ x.kind # "recover" => x.note = x.knew

ImapPoll(x) ==
  /\ x.kind = "watch" /\ x.id = 0 /\ x.at # "asking"
  /\ Dated(x.knew) /\ Dated(x.note)
  /\ Paired(x.from, x.knew)
  /\ x.at = "ingesting" => x.note # NoCursor

CoveredPoll(x) ==
  /\ Fits(x.knew) => Covers(Upto(x.from))
  /\ x.at = "ingesting" =>
       /\ Fits(x.note) => CoversWith(Upto(x.next), x.todo)
       /\ CoversWith(x.id, x.todo)

PollOK(x) ==
  /\ Gmail => GmailPoll(x)
  /\ Imap => ImapPoll(x)
  /\ ~ May("stop") => ~ x.aborted
  /\ ~ May("validity") =>
       \A i \in 1 .. Len(x.todo) : x.todo[i].key = x.todo[i].message
  /\ Claimed => CoveredPoll(x)

PollsOK ==
  /\ polls \in [Polls -> Poll \union {Idle}]
  /\ \A p \in Polls : Busy(p) => PollOK(polls[p])

IInv == StoreOK /\ PollsOK
-----------------------------------------------------------------------------
(* The operators *)

\* The numbers from 1 on, counted.
LEMMA CountingNumbers ==
  ASSUME NEW n \in Nat
  PROVE  IsFiniteSet(1 .. n) /\ Cardinality(1 .. n) = n
<1>1. PICK one \in Int : one = 1
  OBVIOUS
<1>2. n \in Int
  OBVIOUS
<1>3. /\ IsFiniteSet(one .. n)
      /\ Cardinality(one .. n) = IF one > n THEN 0 ELSE n - one + 1
  BY <1>2, FS_Interval, Zenon
<1> QED
  BY <1>1, <1>3

\* Every message of the box has a UID.
LEMMA UidsOfBox ==
  ASSUME StoreTyped, BoxShape
  PROVE  /\ Len(box) \in Nat /\ box \in [1 .. Len(box) -> Mail] /\ MaxMail \in Nat
         /\ \A i \in 1 .. Len(box) : Uid(box[i]) \in Mail
         /\ ~ Expunges => /\ \A i \in 1 .. Len(box) : Uid(box[i]) = i
                          /\ Len(box) <= MaxMail
<1>1. /\ Len(box) \in Nat /\ MaxMail \in Nat /\ base \in 0 .. MaxMail
      /\ box \in [1 .. Len(box) -> Mail]
  BY LenProperties, MailIntakeAssumption DEF StoreTyped, BoxShape
<1>2. ASSUME NEW i \in 1 .. Len(box) PROVE Uid(box[i]) \in Mail
  <2>1. box[i] \in Mail /\ box[i] > base
    BY <1>1, <1>2 DEF BoxShape, Ordered
  <2> QED
    BY <1>1, <2>1 DEF Uid, Mail
<1>3. ASSUME ~ Expunges
      PROVE  (\A i \in 1 .. Len(box) : Uid(box[i]) = i) /\ Len(box) <= MaxMail
  BY <1>1, <1>3 DEF BoxShape, BoxFrom, Uid
<1> QED
  BY <1>1, <1>2, <1>3

\* The messages from one place of the box to another are a batch of items.
LEMMA ItemsOfBox ==
  ASSUME StoreTyped, BoxShape, NEW first \in Nat \ {0}, NEW last \in 0 .. Len(box)
  PROVE  /\ Items(first, last) \in Seq(Item)
         /\ Len(Items(first, last)) = IF first <= last THEN last + 1 - first ELSE 0
         /\ \A i \in 1 .. Len(Items(first, last)) :
              /\ Items(first, last)[i].key = Uid(box[first + i - 1])
              /\ Items(first, last)[i].message = box[first + i - 1]
              /\ ~ Expunges => Items(first, last)[i].key = first + i - 1
<1> DEFINE n == IF first <= last THEN last + 1 - first ELSE 0
           items == Items(first, last)
<1>1. /\ n \in Nat /\ Len(box) \in Nat /\ MaxMail \in Nat
      /\ box \in [1 .. Len(box) -> Mail]
      /\ \A i \in 1 .. Len(box) : Uid(box[i]) \in Mail
      /\ ~ Expunges => \A i \in 1 .. Len(box) : Uid(box[i]) = i
  BY UidsOfBox
<1>2. 1 .. last + 1 - first = 1 .. n
  BY <1>1
<1>3. \A i \in 1 .. n : first + i - 1 \in 1 .. Len(box)
  BY <1>1
<1>4. \A i \in 1 .. n : box[first + i - 1] \in Mail /\ Uid(box[first + i - 1]) \in Mail
  BY <1>1, <1>3
<1>5. \A i \in 1 .. n :
        items[i] = [key |-> Uid(box[first + i - 1]), message |-> box[first + i - 1]]
  BY <1>2 DEF Items
<1>6. items \in [1 .. n -> Item]
  BY <1>2, <1>4 DEF Items, Item
<1>7. items \in Seq(Item) /\ Len(items) = n
  BY <1>1, <1>6
<1> HIDE DEF items, n
<1>8. \A i \in 1 .. Len(items) :
        /\ items[i].key = Uid(box[first + i - 1])
        /\ items[i].message = box[first + i - 1]
        /\ ~ Expunges => items[i].key = first + i - 1
  BY <1>1, <1>3, <1>5, <1>7
<1> QED
  BY <1>7, <1>8 DEF items, n

\* What arrived is numbered from 1.
LEMMA NewestIsLast ==
  ASSUME NEW n \in Nat, Arrived(n)
  PROVE  NewestMail = n
BY CountingNumbers DEF NewestMail, Arrived

\* Where nothing is removed, the last message of the box is the newest.
LEMMA NewestOfWhole ==
  ASSUME StoreTyped, NEW gone \in 0 .. MaxMail, BoxFrom(gone)
  PROVE  Arrived(gone + Len(box)) /\ gone + Len(box) \in Nat
<1>1. Len(box) \in Nat /\ DOMAIN box = 1 .. Len(box) /\ MaxMail \in Nat
  BY LenProperties, MailIntakeAssumption DEF StoreTyped
<1>2. \A m \in Range(box) : m \in 1 .. gone + Len(box)
  BY <1>1 DEF Range, BoxFrom
<1>3. ASSUME NEW m \in 1 .. gone + Len(box), m > gone PROVE m \in Range(box)
  <2>1. m - gone \in 1 .. Len(box) /\ box[m - gone] = m
    BY <1>1, <1>3 DEF BoxFrom
  <2> QED
    BY <1>1, <2>1 DEF Range
<1>4. skipped \subseteq 1 .. gone + Len(box) /\ 1 .. gone \subseteq skipped
  BY DEF BoxFrom
<1>5. \A m \in 1 .. gone + Len(box) : m \in Range(box) \union skipped
  BY <1>1, <1>3, <1>4
<1>6. \A m \in Range(box) \union skipped : m \in 1 .. gone + Len(box)
  BY <1>2, <1>4
<1>7. gone + Len(box) \in Nat
  BY <1>1
<1>8. Range(box) \union skipped = 1 .. gone + Len(box)
  BY <1>5, <1>6
<1> QED
  BY <1>7, <1>8 DEF Arrived

\* A backfill takes what the box holds of the newest messages.
LEMMA WindowSize ==
  ASSUME StoreTyped, BoxShape, ~ Expunges
  PROVE  /\ Cardinality(Window) \in 0 .. Len(box)
         /\ Window = Len(box) - Cardinality(Window) + 1 .. Len(box)
<1>1. Len(box) \in Nat /\ Len(box) <= MaxMail /\ MaxMail \in Nat /\ BackfillMax \in Nat \ {0}
  BY LenProperties, MailIntakeAssumption DEF StoreTyped, BoxShape, BoxFrom
<1>2. CASE BackfillMax <= Len(box)
  <2>1. Window = Len(box) - BackfillMax + 1 .. Len(box)
    BY <1>1, <1>2 DEF Window, Mail
  <2>2. Cardinality(Window) = BackfillMax
    BY <1>1, <1>2, <2>1, FS_Interval
  <2> QED
    BY <1>1, <1>2, <2>1, <2>2
<1>3. CASE BackfillMax > Len(box)
  <2>1. Window = 1 .. Len(box)
    BY <1>1, <1>3 DEF Window, Mail
  <2>2. Cardinality(Window) = Len(box)
    BY <1>1, <2>1, CountingNumbers
  <2> QED
    BY <1>1, <2>1, <2>2
<1> QED
  BY <1>1, <1>2, <1>3
-----------------------------------------------------------------------------
(* The initial states *)

\* The invariant holds at first.
LEMMA InitInductive == Init => IInv
<1> SUFFICES ASSUME Init PROVE IInv
  OBVIOUS
<1>1. /\ MaxMail \in Nat /\ MaxValidity \in Nat \ {0} /\ Len(box) = 0
      /\ validity = 1 /\ box \in Seq(Mail) /\ NoCursor \notin Nat
  BY MailIntakeAssumption DEF Init
<1>2. StoreTyped
  BY <1>1 DEF Init, StoreTyped, Mail, Cursor, Note
<1>3. BoxShape
  <2>1. BoxFrom(0) /\ base = 0
    BY <1>1 DEF Init, BoxFrom
  <2>2. 0 \in base .. MaxMail /\ Range(box) = {} /\ skipped = {} /\ 1 .. 0 = {}
    BY <1>1 DEF Init, Range
  <2>3. Ordered
    BY <1>1, <2>2 DEF Ordered, Arrived
  <2> QED
    BY <1>1, <2>1, <2>3 DEF BoxShape
<1>4. Counted
  <2>1. \A m \in Mail : {k \in Mail : recorded[k] = m} = {}
    BY <1>1 DEF Init, Mail
  <2> QED
    BY <2>1, FS_EmptySet DEF Init, Counted
<1>5. StoreOK
  BY <1>1, <1>2, <1>3, <1>4, SMTT(30)
  DEF Init, StoreOK, Place, Upto, Dated, Paired, Covers, Cursor
<1>6. PollsOK
  BY DEF Init, PollsOK, Busy
<1> QED
  BY <1>5, <1>6 DEF IInv
-----------------------------------------------------------------------------
(* What a step leaves true of a poll, and of the store *)

\* Mail that arrives or is dealt with takes nothing from a poll.
LEMMA PollKeeps ==
  ASSUME StoreTyped, scenario' = scenario, validity' = validity,
         Len(box) <= Len(box'), Len(box') \in Nat,
         \A n \in 1 .. Len(box) : box'[n] = box[n],
         ingested \subseteq ingested', skipped \subseteq skipped'
  PROVE  \A x \in Poll : PollOK(x) => PollOK(x)'
<1> SUFFICES ASSUME NEW x \in Poll, PollOK(x) PROVE PollOK(x)'
  OBVIOUS
<1>1. Len(box) \in Nat /\ MaxMail \in Nat /\ NoCursor \notin Nat
  BY LenProperties, MailIntakeAssumption DEF StoreTyped
<1>2. /\ x.from \in Cursor /\ x.next \in Cursor /\ x.id \in 0 .. MaxMail
  BY DEF Poll
<1>3. \A c \in Cursor : Upto(c) \in 0 .. MaxMail /\ Upto(c)' = Upto(c)
  BY <1>1 DEF Cursor, Upto
<1>4. \A c : Place(c) => Place(c)'
  BY <1>1 DEF Place, Cursor, Upto
<1>5. \A k \in 0 .. MaxMail : Covers(k) => Covers(k)'
  BY <1>1 DEF Covers, Seen
<1>6. \A k \in 0 .. MaxMail : CoversWith(k, x.todo) => CoversWith(k, x.todo)'
  BY <1>1 DEF CoversWith, Seen
<1>7. /\ Gmail' = Gmail /\ Imap' = Imap /\ Claimed' = Claimed
      /\ \A e : May(e)' = May(e)
      /\ \A n : Fits(n)' = Fits(n) /\ Dated(n)' = Dated(n)
      /\ \A c, n : Paired(c, n)' = Paired(c, n)
  BY DEF Gmail, Imap, Claimed, May, Fits, Dated, Paired
<1>8. GmailPoll(x) => GmailPoll(x)'
  BY <1>1, <1>2, <1>4 DEF GmailPoll
<1>9. ImapPoll(x) => ImapPoll(x)'
  BY <1>7 DEF ImapPoll
<1>10. CoveredPoll(x) => CoveredPoll(x)'
  BY <1>2, <1>3, <1>5, <1>6, <1>7 DEF CoveredPoll
<1> QED
  BY <1>7, <1>8, <1>9, <1>10 DEF PollOK

\* A step that leaves the box alone leaves its shape.
LEMMA BoxStays ==
  ASSUME BoxShape, UNCHANGED <<box, base, skipped, scenario>>
  PROVE  BoxShape'
BY DEF BoxShape, Ordered, Arrived, BoxFrom, Expunges, Gmail, Imap, May

\* A step that leaves the store alone leaves it in order.
LEMMA StoreStays ==
  ASSUME StoreOK, UNCHANGED <<boxVars, durable, history, scenario>>
  PROVE  StoreOK' /\ \A x \in Poll : PollOK(x) => PollOK(x)'
<1> USE DEF boxVars, durable, intake, history
<1>1. StoreOK'
  BY BoxStays DEF StoreOK, StoreTyped, Counted, Place, Upto, Dated,
    Paired, Claimed, Fits, Covers, Seen, Gmail, Imap, May
<1>2. Len(box) \in Nat
  BY LenProperties DEF StoreOK, StoreTyped
<1>3. \A x \in Poll : PollOK(x) => PollOK(x)'
  BY <1>2, PollKeeps DEF StoreOK
<1> QED
  BY <1>1, <1>3

\* A step that changes one poll keeps them all in order if it leaves that one
\* in order.
LEMMA OnePoll ==
  ASSUME PollsOK, \A x \in Poll : PollOK(x) => PollOK(x)',
         NEW p \in Polls, NEW x, polls' = [polls EXCEPT ![p] = x],
         x = Idle \/ (x \in Poll /\ PollOK(x)')
  PROVE  PollsOK'
BY DEF PollsOK, Busy

\* A fresh server has nothing in progress.
LEMMA NoPollsOK ==
  ASSUME polls' = NoPolls
  PROVE  PollsOK'
BY DEF PollsOK, NoPolls, Busy

\* So does one that tells the watchers to stop.
LEMMA StopOK ==
  ASSUME PollsOK, May("stop")
  PROVE  /\ Aborted \in [Polls -> Poll \union {Idle}]
         /\ \A p \in Polls : Aborted[p] # Idle => PollOK(Aborted[p])
<1>1. \A x \in Poll : [x EXCEPT !.aborted = TRUE] \in Poll
  BY DEF Poll
<1>2. \A x \in Poll : PollOK(x) => PollOK([x EXCEPT !.aborted = TRUE])
  BY DEF Poll, PollOK, GmailPoll, ImapPoll, CoveredPoll
<1>3. \A p \in Watching : polls[p] \in Poll /\ PollOK(polls[p]) /\ p \in Polls
  BY DEF Watching, PollsOK, Busy
<1> QED
  BY <1>1, <1>2, <1>3 DEF Aborted, PollsOK, Busy
-----------------------------------------------------------------------------
(* Starting a poll *)

\* A poll that starts from a covered cursor is in order.
LEMMA StartedOK ==
  ASSUME StoreOK, NEW kind \in {"watch", "push", "recover"},
         NEW id \in 0 .. MaxMail, NEW known \in Note,
         Gmail => Place(known) /\ id <= Len(box),
         Imap => kind = "watch" /\ Dated(known) /\ Paired(cursor, known),
         kind = "watch" => id = 0,
         kind = "push" => cursor # NoCursor,
         Claimed /\ Fits(known) => Covers(Upto(cursor))
  PROVE  /\ Started(kind, id, known) \in Poll
         /\ PollOK(Started(kind, id, known))
<1> DEFINE x == Started(kind, id, known)
<1>1. scenario.provider \in {"imap", "gmail"}
  BY MailIntakeAssumption DEF StoreOK, StoreTyped
<1>2. x \in Poll
  BY DEF Started, Poll, StoreOK, StoreTyped
<1>3. Gmail => GmailPoll(x)
  BY DEF GmailPoll, Started, StoreOK, Gmail, Imap
<1>4. Imap => ImapPoll(x)
  BY DEF ImapPoll, Started, Imap
<1>5. Claimed => CoveredPoll(x)
  <2>1. x.at # "ingesting" /\ x.from = cursor /\ x.knew = known
    BY DEF Started
  <2> QED
    BY <2>1 DEF CoveredPoll
<1>6. ~ x.aborted /\ Len(x.todo) = 0
  BY DEF Started
<1> QED
  BY <1>2, <1>3, <1>4, <1>5, <1>6 DEF PollOK

\* Starting a watcher keeps the invariant.
LEMMA StartWatchInductive ==
  ASSUME IInv, NEW p \in Polls, StartWatch(p)
  PROVE  IInv'
<1> USE DEF IInv, boxVars, intake, history
<1>1. /\ noted' \in {noted, NoCursor}
      /\ noted' # noted => May("rewrite")
      /\ UNCHANGED <<boxVars, cursor, intake, history, scenario>>
  BY DEF StartWatch
<1>2. Len(box) \in Nat /\ NoCursor \notin Nat /\ MaxValidity \in Nat
  BY LenProperties, MailIntakeAssumption DEF StoreOK, StoreTyped
<1>3. /\ noted' \in Note
      /\ Gmail => Place(noted')
      /\ Imap => Dated(noted') /\ Paired(cursor, noted')
  BY <1>1, <1>2 DEF StoreOK, StoreTyped, Note, Cursor, Place, Upto, Dated, Paired
<1>4. Claimed /\ Fits(noted') => Covers(Upto(cursor))
  BY <1>1, <1>2 DEF StoreOK, StoreTyped, Claimed, Fits, Gmail, Imap
<1>5. StoreOK'
  <2>1. StoreTyped' /\ BoxShape' /\ Counted'
    BY <1>1, <1>3, BoxStays DEF StoreOK, StoreTyped, Counted, Gmail, May
  <2>2. Gmail' => Place(cursor') /\ Place(noted') /\ answered' <= Len(box')
    BY <1>1, <1>3 DEF StoreOK, Place, Gmail
  <2>3. Imap' => Dated(noted') /\ Paired(cursor', noted') /\ answered' = 0
    BY <1>1, <1>3 DEF StoreOK, Dated, Paired, Imap, May
  <2>4. Claimed' => (Fits(noted) => Covers(Upto(cursor)))' /\ Covers(answered)'
    BY <1>1, <1>4 DEF StoreOK, Claimed, Fits, Covers, Seen, Gmail, Imap, May, Upto
  <2> QED
    BY <1>1, <2>1, <2>2, <2>3, <2>4
    DEF StoreOK, Place, Upto, Dated, Paired, Fits, Gmail, Imap, May
<1>6. \A x \in Poll : PollOK(x) => PollOK(x)'
  BY <1>1, <1>2, PollKeeps DEF StoreOK
<1>7. PICK x : x = Started("watch", 0, noted')
  OBVIOUS
<1>8. x \in Poll /\ PollOK(x)'
  BY <1>2, <1>3, <1>4, <1>6, <1>7, StartedOK, MailIntakeAssumption
<1>9. CASE Watching = {}
  <2>1. Aborted = polls
    BY <1>9 DEF Aborted, PollsOK
  <2> QED
    BY <1>5, <1>6, <1>8, <1>7, <2>1, OnePoll DEF StartWatch
<1>10. CASE May("stop")
  <2>1. polls' = [Aborted EXCEPT ![p] = x]
    BY <1>7 DEF StartWatch
  <2> QED
    BY <1>5, <1>6, <1>8, <1>10, <2>1, StopOK DEF PollsOK, Busy
<1> QED
  BY <1>9, <1>10 DEF StartWatch

\* Stopping the watchers keeps the invariant.
LEMMA StopWatchersInductive ==
  ASSUME IInv, StopWatchers
  PROVE  IInv'
<1>1. StoreOK' /\ \A x \in Poll : PollOK(x) => PollOK(x)'
  BY StoreStays DEF IInv, StopWatchers
<1> QED
  BY <1>1, StopOK DEF IInv, StopWatchers, PollsOK, Busy

\* A push notification keeps the invariant.
LEMMA PushInductive ==
  ASSUME IInv, NEW p \in Polls, Push(p)
  PROVE  IInv'
<1>1. StoreOK' /\ \A x \in Poll : PollOK(x) => PollOK(x)'
  BY StoreStays DEF IInv, Push
<1>2. PICK id \in 1 .. Len(box) :
        LET push == Started(IF cursor = NoCursor THEN "recover" ELSE "push", id, noted)
        IN  polls' = [polls EXCEPT ![p] =
              IF UpToDate(id) THEN [push EXCEPT !.at = "ingesting"] ELSE push]
  BY DEF Push
<1>3. PICK push : push = Started(IF cursor = NoCursor THEN "recover" ELSE "push", id, noted)
  OBVIOUS
<1>4. PICK x : x = IF UpToDate(id) THEN [push EXCEPT !.at = "ingesting"] ELSE push
  OBVIOUS
<1>5. /\ Gmail /\ ~ Imap /\ id \in 0 .. MaxMail /\ Len(box) \in Nat
      /\ MaxMail \in Nat /\ NoCursor \notin Nat
  BY LenProperties, MailIntakeAssumption
  DEF Push, Gmail, Imap, IInv, StoreOK, StoreTyped, BoxShape, BoxFrom, Expunges
<1>6. push \in Poll /\ PollOK(push)
  <2>1. /\ StoreOK /\ noted \in Note /\ Place(noted) /\ id <= Len(box)
        /\ Claimed /\ Fits(noted) => Covers(Upto(cursor))
    BY <1>5 DEF IInv, StoreOK, StoreTyped
  <2>2. CASE cursor = NoCursor
    BY <1>3, <1>5, <2>1, <2>2, StartedOK
  <2>3. CASE cursor # NoCursor
    BY <1>3, <1>5, <2>1, <2>3, StartedOK
  <2> QED
    BY <2>2, <2>3
<1>7. CASE UpToDate(id)
  <2>1. x = [push EXCEPT !.at = "ingesting"] /\ push.todo = <<>>
    BY <1>3, <1>4, <1>7 DEF Started
  <2>2. x \in Poll
    BY <1>6, <2>1 DEF Poll
  <2>3. GmailPoll(x) /\ x.todo = <<>> /\ x.aborted = push.aborted
    BY <1>5, <1>6, <2>1 DEF Poll, PollOK, GmailPoll
  <2>4. Claimed => CoveredPoll(x)
    <3>1. /\ x.from = cursor /\ x.next = cursor /\ x.id = id /\ x.knew = noted
          /\ Upto(cursor) = cursor /\ cursor >= id /\ cursor \in Nat
      BY <1>3, <1>5, <1>7, <2>1
      DEF Started, UpToDate, Upto, IInv, StoreOK, StoreTyped, Cursor
    <3>2. Claimed => Covers(cursor) /\ Covers(id)
      BY <1>5, <3>1 DEF IInv, StoreOK, Fits, Covers
    <3> QED
      BY <3>1, <3>2 DEF CoveredPoll, CoversWith, Covers
  <2>5. Len(x.todo) = 0
    BY <2>3
  <2>6. PollOK(x)
    BY <1>5, <1>6, <2>3, <2>4, <2>5 DEF PollOK
  <2> QED
    BY <1>1, <1>2, <1>3, <1>4, <2>2, <2>6, OnePoll DEF IInv
<1>8. CASE ~ UpToDate(id)
  BY <1>1, <1>2, <1>3, <1>4, <1>6, <1>8, OnePoll DEF IInv
<1> QED
  BY <1>7, <1>8

\* A recovery of the mailbox that is called for keeps the invariant.
LEMMA RecoverInductive ==
  ASSUME IInv, NEW p \in Polls, Recover(p)
  PROVE  IInv'
<1>1. StoreOK' /\ \A x \in Poll : PollOK(x) => PollOK(x)'
  BY StoreStays DEF IInv, Recover
<1>2. PICK x : x = Started("recover", 0, noted)
  OBVIOUS
<1>3. Gmail /\ ~ Imap /\ Len(box) \in Nat /\ MaxMail \in Nat
  BY LenProperties, MailIntakeAssumption DEF Recover, Gmail, Imap, IInv, StoreOK, StoreTyped
<1>4. x \in Poll /\ PollOK(x)
  <2>1. /\ StoreOK /\ noted \in Note /\ Place(noted) /\ 0 \in 0 .. MaxMail /\ 0 <= Len(box)
        /\ Claimed /\ Fits(noted) => Covers(Upto(cursor))
    BY <1>3 DEF IInv, StoreOK, StoreTyped
  <2> QED
    BY <1>2, <1>3, <2>1, StartedOK
<1> QED
  BY <1>1, <1>2, <1>4, OnePoll DEF IInv, Recover
-----------------------------------------------------------------------------
(* Listing the mail after the cursor *)

\* What a listing makes of a poll.
LEMMA BatchFields ==
  ASSUME PollsOK, NEW p \in Polls, Busy(p),
         NEW todo \in Seq(Item), NEW next \in Cursor, NEW note \in Note,
         Batch(p, todo, next, note)
  PROVE  \E x \in Poll :
           /\ polls' = [polls EXCEPT ![p] = x]
           /\ x.kind = polls[p].kind /\ x.id = polls[p].id
           /\ x.from = polls[p].from /\ x.knew = polls[p].knew
           /\ x.aborted = polls[p].aborted
           /\ x.at = "ingesting" /\ x.todo = todo /\ x.next = next /\ x.note = note
<1> DEFINE x == [polls[p] EXCEPT !.at = "ingesting", !.todo = todo,
                                 !.next = next, !.note = note]
<1>1. polls[p] \in Poll /\ polls \in [Polls -> Poll \union {Idle}]
  BY DEF PollsOK, Busy
<1>2. x \in Poll
  BY <1>1 DEF Poll
<1>3. polls' = [polls EXCEPT ![p] = x]
  BY DEF Batch
<1>4. /\ x.kind = polls[p].kind /\ x.id = polls[p].id
      /\ x.from = polls[p].from /\ x.knew = polls[p].knew
      /\ x.aborted = polls[p].aborted
      /\ x.at = "ingesting" /\ x.todo = todo /\ x.next = next /\ x.note = note
  BY <1>1 DEF Poll
<1> QED
  BY <1>2, <1>3, <1>4

\* An IMAP fetch keeps the invariant.
LEMMA FetchImapInductive ==
  ASSUME IInv, NEW p \in Polls, FetchImap(p)
  PROVE  IInv'
<1>1. StoreOK' /\ \A x \in Poll : PollOK(x) => PollOK(x)'
  BY StoreStays DEF IInv, FetchImap
<1> DEFINE poll == polls[p]
           start == StartUid(poll)
           first == IF start > Len(box) /\ box # <<>> THEN Len(box) ELSE start
<1>2. PICK n : \E todo, next :
        /\ n \in first - 1 .. Len(box) \/ n = Len(box)
        /\ todo = Items(first, n)
        /\ next = IF todo # <<>> THEN Last(todo).key
                  ELSE IF Renumbered(poll) THEN 0 ELSE poll.from
        /\ Batch(p, todo, next, validity)
  BY DEF FetchImap, Listed
<1>3. PICK todo, next :
        /\ todo = Items(first, n)
        /\ next = IF todo # <<>> THEN Last(todo).key
                  ELSE IF Renumbered(poll) THEN 0 ELSE poll.from
        /\ Batch(p, todo, next, validity)
  BY <1>2
<1>4. /\ Imap /\ ~ Gmail /\ Busy(p) /\ poll \in Poll /\ PollOK(poll)
      /\ validity \in 1 .. MaxValidity /\ validity \in Note
      /\ StoreTyped /\ BoxShape
  BY DEF FetchImap, IsAt, Busy, Imap, Gmail, IInv, PollsOK, StoreOK, StoreTyped, Note
<1>5. /\ Len(box) \in Nat /\ MaxMail \in Nat
      /\ MaxValidity \in Nat /\ NoCursor \notin Nat /\ (Len(box) = 0 <=> box = <<>>)
  BY <1>4, LenProperties, EmptySeq, MailIntakeAssumption DEF StoreTyped
<1>6. /\ poll.from \in Cursor /\ Upto(poll.from) \in Nat
      /\ start \in Nat \ {0} /\ first \in Nat \ {0} /\ first <= start
      /\ first # start => first = Len(box)
  BY <1>4, <1>5 DEF Poll, Cursor, Upto, StartUid
<1>7. n \in 0 .. Len(box)
  BY <1>2, <1>5, <1>6
<1>8. /\ todo \in Seq(Item)
      /\ Len(todo) = IF first <= n THEN n + 1 - first ELSE 0
      /\ \A i \in 1 .. Len(todo) :
           /\ todo[i].key = Uid(box[first + i - 1])
           /\ todo[i].message = box[first + i - 1]
           /\ ~ Expunges => todo[i].key = first + i - 1
  BY <1>3, <1>4, <1>6, <1>7, ItemsOfBox
<1>9. /\ first <= n => next \in Mail /\ (~ Expunges => next = n)
      /\ ~ first <= n => next = IF Renumbered(poll) THEN 0 ELSE poll.from
      /\ next \in Cursor
  <2>1. CASE first <= n
    <3>1. Len(todo) \in 1 .. Len(todo) /\ first + Len(todo) - 1 = n /\ todo # <<>>
      BY <1>5, <1>6, <1>7, <1>8, <2>1
    <3>2. next = todo[Len(todo)].key /\ todo[Len(todo)] \in Item
      BY <1>3, <1>8, <3>1 DEF Last
    <3>3. next \in Mail /\ (~ Expunges => next = n)
      BY <1>8, <3>1, <3>2 DEF Item
    <3> QED
      BY <1>5, <2>1, <3>3 DEF Mail, Cursor
  <2>2. CASE ~ first <= n
    <3>1. todo = <<>>
      BY <1>8, <2>2, EmptySeq
    <3> QED
      BY <1>3, <1>5, <1>6, <2>2, <3>1 DEF Cursor
  <2> QED
    BY <2>1, <2>2
<1>10. PICK x \in Poll :
         /\ polls' = [polls EXCEPT ![p] = x]
         /\ x.kind = poll.kind /\ x.id = poll.id
         /\ x.from = poll.from /\ x.knew = poll.knew
         /\ x.aborted = poll.aborted
         /\ x.at = "ingesting" /\ x.todo = todo /\ x.next = next /\ x.note = validity
  BY <1>3, <1>4, <1>8, <1>9, BatchFields DEF IInv
<1>11. ImapPoll(x)
  BY <1>4, <1>5, <1>10 DEF PollOK, ImapPoll, Dated
<1>12. ~ May("validity") =>
         \A i \in 1 .. Len(x.todo) : x.todo[i].key = x.todo[i].message
  <2>1. \A i \in 1 .. Len(todo) : first + i - 1 \in 1 .. Len(box)
    BY <1>5, <1>6, <1>7, <1>8
  <2>2. ~ May("validity") => \A m \in 1 .. Len(box) : Uid(box[m]) = box[m]
    BY <1>4, <1>5, UidsOfBox DEF BoxShape, Uid, Mail
  <2> QED
    BY <1>8, <1>10, <2>1, <2>2
<1>13. Claimed => CoveredPoll(x)
  <2> SUFFICES ASSUME Claimed PROVE CoveredPoll(x)
    OBVIOUS
  <2>0. ~ Expunges /\ (first <= n => next = n)
    BY <1>4, <1>9 DEF Claimed, Expunges, Imap, Gmail
  <2>1. CoversWith(x.id, x.todo) /\ (Fits(x.knew) => Covers(Upto(x.from)))
    BY <1>4, <1>5, <1>10 DEF PollOK, ImapPoll, CoveredPoll, CoversWith
  <2>2. CASE Renumbered(poll)
    <3>1. start = 1 /\ first = 1
      BY <1>5, <2>2 DEF StartUid
    <3>2. Upto(next) <= n /\ Upto(next) \in Nat /\ (Upto(next) > 0 => first <= n)
      BY <1>5, <1>7, <1>9, <2>0, <2>2, <3>1 DEF Upto
    <3>3. \A m \in 1 .. Upto(next) : m \in 1 .. Len(todo) /\ todo[m].message = box[m]
      BY <1>5, <1>7, <1>8, <3>1, <3>2
    <3>4. CoversWith(Upto(next), todo)
      BY <1>5, <1>7, <3>2, <3>3 DEF CoversWith
    <3> QED
      BY <1>10, <2>1, <3>4 DEF CoveredPoll
  <2>3. CASE ~ Renumbered(poll)
    <3>1. Covers(Upto(poll.from))
      <4>1. CASE Fits(poll.knew)
        BY <1>10, <2>1, <4>1
      <4>2. CASE ~ Fits(poll.knew)
        <5>1. poll.from = NoCursor
          BY <1>4, <2>3, <4>2
          DEF Claimed, Fits, Renumbered, PollOK, ImapPoll, Paired, Gmail, Imap
        <5> QED
          BY <1>5, <5>1 DEF Covers, Upto
      <4> QED
        BY <4>1, <4>2
    <3>2. start = Upto(poll.from) + 1 /\ Upto(poll.from) <= Len(box)
      BY <2>3, <3>1 DEF StartUid, Covers
    <3>3. CASE first <= n
      <4>1. Upto(next) = n
        BY <1>5, <1>7, <1>9, <2>0, <3>3 DEF Upto
      <4>2. ASSUME NEW m \in 1 .. n
            PROVE  \/ box[m] \in Seen
                   \/ \E i \in 1 .. Len(todo) : todo[i].message = box[m]
        <5>1. CASE m < start
          BY <1>6, <3>1, <3>2, <5>1 DEF Covers
        <5>2. CASE m >= start
          <6>1. PICK k, l \in Nat : k = first /\ l = Len(todo) /\ l = n + 1 - k /\ m >= k
            BY <1>5, <1>6, <1>7, <1>8, <3>3, <5>2
          <6> HIDE DEF first
          <6>2. PICK i \in 1 .. l : i = m + 1 - k
            BY <1>5, <1>7, <6>1
          <6>3. todo[i].message = box[k + i - 1] /\ k + i - 1 = m
            BY <1>8, <6>1, <6>2
          <6> QED
            BY <6>1, <6>2, <6>3
        <5> QED
          BY <1>5, <1>6, <1>7, <5>1, <5>2
      <4>3. CoversWith(Upto(next), todo)
        BY <1>5, <1>7, <4>1, <4>2 DEF CoversWith
      <4> QED
        BY <1>10, <2>1, <4>3 DEF CoveredPoll
    <3>4. CASE ~ first <= n
      <4>1. CoversWith(Upto(next), todo)
        BY <1>9, <2>3, <3>1, <3>4 DEF Covers, CoversWith
      <4> QED
        BY <1>10, <2>1, <4>1 DEF CoveredPoll
    <3> QED
      BY <3>3, <3>4
  <2> QED
    BY <2>2, <2>3
<1>14. PollOK(x)
  BY <1>4, <1>10, <1>11, <1>12, <1>13 DEF PollOK
<1> QED
  BY <1>1, <1>10, <1>14, OnePoll DEF IInv

\* Asking Gmail for its history keeps the invariant.
LEMMA AskGmailInductive ==
  ASSUME IInv, NEW p \in Polls, AskGmail(p)
  PROVE  IInv'
<1>1. StoreOK' /\ \A x \in Poll : PollOK(x) => PollOK(x)'
  BY StoreStays DEF IInv, AskGmail
<1> DEFINE poll == polls[p]
<1>2. /\ poll \in Poll /\ PollOK(poll) /\ poll.at = "asking"
      /\ scenario.provider \in {"imap", "gmail"}
      /\ polls \in [Polls -> Poll \union {Idle}]
  BY MailIntakeAssumption
  DEF AskGmail, IsAt, Busy, IInv, PollsOK, StoreOK, StoreTyped
<1>3. Gmail /\ ~ Imap /\ GmailPoll(poll)
  BY <1>2 DEF PollOK, ImapPoll, Gmail, Imap
<1>4. /\ Len(box) \in 0 .. MaxMail /\ NoCursor \notin Nat
      /\ Place(Len(box)) /\ Len(box) \in Note
  <2>1. Len(box) \in 0 .. MaxMail /\ NoCursor \notin Nat
    BY <1>3, LenProperties, MailIntakeAssumption
    DEF IInv, StoreOK, StoreTyped, BoxShape, BoxFrom, Expunges
  <2> QED
    BY <2>1 DEF Place, Upto, Cursor, Note
<1>5. PICK note \in {Len(box), poll.note} :
        /\ polls' = [polls EXCEPT ![p] = [poll EXCEPT !.at = "listing", !.note = note]]
        /\ note # Len(box) => poll.kind # "recover" /\ poll.knew # NoCursor
  <2>1. CASE polls' = [polls EXCEPT ![p].at = "listing", ![p].note = Len(box)]
    BY <1>2, <2>1
  <2>2. CASE /\ polls[p].kind # "recover" /\ polls[p].knew # NoCursor
             /\ polls' = [polls EXCEPT ![p].at = "listing"]
    <3>1. [poll EXCEPT !.at = "listing", !.note = poll.note] = [poll EXCEPT !.at = "listing"]
      BY <1>2 DEF Poll
    <3> QED
      BY <1>2, <2>2, <3>1
  <2> QED
    BY <2>1, <2>2 DEF AskGmail
<1>6. PICK x : x = [poll EXCEPT !.at = "listing", !.note = note]
  OBVIOUS
<1>7. /\ x \in Poll /\ x.at = "listing" /\ x.note = note
      /\ x.kind = poll.kind /\ x.id = poll.id /\ x.from = poll.from
      /\ x.knew = poll.knew /\ x.next = poll.next /\ x.todo = poll.todo
      /\ x.aborted = poll.aborted
  BY <1>2, <1>4, <1>6 DEF Poll
<1>8. GmailPoll(x)
  BY <1>2, <1>3, <1>4, <1>5, <1>7 DEF GmailPoll
<1>9. PollOK(x)
  BY <1>2, <1>3, <1>7, <1>8 DEF PollOK, CoveredPoll
<1> QED
  BY <1>1, <1>5, <1>6, <1>7, <1>9, OnePoll DEF IInv

\* A push whose history is gone and that recovers the mailbox keeps the invariant.
LEMMA RecoverForPushInductive ==
  ASSUME IInv, NEW p \in Polls, RecoverForPush(p)
  PROVE  IInv'
<1>1. StoreOK' /\ \A x \in Poll : PollOK(x) => PollOK(x)'
  BY StoreStays DEF IInv, RecoverForPush
<1> DEFINE poll == polls[p]
<1>2. /\ poll \in Poll /\ PollOK(poll) /\ poll.at = "listing"
      /\ Gmail /\ ~ Imap /\ polls \in [Polls -> Poll \union {Idle}]
  BY DEF RecoverForPush, IsAt, Busy, IInv, PollsOK, Gmail, Imap
<1>3. PICK x : x = [poll EXCEPT !.at = "asking", !.kind = "recover"]
  OBVIOUS
<1>4. /\ x \in Poll /\ x.at = "asking" /\ x.note = poll.note
      /\ x.kind = "recover" /\ x.id = poll.id /\ x.from = poll.from
      /\ x.knew = poll.knew /\ x.next = poll.next /\ x.todo = poll.todo
      /\ x.aborted = poll.aborted
  BY <1>2, <1>3 DEF Poll
<1>5. PollOK(x)
  BY <1>2, <1>4 DEF PollOK, GmailPoll, CoveredPoll
<1>6. polls' = [polls EXCEPT ![p] = x]
  BY <1>2, <1>3 DEF RecoverForPush
<1> QED
  BY <1>1, <1>4, <1>5, <1>6, OnePoll DEF IInv

\* The mail of a Gmail box is numbered from 1.
LEMMA GmailBox ==
  ASSUME StoreOK, Gmail
  PROVE  /\ \A m \in 1 .. Len(box) : box[m] = m
         /\ Len(box) \in 0 .. MaxMail /\ MaxMail \in Nat
         /\ Len(box) <= MaxMail /\ ~ Imap /\ ~ Expunges
         /\ StoreTyped /\ BoxShape /\ NoCursor \notin Nat
BY LenProperties, MailIntakeAssumption
DEF StoreOK, StoreTyped, BoxShape, BoxFrom, Expunges, Gmail, Imap

\* What a first watch or a backfill leaves out is left out of a store in order.
LEMMA SkippedGrows ==
  ASSUME StoreOK, Gmail, NEW leftOut \in SUBSET (1 .. Len(box)),
         skipped' = skipped \union leftOut,
         UNCHANGED <<boxVars, durable, answered, scenario>>
  PROVE  StoreOK' /\ \A x \in Poll : PollOK(x) => PollOK(x)'
<1> USE DEF boxVars, durable, intake
<1>1. Len(box) \in Nat /\ MaxMail \in Nat /\ Len(box) <= MaxMail
  BY GmailBox
<1>2. \A x \in Poll : PollOK(x) => PollOK(x)'
  BY <1>1, PollKeeps DEF StoreOK
<1>3. StoreTyped' /\ Counted' /\ BoxShape'
  <2>1. StoreTyped' /\ Counted'
    BY <1>1 DEF StoreOK, StoreTyped, Counted, Mail, May
  <2>2. ~ Expunges /\ ~ Expunges' /\ base = 0 /\ BoxFrom(base)
    BY DEF StoreOK, BoxShape, Gmail, Imap, Expunges
  <2>3. BoxFrom(base)'
    BY <1>1, <2>2 DEF BoxFrom
  <2>4. leftOut \subseteq Range(box)
    <3>1. \A m \in 1 .. Len(box) : box[m] = m /\ m \in DOMAIN box
      BY GmailBox, LenProperties DEF StoreOK, StoreTyped
    <3> QED
      BY <3>1 DEF Range
  <2>5. \A n : Arrived(n) => Arrived(n)'
    BY <2>4 DEF Arrived
  <2>6. Ordered'
    BY <2>5 DEF StoreOK, BoxShape, Ordered
  <2> QED
    BY <2>1, <2>2, <2>3, <2>6 DEF StoreOK, BoxShape, Gmail, May
<1>4. Claimed' => (Fits(noted) => Covers(Upto(cursor)))' /\ Covers(answered)'
  BY DEF StoreOK, Claimed, Fits, Covers, Seen, Gmail, Imap, May, Upto
<1> QED
  BY <1>2, <1>3, <1>4 DEF StoreOK, Gmail, Imap, Place, Fits, May

\* Listing the history keeps the invariant.
LEMMA FetchHistoryInductive ==
  ASSUME IInv, NEW p \in Polls, FetchHistory(p)
  PROVE  IInv'
<1> DEFINE poll == polls[p]
           start == IF poll.from = NoCursor THEN poll.note ELSE poll.from
           leftOut == IF poll.from = NoCursor THEN 1 .. start ELSE {}
<1>1. /\ Gmail /\ StoreOK /\ PollsOK /\ Busy(p)
      /\ poll \in Poll /\ PollOK(poll) /\ poll.at = "listing"
      /\ poll.kind # "recover"
  BY DEF FetchHistory, IsAt, Busy, IInv, PollsOK
<1>2. /\ \A m \in 1 .. Len(box) : box[m] = m
      /\ Len(box) \in 0 .. MaxMail /\ MaxMail \in Nat
      /\ ~ Imap /\ ~ Expunges /\ StoreTyped /\ BoxShape /\ NoCursor \notin Nat
  BY <1>1, GmailBox
<1>3. GmailPoll(poll) /\ start \in 0 .. Len(box)
  BY <1>1, <1>2 DEF PollOK, GmailPoll, Place, Upto, Cursor
<1>4. /\ skipped' = skipped \union leftOut /\ leftOut \subseteq 1 .. Len(box)
      /\ UNCHANGED <<boxVars, durable, answered, scenario>>
  BY <1>2, <1>3 DEF FetchHistory
<1>5. StoreOK' /\ \A x \in Poll : PollOK(x) => PollOK(x)'
  <2> HIDE DEF leftOut
  <2> QED
    BY <1>1, <1>4, SkippedGrows
<1>6. PICK n \in start .. Len(box) :
        /\ ~ poll.aborted => n = Len(box)
        /\ Batch(p, Items(start + 1, n), start + Len(Items(start + 1, n)), poll.note)
  <2>1. Len(box) \in start .. Len(box)
    BY <1>2, <1>3
  <2> QED
    BY <1>3, <2>1 DEF FetchHistory, Listed
<1>7. PICK todo : todo = Items(start + 1, n)
  OBVIOUS
<1> HIDE DEF start, leftOut
<1>8. /\ todo \in Seq(Item)
      /\ Len(todo) = n - start
      /\ \A i \in 1 .. Len(todo) :
           todo[i].key = start + i /\ todo[i].message = start + i
  <2>1. start + 1 \in Nat \ {0} /\ n \in 0 .. Len(box)
    BY <1>2, <1>3
  <2>2. /\ todo \in Seq(Item)
        /\ Len(todo) = IF start + 1 <= n THEN n + 1 - (start + 1) ELSE 0
        /\ \A i \in 1 .. Len(todo) :
             todo[i].key = start + 1 + i - 1 /\ todo[i].message = box[start + 1 + i - 1]
    BY <1>2, <1>7, <2>1, ItemsOfBox
  <2>3. Len(todo) = n - start
    BY <1>2, <1>3, <2>2
  <2>4. \A i \in 1 .. Len(todo) : start + 1 + i - 1 = start + i /\ start + i \in 1 .. Len(box)
    BY <1>2, <1>3, <2>3
  <2> QED
    BY <1>2, <2>2, <2>3, <2>4
<1>9. n = start + Len(todo) /\ n \in Cursor /\ poll.note \in Note
  BY <1>1, <1>2, <1>3, <1>8 DEF Cursor, Poll
<1>10. PICK x \in Poll :
         /\ polls' = [polls EXCEPT ![p] = x]
         /\ x.kind = poll.kind /\ x.id = poll.id
         /\ x.from = poll.from /\ x.knew = poll.knew
         /\ x.aborted = poll.aborted
         /\ x.at = "ingesting" /\ x.todo = todo /\ x.next = n /\ x.note = poll.note
  BY <1>1, <1>6, <1>7, <1>8, <1>9, BatchFields
<1>11. GmailPoll(x)
  BY <1>2, <1>3, <1>9, <1>10 DEF GmailPoll, Place, Upto
<1>12. Claimed => CoveredPoll(x)'
  <2> SUFFICES ASSUME Claimed PROVE CoveredPoll(x)'
    OBVIOUS
  <2>1. ~ poll.aborted /\ n = Len(box) /\ poll.id <= n /\ poll.id \in Nat
    BY <1>1, <1>3, <1>6 DEF PollOK, Claimed, GmailPoll, Poll
  <2>2. Covers(Upto(x.from)) /\ Covers(Upto(x.from))'
    BY <1>1, <1>2, <1>4, <1>10
    DEF PollOK, CoveredPoll, Fits, Covers, Seen, boxVars, durable, intake, Upto
  <2>3. \A m \in 1 .. n :
          box[m] \in Seen' \/ \E i \in 1 .. Len(todo) : todo[i].message = box[m]
    <3>1. ASSUME NEW m \in 1 .. n, m <= start PROVE box[m] \in Seen'
      <4>1. CASE poll.from = NoCursor
        BY <1>2, <1>3, <1>4, <3>1, <4>1 DEF Seen, leftOut
      <4>2. CASE poll.from # NoCursor
        BY <1>2, <1>3, <1>4, <1>10, <2>2, <3>1, <4>2
        DEF Covers, Seen, Upto, durable, intake, boxVars, start
      <4> QED
        BY <4>1, <4>2
    <3>2. ASSUME NEW m \in 1 .. n, m > start
          PROVE  m - start \in 1 .. Len(todo) /\ todo[m - start].message = box[m]
      <4>1. /\ m - start \in 1 .. Len(todo) /\ start + (m - start) = m
            /\ m \in 1 .. Len(box)
        BY <1>2, <1>3, <1>8, <3>2
      <4> QED
        BY <1>2, <1>8, <4>1
    <3> QED
      BY <1>2, <1>3, <3>1, <3>2
  <2>4. CoversWith(n, x.todo)' /\ CoversWith(x.id, x.todo)'
    BY <1>2, <1>4, <1>10, <2>1, <2>3 DEF CoversWith, boxVars
  <2>5. Upto(x.next)' = n
    BY <1>2, <1>3, <1>10 DEF Upto
  <2> QED
    BY <1>10, <2>2, <2>4, <2>5 DEF CoveredPoll
<1>13. PollOK(x)'
  <2>1. /\ Gmail' /\ ~ Imap' /\ Claimed' = Claimed /\ GmailPoll(x)'
        /\ May("stop")' = May("stop") /\ May("validity")' = May("validity")
    BY <1>1, <1>2, <1>4, <1>11
    DEF Gmail, Imap, Claimed, May, GmailPoll, Place, boxVars, Upto
  <2> QED
    BY <1>1, <1>8, <1>10, <1>12, <2>1 DEF PollOK
<1> QED
  BY <1>1, <1>5, <1>10, <1>13, OnePoll DEF IInv

\* A watcher's backfill of the newest messages keeps the invariant.
LEMMA BackfillInductive ==
  ASSUME IInv, NEW p \in Polls, Backfill(p)
  PROVE  IInv'
<1> DEFINE poll == polls[p]
           first == Len(box) - Cardinality(Window) + 1
           leftOut == 1 .. Upto(poll.note) \ Window
<1>1. /\ Gmail /\ StoreOK /\ PollsOK /\ Busy(p)
      /\ poll \in Poll /\ PollOK(poll) /\ poll.at = "listing" /\ poll.kind = "watch"
  BY DEF Backfill, IsAt, Busy, IInv, PollsOK
<1>2. /\ \A m \in 1 .. Len(box) : box[m] = m
      /\ Len(box) \in 0 .. MaxMail /\ MaxMail \in Nat
      /\ ~ Imap /\ ~ Expunges /\ StoreTyped /\ BoxShape /\ NoCursor \notin Nat
  BY <1>1, GmailBox
<1>3. /\ GmailPoll(poll) /\ poll.note \in Nat /\ poll.note <= Len(box) /\ poll.id = 0
      /\ Upto(poll.note) = poll.note
  BY <1>1, <1>2 DEF PollOK, GmailPoll, Place, Upto, Cursor
<1>4. /\ first \in 1 .. Len(box) + 1 /\ Window = first .. Len(box)
  BY <1>2, WindowSize
<1>5. /\ skipped' = skipped \union leftOut /\ leftOut \subseteq 1 .. Len(box)
      /\ UNCHANGED <<boxVars, durable, answered, scenario>>
  BY <1>2, <1>3 DEF Backfill
<1>6. StoreOK' /\ \A x \in Poll : PollOK(x) => PollOK(x)'
  <2> HIDE DEF leftOut
  <2> QED
    BY <1>1, <1>5, SkippedGrows
<1>7. PICK n \in first - 1 .. Len(box) :
        /\ ~ poll.aborted => n = Len(box)
        /\ Batch(p, Items(first, n), poll.note, poll.note)
  <2>1. Len(box) \in first - 1 .. Len(box)
    BY <1>2, <1>4
  <2> QED
    BY <2>1 DEF Backfill, Listed
<1>8. PICK todo : todo = Items(first, n)
  OBVIOUS
<1> HIDE DEF first, leftOut
<1>9. /\ todo \in Seq(Item)
      /\ Len(todo) = n + 1 - first
      /\ \A i \in 1 .. Len(todo) :
           /\ first + i - 1 \in 1 .. Len(box)
           /\ todo[i].key = first + i - 1 /\ todo[i].message = first + i - 1
  <2>1. first \in Nat \ {0} /\ n \in 0 .. Len(box)
    BY <1>2, <1>4
  <2>2. /\ todo \in Seq(Item)
        /\ Len(todo) = IF first <= n THEN n + 1 - first ELSE 0
        /\ \A i \in 1 .. Len(todo) :
             todo[i].key = first + i - 1 /\ todo[i].message = box[first + i - 1]
    BY <1>2, <1>8, <2>1, ItemsOfBox
  <2>3. Len(todo) = n + 1 - first
    BY <1>2, <1>4, <2>2
  <2>4. \A i \in 1 .. Len(todo) : first + i - 1 \in 1 .. Len(box)
    BY <1>2, <1>4, <2>3
  <2> QED
    BY <1>2, <2>2, <2>3, <2>4
<1>10. poll.note \in Cursor /\ poll.note \in Note
  BY <1>1, <1>2, <1>3 DEF Cursor, Note
<1>11. PICK x \in Poll :
         /\ polls' = [polls EXCEPT ![p] = x]
         /\ x.kind = poll.kind /\ x.id = poll.id
         /\ x.from = poll.from /\ x.knew = poll.knew
         /\ x.aborted = poll.aborted
         /\ x.at = "ingesting" /\ x.todo = todo
         /\ x.next = poll.note /\ x.note = poll.note
  <2>1. Batch(p, todo, poll.note, poll.note)
    BY <1>7, <1>8
  <2> QED
    BY <1>1, <1>9, <1>10, <2>1, BatchFields
<1>12. GmailPoll(x)
  BY <1>3, <1>11 DEF GmailPoll, Place, Upto
<1>13. Claimed => CoveredPoll(x)'
  <2> SUFFICES ASSUME Claimed PROVE CoveredPoll(x)'
    OBVIOUS
  <2>1. ~ poll.aborted /\ n = Len(box)
    BY <1>1, <1>7 DEF PollOK, Claimed
  <2>2. Covers(Upto(x.from))'
    BY <1>1, <1>2, <1>5, <1>11
    DEF PollOK, CoveredPoll, Fits, Covers, Seen, boxVars, durable, intake, Upto
  <2>3. \A m \in 1 .. poll.note :
          box[m] \in Seen' \/ \E i \in 1 .. Len(todo) : todo[i].message = box[m]
    <3>1. ASSUME NEW m \in 1 .. poll.note, m < first PROVE box[m] \in Seen'
      BY <1>2, <1>3, <1>4, <1>5, <3>1 DEF Seen, leftOut
    <3>2. ASSUME NEW m \in 1 .. poll.note, m >= first
          PROVE  /\ m + 1 - first \in 1 .. Len(todo)
                 /\ todo[m + 1 - first].message = box[m]
      <4>1. /\ m + 1 - first \in 1 .. Len(todo) /\ first + (m + 1 - first) - 1 = m
            /\ m \in 1 .. Len(box)
        BY <1>2, <1>3, <1>4, <1>9, <2>1, <3>2
      <4> QED
        BY <1>2, <1>9, <4>1
    <3> QED
      BY <1>2, <1>3, <1>4, <3>1, <3>2
  <2>5. /\ x.next <= Len(box') /\ x.id = 0
        /\ \A m \in 1 .. x.next :
             box'[m] \in Seen' \/ \E i \in 1 .. Len(x.todo) : x.todo[i].message = box'[m]
    BY <1>3, <1>5, <1>11, <2>3 DEF boxVars
  <2>6. CoversWith(x.next, x.todo)' /\ CoversWith(x.id, x.todo)'
    BY <1>2, <1>5, <2>5 DEF CoversWith, boxVars
  <2>7. Upto(x.next)' = x.next
    BY <1>2, <1>3, <1>11 DEF Upto
  <2> QED
    BY <1>11, <2>2, <2>6, <2>7 DEF CoveredPoll
<1>14. PollOK(x)'
  <2>1. /\ Gmail' /\ ~ Imap' /\ Claimed' = Claimed /\ GmailPoll(x)'
        /\ May("stop")' = May("stop") /\ May("validity")' = May("validity")
    BY <1>1, <1>2, <1>5, <1>12
    DEF Gmail, Imap, Claimed, May, GmailPoll, Place, boxVars, Upto
  <2> QED
    BY <1>1, <1>9, <1>11, <1>13, <2>1 DEF PollOK
<1> QED
  BY <1>1, <1>6, <1>11, <1>14, OnePoll DEF IInv

\* Fetching the whole mailbox keeps the invariant.
LEMMA FetchAllInductive ==
  ASSUME IInv, NEW p \in Polls, FetchAll(p)
  PROVE  IInv'
<1>1. StoreOK' /\ \A x \in Poll : PollOK(x) => PollOK(x)'
  BY StoreStays DEF IInv, FetchAll
<1> DEFINE poll == polls[p]
<1>2. /\ StoreOK /\ PollsOK /\ Busy(p)
      /\ poll \in Poll /\ PollOK(poll) /\ poll.at = "listing" /\ poll.kind = "recover"
      /\ scenario.provider \in {"imap", "gmail"}
  BY MailIntakeAssumption DEF FetchAll, IsAt, Busy, IInv, PollsOK, StoreOK, StoreTyped
<1>3. Gmail /\ GmailPoll(poll)
  BY <1>2 DEF PollOK, ImapPoll, Gmail, Imap
<1>4. /\ \A m \in 1 .. Len(box) : box[m] = m
      /\ Len(box) \in 0 .. MaxMail /\ MaxMail \in Nat
      /\ ~ Imap /\ ~ Expunges /\ StoreTyped /\ BoxShape /\ NoCursor \notin Nat
  BY <1>2, <1>3, GmailBox
<1>5. PICK todo : todo = Items(1, Len(box))
  OBVIOUS
<1>6. /\ todo \in Seq(Item) /\ Len(todo) = Len(box)
      /\ \A i \in 1 .. Len(todo) : todo[i].key = i /\ todo[i].message = box[i]
  <2>1. /\ todo \in Seq(Item)
        /\ Len(todo) = IF 1 <= Len(box) THEN Len(box) + 1 - 1 ELSE 0
        /\ \A i \in 1 .. Len(todo) :
             todo[i].key = 1 + i - 1 /\ todo[i].message = box[1 + i - 1]
    <3>1. PICK one \in Nat \ {0} : one = 1
      OBVIOUS
    <3>2. Len(box) \in 0 .. Len(box)
      BY <1>4
    <3> QED
      BY <1>4, <1>5, <3>1, <3>2, ItemsOfBox
  <2>2. Len(todo) = Len(box) /\ \A i \in 1 .. Len(todo) : 1 + i - 1 = i
    BY <1>4, <2>1
  <2> QED
    BY <2>1, <2>2
<1>7. poll.note \in Cursor /\ poll.note \in Note
  BY <1>2, <1>3 DEF GmailPoll, Place, Note
<1>8. PICK x \in Poll :
        /\ polls' = [polls EXCEPT ![p] = x]
        /\ x.kind = poll.kind /\ x.id = poll.id
        /\ x.from = poll.from /\ x.knew = poll.knew
        /\ x.aborted = poll.aborted
        /\ x.at = "ingesting" /\ x.todo = todo
        /\ x.next = poll.note /\ x.note = poll.note
  BY <1>2, <1>5, <1>6, <1>7, BatchFields DEF FetchAll
<1>9. GmailPoll(x)
  BY <1>3, <1>8 DEF GmailPoll
<1>10. Claimed => CoveredPoll(x)
  <2>1. Upto(x.next) <= Len(box) /\ Upto(x.next) \in Nat /\ x.id <= Len(box) /\ x.id \in Nat
    BY <1>4, <1>8, <1>9 DEF GmailPoll, Place, Upto, Cursor, Poll
  <2>2. CoversWith(Upto(x.next), x.todo) /\ CoversWith(x.id, x.todo)
    BY <1>4, <1>6, <1>8, <2>1 DEF CoversWith
  <2> QED
    BY <1>2, <1>8, <2>2 DEF PollOK, CoveredPoll
<1>11. PollOK(x)
  BY <1>2, <1>4, <1>6, <1>8, <1>9, <1>10 DEF PollOK
<1> QED
  BY <1>1, <1>8, <1>11, OnePoll DEF IInv
-----------------------------------------------------------------------------
(* Ingesting a batch, and persisting where it ends *)

\* A message taken for a new one is counted under its key.
LEMMA IngestCounts ==
  ASSUME StoreTyped, Counted, NEW item \in Item,
         ~ May("validity") => item.key = item.message,
         ingested' = ingested \union {item.message},
         IF Duplicate(item) THEN UNCHANGED <<recorded, entered>>
         ELSE /\ recorded' = [recorded EXCEPT ![item.key] = item.message]
              /\ entered' = [entered EXCEPT ![item.message] = @ + 1],
         scenario' = scenario
  PROVE  /\ Counted'
         /\ recorded' \in [Mail -> Mail \union {0}]
         /\ entered' \in [Mail -> Nat]
<1> DEFINE of(m) == {k \in Mail : recorded[k] = m}
           then(m) == {k \in Mail : recorded'[k] = m}
<1>1. /\ item.key \in Mail /\ item.message \in Mail /\ 0 \notin Mail
      /\ MaxMail \in Nat /\ recorded \in [Mail -> Mail \union {0}]
      /\ entered \in [Mail -> Nat]
  BY MailIntakeAssumption DEF Item, Mail, StoreTyped
<1>2. /\ recorded' \in [Mail -> Mail \union {0}]
      /\ entered' \in [Mail -> Nat]
  BY <1>1
<1>3. ~ May("validity")' =>
        \A k \in Mail : recorded'[k] = IF k \in ingested' THEN k ELSE 0
  BY <1>1 DEF Counted, Duplicate, May
<1>4. \A m \in Mail : entered'[m] = Cardinality(then(m))
  <2>1. CASE Duplicate(item)
    BY <2>1 DEF Counted
  <2>2. CASE ~ Duplicate(item)
    <3>1. ASSUME NEW m \in Mail, m # item.message
          PROVE  then(m) = of(m) /\ entered'[m] = entered[m]
      BY <1>1, <2>2, <3>1 DEF Duplicate
    <3>2. /\ then(item.message) = of(item.message) \union {item.key}
          /\ item.key \notin of(item.message)
          /\ entered'[item.message] = entered[item.message] + 1
      BY <1>1, <2>2 DEF Duplicate
    <3>3. IsFiniteSet(of(item.message))
      <4>1. IsFiniteSet(Mail)
        BY <1>1, CountingNumbers DEF Mail
      <4> QED
        BY <4>1, FS_Subset
    <3>4. Cardinality(then(item.message)) = Cardinality(of(item.message)) + 1
      BY <3>2, <3>3, FS_AddElement
    <3>5. \A m \in Mail : entered[m] = Cardinality(of(m))
      BY DEF Counted
    <3> HIDE DEF of, then
    <3> QED
      BY <1>1, <3>1, <3>2, <3>4, <3>5
  <2> QED
    BY <2>1, <2>2
<1> QED
  BY <1>2, <1>3, <1>4 DEF Counted

\* Ingesting the next message keeps the invariant.
LEMMA IngestInductive ==
  ASSUME IInv, NEW p \in Polls, Ingest(p)
  PROVE  IInv'
<1> USE DEF boxVars, history
<1>0. PICK poll : poll = polls[p]
  OBVIOUS
<1>1. /\ StoreOK /\ PollsOK /\ StoreTyped
      /\ poll \in Poll /\ PollOK(poll) /\ poll.at = "ingesting"
      /\ poll.todo \in Seq(Item) /\ poll.todo # <<>>
      /\ polls \in [Polls -> Poll \union {Idle}]
  BY <1>0 DEF Ingest, IsAt, Busy, IInv, PollsOK, StoreOK, Poll
<1>2. PICK item : item = Head(poll.todo)
  OBVIOUS
<1>3. PICK rest : rest = Tail(poll.todo)
  OBVIOUS
<1>4. /\ item \in Item /\ item = poll.todo[1] /\ rest \in Seq(Item)
      /\ Len(rest) \in Nat /\ Len(poll.todo) = Len(rest) + 1
      /\ \A i \in 1 .. Len(rest) : rest[i] = poll.todo[i + 1]
  <2>1. /\ item \in Item /\ rest \in Seq(Item) /\ Len(rest) = Len(poll.todo) - 1
        /\ \A i \in 1 .. Len(rest) : rest[i] = poll.todo[i + 1]
    BY <1>1, <1>2, <1>3, HeadTailProperties
  <2>2. Len(rest) \in Nat /\ Len(poll.todo) \in Nat
    BY <1>1, <2>1, LenProperties
  <2> QED
    BY <1>1, <1>2, <2>1, <2>2
<1>5. /\ ingested' = ingested \union {item.message}
      /\ IF Duplicate(item) THEN UNCHANGED <<recorded, entered>>
         ELSE /\ recorded' = [recorded EXCEPT ![item.key] = item.message]
              /\ entered' = [entered EXCEPT ![item.message] = @ + 1]
      /\ UNCHANGED <<boxVars, cursor, noted, history, scenario>>
  BY <1>0, <1>2 DEF Ingest
<1>6. ~ May("validity") => item.key = item.message
  BY <1>1, <1>4 DEF PollOK
<1>7. /\ Counted' /\ recorded' \in [Mail -> Mail \union {0}]
      /\ entered' \in [Mail -> Nat]
  BY <1>1, <1>4, <1>5, <1>6, IngestCounts DEF StoreOK
<1>8. StoreOK'
  <2>1. StoreTyped'
    BY <1>1, <1>4, <1>5, <1>7 DEF StoreTyped, Item
  <2>2. BoxShape'
    BY <1>1, <1>5, BoxStays DEF StoreOK
  <2>3. Claimed' => (Fits(noted) => Covers(Upto(cursor)))' /\ Covers(answered)'
    <3>1. /\ UNCHANGED <<boxVars, cursor, noted, history, scenario>>
          /\ Seen \subseteq Seen'
      BY <1>5 DEF Seen
    <3> QED
      BY <1>1, <3>1 DEF StoreOK, Claimed, Fits, Covers, Gmail, Imap, May, Upto
  <2>4. /\ Gmail' => (Place(cursor) /\ Place(noted) /\ answered <= Len(box))'
        /\ Imap' => (Dated(noted) /\ Paired(cursor, noted) /\ answered = 0)'
    BY <1>1, <1>5 DEF StoreOK, Gmail, Imap, Place, Upto, Dated, Paired, May
  <2> QED
    BY <1>7, <2>1, <2>2, <2>3, <2>4, <1>5 DEF StoreOK, Fits, May, Imap
<1>9. Len(box) \in Nat
  BY <1>1, LenProperties DEF StoreTyped
<1>10. \A x \in Poll : PollOK(x) => PollOK(x)'
  BY <1>1, <1>5, <1>9, PollKeeps
<1>11. PICK x : x = [poll EXCEPT !.todo = rest]
  OBVIOUS
<1>12. /\ x \in Poll /\ x.todo = rest /\ x.at = "ingesting"
       /\ x.kind = poll.kind /\ x.id = poll.id /\ x.from = poll.from
       /\ x.knew = poll.knew /\ x.next = poll.next /\ x.note = poll.note
       /\ x.aborted = poll.aborted
  BY <1>1, <1>4, <1>11 DEF Poll
<1>13. PollOK(poll)'
  BY <1>1, <1>10
<1>14. \A k \in Nat : CoversWith(k, poll.todo) => CoversWith(k, rest)'
  <2> SUFFICES ASSUME NEW k \in Nat, CoversWith(k, poll.todo) PROVE CoversWith(k, rest)'
    OBVIOUS
  <2>1. ASSUME NEW m \in 1 .. k
        PROVE  box[m] \in Seen' \/ \E i \in 1 .. Len(rest) : rest[i].message = box[m]
    <3>1. CASE box[m] \in Seen
      BY <1>5, <3>1 DEF Seen
    <3>2. CASE \E i \in 1 .. Len(poll.todo) : poll.todo[i].message = box[m]
      <4>1. PICK i \in 1 .. Len(poll.todo) : poll.todo[i].message = box[m]
        BY <3>2
      <4>2. CASE i = 1
        BY <1>4, <1>5, <1>13, <4>1, <4>2 DEF Seen
      <4>3. CASE i > 1
        <5>1. i - 1 \in 1 .. Len(rest) /\ (i - 1) + 1 = i
          BY <1>4, <1>13, <4>1, <4>3
        <5>2. rest[i - 1].message = box[m]
          BY <1>4, <1>13, <4>1, <5>1
        <5> QED
          BY <5>1, <5>2
      <4> QED
        BY <1>4, <1>13, <4>1, <4>2, <4>3
    <3> QED
      BY <3>1, <3>2 DEF CoversWith
  <2> QED
    BY <1>5, <2>1 DEF CoversWith
<1>15. PollOK(x)'
  <2>1. /\ Gmail' => GmailPoll(x)'
        /\ Imap' => ImapPoll(x)'
        /\ ~ May("stop")' => ~ x.aborted
    BY <1>1, <1>12, <1>13 DEF PollOK, GmailPoll, ImapPoll
  <2>2. ~ May("validity")' => \A i \in 1 .. Len(x.todo) : x.todo[i].key = x.todo[i].message
    <3>1. ~ May("validity")' =>
            \A i \in 1 .. Len(poll.todo) : poll.todo[i].key = poll.todo[i].message
      BY <1>13 DEF PollOK
    <3>2. \A i \in 1 .. Len(rest) : i + 1 \in 1 .. Len(poll.todo) /\ rest[i] = poll.todo[i + 1]
      <4>1. Len(rest) \in Nat /\ Len(poll.todo) = Len(rest) + 1
        BY <1>4
      <4>2. \A i \in 1 .. Len(rest) : i + 1 \in 1 .. Len(poll.todo)
        BY <4>1
      <4> QED
        BY <1>4, <4>2
    <3> QED
      BY <1>12, <3>1, <3>2
  <2>3. Claimed' => CoveredPoll(x)'
    <3>1. /\ Upto(x.next) \in Nat /\ x.id \in Nat /\ Upto(x.next)' = Upto(x.next)
          /\ Claimed' = Claimed /\ \A n : Fits(n)' = Fits(n)
      BY <1>5, <1>12, MailIntakeAssumption
      DEF Poll, Upto, Cursor, Claimed, Fits, Gmail, Imap, May
    <3>2. Claimed => CoveredPoll(poll) /\ CoveredPoll(poll)'
      BY <1>1, <1>13, <3>1 DEF PollOK
    <3> QED
      BY <1>1, <1>12, <1>14, <3>1, <3>2 DEF CoveredPoll
  <2> QED
    BY <2>1, <2>2, <2>3 DEF PollOK
<1>16. polls' = [polls EXCEPT ![p] = x]
  BY <1>0, <1>1, <1>3, <1>11 DEF Ingest
<1> QED
  BY <1>0, <1>1, <1>8, <1>10, <1>12, <1>15, <1>16, OnePoll DEF IInv

\* Passing over a message keeps the invariant.
LEMMA PassOverInductive ==
  ASSUME IInv, NEW p \in Polls, PassOver(p)
  PROVE  IInv'
<1>1. StoreOK' /\ \A x \in Poll : PollOK(x) => PollOK(x)'
  BY StoreStays DEF IInv, PassOver
<1>2. PICK poll : poll = polls[p]
  OBVIOUS
<1>3. /\ poll \in Poll /\ PollOK(poll) /\ poll.aborted /\ Gmail /\ ~ Imap
      /\ poll.todo \in Seq(Item) /\ poll.todo # <<>>
      /\ polls \in [Polls -> Poll \union {Idle}]
  BY <1>2 DEF PassOver, IsAt, Busy, IInv, PollsOK, Poll, Gmail, Imap
<1>4. PICK rest : rest = Tail(poll.todo)
  OBVIOUS
<1>5. /\ rest \in Seq(Item)
      /\ \A i \in 1 .. Len(rest) : rest[i] = poll.todo[i + 1] /\ i + 1 \in 1 .. Len(poll.todo)
  <2>1. /\ rest \in Seq(Item) /\ Len(rest) = Len(poll.todo) - 1
        /\ \A i \in 1 .. Len(rest) : rest[i] = poll.todo[i + 1]
    BY <1>3, <1>4, HeadTailProperties
  <2>2. Len(poll.todo) \in Nat /\ Len(rest) \in Nat
    BY <1>3, <2>1, LenProperties
  <2>3. \A i \in 1 .. Len(rest) : i + 1 \in 1 .. Len(poll.todo)
    BY <2>1, <2>2
  <2> QED
    BY <2>1, <2>3
<1>6. PICK x : x = [poll EXCEPT !.todo = rest]
  OBVIOUS
<1>7. /\ x \in Poll /\ x.todo = rest /\ x.at = poll.at
      /\ x.kind = poll.kind /\ x.id = poll.id /\ x.from = poll.from
      /\ x.knew = poll.knew /\ x.next = poll.next /\ x.note = poll.note
      /\ x.aborted = poll.aborted
  BY <1>3, <1>5, <1>6 DEF Poll
<1>8. ~ Claimed
  BY <1>3 DEF Claimed, PollOK
<1>9. GmailPoll(x)
  BY <1>3, <1>7 DEF GmailPoll, PollOK
<1>10. ~ May("validity") => \A i \in 1 .. Len(x.todo) : x.todo[i].key = x.todo[i].message
  BY <1>3, <1>5, <1>7 DEF PollOK
<1>11. PollOK(x)
  BY <1>3, <1>7, <1>8, <1>9, <1>10 DEF PollOK
<1>12. polls' = [polls EXCEPT ![p] = x]
  BY <1>2, <1>3, <1>4, <1>6 DEF PassOver
<1> QED
  BY <1>1, <1>7, <1>11, <1>12, OnePoll DEF IInv

\* Where a cursor, its note and an answer are written, covered places are
\* written: the store stays in order.
LEMMA CursorMoves ==
  ASSUME StoreOK, cursor' \in Cursor, noted' \in Note, answered' \in 0 .. MaxMail,
         Gmail => Place(cursor') /\ Place(noted') /\ answered' <= Len(box),
         Imap => Dated(noted') /\ Paired(cursor', noted') /\ answered' = 0,
         Claimed => /\ Fits(noted') => Covers(Upto(cursor'))
                    /\ Covers(answered'),
         UNCHANGED <<boxVars, intake, skipped, scenario>>
  PROVE  StoreOK' /\ \A x \in Poll : PollOK(x) => PollOK(x)'
<1> USE DEF boxVars, intake
<1>1. Len(box) \in Nat
  BY LenProperties DEF StoreOK, StoreTyped
<1>2. \A x \in Poll : PollOK(x) => PollOK(x)'
  BY <1>1, PollKeeps DEF StoreOK
<1>3. StoreTyped' /\ BoxShape' /\ Counted'
  BY BoxStays DEF StoreOK, StoreTyped, Counted, Gmail, May
<1>4. /\ Gmail' => (Place(cursor) /\ Place(noted) /\ answered <= Len(box))'
      /\ Imap' => (Dated(noted) /\ Paired(cursor, noted) /\ answered = 0)'
  BY DEF Gmail, Imap, Place, Upto, Dated, Paired, May
<1>5. Claimed' => (Fits(noted) => Covers(Upto(cursor)))' /\ Covers(answered)'
  BY DEF Claimed, Fits, Covers, Seen, Gmail, Imap, May, Upto
<1> QED
  BY <1>2, <1>3, <1>4, <1>5 DEF StoreOK

\* What a poll whose batch is empty has covered.
LEMMA BatchDone ==
  ASSUME IInv, NEW p \in Polls, IsAt(p, "ingesting"), polls[p].todo = <<>>
  PROVE  /\ polls[p] \in Poll /\ polls[p].next \in Cursor
         /\ polls[p].note \in Note /\ polls[p].id \in 0 .. MaxMail
         /\ Gmail => Place(polls[p].next) /\ Place(polls[p].note) /\ polls[p].id <= Len(box)
         /\ Imap => Dated(polls[p].note) /\ polls[p].id = 0 /\ polls[p].note # NoCursor
         /\ Claimed => /\ Fits(polls[p].note) => Covers(Upto(polls[p].next))
                       /\ Covers(polls[p].id)
<1> DEFINE poll == polls[p]
<1>1. poll \in Poll /\ PollOK(poll) /\ poll.at = "ingesting" /\ Len(poll.todo) = 0
  BY DEF IsAt, Busy, IInv, PollsOK
<1>2. /\ poll.next \in Cursor /\ poll.note \in Note /\ poll.id \in 0 .. MaxMail
  BY <1>1 DEF Poll
<1>3. \A k : CoversWith(k, poll.todo) => Covers(k)
  BY <1>1 DEF CoversWith, Covers
<1> QED
  BY <1>1, <1>2, <1>3 DEF PollOK, GmailPoll, ImapPoll, CoveredPoll

\* Writing the cursor keeps the invariant.
LEMMA PersistInductive ==
  ASSUME IInv, NEW p \in Polls, Persist(p)
  PROVE  IInv'
<1> USE DEF IInv
<1> DEFINE poll == polls[p]
<1>1. /\ IsAt(p, "ingesting") /\ poll.todo = <<>>
      /\ UNCHANGED <<boxVars, intake, skipped, scenario>>
      /\ polls' = [polls EXCEPT ![p] = Idle]
      /\ answered' = IF poll.id > answered THEN poll.id ELSE answered
      /\ IF poll.next = NoCursor THEN UNCHANGED <<cursor, noted>>
         ELSE cursor' = poll.next /\ noted' = poll.note
  BY DEF Persist, Ended
<1>2. /\ poll \in Poll /\ poll.next \in Cursor
      /\ poll.note \in Note /\ poll.id \in 0 .. MaxMail
      /\ Gmail => Place(poll.next) /\ Place(poll.note) /\ poll.id <= Len(box)
      /\ Imap => Dated(poll.note) /\ poll.id = 0 /\ poll.note # NoCursor
      /\ Claimed => /\ Fits(poll.note) => Covers(Upto(poll.next))
                    /\ Covers(poll.id)
  BY <1>1, BatchDone
<1>3. cursor' \in Cursor /\ noted' \in Note /\ answered' \in 0 .. MaxMail
  BY <1>1, <1>2 DEF StoreOK, StoreTyped
<1>4. Gmail => Place(cursor') /\ Place(noted') /\ answered' <= Len(box)
  BY <1>1, <1>2 DEF StoreOK
<1>5. Imap => Dated(noted') /\ Paired(cursor', noted') /\ answered' = 0
  BY <1>1, <1>2 DEF StoreOK, Paired
<1>6. Claimed => /\ Fits(noted') => Covers(Upto(cursor'))
                 /\ Covers(answered')
  BY <1>1, <1>2 DEF StoreOK
<1>7. StoreOK' /\ \A x \in Poll : PollOK(x) => PollOK(x)'
  BY <1>1, <1>3, <1>4, <1>5, <1>6, CursorMoves
<1> QED
  BY <1>1, <1>7, OnePoll

\* A death between the cursor and the settings keeps the invariant.
LEMMA PersistTornInductive ==
  ASSUME IInv, NEW p \in Polls, PersistTorn(p)
  PROVE  IInv'
<1> USE DEF IInv
<1> DEFINE poll == polls[p]
<1>1. /\ IsAt(p, "ingesting") /\ poll.todo = <<>> /\ May("torn_write")
      /\ UNCHANGED <<boxVars, intake, skipped, scenario>>
      /\ polls' = NoPolls /\ answered' = answered
      /\ cursor' = poll.next /\ noted' = noted
  BY DEF PersistTorn, history
<1>2. /\ poll \in Poll /\ poll.next \in Cursor
      /\ Gmail => Place(poll.next)
      /\ Claimed => (Fits(poll.note) => Covers(Upto(poll.next)))
  BY <1>1, BatchDone
<1>3. Claimed => \A n : Fits(n)
  BY <1>1 DEF Claimed, Fits, Gmail, Imap
<1>4. StoreOK' /\ \A x \in Poll : PollOK(x) => PollOK(x)'
  <2>1. Gmail => Place(cursor') /\ Place(noted') /\ answered' <= Len(box)
    BY <1>1, <1>2 DEF StoreOK
  <2>2. Imap => Dated(noted') /\ Paired(cursor', noted') /\ answered' = 0
    BY <1>1 DEF StoreOK, Paired
  <2>3. Claimed => /\ Fits(noted') => Covers(Upto(cursor'))
                   /\ Covers(answered')
    BY <1>1, <1>2, <1>3 DEF StoreOK
  <2>4. cursor' \in Cursor /\ noted' \in Note /\ answered' \in 0 .. MaxMail
    BY <1>1, <1>2 DEF StoreOK, StoreTyped
  <2> QED
    BY <1>1, <2>1, <2>2, <2>3, <2>4, CursorMoves
<1> QED
  BY <1>1, <1>4, NoPollsOK

\* A pass that fails keeps the invariant.
LEMMA FailInductive ==
  ASSUME IInv, NEW p \in Polls, Fail(p)
  PROVE  IInv'
<1>1. StoreOK' /\ \A x \in Poll : PollOK(x) => PollOK(x)'
  BY StoreStays DEF IInv, Fail
<1>2. polls' = NoPolls \/ polls' = [polls EXCEPT ![p] = Idle]
  BY DEF Fail, Ended
<1> QED
  BY <1>1, <1>2, NoPollsOK, OnePoll DEF IInv

\* A crash keeps the invariant.
LEMMA CrashInductive ==
  ASSUME IInv, Crash
  PROVE  IInv'
<1>1. StoreOK' /\ \A x \in Poll : PollOK(x) => PollOK(x)'
  BY StoreStays DEF IInv, Crash
<1> QED
  BY <1>1, NoPollsOK DEF IInv, Crash
-----------------------------------------------------------------------------
(* The provider *)

\* New mail keeps the invariant.
LEMMA ArriveInductive ==
  ASSUME IInv, Arrive
  PROVE  IInv'
<1> USE DEF durable, intake, history
<1>1. PICK newest \in base .. MaxMail : Arrived(newest)
  BY DEF IInv, StoreOK, BoxShape, Ordered
<1>2. /\ StoreTyped /\ Len(box) \in Nat /\ MaxMail \in Nat /\ BoxShape
      /\ scenario.maxMail \in 0 .. MaxMail /\ base \in 0 .. MaxMail
      /\ newest \in Nat
  BY LenProperties, MailIntakeAssumption DEF IInv, StoreOK, StoreTyped, BoxShape
<1>3. NewestMail = newest
  BY <1>1, <1>2, NewestIsLast
<1>4. /\ newest + 1 \in Mail /\ newest + 1 <= MaxMail
      /\ box' = Append(box, newest + 1)
      /\ UNCHANGED <<validity, base, durable, polls, history, scenario>>
  BY <1>2, <1>3 DEF Arrive, Mail
<1>5. /\ box' \in Seq(Mail) /\ Len(box') = Len(box) + 1
      /\ \A n \in 1 .. Len(box) : box'[n] = box[n]
      /\ box'[Len(box) + 1] = newest + 1
  BY <1>2, <1>3, <1>4, AppendProperties DEF StoreTyped
<1>6. StoreOK'
  <2>1. StoreTyped' /\ Counted'
    BY <1>2, <1>4, <1>5 DEF IInv, StoreOK, StoreTyped, Counted, May
  <2>2. BoxShape'
    <3>1. /\ DOMAIN box = 1 .. Len(box) /\ DOMAIN box' = 1 .. Len(box) + 1
          /\ \A i \in 1 .. Len(box) : box[i] \in 1 .. newest
      BY <1>1, <1>2, <1>5, LenProperties DEF StoreTyped, Arrived, Range
    <3>2. Arrived(newest + 1)'
      <4>1. Range(box') = Range(box) \union {newest + 1}
        <5>1. \A m \in Range(box) : m \in Range(box')
          BY <1>2, <1>5, <3>1 DEF Range
        <5>2. newest + 1 \in Range(box')
          BY <1>2, <1>5, <3>1 DEF Range
        <5>3. \A m \in Range(box') : m \in Range(box) \/ m = newest + 1
          BY <1>2, <1>5, <3>1 DEF Range
        <5> QED
          BY <5>1, <5>2, <5>3
      <4>2. 1 .. newest + 1 = 1 .. newest \union {newest + 1}
        BY <1>2
      <4> QED
        BY <1>1, <1>4, <4>1, <4>2 DEF Arrived
    <3>3. Ordered'
      <4>1. \A i \in 1 .. Len(box') : box'[i] > base
        BY <1>1, <1>2, <1>5 DEF BoxShape, Ordered
      <4>2. ASSUME NEW i \in 1 .. Len(box'), NEW j \in 1 .. Len(box'), i < j
            PROVE  box'[i] < box'[j]
        <5>1. i \in 1 .. Len(box) /\ box'[i] = box[i] /\ box[i] \in 1 .. newest
          BY <1>2, <1>5, <3>1, <4>2
        <5>2. CASE j \in 1 .. Len(box)
          BY <1>2, <1>5, <4>2, <5>1, <5>2 DEF BoxShape, Ordered
        <5>3. CASE j = Len(box) + 1
          BY <1>2, <1>5, <5>1, <5>3
        <5> QED
          BY <1>2, <1>5, <5>2, <5>3
      <4> QED
        BY <1>1, <1>2, <1>4, <3>2, <4>1, <4>2 DEF Ordered
    <3>4. ~ Expunges => BoxFrom(base)'
      <4> SUFFICES ASSUME ~ Expunges PROVE BoxFrom(base)'
        OBVIOUS
      <4>1. BoxFrom(base) /\ newest = base + Len(box)
        <5>1. BoxFrom(base)
          BY <1>2 DEF BoxShape
        <5>2. Arrived(base + Len(box)) /\ base + Len(box) \in Nat
          BY <1>2, <5>1, NewestOfWhole
        <5> QED
          BY <1>3, <5>1, <5>2, NewestIsLast
      <4>2. \A i \in 1 .. Len(box') : box'[i] = base + i
        <5>1. \A i \in 1 .. Len(box) : box[i] = base + i
          BY <4>1 DEF BoxFrom
        <5>2. box'[Len(box) + 1] = base + (Len(box) + 1)
          BY <1>2, <1>5, <4>1
        <5> QED
          BY <1>2, <1>5, <5>1, <5>2
      <4>3. /\ base + Len(box') <= MaxMail /\ base' = base /\ skipped' = skipped
            /\ \A m \in 1 .. base + Len(box) : m \in 1 .. base + Len(box')
        BY <1>2, <1>4, <1>5, <4>1
      <4> QED
        BY <4>1, <4>2, <4>3 DEF BoxFrom
    <3> QED
      BY <1>2, <1>4, <3>3, <3>4 DEF BoxShape, Expunges, Imap, Gmail, May
  <2>3. /\ Gmail' => (Place(cursor) /\ Place(noted) /\ answered <= Len(box))'
        /\ Imap' => (Dated(noted) /\ Paired(cursor, noted) /\ answered = 0)'
    BY <1>2, <1>4, <1>5, MailIntakeAssumption
    DEF IInv, StoreOK, StoreTyped, Gmail, Imap, Place, Cursor, Upto, Dated, Paired, May
  <2>4. Claimed' => (Fits(noted) => Covers(Upto(cursor)))' /\ Covers(answered)'
    <3>1. \A k \in Nat : Covers(k) => Covers(k)'
      BY <1>2, <1>4, <1>5 DEF Covers, Seen
    <3>2. /\ Upto(cursor) \in Nat /\ answered \in Nat /\ Upto(cursor)' = Upto(cursor)
          /\ answered' = answered /\ Claimed' = Claimed /\ Fits(noted)' = Fits(noted)
      BY <1>2, <1>4, MailIntakeAssumption
      DEF StoreTyped, Cursor, Upto, Claimed, Fits, Gmail, Imap, May
    <3>3. Claimed => (Fits(noted) => Covers(Upto(cursor))') /\ Covers(answered)'
      BY <3>1, <3>2 DEF IInv, StoreOK, Covers, Seen, Upto
    <3> QED
      BY <3>2, <3>3
  <2> QED
    BY <2>1, <2>2, <2>3, <2>4 DEF StoreOK
<1>7. \A x \in Poll : PollOK(x) => PollOK(x)'
  BY <1>2, <1>4, <1>5, PollKeeps
<1> QED
  BY <1>4, <1>6, <1>7 DEF IInv, PollsOK, Busy

\* What is left of a box when one place of it is removed.
LEMMA Without ==
  ASSUME box \in Seq(Mail), NEW k \in 1 .. Len(box), NEW rest, rest = RemoveAt(box, k)
  PROVE  /\ rest \in Seq(Mail) /\ Len(rest) = Len(box) - 1
         /\ \A i \in 1 .. Len(rest) : rest[i] = box[IF i < k THEN i ELSE i + 1]
<1>1. Len(box) \in Nat /\ box \in [1 .. Len(box) -> Mail]
  BY LenProperties
<1>2. PICK one \in Int : one = 1
  OBVIOUS
<1>3. PICK head : head = SubSeq(box, one, k - 1)
  OBVIOUS
<1>4. PICK tail : tail = SubSeq(box, k + 1, Len(box))
  OBVIOUS
<1>5. /\ head \in Seq(Mail) /\ Len(head) = k - 1
      /\ \A i \in 1 .. k - 1 : head[i] = box[i]
  <2>1. k - 1 \in Int /\ \A i \in one .. k - 1 : box[i] \in Mail
    BY <1>1, <1>2
  <2>2. /\ head \in Seq(Mail)
        /\ Len(head) = IF one <= k - 1 THEN k - 1 - one + 1 ELSE 0
        /\ \A i \in 1 .. k - 1 - one + 1 : head[i] = box[one + i - 1]
    BY <1>2, <1>3, <2>1, SubSeqProperties
  <2>3. k - 1 - one + 1 = k - 1 /\ \A i \in 1 .. k - 1 : one + i - 1 = i
    BY <1>1, <1>2
  <2> QED
    BY <1>1, <1>2, <2>2, <2>3
<1>6. /\ tail \in Seq(Mail) /\ Len(tail) = Len(box) - k
      /\ \A i \in 1 .. Len(box) - k : tail[i] = box[k + i]
  <2>1. k + 1 \in Int /\ Len(box) \in Int /\ \A i \in k + 1 .. Len(box) : box[i] \in Mail
    BY <1>1
  <2>2. /\ tail \in Seq(Mail)
        /\ Len(tail) = IF k + 1 <= Len(box) THEN Len(box) - (k + 1) + 1 ELSE 0
        /\ \A i \in 1 .. Len(box) - (k + 1) + 1 : tail[i] = box[k + 1 + i - 1]
    BY <1>4, <2>1, SubSeqProperties
  <2>3. /\ Len(box) - (k + 1) + 1 = Len(box) - k
        /\ \A i \in 1 .. Len(box) - k : k + 1 + i - 1 = k + i
        /\ k + 1 <= Len(box) \/ Len(box) - k = 0
    <3>1. PICK n \in Nat : n = Len(box)
      BY <1>1
    <3>2. k \in 1 .. n
      BY <3>1
    <3> QED
      BY <3>1, <3>2
  <2>4. \A i \in 1 .. Len(box) - k : tail[i] = box[k + i]
    BY <2>2, <2>3
  <2> QED
    BY <1>1, <2>2, <2>3, <2>4
<1>7. rest = head \o tail
  BY <1>2, <1>3, <1>4 DEF RemoveAt
<1>8. /\ rest \in Seq(Mail) /\ Len(rest) = Len(head) + Len(tail)
      /\ \A i \in 1 .. Len(rest) :
           rest[i] = IF i <= Len(head) THEN head[i] ELSE tail[i - Len(head)]
  <2>1. head \in Seq(Mail) /\ tail \in Seq(Mail)
    BY <1>5, <1>6
  <2>2. Len(head \o tail) = Len(head) + Len(tail) /\ head \o tail \in Seq(Mail)
    BY <2>1, ConcatProperties
  <2>3. \A i \in 1 .. Len(head) + Len(tail) :
          (head \o tail)[i] = IF i <= Len(head) THEN head[i] ELSE tail[i - Len(head)]
    BY <2>1, ConcatProperties
  <2> QED
    BY <1>7, <2>2, <2>3
<1>9. ASSUME NEW i \in 1 .. Len(rest) PROVE rest[i] = box[IF i < k THEN i ELSE i + 1]
  <2>1. CASE i < k
    BY <1>1, <1>5, <1>8, <2>1
  <2>2. CASE i >= k
    <3>1. i - Len(head) \in 1 .. Len(box) - k /\ k + (i - Len(head)) = i + 1
      BY <1>1, <1>5, <1>6, <1>8, <2>2
    <3>2. rest[i] = tail[i - Len(head)]
      BY <1>1, <1>5, <1>8, <2>2
    <3> QED
      BY <1>1, <1>6, <2>2, <3>1, <3>2
  <2> QED
    BY <1>1, <1>5, <1>6, <1>8, <2>1, <2>2
<1> QED
  BY <1>1, <1>5, <1>6, <1>8, <1>9

\* Mail that is removed keeps the invariant.
LEMMA ExpungeInductive ==
  ASSUME IInv, Expunge
  PROVE  IInv'
<1> USE DEF durable, intake
<1>1. PICK newest \in base .. MaxMail : Arrived(newest)
  BY DEF IInv, StoreOK, BoxShape, Ordered
<1>2. PICK k \in 1 .. Len(box) :
        box' = RemoveAt(box, k) /\ skipped' = skipped \union {box[k]}
  BY DEF Expunge
<1>3. /\ Imap /\ ~ Gmail /\ May("expunge") /\ Expunges /\ ~ Claimed
      /\ UNCHANGED <<validity, base, durable, polls, answered, scenario>>
  BY DEF Expunge, Imap, Gmail, Expunges, Claimed
<1>4. /\ StoreTyped /\ BoxShape /\ Len(box) \in Nat /\ MaxMail \in Nat
      /\ box \in [1 .. Len(box) -> Mail]
  BY LenProperties, MailIntakeAssumption DEF IInv, StoreOK, StoreTyped
<1>5. /\ box' \in Seq(Mail) /\ Len(box') = Len(box) - 1
      /\ \A i \in 1 .. Len(box') : box'[i] = box[IF i < k THEN i ELSE i + 1]
  BY <1>2, <1>4, Without DEF StoreTyped
<1>6. BoxShape'
  <2>1. \A i \in 1 .. Len(box') : (IF i < k THEN i ELSE i + 1) \in 1 .. Len(box)
    BY <1>4, <1>5
  <2>2. DOMAIN box' = 1 .. Len(box') /\ DOMAIN box = 1 .. Len(box)
    BY <1>4, <1>5, LenProperties
  <2>3. Range(box) = Range(box') \union {box[k]}
    <3>1. ASSUME NEW i \in 1 .. Len(box), i # k PROVE box[i] \in Range(box')
      <4>1. CASE i < k
        <5>1. i \in 1 .. Len(box') /\ box'[i] = box[i]
          BY <1>4, <1>5, <4>1
        <5> QED
          BY <2>2, <5>1 DEF Range
      <4>2. CASE i > k
        <5>1. i - 1 \in 1 .. Len(box') /\ ~ i - 1 < k /\ i - 1 + 1 = i
          BY <1>4, <1>5, <4>2
        <5>2. box'[i - 1] = box[i]
          BY <1>5, <5>1
        <5> QED
          BY <2>2, <5>1, <5>2 DEF Range
      <4> QED
        BY <3>1, <4>1, <4>2
    <3>2. \A m \in Range(box') : m \in Range(box)
      BY <1>5, <2>1, <2>2 DEF Range
    <3> QED
      BY <2>2, <3>1, <3>2 DEF Range
  <2>4. Arrived(newest)'
    BY <1>1, <1>2, <2>3 DEF Arrived
  <2>5. \A i \in 1 .. Len(box') : box'[i] > base
    BY <1>4, <1>5, <2>1 DEF BoxShape, Ordered
  <2>6. \A i, j \in 1 .. Len(box') : i < j => box'[i] < box'[j]
    <3>1. \A i, j \in 1 .. Len(box') :
            i < j => (IF i < k THEN i ELSE i + 1) < (IF j < k THEN j ELSE j + 1)
      BY <1>4, <1>5
    <3> QED
      BY <1>4, <1>5, <2>1, <3>1 DEF BoxShape, Ordered
  <2>7. Ordered'
    BY <1>1, <1>3, <2>4, <2>5, <2>6 DEF Ordered
  <2> QED
    BY <1>3, <1>4, <2>7 DEF BoxShape, Expunges, Imap, Gmail, May
<1>7. StoreOK'
  <2>1. StoreTyped' /\ Counted'
    BY <1>2, <1>3, <1>4, <1>5 DEF IInv, StoreOK, StoreTyped, Counted, May
  <2>2. ~ Gmail' /\ ~ Claimed' /\ (Dated(noted) /\ Paired(cursor, noted) /\ answered = 0)'
    BY <1>3 DEF IInv, StoreOK, Gmail, Imap, Claimed, May, Dated, Paired
  <2> QED
    BY <1>6, <2>1, <2>2 DEF StoreOK
<1>8. ASSUME NEW x \in Poll, PollOK(x) PROVE PollOK(x)'
  BY <1>3, <1>8 DEF PollOK, ImapPoll, Gmail, Imap, Claimed, May, Dated, Paired
<1> QED
  BY <1>3, <1>7, <1>8 DEF IInv, PollsOK, Busy

\* A mailbox that is renumbered keeps the invariant.
LEMMA RenumberInductive ==
  ASSUME IInv, Renumber
  PROVE  IInv'
<1> USE DEF durable, intake
<1>1. PICK newest \in base .. MaxMail : Arrived(newest)
  BY DEF IInv, StoreOK, BoxShape, Ordered
<1>2. PICK n \in 1 .. Len(box) + 1 :
        /\ box' = SubSeq(box, n, Len(box))
        /\ skipped' = skipped \union Range(SubSeq(box, 1, n - 1))
        /\ base' = IF n > Len(box) THEN NewestMail ELSE box[n] - 1
  BY DEF Renumber
<1>3. /\ Imap /\ ~ Gmail /\ May("validity") /\ validity' = validity + 1
      /\ validity < MaxValidity
      /\ UNCHANGED <<durable, polls, answered, scenario>>
  BY DEF Renumber, Imap, Gmail
<1>4. /\ StoreTyped /\ Len(box) \in Nat /\ MaxMail \in Nat
      /\ validity \in Nat \ {0} /\ MaxValidity \in Nat /\ NoCursor \notin Nat
      /\ \A i \in 1 .. Len(box) : box[i] \in Mail
      /\ BoxShape /\ base \in 0 .. MaxMail /\ newest \in Nat /\ NewestMail = newest
      /\ \A i \in 1 .. Len(box) : box[i] \in 1 .. newest
  <2>1. /\ StoreTyped /\ Len(box) \in Nat /\ MaxMail \in Nat
        /\ validity \in Nat \ {0} /\ MaxValidity \in Nat /\ NoCursor \notin Nat
        /\ \A i \in 1 .. Len(box) : box[i] \in Mail /\ i \in DOMAIN box
        /\ BoxShape /\ base \in 0 .. MaxMail
    BY LenProperties, MailIntakeAssumption DEF IInv, StoreOK, StoreTyped, BoxShape
  <2>2. newest \in Nat /\ NewestMail = newest
    BY <1>1, <2>1, NewestIsLast
  <2>3. \A i \in 1 .. Len(box) : box[i] \in 1 .. newest
    BY <1>1, <2>1 DEF Arrived, Range
  <2> QED
    BY <2>1, <2>2, <2>3
<1>5. /\ box' \in Seq(Mail) /\ Len(box') = Len(box) - n + 1
      /\ \A i \in 1 .. Len(box) - n + 1 : box'[i] = box[n + i - 1]
  <2>1. \A i \in n .. Len(box) : box[i] \in Mail
    BY <1>4
  <2>2. /\ box' \in Seq(Mail)
        /\ Len(box') = IF n <= Len(box) THEN Len(box) - n + 1 ELSE 0
        /\ \A i \in 1 .. Len(box) - n + 1 : box'[i] = box[n + i - 1]
    BY <1>2, <1>4, <2>1, SubSeqProperties
  <2> QED
    BY <1>4, <2>2
<1>6. Range(SubSeq(box, 1, n - 1)) = {box[i] : i \in 1 .. n - 1}
  <2> DEFINE head == SubSeq(box, 1, n - 1)
  <2>1. /\ head \in Seq(Mail) /\ Len(head) = n - 1
        /\ \A i \in 1 .. n - 1 : head[i] = box[i]
    <3>1. PICK one \in Int : one = 1
      OBVIOUS
    <3>2. n - 1 \in Int /\ \A i \in one .. n - 1 : box[i] \in Mail
      BY <1>4, <3>1
    <3>3. /\ SubSeq(box, one, n - 1) \in Seq(Mail)
          /\ Len(SubSeq(box, one, n - 1)) = IF one <= n - 1 THEN n - 1 - one + 1 ELSE 0
          /\ \A i \in 1 .. n - 1 - one + 1 : SubSeq(box, one, n - 1)[i] = box[one + i - 1]
      BY <3>2, SubSeqProperties
    <3>4. n - 1 - one + 1 = n - 1 /\ \A i \in 1 .. n - 1 : one + i - 1 = i
      BY <1>4, <3>1
    <3> HIDE DEF head
    <3> QED
      BY <1>4, <3>1, <3>3, <3>4 DEF head
  <2>2. DOMAIN head = 1 .. n - 1
    <3> HIDE DEF head
    <3> QED
      BY <2>1, LenProperties
  <2> HIDE DEF head
  <2>3. Range(head) = {head[i] : i \in 1 .. n - 1}
    BY <2>2 DEF Range
  <2> QED
    BY <2>1, <2>3 DEF head
<1>7. BoxShape' /\ skipped' \subseteq Mail
  <2>1. \A i \in 1 .. Len(box') : n + i - 1 \in n .. Len(box) /\ box'[i] = box[n + i - 1]
    BY <1>4, <1>5
  <2>2. DOMAIN box' = 1 .. Len(box') /\ DOMAIN box = 1 .. Len(box)
    BY <1>4, <1>5, LenProperties DEF StoreTyped
  <2>3. Range(box) = {box[i] : i \in 1 .. n - 1} \union Range(box')
    <3>1. ASSUME NEW i \in 1 .. Len(box), i >= n PROVE box[i] \in Range(box')
      <4>1. i - n + 1 \in 1 .. Len(box') /\ n + (i - n + 1) - 1 = i
        BY <1>4, <1>5, <3>1
      <4>2. box'[i - n + 1] = box[i]
        BY <2>1, <4>1
      <4> QED
        BY <2>2, <4>1, <4>2 DEF Range
    <3>2. \A m \in Range(box') : m \in Range(box)
      BY <1>4, <2>1, <2>2 DEF Range
    <3>3. \A i \in 1 .. n - 1 : i \in 1 .. Len(box)
      BY <1>4
    <3>4. \A i \in 1 .. Len(box) : i \in 1 .. n - 1 \/ i >= n
      BY <1>4
    <3> QED
      BY <2>2, <3>1, <3>2, <3>3, <3>4 DEF Range
  <2>4. Arrived(newest)'
    BY <1>1, <1>2, <1>6, <2>3 DEF Arrived
  <2>5. /\ base' \in 0 .. newest /\ base' \in 0 .. MaxMail
        /\ n <= Len(box) => base' = box[n] - 1 /\ box[n] \in 1 .. newest
    BY <1>2, <1>4
  <2>6. Ordered'
    <3>1. \A i \in 1 .. Len(box') : box'[i] > base'
      <4>1. ASSUME NEW i \in 1 .. Len(box') PROVE box'[i] > base'
        <5>1. /\ n <= Len(box) /\ n \in 1 .. Len(box) /\ n + i - 1 \in 1 .. Len(box)
              /\ n = n + i - 1 \/ n < n + i - 1
          BY <1>4, <1>5
        <5>2. box[n] <= box[n + i - 1] /\ box[n] \in Nat /\ box[n + i - 1] \in Nat
          BY <1>4, <5>1 DEF BoxShape, Ordered
        <5> QED
          BY <2>1, <2>5, <5>1, <5>2
      <4> QED
        BY <4>1
    <3>2. \A i, j \in 1 .. Len(box') : i < j => box'[i] < box'[j]
      <4>1. \A i, j \in 1 .. Len(box') :
              i < j => n + i - 1 < n + j - 1 /\ n + i - 1 \in 1 .. Len(box)
                       /\ n + j - 1 \in 1 .. Len(box)
        BY <1>4, <1>5
      <4> QED
        BY <1>4, <2>1, <4>1 DEF BoxShape, Ordered
    <3>3. newest \in base' .. MaxMail
      BY <1>1, <1>4, <2>5
    <3> QED
      BY <1>3, <2>4, <3>1, <3>2, <3>3 DEF Ordered, durable
  <2>7. ~ Expunges => BoxFrom(base)'
    <3> SUFFICES ASSUME ~ Expunges PROVE BoxFrom(base)'
      OBVIOUS
    <3>1. BoxFrom(base)
      BY <1>4 DEF BoxShape
    <3>2. newest = base + Len(box)
      BY <1>4, <3>1, NewestOfWhole, NewestIsLast
    <3>3. base' = base + n - 1
      BY <1>2, <1>4, <3>1, <3>2 DEF BoxFrom
    <3>4. \A i \in 1 .. Len(box') : box'[i] = base' + i
      <4>1. \A i \in 1 .. Len(box') :
              /\ n + i - 1 \in 1 .. Len(box)
              /\ base + (n + i - 1) = base' + i
        BY <1>4, <1>5, <3>3
      <4> QED
        BY <2>1, <3>1, <4>1 DEF BoxFrom
    <3>5. base' + Len(box') = base + Len(box)
      BY <1>4, <1>5, <3>3
    <3>6. 1 .. base' \subseteq skipped'
      <4>1. ASSUME NEW m \in base + 1 .. base + n - 1 PROVE m \in {box[i] : i \in 1 .. n - 1}
        <5>1. m - base \in 1 .. n - 1 /\ m - base \in 1 .. Len(box)
          BY <1>4
        <5>2. box[m - base] = m
          BY <1>4, <3>1, <5>1 DEF BoxFrom
        <5> QED
          BY <5>1, <5>2
      <4>2. \A m \in 1 .. base' : m \in 1 .. base \/ m \in base + 1 .. base + n - 1
        BY <1>4, <3>3
      <4> QED
        BY <1>2, <1>6, <3>1, <4>1, <4>2 DEF BoxFrom
    <3>7. skipped' \subseteq 1 .. base' + Len(box')
      BY <1>1, <2>4, <3>2, <3>5 DEF Arrived
    <3>8. base' + Len(box') <= MaxMail
      BY <3>1, <3>5 DEF BoxFrom
    <3> QED
      BY <3>4, <3>6, <3>7, <3>8 DEF BoxFrom
  <2>8. skipped' \subseteq Mail
    BY <1>1, <1>4, <2>4 DEF Arrived, Mail
  <2> QED
    BY <1>3, <2>5, <2>6, <2>7, <2>8 DEF BoxShape, Expunges, Imap, Gmail, May
<1>8. \A note : Dated(note) => Dated(note)' /\ ~ Fits(note)'
  BY <1>3, <1>4 DEF Dated, Fits, Imap, May
<1>9. StoreOK'
  <2>1. skipped' \subseteq Mail
    BY <1>7
  <2>2. StoreTyped' /\ Counted'
    BY <1>3, <1>4, <1>5, <2>1 DEF IInv, StoreOK, StoreTyped, Counted, May
  <2>3. Imap' => (Dated(noted) /\ Paired(cursor, noted) /\ answered = 0)'
    BY <1>3, <1>8 DEF IInv, StoreOK, Imap, Paired, May, Dated
  <2>4. ~ Gmail' /\ ~ Fits(noted)' /\ Covers(answered)'
    <3>1. ~ Gmail' /\ ~ Fits(noted)'
      BY <1>3, <1>4 DEF IInv, StoreOK, Gmail, Imap, Dated, Fits, May
    <3>2. answered' = 0 /\ Len(box') \in Nat
      BY <1>3, <1>4, <1>5 DEF IInv, StoreOK
    <3> QED
      BY <3>1, <3>2 DEF Covers
  <2> QED
    BY <1>7, <2>2, <2>3, <2>4 DEF StoreOK
<1>10. ASSUME NEW x \in Poll, PollOK(x) PROVE PollOK(x)'
  <2>1. ImapPoll(x) /\ ImapPoll(x)'
    BY <1>3, <1>8, <1>10 DEF PollOK, ImapPoll, Paired, May
  <2>2. CoveredPoll(x)'
    <3>1. ~ Fits(x.knew)' /\ ~ Fits(x.note)' /\ x.id = 0 /\ Len(box') \in Nat
      BY <1>4, <1>5, <1>8, <2>1 DEF ImapPoll
    <3> QED
      BY <3>1 DEF CoveredPoll, CoversWith
  <2>3. ~ Gmail' /\ May("validity")' /\ (~ May("stop")' => ~ x.aborted)
    BY <1>3, <1>10 DEF PollOK, Gmail, May
  <2> QED
    BY <2>1, <2>2, <2>3 DEF PollOK
<1> QED
  BY <1>3, <1>9, <1>10 DEF IInv, PollsOK, Busy
-----------------------------------------------------------------------------
(* Every step *)

\* Every step keeps the invariant.
LEMMA NextInductive == IInv /\ [Next]_vars => IInv'
<1> SUFFICES ASSUME IInv, [Next]_vars PROVE IInv'
  OBVIOUS
<1>1. CASE UNCHANGED vars
  <2>1. StoreOK' /\ \A x \in Poll : PollOK(x) => PollOK(x)'
    BY <1>1, StoreStays DEF vars, IInv
  <2> QED
    BY <1>1, <2>1 DEF vars, IInv, PollsOK, Busy
<1>2. CASE Next
  <2>1. ASSUME NEW p \in Polls, PollStep(p) PROVE IInv'
    BY <2>1, FetchImapInductive, AskGmailInductive, FetchHistoryInductive,
       BackfillInductive, RecoverForPushInductive, FetchAllInductive,
       IngestInductive, PassOverInductive, PersistInductive,
       PersistTornInductive, FailInductive
    DEF PollStep
  <2> QED
    BY <1>2, <2>1, ArriveInductive, ExpungeInductive, RenumberInductive, StartWatchInductive,
       PushInductive, RecoverInductive, StopWatchersInductive, CrashInductive
    DEF Next
<1> QED
  BY <1>1, <1>2

\* The inductive invariant holds throughout.
LEMMA Inductive == Spec => []IInv
<1>1. IInv /\ UNCHANGED vars => IInv'
  BY NextInductive
<1> QED
  BY InitInductive, NextInductive, PTL DEF Spec
-----------------------------------------------------------------------------
(* Safety *)

\* Nothing is recorded that is not mail of the box, no message stands in the
\* box twice, and a message is taken for a new one at most as often as there
\* are keys.
THEOREM TypeCorrect == Spec => []TypeOK
<1>1. IInv => TypeOK
  <2> SUFFICES ASSUME IInv PROVE TypeOK
    OBVIOUS
  <2>1. StoreTyped /\ MaxMail \in Nat
    BY MailIntakeAssumption DEF IInv, StoreOK
  <2>2. IsInjective(box)
    <3>1. DOMAIN box = 1 .. Len(box) /\ Len(box) \in Nat
      BY <2>1, LenProperties DEF StoreTyped
    <3>2. /\ \A i, j \in 1 .. Len(box) : i < j => box[i] < box[j]
          /\ \A i \in 1 .. Len(box) : box[i] \in Mail
      BY <2>1, <3>1, LenProperties DEF IInv, StoreOK, BoxShape, Ordered, StoreTyped
    <3>3. \A i, j \in 1 .. Len(box) : box[i] = box[j] => i = j
      BY <2>1, <3>1, <3>2 DEF Mail
    <3> QED
      BY <3>1, <3>3 DEF IsInjective
  <2>3. entered \in [Mail -> 0 .. MaxMail]
    <3>1. ASSUME NEW m \in Mail PROVE entered[m] \in 0 .. MaxMail
      <4>1. IsFiniteSet(Mail) /\ Cardinality(Mail) = MaxMail
        BY <2>1, CountingNumbers DEF Mail
      <4>2. Cardinality({k \in Mail : recorded[k] = m}) <= MaxMail
        BY <4>1, FS_Subset
      <4>3. entered[m] = Cardinality({k \in Mail : recorded[k] = m}) /\ entered[m] \in Nat
        BY <2>1 DEF IInv, StoreOK, Counted, StoreTyped
      <4> QED
        BY <2>1, <4>2, <4>3
    <3> QED
      BY <2>1, <3>1 DEF StoreTyped
  <2> QED
    BY <2>1, <2>2, <2>3 DEF TypeOK, StoreTyped, IInv, StoreOK, BoxShape, PollsOK
<1> QED
  BY <1>1, Inductive, PTL

\* No mail is lost: whatever polls overlap, replace each other, fail and write
\* the cursor late, what the durable cursor has passed is ingested.  For IMAP:
\* in a box from which no mail is removed.
THEOREM NothingLost == Spec => []CursorCoversMail
<1>1. IInv => CursorCoversMail
  <2> SUFFICES ASSUME IInv, Claimed, Imap /\ May("validity") => noted = validity,
                      NEW i \in 1 .. Len(box), Uid(box[i]) <= Upto(cursor)
               PROVE  box[i] \in ingested \union skipped
    BY DEF CursorCoversMail, PassedIsIngested
  <2>1. ~ Expunges /\ StoreTyped /\ BoxShape
    BY DEF IInv, StoreOK, Claimed, Expunges, Imap, Gmail
  <2>2. i <= Upto(cursor) /\ Upto(cursor) \in Nat
    BY <2>1, UidsOfBox, MailIntakeAssumption DEF StoreTyped, Upto, Cursor
  <2>3. i \in 1 .. Upto(cursor)
    BY <2>1, <2>2, UidsOfBox
  <2> QED
    BY <2>3 DEF IInv, StoreOK, Fits, Covers, Seen
<1> QED
  BY <1>1, Inductive, PTL

\* A notification of Gmail is answered only when the mail up to it is ingested.
THEOREM AnsweredTruly == Spec => []AnsweredIsIngested
<1>1. IInv => AnsweredIsIngested
  BY DEF IInv, StoreOK, AnsweredIsIngested, Covers, Seen
<1> QED
  BY <1>1, Inductive, PTL

\* However often a message is delivered, it enters its room once.
THEOREM EnteredOnce == Spec => []EntersOnce
<1>1. IInv => EntersOnce
  <2> SUFFICES ASSUME IInv, ~ May("validity"), NEW m \in Mail
               PROVE  entered[m] = IF m \in ingested THEN 1 ELSE 0
    BY DEF EntersOnce
  <2>1. /\ entered[m] = Cardinality({k \in Mail : recorded[k] = m})
        /\ \A k \in Mail : recorded[k] = IF k \in ingested THEN k ELSE 0
        /\ 0 \notin Mail
    BY MailIntakeAssumption DEF IInv, StoreOK, Counted, Mail
  <2>2. CASE m \in ingested
    <3>1. {k \in Mail : recorded[k] = m} = {m}
      BY <2>1, <2>2
    <3> QED
      BY <2>1, <2>2, <3>1, FS_Singleton
  <2>3. CASE m \notin ingested
    <3>1. {k \in Mail : recorded[k] = m} = {}
      BY <2>1, <2>3
    <3> QED
      BY <2>1, <2>3, <3>1, FS_EmptySet
  <2> QED
    BY <2>2, <2>3
<1> QED
  BY <1>1, Inductive, PTL
=============================================================================
