---------------------------- MODULE VirtualMail ----------------------------
(***************************************************************************)
(* The virtual mail of one room (src/core/virtual-mail.ts): an event is    *)
(* appended to thread_ledger and then applied to the tables                *)
(* virtual_messages and mailbox_deliveries, as two statements.             *)
(*                                                                         *)
(* The ledger is represented by what replaying it from the start gives:    *)
(* an event carries whole rows, so appending one overwrites these rows of  *)
(* the replay.  Events a replay ignores are left out.                      *)
(*                                                                         *)
(* Every message the system sends has one recipient, so a row holds the    *)
(* message and its delivery; status "none" says that there is no delivery. *)
(* A thread is named by the message that opened it.  Veto and supersession *)
(* of threads are called by tests only and left out.                       *)
(***************************************************************************)
EXTENDS Naturals, Sequences, FiniteSetsExt, Functions

CONSTANTS
  Messages,    \* message ids 1..n, taken in order
  Mailboxes,
  MaxRevision  \* bound on the room's revision

ASSUME VirtualMailAssumption ==
  /\ Messages \subseteq Nat \ {0}
  /\ MaxRevision \in Nat \ {0}
  /\ "none" \notin Mailboxes

VARIABLES
  tables,    \* virtual_messages joined with mailbox_deliveries
  ledger,    \* the rows a replay of thread_ledger gives
  replays,   \* what it gives if it ends early, {} if none does
  revision   \* thread_rooms.revision of the room

mail == <<tables, ledger, replays>>

NoMail ==
  [kind |-> "none", to |-> "none", thread |-> 0, parent |-> 0, revision |-> 0,
   status |-> "none", owner |-> 0]

\* owner: the revision of the turn that leased the delivery, 0 if none did.
MailRow ==
  [kind : {"task", "report"}, to : Mailboxes, thread : Messages,
   parent : Messages \union {0}, revision : 1 .. MaxRevision,
   status : {"none", "queued", "leased", "consumed", "stale", "blocked"},
   owner : 0 .. MaxRevision]

MailTypeOK ==
  /\ tables \in [Messages -> MailRow \union {NoMail}]
  /\ ledger \in [Messages -> MailRow \union {NoMail}]
  /\ replays \subseteq [Messages -> MailRow \union {NoMail}]
  /\ revision \in 1 .. MaxRevision

MailInit ==
  /\ tables = [m \in Messages |-> NoMail]
  /\ ledger = [m \in Messages |-> NoMail]
  /\ replays \in {{}, {ledger}}
  /\ revision = 1

-----------------------------------------------------------------------------
(* Events come in waves.  A wave gives messages their new rows, one event     *)
(* each, in the order of the ids.                                            *)

\* A wave of one event.
Event(m, row) == [l \in {m} |-> row]

\* Each row as the last wave that has it left it.
Written(rows, waves) ==
  [m \in Messages |->
     LET writers == {i \in DOMAIN waves : m \in DOMAIN waves[i]}
     IN  IF writers = {} THEN rows[m] ELSE waves[Max(writers)][m]]

\* Wave n as far as the messages in done, after the waves before it.
Broken(waves, n, done) ==
  Append(SubSeq(waves, 1, n - 1), Restrict(waves[n], done))

\* A replay may also end with any of the events of the waves.
Replays(waves) ==
  IF replays = {} THEN {}
  ELSE replays \union
         UNION {{Written(ledger, Broken(waves, n, {l \in DOMAIN waves[n] : l <= m})) :
                   m \in DOMAIN waves[n]} : n \in DOMAIN waves}

\* The events are appended to the ledger.
Appended(waves) ==
  /\ ledger' = Written(ledger, waves)
  /\ replays' = Replays(waves)

\* Mutants: leases, or what settles a delivery, are applied and not appended.
Without(status, waves) ==
  SelectSeq(waves, LAMBDA w : \A m \in DOMAIN w : w[m].status # status)
Record_NoLease(waves) ==
  Appended(Without("leased", waves)) /\ tables' = Written(tables, waves)
Record_NoConsumption(waves) ==
  Appended(Without("consumed", waves)) /\ tables' = Written(tables, waves)

Record(waves) ==
  Appended(waves) /\ tables' = Written(tables, waves)

\* The process dies before it has appended all of the events, or before it has
\* applied the one it appended last, that of message m.
RecordTorn(waves) ==
  \E n \in DOMAIN waves : \E m \in DOMAIN waves[n], applied \in BOOLEAN :
    LET before == {l \in DOMAIN waves[n] : l < m}
    IN  /\ Appended(Broken(waves, n, before \union {m}))
        /\ tables' = Written(tables, Broken(waves, n, IF applied THEN before \union {m} ELSE before))

NextMessage(m) ==
  /\ ledger[m] = NoMail
  /\ \A l \in Messages : l < m => ledger[l] # NoMail

Posted(kind, to, thread, parent, rev) ==
  [kind |-> kind, to |-> to, thread |-> thread, parent |-> parent,
   revision |-> rev, status |-> "queued", owner |-> 0]

Leased(row, owner) == [row EXCEPT !.status = "leased", !.owner = owner]

\* How a delivery ends.
Settled(row, status) == [row EXCEPT !.status = status, !.owner = 0]

\* message_submitted, then message_delivered.
Submit(m, row) == <<Event(m, [row EXCEPT !.status = "none"]), Event(m, row)>>

\* delivery_leased.
Lease(m, row, owner) == <<Event(m, Leased(row, owner))>>

\* delivery_consumed.
Consume(m, row) == <<Event(m, Settled(row, "consumed"))>>

\* Mutant: what is leased is left alone.
Open_NotLeased(row) == row.status \in {"queued", "blocked"}

\* canTransitionMailboxDelivery: what is settled stays as it is.
Open(row) == row.status \in {"queued", "leased", "blocked"}

\* message_stale, for the deliveries of the message that are open.
MarkStale(m, row) ==
  IF Open(row) THEN <<Event(m, Settled(row, "stale"))>> ELSE <<>>

\* consumeMailboxDelivery throws for a row that is stale or another's lease.
Consumable(row, owner) ==
  \/ row.status = "consumed"
  \/ row.status # "stale" /\ row.owner \in {0, owner}

Addressed(mailbox) == {m \in Messages : tables[m].to = mailbox}

\* listQueuedMailboxDeliveries.  The oldest come first by a clock the callers
\* set (a turn stamps its tasks with its own start), so any of them may.
QueuedFor(mailbox) == {m \in Addressed(mailbox) : tables[m].status = "queued"}

\* requireCurrentRoom: the room must be at the caller's revision.
RoomIsAt(rev) == revision = rev

\* rebuildVirtualMailProjectionFromLedger, which runs without an await.
Rebuild ==
  /\ tables' = ledger
  /\ UNCHANGED <<ledger, replays, revision>>

\* The process dies in there: the deliveries are deleted, or the messages too
\* and a part of the ledger is replayed.
RebuildTorn ==
  /\ \/ tables' = [m \in Messages |->
                     IF tables[m] = NoMail THEN NoMail ELSE Settled(tables[m], "none")]
     \/ tables' \in replays
  /\ UNCHANGED <<ledger, replays, revision>>

\* blocked: processSubAgentDelivery writes the row around the ledger.
Block(m) ==
  /\ tables' = [tables EXCEPT ![m] = Settled(@, "blocked")]
  /\ UNCHANGED <<ledger, replays>>

\* Mail for the room arrives.
NewMail ==
  /\ revision < MaxRevision
  /\ revision' = revision + 1
  /\ UNCHANGED mail

\* Turns write back a row of thread_rooms they read before (MailRoom).
RoomPutBack ==
  /\ revision > 1
  /\ revision' = revision - 1
  /\ UNCHANGED mail
=============================================================================
