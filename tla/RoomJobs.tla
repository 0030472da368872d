------------------------------ MODULE RoomJobs ------------------------------
(***************************************************************************)
(* The table room_queue_jobs and the statements that change it             *)
(* (src/queue/thread-queue.ts), as operators on a job table: a function    *)
(* from job ids to rows.  A row whose status is "absent" has not been      *)
(* inserted.  lease_owner, updated_at and completed_at are written by the  *)
(* code and read by none of it, so a row does not carry them.              *)
(***************************************************************************)
EXTENDS Integers

CONSTANTS
  NoRoom,       \* room of a row that has not been inserted
  LeaseMs,      \* leaseDurationMs
  AgingMs,      \* priorityAgingMs
  AgingStep,    \* priorityAgingStep
  PenaltyStep   \* roomFairnessPenaltyStep

\* config.ts: positive, positive, positive, nonnegative
ASSUME RoomJobsAssumption ==
  /\ LeaseMs \in Nat \ {0}
  /\ AgingMs \in Nat \ {0}
  /\ AgingStep \in Nat \ {0}
  /\ PenaltyStep \in Nat

Active == {"queued", "leased"}
Terminal == {"completed", "failed", "cancelled"}
JobStatus == {"absent"} \union Active \union Terminal

JobRow(Rooms) ==
  [status : JobStatus, room : Rooms \union {NoRoom}, revision : Nat,
   seq : Nat, priority : Nat, attempts : Nat,
   availableAt : Nat, createdAt : Nat, leaseExpiresAt : Nat]

\* leaseExpiresAt is meaningful in a leased row only; 0 stands for NULL.
NoRow ==
  [status |-> "absent", room |-> NoRoom, revision |-> 0,
   seq |-> 0, priority |-> 0, attempts |-> 0,
   availableAt |-> 0, createdAt |-> 0, leaseExpiresAt |-> 0]

QueuedRow(room, revision, seq, priority, t) ==
  [status |-> "queued", room |-> room, revision |-> revision,
   seq |-> seq, priority |-> priority, attempts |-> 0,
   availableAt |-> t, createdAt |-> t, leaseExpiresAt |-> 0]

EnqueueJob(q, j, room, revision, seq, priority, t) ==
  [q EXCEPT ![j] = QueuedRow(room, revision, seq, priority, t)]

-----------------------------------------------------------------------------
\* Mutant: a settled row is swept as well.
LeaseExpired_AnyStatus(row, t) == row.attempts > 0 /\ row.leaseExpiresAt <= t

LeaseExpired(row, t) == row.status = "leased" /\ row.leaseExpiresAt <= t

\* recoverExpiredRoomJobs: available_at is left alone.
RecoverExpired(q, t) ==
  [j \in DOMAIN q |->
     IF LeaseExpired(q[j], t)
     THEN [q[j] EXCEPT !.status = "queued", !.leaseExpiresAt = 0]
     ELSE q[j]]

\* Mutant: a status nothing else knows.
SettleJob_Done(q, j, status) == [q EXCEPT ![j].status = "done"]

\* A terminal status is written whatever the row's status is and whoever
\* leased it.
SettleJob(q, j, status) ==
  [q EXCEPT ![j].status = status, ![j].leaseExpiresAt = 0]

\* Mutants: the newest job is cancelled as well; one too few is.
Cancellable_Newest(row, room, seq) ==
  row.status = "queued" /\ row.room = room /\ row.seq <= seq
Cancellable_OffByOne(row, room, seq) ==
  row.status = "queued" /\ row.room = room /\ row.seq + 1 < seq

Cancellable(row, room, seq) ==
  row.status = "queued" /\ row.room = room /\ row.seq < seq

\* cancelQueuedRoomJobs
CancelQueuedBefore(q, room, seq) ==
  [j \in DOMAIN q |->
     IF Cancellable(q[j], room, seq)
     THEN [q[j] EXCEPT !.status = "cancelled"]
     ELSE q[j]]

\* retryFailedRoomJob changes a failed row only; attempts is kept.
RetryFailedJob(q, j, t) ==
  [q EXCEPT ![j] = IF @.status = "failed"
                   THEN [@ EXCEPT !.status = "queued", !.availableAt = t]
                   ELSE @]

-----------------------------------------------------------------------------
(***************************************************************************)
(* leaseNextRoomJob: which row the SELECT returns.  served[r] is the       *)
(* number of leases of r the caller counts against it.                     *)
(***************************************************************************)
\* Mutant: waiting earns nothing.
AgingCredit_None(row, t) == 0

AgingCredit(row, t) ==
  IF row.availableAt <= t
  THEN ((t - row.availableAt) \div AgingMs) * AgingStep
  ELSE 0

EffectivePriority(row, t, served) ==
  row.priority + AgingCredit(row, t) - PenaltyStep * served[row.room]

\* Mutants: only queued rows block; a row blocks itself.
Blocks_Queued(a, b) == a.room = b.room /\ a.seq < b.seq /\ a.status = "queued"
Blocks_Itself(a, b) == a.room = b.room /\ a.seq <= b.seq /\ a.status \in Active

\* An active row of the same room that precedes another.
Blocks(a, b) == a.room = b.room /\ a.seq < b.seq /\ a.status \in Active

\* Queued, available, and not blocked.
Leasable(q, j, t) ==
  /\ q[j].status = "queued"
  /\ q[j].attempts = 0 \/ q[j].availableAt <= t
  /\ \A i \in DOMAIN q : ~ Blocks(q[i], q[j])

\* ORDER BY effective_priority DESC, created_at ASC, inbound_seq ASC
Precedes(a, b, t, served) ==
  LET pa == EffectivePriority(a, t, served)
      pb == EffectivePriority(b, t, served)
  IN  \/ pa > pb
      \/ pa = pb /\ a.createdAt < b.createdAt
      \/ pa = pb /\ a.createdAt = b.createdAt /\ a.seq < b.seq

\* More than one row only when the ORDER BY leaves them tied.
NextCandidates(q, t, served) ==
  {j \in DOMAIN q :
     /\ Leasable(q, j, t)
     /\ \A i \in DOMAIN q :
          Leasable(q, i, t) => ~ Precedes(q[i], q[j], t, served)}

\* The UPDATE of leaseNextRoomJob names the row by its id alone: it does not
\* look at the status again.  attempts is the one the SELECT returned.
LeaseJob(q, j, attempts, t) ==
  [q EXCEPT ![j].status = "leased",
            ![j].attempts = attempts + 1,
            ![j].leaseExpiresAt = t + LeaseMs]
=============================================================================
