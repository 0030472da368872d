-------------------------- MODULE RoomJobs_proofs --------------------------
(***************************************************************************)
(* What the statements on room_queue_jobs leave of a table of jobs, for    *)
(* any set of ids and rooms.                                               *)
(***************************************************************************)
EXTENDS RoomJobs, TLAPS

\* A row keeps what it was inserted with.
SameJob(a, b) ==
  /\ a.room = b.room /\ a.revision = b.revision /\ a.seq = b.seq
  /\ a.priority = b.priority /\ a.createdAt = b.createdAt

-----------------------------------------------------------------------------
\* A table may start empty.
LEMMA NoRowIsRow ==
  ASSUME NEW R
  PROVE  NoRow \in JobRow(R)
BY DEF NoRow, JobRow, JobStatus

\* A row to insert is one.
LEMMA QueuedRowIsRow ==
  ASSUME NEW R, NEW room \in R, NEW rev \in Nat, NEW seq \in Nat, NEW base \in Nat, NEW t \in Nat
  PROVE  QueuedRow(room, rev, seq, base, t) \in JobRow(R)
BY DEF QueuedRow, JobRow, JobStatus, Active

\* The sweep queues the rows whose lease has expired, and no other.
LEMMA RecoverExpiredRows ==
  ASSUME NEW R, NEW J, NEW q \in [J -> JobRow(R)], NEW t \in Nat
  PROVE  /\ RecoverExpired(q, t) \in [J -> JobRow(R)]
         /\ \A j \in J :
              /\ SameJob(RecoverExpired(q, t)[j], q[j])
              /\ RecoverExpired(q, t)[j].attempts = q[j].attempts
              /\ RecoverExpired(q, t)[j].availableAt = q[j].availableAt
              /\ \/ RecoverExpired(q, t)[j] = q[j] /\ ~ LeaseExpired(q[j], t)
                 \/ /\ q[j].status = "leased" /\ q[j].leaseExpiresAt <= t
                    /\ RecoverExpired(q, t)[j].status = "queued"
<1>1. \A j \in J : [q[j] EXCEPT !.status = "queued", !.leaseExpiresAt = 0] \in JobRow(R)
  BY DEF JobRow, JobStatus, Active
<1>2. RecoverExpired(q, t) \in [J -> JobRow(R)]
  BY <1>1 DEF RecoverExpired
<1> QED
  BY <1>2 DEF RecoverExpired, LeaseExpired, SameJob, JobRow

\* A turn settles its job and no other.
LEMMA SettleJobRows ==
  ASSUME NEW R, NEW J, NEW q \in [J -> JobRow(R)], NEW j \in J, NEW status \in Terminal
  PROVE  /\ SettleJob(q, j, status) \in [J -> JobRow(R)]
         /\ SettleJob(q, j, status)[j].status = status
         /\ SettleJob(q, j, status)[j].attempts = q[j].attempts
         /\ SettleJob(q, j, status)[j].availableAt = q[j].availableAt
         /\ SameJob(SettleJob(q, j, status)[j], q[j])
         /\ \A i \in J \ {j} : SettleJob(q, j, status)[i] = q[i]
<1> DEFINE row == [q[j] EXCEPT !.status = status, !.leaseExpiresAt = 0]
<1>1. row \in JobRow(R)
  BY DEF JobRow, JobStatus
<1>2. SettleJob(q, j, status) = [q EXCEPT ![j] = row]
  BY DEF SettleJob
<1>3. /\ row.status = status /\ row.attempts = q[j].attempts
      /\ row.availableAt = q[j].availableAt /\ SameJob(row, q[j])
  BY DEF JobRow, SameJob
<1> QED
  BY <1>1, <1>2, <1>3

\* A burst is coalesced by cancelling queued rows of the room only, and of
\* those only the earlier ones.
LEMMA CancelQueuedBeforeRows ==
  ASSUME NEW R, NEW J, NEW q \in [J -> JobRow(R)], NEW room, NEW seq \in Nat
  PROVE  /\ CancelQueuedBefore(q, room, seq) \in [J -> JobRow(R)]
         /\ \A j \in J :
              /\ SameJob(CancelQueuedBefore(q, room, seq)[j], q[j])
              /\ CancelQueuedBefore(q, room, seq)[j].attempts = q[j].attempts
              /\ CancelQueuedBefore(q, room, seq)[j].availableAt = q[j].availableAt
              /\ \/ /\ CancelQueuedBefore(q, room, seq)[j] = q[j]
                    /\ ~ (q[j].status = "queued" /\ q[j].room = room /\ q[j].seq < seq)
                 \/ /\ q[j].status = "queued" /\ q[j].room = room /\ q[j].seq < seq
                    /\ CancelQueuedBefore(q, room, seq)[j].status = "cancelled"
<1>1. \A j \in J : [q[j] EXCEPT !.status = "cancelled"] \in JobRow(R)
  BY DEF JobRow, JobStatus, Terminal
<1>2. CancelQueuedBefore(q, room, seq) \in [J -> JobRow(R)]
  BY <1>1 DEF CancelQueuedBefore
<1> QED
  BY <1>2 DEF CancelQueuedBefore, Cancellable, SameJob, JobRow

\* A retry queues the failed job again, due now, and touches no other.
LEMMA RetryFailedJobRows ==
  ASSUME NEW R, NEW J, NEW q \in [J -> JobRow(R)], NEW j \in J, NEW t \in Nat,
         q[j].status = "failed"
  PROVE  /\ RetryFailedJob(q, j, t) \in [J -> JobRow(R)]
         /\ RetryFailedJob(q, j, t)[j].status = "queued"
         /\ RetryFailedJob(q, j, t)[j].attempts = q[j].attempts
         /\ RetryFailedJob(q, j, t)[j].availableAt = t
         /\ SameJob(RetryFailedJob(q, j, t)[j], q[j])
         /\ \A i \in J \ {j} : RetryFailedJob(q, j, t)[i] = q[i]
<1> DEFINE row == [q[j] EXCEPT !.status = "queued", !.availableAt = t]
<1>1. row \in JobRow(R)
  BY DEF JobRow, JobStatus, Active
<1>2. RetryFailedJob(q, j, t) = [q EXCEPT ![j] = row]
  BY DEF RetryFailedJob
<1>3. /\ row.status = "queued" /\ row.attempts = q[j].attempts
      /\ row.availableAt = t /\ SameJob(row, q[j])
  BY DEF JobRow, SameJob
<1> QED
  BY <1>1, <1>2, <1>3

\* A lease takes one row, until a moment that is still to come.
LEMMA LeaseJobRows ==
  ASSUME NEW R, NEW J, NEW q \in [J -> JobRow(R)], NEW j \in J,
         NEW attempts \in Nat, NEW t \in Nat
  PROVE  /\ LeaseJob(q, j, attempts, t) \in [J -> JobRow(R)]
         /\ LeaseJob(q, j, attempts, t)[j].status = "leased"
         /\ LeaseJob(q, j, attempts, t)[j].attempts = attempts + 1
         /\ LeaseJob(q, j, attempts, t)[j].availableAt = q[j].availableAt
         /\ LeaseJob(q, j, attempts, t)[j].leaseExpiresAt > t
         /\ SameJob(LeaseJob(q, j, attempts, t)[j], q[j])
         /\ \A i \in J \ {j} : LeaseJob(q, j, attempts, t)[i] = q[i]
<1> DEFINE row == [q[j] EXCEPT !.status = "leased", !.attempts = attempts + 1,
                               !.leaseExpiresAt = t + LeaseMs]
<1>0. attempts + 1 \in Nat /\ t + LeaseMs \in Nat /\ t + LeaseMs > t
  BY RoomJobsAssumption
<1>1. row \in JobRow(R)
  BY <1>0 DEF JobRow, JobStatus, Active
<1>2. LeaseJob(q, j, attempts, t) = [q EXCEPT ![j] = row]
  BY DEF LeaseJob
<1>3. /\ row.status = "leased" /\ row.attempts = attempts + 1
      /\ row.availableAt = q[j].availableAt /\ row.leaseExpiresAt = t + LeaseMs
      /\ SameJob(row, q[j])
  BY DEF JobRow, SameJob
<1> QED
  BY <1>0, <1>1, <1>2, <1>3

\* The row the SELECT returns is queued, and precedes every active row of its
\* room.
LEMMA CandidateIsFirst ==
  ASSUME NEW R, NEW J, NEW q \in [J -> JobRow(R)], NEW t \in Nat, NEW served,
         NEW j \in NextCandidates(q, t, served)
  PROVE  /\ j \in J /\ q[j].status = "queued" /\ Leasable(q, j, t)
         /\ \A i \in J : q[i].room = q[j].room /\ q[i].status \in Active => q[i].seq >= q[j].seq
         /\ \A i \in J : Leasable(q, i, t) => ~ Precedes(q[i], q[j], t, served)
<1>1. j \in J /\ Leasable(q, j, t)
  BY DEF NextCandidates
<1>2. \A i \in J : q[i].seq \in Nat
  BY DEF JobRow
<1> QED
  BY <1>1, <1>2 DEF NextCandidates, Leasable, Blocks
-----------------------------------------------------------------------------
(* What waiting is worth *)

\* Multiplication by a natural number is monotone.
LEMMA TimesMonotone ==
  ASSUME NEW a \in Int, NEW b \in Int, NEW n \in Nat, a <= b
  PROVE  a * n <= b * n
OBVIOUS

\* A quotient lies within one divisor of the exact one.
LEMMA DivBounds ==
  ASSUME NEW a \in Int, NEW n \in Nat \ {0}
  PROVE  a \div n \in Int /\ n * (a \div n) <= a /\ a < n * (a \div n) + n
OBVIOUS

\* What holds b times the divisor has a quotient of at least b.
LEMMA DivAtLeast ==
  ASSUME NEW a \in Int, NEW b \in Int, NEW n \in Nat \ {0}, n * b <= a
  PROVE  b <= a \div n
<1>1. a \div n \in Int /\ a < n * (a \div n) + n
  BY DivBounds
<1>2. PICK d \in Int : d = a \div n
  BY <1>1
<1>3. n * b < n * d + n
  BY <1>1, <1>2
<1>4. ASSUME b > d PROVE FALSE
  <2>1. b >= d + 1
    BY <1>4
  <2>2. n * b >= n * (d + 1)
    BY <2>1, TimesMonotone
  <2>3. n * (d + 1) = n * d + n
    OBVIOUS
  <2> QED
    BY <1>3, <2>2, <2>3
<1> QED
  BY <1>2, <1>4

\* Two waiting times rounded down differ by no less than their difference
\* rounded down.
LEMMA DivApart ==
  ASSUME NEW a \in Int, NEW b \in Int, NEW n \in Nat \ {0}
  PROVE  ((a - b) \div n) + (b \div n) <= a \div n
<1>1. PICK d \in Int : d = (a - b) \div n /\ n * d <= a - b
  BY DivBounds
<1>2. PICK e \in Int : e = b \div n /\ n * e <= b
  BY DivBounds
<1>3. n * (d + e) = n * d + n * e
  OBVIOUS
<1>4. n * (d + e) <= a
  BY <1>1, <1>2, <1>3
<1>5. d + e <= a \div n
  BY <1>4, DivAtLeast
<1> QED
  BY <1>1, <1>2, <1>5

\* The row that has waited longer has the greater credit, by no less than
\* its lead is worth.
LEMMA CreditApart ==
  ASSUME NEW a, NEW c, NEW t \in Nat,
         a.availableAt \in Nat, c.availableAt \in Nat, a.availableAt <= t, c.availableAt <= t
  PROVE  /\ AgingCredit(a, t) \in Int /\ AgingCredit(c, t) \in Int
         /\ ((a.availableAt - c.availableAt) \div AgingMs) * AgingStep + AgingCredit(a, t)
              <= AgingCredit(c, t)
<1>0. AgingMs \in Nat \ {0} /\ AgingStep \in Nat
  BY RoomJobsAssumption
<1>1. PICK x \in Int : x = t - c.availableAt
  OBVIOUS
<1>2. PICK y \in Int : y = t - a.availableAt
  OBVIOUS
<1>3. a.availableAt - c.availableAt = x - y
  BY <1>1, <1>2
<1>4. PICK d \in Int : d = (x - y) \div AgingMs
  BY <1>0, DivBounds
<1>5. PICK e \in Int : e = y \div AgingMs
  BY <1>0, DivBounds
<1>6. PICK f \in Int : f = x \div AgingMs
  BY <1>0, DivBounds
<1>7. d + e <= f
  BY <1>0, <1>4, <1>5, <1>6, DivApart
<1>8. (d + e) * AgingStep <= f * AgingStep
  BY <1>0, <1>7, TimesMonotone
<1>9. (d + e) * AgingStep = d * AgingStep + e * AgingStep
  BY <1>0
<1>10. AgingCredit(a, t) = e * AgingStep /\ AgingCredit(c, t) = f * AgingStep
  BY <1>1, <1>2, <1>5, <1>6 DEF AgingCredit
<1>11. e * AgingStep \in Int /\ f * AgingStep \in Int
  BY <1>0
<1>12. ((a.availableAt - c.availableAt) \div AgingMs) * AgingStep = d * AgingStep
  BY <1>3, <1>4
<1> QED
  BY <1>8, <1>9, <1>10, <1>11, <1>12
=============================================================================
