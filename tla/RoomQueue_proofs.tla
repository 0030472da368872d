-------------------------- MODULE RoomQueue_proofs --------------------------
(***************************************************************************)
(* Proofs about RoomQueue for any rooms, jobs, lanes, durations and        *)
(* bounds.                                                                 *)
(***************************************************************************)
EXTENDS RoomQueue, RoomJobs_proofs, FiniteSetTheorems

-----------------------------------------------------------------------------
(* The inductive invariant *)

\* A job is inserted under the next revision of its room, and only a job that
\* was leased comes to be completed or failed.
RowOK(row) ==
  /\ row.status = "absent" => row = NoRow
  /\ row.status # "absent" =>
       /\ row.room \in Rooms
       /\ row.revision = row.seq
       /\ row.seq \in 1 .. revision[row.room]
       /\ row.priority = BasePriority
       /\ row.availableAt <= clock
  /\ row.status \in {"leased", "completed", "failed"} => row.attempts > 0
  /\ row.status = "queued" /\ row.attempts = 0 => row.revision = revision[row.room]

\* No two jobs of a room have the same number.
Numbered(q) ==
  \A i, j \in Jobs : i # j /\ q[i].room = q[j].room /\ q[i].status # "absent" => q[i].seq # q[j].seq

TableOK(q) ==
  /\ q \in [Jobs -> JobRow(Rooms)]
  /\ \A j \in Jobs : RowOK(q[j])
  /\ Numbered(q)

\* A leased job comes first of the active jobs of its room.
LeasedFirst(q) ==
  \A i, j \in Jobs :
    i # j /\ q[i].room = q[j].room /\ q[i].status = "leased" /\ q[j].status \in Active
      => q[i].seq < q[j].seq

Begun(row) == row.status # "absent" /\ row.attempts > 0

CountsTyped ==
  /\ revision \in [Rooms -> Nat] /\ clock \in Nat
  /\ due \in Nat /\ crashes \in Nat /\ retries \in Nat

LanesTyped ==
  /\ tasks \in [Lanes -> [Jobs -> Nat]]
  /\ pick \in [Lanes -> [job : Jobs \union {0}, attempts : Nat]]
  /\ phase \in [Drains -> Phases]
  /\ served \in [Drains -> [Rooms -> Nat]]
  /\ scheduled \in [Drains -> Nat]
  /\ roomActive \in [Drains -> [Rooms -> Nat]]
  /\ globalActive \in [Drains -> Nat]

\* A turn runs for a job that was leased once; a drain that has selected a row
\* has room for it, and nobody selects without leasing if leases are atomic.
LanesOK ==
  /\ \A l \in Lanes, j \in Jobs : tasks[l][j] > 0 => Begun(jobs[j])
  /\ \A l \in Lanes : pick[l] # NoPick =>
       /\ pick[l].job \in Jobs /\ jobs[pick[l].job].status # "absent"
       /\ ~ AtomicLease
       /\ l \in Drains => phase[l] = "filling" /\ globalActive[l] < MaxConcurrentRooms

\* The turns of a lane, counted: f[j] of each job j.
Slots(f, some) == UNION {{j} \X (1 .. f[j]) : j \in some}

PoolAt(f, q, global, room) ==
  /\ IsFiniteSet(Slots(f, Jobs))
  /\ global = Cardinality(Slots(f, Jobs)) /\ global <= MaxConcurrentRooms
  /\ \A r \in Rooms : room[r] = Cardinality(Slots(f, {j \in Jobs : q[j].room = r}))

PoolOK == \A d \in Drains : PoolAt(tasks[d], jobs, globalActive[d], roomActive[d])

\* A turn that ends in time holds the lease of its job alone.
Holds(l, j) ==
  /\ jobs[j].status = "leased" /\ jobs[j].leaseExpiresAt > clock
  /\ tasks[l][j] = 1
  /\ \A m \in Lanes \ {l} : tasks[m][j] = 0

TurnsHold == \A l \in Lanes, j \in Jobs : tasks[l][j] > 0 => Holds(l, j)

IInv ==
  /\ CountsTyped /\ LanesTyped
  /\ TableOK(jobs) /\ LanesOK /\ PoolOK
  /\ AtomicLease => LeasedFirst(jobs)
  /\ AtomicLease /\ TimelyTurns => TurnsHold
-----------------------------------------------------------------------------
(* The table of jobs *)

\* What does not undo an insertion or a first lease.
Keeps(q, p) ==
  /\ p \in [Jobs -> JobRow(Rooms)]
  /\ \A j \in Jobs :
       /\ SameJob(p[j], q[j])
       /\ p[j].status = "absent" <=> q[j].status = "absent"
       /\ q[j].attempts > 0 => p[j].attempts > 0

\* The sweep of stale leases only takes expired leases back to the queue.
LEMMA SweepKeeps ==
  ASSUME TableOK(jobs), clock \in Nat
  PROVE  /\ TableOK(Swept) /\ Keeps(jobs, Swept)
         /\ \A j \in Jobs : \/ Swept[j] = jobs[j]
                            \/ /\ jobs[j].status = "leased" /\ jobs[j].leaseExpiresAt <= clock
                               /\ Swept[j].status = "queued"
         /\ \A j \in Jobs : Swept[j].attempts = jobs[j].attempts
         /\ \A j \in Jobs : Swept[j].availableAt = jobs[j].availableAt
         /\ LeasedFirst(jobs) => LeasedFirst(Swept)
<1> DEFINE p == Swept
<1>1. /\ p \in [Jobs -> JobRow(Rooms)]
      /\ \A j \in Jobs :
           /\ SameJob(p[j], jobs[j])
           /\ p[j].attempts = jobs[j].attempts
           /\ p[j].availableAt = jobs[j].availableAt
           /\ \/ p[j] = jobs[j]
              \/ /\ jobs[j].status = "leased" /\ jobs[j].leaseExpiresAt <= clock
                 /\ p[j].status = "queued"
  BY RecoverExpiredRows DEF TableOK, Swept
<1> HIDE DEF p
<1>2. \A j \in Jobs : p[j].status = "absent" <=> jobs[j].status = "absent"
  BY <1>1
<1>3. Keeps(jobs, p)
  BY <1>1, <1>2 DEF Keeps
<1>4. ASSUME NEW j \in Jobs PROVE RowOK(p[j])
  <2>1. CASE p[j] = jobs[j]
    BY <2>1 DEF TableOK
  <2>2. CASE jobs[j].status = "leased" /\ p[j].status = "queued"
    <3>1. RowOK(jobs[j]) /\ SameJob(p[j], jobs[j]) /\ jobs[j] \in JobRow(Rooms)
      BY <1>1 DEF TableOK
    <3> QED
      BY <1>1, <2>2, <3>1 DEF RowOK, SameJob, JobRow
  <2> QED
    BY <1>1, <2>1, <2>2
<1>5. Numbered(p)
  BY <1>1, <1>2 DEF TableOK, Numbered, SameJob
<1>6. LeasedFirst(jobs) => LeasedFirst(p)
  BY <1>1 DEF LeasedFirst, SameJob, Active
<1> QED
  BY <1>1, <1>3, <1>4, <1>5, <1>6 DEF p, TableOK

\* Leasing a job keeps the table well formed and every job's identity.
LEMMA LeaseKeeps ==
  ASSUME NEW q, TableOK(q), clock \in Nat, NEW j \in Jobs, q[j].status # "absent",
         NEW attempts \in Nat
  PROVE  /\ TableOK(LeaseJob(q, j, attempts, clock))
         /\ Keeps(q, LeaseJob(q, j, attempts, clock))
<1> DEFINE p == LeaseJob(q, j, attempts, clock)
<1>1. /\ p \in [Jobs -> JobRow(Rooms)]
      /\ p[j].status = "leased" /\ p[j].attempts = attempts + 1
      /\ p[j].availableAt = q[j].availableAt
      /\ SameJob(p[j], q[j]) /\ \A i \in Jobs \ {j} : p[i] = q[i]
  BY LeaseJobRows DEF TableOK
<1> HIDE DEF p
<1>2. Keeps(q, p)
  BY <1>1 DEF Keeps, SameJob
<1>3. RowOK(q[j]) /\ q[j] \in JobRow(Rooms)
  BY DEF TableOK
<1>4. RowOK(p[j])
  BY <1>1, <1>3 DEF RowOK, SameJob, JobRow
<1>5. Numbered(p)
  BY <1>1, <1>2 DEF TableOK, Numbered, Keeps, SameJob
<1> QED
  BY <1>1, <1>2, <1>4, <1>5 DEF p, TableOK

\* Settling a job writes its final status and leaves the others alone.
LEMMA SettleKeeps ==
  ASSUME TableOK(jobs), NEW j \in Jobs, Begun(jobs[j]), NEW status \in Terminal
  PROVE  /\ TableOK(SettleJob(jobs, j, status))
         /\ Keeps(jobs, SettleJob(jobs, j, status))
         /\ SettleJob(jobs, j, status)[j].status = status
         /\ \A i \in Jobs \ {j} : SettleJob(jobs, j, status)[i] = jobs[i]
         /\ LeasedFirst(jobs) => LeasedFirst(SettleJob(jobs, j, status))
<1> DEFINE p == SettleJob(jobs, j, status)
<1>1. /\ p \in [Jobs -> JobRow(Rooms)]
      /\ p[j].status = status /\ p[j].attempts = jobs[j].attempts
      /\ p[j].availableAt = jobs[j].availableAt
      /\ SameJob(p[j], jobs[j]) /\ \A i \in Jobs \ {j} : p[i] = jobs[i]
  BY SettleJobRows DEF TableOK
<1> HIDE DEF p
<1>2. Keeps(jobs, p)
  BY <1>1 DEF Keeps, SameJob, Begun, Terminal
<1>3. RowOK(jobs[j]) /\ jobs[j] \in JobRow(Rooms)
  BY DEF TableOK
<1>4. RowOK(p[j])
  BY <1>1, <1>3 DEF RowOK, SameJob, JobRow, Begun, Terminal
<1>5. Numbered(p)
  BY <1>1, <1>2 DEF TableOK, Numbered, Keeps, SameJob
<1>6. LeasedFirst(jobs) => LeasedFirst(p)
  BY <1>1 DEF LeasedFirst, SameJob, Active, Terminal
<1> QED
  BY <1>1, <1>2, <1>4, <1>5, <1>6 DEF p, TableOK

\* A table stays in order while time passes.
LEMMA TableStays ==
  ASSUME NEW q, TableOK(q), revision' = revision, clock' \in Nat, clock \in Nat, clock <= clock',
         jobs' = q
  PROVE  TableOK(jobs)'
<1>1. ASSUME NEW row \in JobRow(Rooms), RowOK(row) PROVE RowOK(row)'
  BY <1>1 DEF RowOK, JobRow
<1>2. \A j \in Jobs : RowOK(q[j])'
  BY <1>1 DEF TableOK
<1> QED
  BY <1>2 DEF TableOK, Numbered
-----------------------------------------------------------------------------
(* The turns of a lane, counted *)

\* A slot is a job and one of its numbered turns.
LEMMA SlotsElement ==
  ASSUME NEW f, NEW some, NEW x
  PROVE  x \in Slots(f, some) <=> \E j \in some : \E n \in 1 .. f[j] : x = <<j, n>>
BY DEF Slots

\* The same, slot by slot.
LEMMA SlotOf ==
  ASSUME NEW f, NEW some, NEW j, NEW n
  PROVE  <<j, n>> \in Slots(f, some) <=> j \in some /\ n \in 1 .. f[j]
BY SlotsElement

\* The slots of some jobs are finite and no more than the slots of all.
LEMMA SlotsSubset ==
  ASSUME NEW J, NEW f \in [J -> Nat], NEW some \in SUBSET J, IsFiniteSet(Slots(f, J))
  PROVE  /\ IsFiniteSet(Slots(f, some)) /\ Cardinality(Slots(f, some)) \in Nat
         /\ Cardinality(Slots(f, some)) <= Cardinality(Slots(f, J))
<1>1. Slots(f, some) \subseteq Slots(f, J)
  BY SlotsElement
<1> QED
  BY <1>1, FS_Subset, FS_CardinalityType

\* One more turn of a job is one more slot of the sets that hold the job.
LEMMA SlotsMore ==
  ASSUME NEW J, NEW f \in [J -> Nat], NEW some \in SUBSET J, NEW j \in J,
         IsFiniteSet(Slots(f, J)),
         NEW g \in [J -> Nat], g[j] = f[j] + 1, \A i \in J \ {j} : g[i] = f[i]
  PROVE  /\ IsFiniteSet(Slots(g, some))
         /\ j \in some => Cardinality(Slots(g, some)) = Cardinality(Slots(f, some)) + 1
         /\ j \notin some => Cardinality(Slots(g, some)) = Cardinality(Slots(f, some))
<1>1. IsFiniteSet(Slots(f, some)) /\ Cardinality(Slots(f, some)) \in Nat
  BY SlotsSubset
<1>2. g[j] = f[j] + 1 /\ f[j] \in Nat /\ \A i \in J \ {j} : g[i] = f[i]
  OBVIOUS
<1>3. CASE j \in some
  <2> DEFINE new == <<j, f[j] + 1>>
  <2>1. ASSUME NEW x \in Slots(g, some) PROVE x \in Slots(f, some) \union {new}
    <3>1. \E i \in some : \E n \in 1 .. g[i] : x = <<i, n>>
      BY <2>1, SlotsElement
    <3>2. PICK i \in some : \E n \in 1 .. g[i] : x = <<i, n>>
      BY <3>1
    <3>3. PICK n \in 1 .. g[i] : x = <<i, n>>
      BY <3>2
    <3>4. n \in 1 .. f[i] \/ (i = j /\ n = f[j] + 1)
      BY <1>2, <3>3
    <3>5. n \in 1 .. f[i] => <<i, n>> \in Slots(f, some)
      BY SlotOf
    <3> QED
      BY <3>3, <3>4, <3>5
  <2>2. ASSUME NEW x \in Slots(f, some) PROVE x \in Slots(g, some)
    <3>1. \E i \in some : \E n \in 1 .. f[i] : x = <<i, n>>
      BY <2>2, SlotsElement
    <3>2. PICK i \in some : \E n \in 1 .. f[i] : x = <<i, n>>
      BY <3>1
    <3>3. PICK n \in 1 .. f[i] : x = <<i, n>>
      BY <3>2
    <3>4. n \in 1 .. g[i]
      BY <1>2, <3>3
    <3> QED
      BY <3>3, <3>4, SlotOf
  <2>3. new \in Slots(g, some)
    <3>1. f[j] + 1 \in 1 .. g[j]
      BY <1>2
    <3> QED
      BY <1>3, <3>1, SlotOf
  <2>4. new \notin Slots(f, some)
    <3>1. f[j] + 1 \notin 1 .. f[j]
      BY <1>2
    <3> QED
      BY <3>1, SlotOf
  <2> HIDE DEF new
  <2>5. Slots(g, some) = Slots(f, some) \union {new}
    BY <2>1, <2>2, <2>3
  <2>6. /\ IsFiniteSet(Slots(f, some) \union {new})
        /\ Cardinality(Slots(f, some) \union {new}) = Cardinality(Slots(f, some)) + 1
    BY <1>1, <2>4, FS_AddElement
  <2> QED
    BY <1>3, <2>5, <2>6
<1>4. CASE j \notin some
  <2>1. \A i \in some : g[i] = f[i]
    BY <1>2, <1>4
  <2>2. Slots(g, some) = Slots(f, some)
    BY <2>1 DEF Slots
  <2> QED
    BY <1>1, <1>4, <2>2
<1> QED
  BY <1>3, <1>4

\* One turn less is one slot less.
LEMMA SlotsFewer ==
  ASSUME NEW J, NEW f \in [J -> Nat], NEW some \in SUBSET J, NEW j \in J,
         IsFiniteSet(Slots(f, J)),
         NEW g \in [J -> Nat], f[j] = g[j] + 1, \A i \in J \ {j} : g[i] = f[i]
  PROVE  /\ IsFiniteSet(Slots(g, some)) /\ Cardinality(Slots(g, some)) \in Nat
         /\ j \in some => Cardinality(Slots(f, some)) = Cardinality(Slots(g, some)) + 1
         /\ j \notin some => Cardinality(Slots(f, some)) = Cardinality(Slots(g, some))
<1>1. g[j] \in Nat /\ f[j] = g[j] + 1
  OBVIOUS
<1>3. ASSUME NEW x \in Slots(g, J) PROVE x \in Slots(f, J)
  <2>1. \E i \in J : \E n \in 1 .. g[i] : x = <<i, n>>
    BY <1>3, SlotsElement
  <2>2. PICK i \in J : \E n \in 1 .. g[i] : x = <<i, n>>
    BY <2>1
  <2>3. PICK n \in 1 .. g[i] : x = <<i, n>>
    BY <2>2
  <2>4. n \in 1 .. f[i]
    BY <1>1, <2>3
  <2> QED
    BY <2>3, <2>4, SlotOf
<1>4. IsFiniteSet(Slots(g, J))
  BY <1>3, FS_Subset
<1>5. IsFiniteSet(Slots(g, some)) /\ Cardinality(Slots(g, some)) \in Nat
  BY <1>4, SlotsSubset
<1>6. /\ j \in some => Cardinality(Slots(f, some)) = Cardinality(Slots(g, some)) + 1
      /\ j \notin some => Cardinality(Slots(f, some)) = Cardinality(Slots(g, some))
  BY <1>4, SlotsMore
<1> QED
  BY <1>5, <1>6

\* Nobody's turns fill no slot.
LEMMA SlotsNone ==
  ASSUME NEW J, NEW some \in SUBSET J
  PROVE  IsFiniteSet(Slots([j \in J |-> 0], some)) /\ Cardinality(Slots([j \in J |-> 0], some)) = 0
<1>1. Slots([j \in J |-> 0], some) = {}
  BY DEF Slots
<1> QED
  BY <1>1, FS_EmptySet

\* Only the jobs that have turns count.
LEMMA SlotsSame ==
  ASSUME NEW J, NEW f \in [J -> Nat], NEW some \in SUBSET J, NEW other \in SUBSET J,
         \A j \in J : f[j] > 0 => (j \in some <=> j \in other)
  PROVE  Slots(f, some) = Slots(f, other)
<1>1. \A j \in J : f[j] \in Nat
  OBVIOUS
<1>2. ASSUME NEW A \in SUBSET J, NEW B \in SUBSET J,
             \A j \in J : f[j] > 0 /\ j \in A => j \in B, NEW x \in Slots(f, A)
      PROVE  x \in Slots(f, B)
  <2>1. \E j \in A : \E n \in 1 .. f[j] : x = <<j, n>>
    BY <1>2, SlotsElement
  <2>2. PICK j \in A : \E n \in 1 .. f[j] : x = <<j, n>>
    BY <2>1
  <2>3. PICK n \in 1 .. f[j] : x = <<j, n>>
    BY <2>2
  <2>4. j \in J /\ f[j] > 0
    BY <1>1, <2>3
  <2>5. j \in B
    BY <1>2, <2>4
  <2> QED
    BY <2>3, <2>5, SlotOf
<1>3. \A x \in Slots(f, some) : x \in Slots(f, other)
  BY <1>2
<1>4. \A x \in Slots(f, other) : x \in Slots(f, some)
  BY <1>2
<1> QED
  BY <1>3, <1>4
-----------------------------------------------------------------------------
(* The counters of a pool *)

\* An empty pool counts nothing.
LEMMA PoolEmpty ==
  ASSUME NEW q PROVE PoolAt(NoTasks, q, 0, NobodyServed)
<1>1. 0 <= MaxConcurrentRooms
  BY RoomQueueAssumption
<1>2. \A some \in SUBSET Jobs : IsFiniteSet(Slots(NoTasks, some)) /\ Cardinality(Slots(NoTasks, some)) = 0
  BY SlotsNone DEF NoTasks
<1> QED
  BY <1>1, <1>2 DEF PoolAt, NobodyServed

\* The counters stay right while the jobs of the pool keep their rooms.
LEMMA PoolSame ==
  ASSUME NEW f \in [Jobs -> Nat], NEW q, NEW p, NEW global, NEW room, PoolAt(f, q, global, room),
         \A j \in Jobs : f[j] > 0 => p[j].room = q[j].room
  PROVE  PoolAt(f, p, global, room)
<1>1. ASSUME NEW r \in Rooms
      PROVE  Slots(f, {j \in Jobs : p[j].room = r}) = Slots(f, {j \in Jobs : q[j].room = r})
  BY SlotsSame
<1> QED
  BY <1>1 DEF PoolAt

\* A turn that starts takes one global slot and one of its room.
LEMMA PoolStarts ==
  ASSUME NEW f \in [Jobs -> Nat], NEW q, NEW global \in Nat, NEW room \in [Rooms -> Nat],
         PoolAt(f, q, global, room), global < MaxConcurrentRooms,
         NEW j \in Jobs, NEW its \in Rooms, q[j].room = its,
         NEW g \in [Jobs -> Nat], g[j] = f[j] + 1, \A i \in Jobs \ {j} : g[i] = f[i]
  PROVE  PoolAt(g, q, global + 1, [room EXCEPT ![its] = @ + 1])
<1> DEFINE in(r) == {i \in Jobs : q[i].room = r}
<1>0. MaxConcurrentRooms \in Nat
  BY RoomQueueAssumption
<1>1. /\ IsFiniteSet(Slots(f, Jobs)) /\ global = Cardinality(Slots(f, Jobs))
      /\ \A r \in Rooms : room[r] = Cardinality(Slots(f, in(r)))
  BY DEF PoolAt
<1>2. IsFiniteSet(Slots(g, Jobs)) /\ Cardinality(Slots(g, Jobs)) = global + 1
  BY <1>1, SlotsMore
<1>3. ASSUME NEW r \in Rooms
      PROVE  [room EXCEPT ![its] = @ + 1][r] = Cardinality(Slots(g, in(r)))
  <2>1. /\ j \in in(r) => Cardinality(Slots(g, in(r))) = Cardinality(Slots(f, in(r))) + 1
        /\ j \notin in(r) => Cardinality(Slots(g, in(r))) = Cardinality(Slots(f, in(r)))
    <3>1. in(r) \in SUBSET Jobs
      OBVIOUS
    <3> HIDE DEF in
    <3> QED
      BY <1>1, <3>1, SlotsMore
  <2>2. j \in in(r) <=> q[j].room = r
    OBVIOUS
  <2> QED
    BY <1>1, <2>1, <2>2
<1> QED
  BY <1>0, <1>2, <1>3 DEF PoolAt

\* One turn of a job less.
OneLess(f, g, j) == f[j] = g[j] + 1 /\ \A i \in Jobs \ {j} : g[i] = f[i]

\* A turn that ends gives both slots back, and both were taken.
LEMMA PoolReleases ==
  ASSUME NEW f \in [Jobs -> Nat], NEW q, NEW global \in Nat, NEW room \in [Rooms -> Nat],
         PoolAt(f, q, global, room), NEW j \in Jobs, q[j].room \in Rooms,
         NEW g \in [Jobs -> Nat], OneLess(f, g, j)
  PROVE  /\ global > 0 /\ room[q[j].room] > 0
         /\ PoolAt(g, q, global - 1, [room EXCEPT ![q[j].room] = @ - 1])
<1> DEFINE in(r) == {i \in Jobs : q[i].room = r}
<1>1. PICK its \in Rooms : its = q[j].room
  OBVIOUS
<1>2. f[j] = g[j] + 1 /\ \A i \in Jobs \ {j} : g[i] = f[i]
  BY DEF OneLess
<1>3. MaxConcurrentRooms \in Nat
  BY RoomQueueAssumption
<1>4. /\ IsFiniteSet(Slots(f, Jobs)) /\ global = Cardinality(Slots(f, Jobs))
      /\ global <= MaxConcurrentRooms
      /\ \A r \in Rooms : room[r] = Cardinality(Slots(f, in(r)))
  BY DEF PoolAt
<1>5. /\ IsFiniteSet(Slots(g, Jobs)) /\ Cardinality(Slots(g, Jobs)) \in Nat
      /\ Cardinality(Slots(g, Jobs)) + 1 = global
  BY <1>2, <1>4, SlotsFewer
<1>6. ASSUME NEW r \in Rooms
      PROVE  /\ [room EXCEPT ![its] = @ - 1][r] = Cardinality(Slots(g, in(r)))
             /\ r = its => room[r] > 0
  <2>1. /\ Cardinality(Slots(g, in(r))) \in Nat
        /\ j \in in(r) => Cardinality(Slots(f, in(r))) = Cardinality(Slots(g, in(r))) + 1
        /\ j \notin in(r) => Cardinality(Slots(f, in(r))) = Cardinality(Slots(g, in(r)))
    <3>1. in(r) \in SUBSET Jobs
      OBVIOUS
    <3> HIDE DEF in
    <3> QED
      BY <1>2, <1>4, <3>1, SlotsFewer
  <2>2. j \in in(r) <=> q[j].room = r
    OBVIOUS
  <2> HIDE DEF in
  <2> QED
    BY <1>1, <1>4, <2>1, <2>2
<1>7. global - 1 = Cardinality(Slots(g, Jobs)) /\ global - 1 <= MaxConcurrentRooms
  BY <1>3, <1>4, <1>5
<1>8. global > 0
  BY <1>5
<1>9. room[its] > 0
  BY <1>6
<1> QED
  BY <1>1, <1>5, <1>6, <1>7, <1>8, <1>9 DEF PoolAt
-----------------------------------------------------------------------------
(* What a lane does *)

\* A table that grows: nothing inserted or leased is undone.
Grows(q, p) ==
  \A j \in Jobs : q[j].status # "absent" =>
    /\ p[j].status # "absent" /\ p[j].room = q[j].room
    /\ q[j].attempts > 0 => p[j].attempts > 0

\* A table that keeps its jobs grows.
LEMMA KeepsGrows ==
  ASSUME NEW q, NEW p, Keeps(q, p) PROVE Grows(q, p)
BY DEF Keeps, Grows, SameJob

LanesInv == LanesTyped /\ LanesOK /\ PoolOK

\* The lanes rest on nothing of the job table but its growth.
LEMMA LanesStay ==
  ASSUME LanesInv, Grows(jobs, jobs'), UNCHANGED laneVars
  PROVE  LanesInv'
<1>1. LanesTyped'
  BY DEF LanesInv, LanesTyped, laneVars, drainVars
<1>2. LanesOK'
  BY DEF LanesInv, LanesOK, Begun, Grows, laneVars, drainVars
<1>3. ASSUME NEW d \in Drains
      PROVE  PoolAt(tasks[d], jobs', globalActive[d], roomActive[d])
  <2>1. tasks[d] \in [Jobs -> Nat]
    BY DEF LanesInv, LanesTyped, Lanes
  <2>2. \A j \in Jobs : tasks[d][j] > 0 => jobs'[j].room = jobs[j].room
    BY DEF LanesInv, LanesOK, Begun, Grows, Lanes
  <2> QED
    BY <2>1, <2>2, PoolSame DEF LanesInv, PoolOK
<1> QED
  BY <1>1, <1>2, <1>3 DEF LanesInv, PoolOK, laneVars, drainVars

\* A lane other than the drain keeps its part of the pool's account.
LEMMA PoolGrows ==
  ASSUME LanesInv, Grows(jobs, jobs'), NEW d \in Drains
  PROVE  PoolAt(tasks[d], jobs', globalActive[d], roomActive[d])
<1>1. tasks[d] \in [Jobs -> Nat]
  BY DEF LanesInv, LanesTyped, Lanes
<1>2. \A j \in Jobs : tasks[d][j] > 0 => jobs'[j].room = jobs[j].room
  BY DEF LanesInv, LanesOK, Begun, Grows, Lanes
<1> QED
  BY <1>1, <1>2, PoolSame DEF LanesInv, PoolOK

\* The empty pick, pool and rooms are typed.
LEMMA NoPickTyped ==
  NoPick \in [job : Jobs \union {0}, attempts : Nat] /\ NoTasks \in [Jobs -> Nat]
  /\ NobodyServed \in [Rooms -> Nat]
BY DEF NoPick, NoTasks, NobodyServed

\* A lane that is lost takes its turns, its pick and its counters with it.
LEMMA LaneLost ==
  ASSUME LanesInv, Grows(jobs, jobs'), NEW l \in Lanes, LoseLane(l)
  PROVE  LanesInv' /\ tasks' = [tasks EXCEPT ![l] = NoTasks]
<1>1. LanesTyped'
  <2>1. tasks' \in [Lanes -> [Jobs -> Nat]] /\ pick' \in [Lanes -> [job : Jobs \union {0}, attempts : Nat]]
    BY NoPickTyped DEF LanesInv, LanesTyped, LoseLane
  <2>2. CASE l \in Drains
    <3>1. phase' = [phase EXCEPT ![l] = "idle"] /\ phase' \in [Drains -> Phases]
      BY <2>2 DEF LanesInv, LanesTyped, LoseLane, Phases
    <3>2. served' \in [Drains -> [Rooms -> Nat]] /\ roomActive' \in [Drains -> [Rooms -> Nat]]
      BY <2>2, NoPickTyped DEF LanesInv, LanesTyped, LoseLane
    <3>3. scheduled' = [scheduled EXCEPT ![l] = 0] /\ globalActive' = [globalActive EXCEPT ![l] = 0]
      BY <2>2 DEF LoseLane
    <3>4. scheduled' \in [Drains -> Nat]
      BY <3>3 DEF LanesInv, LanesTyped
    <3>5. globalActive' \in [Drains -> Nat]
      BY <3>3 DEF LanesInv, LanesTyped
    <3> QED
      BY <2>1, <3>1, <3>2, <3>4, <3>5 DEF LanesTyped
  <2>3. CASE l \notin Drains
    BY <2>1, <2>3 DEF LanesInv, LanesTyped, LoseLane, drainVars
  <2> QED
    BY <2>2, <2>3
<1>2. LanesOK'
  <2>1. \A m \in Lanes, j \in Jobs : tasks'[m][j] > 0 => tasks[m][j] > 0
    BY DEF LanesInv, LanesTyped, LoseLane, NoTasks
  <2>2. \A m \in Lanes : pick'[m] # NoPick =>
          m # l /\ pick'[m] = pick[m]
          /\ (m \in Drains => phase'[m] = phase[m] /\ globalActive'[m] = globalActive[m])
    BY DEF LanesInv, LanesTyped, LoseLane, drainVars
  <2> QED
    BY <2>1, <2>2 DEF LanesInv, LanesOK, Begun, Grows
<1>3. ASSUME NEW d \in Drains
      PROVE  PoolAt(tasks'[d], jobs', globalActive'[d], roomActive'[d])
  <2>1. CASE d = l
    <3>1. tasks'[d] = NoTasks /\ globalActive'[d] = 0 /\ roomActive'[d] = NobodyServed
      BY <2>1 DEF LanesInv, LanesTyped, LoseLane
    <3> QED
      BY <3>1, PoolEmpty
  <2>2. CASE d # l
    <3>1. tasks'[d] = tasks[d] /\ globalActive'[d] = globalActive[d] /\ roomActive'[d] = roomActive[d]
      BY <2>2 DEF LanesInv, LanesTyped, LoseLane, drainVars, Lanes
    <3> QED
      BY <3>1, PoolGrows
  <2> QED
    BY <2>1, <2>2
<1> QED
  BY <1>1, <1>2, <1>3 DEF LanesInv, PoolOK, LoseLane

\* A turn starts in a lane whose job is in the table as a leased one.
LEMMA DrainStarts ==
  ASSUME LanesInv, Grows(jobs, jobs'), NEW d \in Drains, NEW j \in Jobs,
         jobs[j].status # "absent", jobs[j].room \in Rooms, Begun(jobs'[j]),
         globalActive[d] < MaxConcurrentRooms,
         PoolAccepts(d, jobs[j].room), Dispatch(d, j, jobs[j].room)
  PROVE  LanesInv' /\ tasks' = [tasks EXCEPT ![d][j] = @ + 1]
<1> DEFINE r == jobs[j].room
<1>0. d \in Lanes /\ r \in Rooms
  BY DEF Lanes
<1>1. /\ tasks' = [tasks EXCEPT ![d][j] = @ + 1]
      /\ pick' = [pick EXCEPT ![d] = NoPick]
      /\ served' = [served EXCEPT ![d][r] = @ + 1]
      /\ scheduled' = [scheduled EXCEPT ![d] = @ + 1]
      /\ roomActive' = [roomActive EXCEPT ![d][r] = @ + 1]
      /\ globalActive' = [globalActive EXCEPT ![d] = @ + 1]
      /\ phase' = phase
  BY DEF Dispatch, StartTask
<1> HIDE DEF r
<1>2. /\ tasks[d] \in [Jobs -> Nat] /\ served[d] \in [Rooms -> Nat]
      /\ roomActive[d] \in [Rooms -> Nat] /\ scheduled[d] \in Nat /\ globalActive[d] \in Nat
  BY <1>0 DEF LanesInv, LanesTyped
<1>3. LanesTyped'
  <2>1. tasks' \in [Lanes -> [Jobs -> Nat]]
    BY <1>0, <1>1 DEF LanesInv, LanesTyped
  <2>2. pick' \in [Lanes -> [job : Jobs \union {0}, attempts : Nat]]
    BY <1>0, <1>1, NoPickTyped DEF LanesInv, LanesTyped
  <2>3. served' \in [Drains -> [Rooms -> Nat]]
    BY <1>0, <1>1 DEF LanesInv, LanesTyped
  <2>4. roomActive' \in [Drains -> [Rooms -> Nat]]
    BY <1>0, <1>1 DEF LanesInv, LanesTyped
  <2>5. scheduled' \in [Drains -> Nat] /\ globalActive' \in [Drains -> Nat] /\ phase' \in [Drains -> Phases]
    BY <1>1 DEF LanesInv, LanesTyped
  <2> QED
    BY <2>1, <2>2, <2>3, <2>4, <2>5 DEF LanesTyped
<1>4. LanesOK'
  <2>1. \A m \in Lanes, i \in Jobs : tasks'[m][i] > 0 => tasks[m][i] > 0 \/ i = j
    BY <1>0, <1>1 DEF LanesInv, LanesTyped
  <2>2. \A m \in Lanes : pick'[m] # NoPick =>
          m # d /\ pick'[m] = pick[m]
          /\ (m \in Drains => phase'[m] = phase[m] /\ globalActive'[m] = globalActive[m])
    BY <1>0, <1>1 DEF LanesInv, LanesTyped
  <2> QED
    BY <2>1, <2>2 DEF LanesInv, LanesOK, Begun, Grows
<1>5. ASSUME NEW e \in Drains
      PROVE  PoolAt(tasks'[e], jobs', globalActive'[e], roomActive'[e])
  <2>0. PoolAt(tasks[e], jobs', globalActive[e], roomActive[e]) /\ e \in Lanes
    BY PoolGrows DEF Lanes
  <2>1. CASE e = d
    <3>1. /\ tasks'[d] \in [Jobs -> Nat] /\ tasks'[d][j] = tasks[d][j] + 1
          /\ \A i \in Jobs \ {j} : tasks'[d][i] = tasks[d][i]
      BY <1>0, <1>1, <1>2 DEF LanesInv, LanesTyped
    <3>2. globalActive'[d] = globalActive[d] + 1 /\ roomActive'[d] = [roomActive[d] EXCEPT ![r] = @ + 1]
      BY <1>1, <1>2 DEF LanesInv, LanesTyped
    <3>3. jobs'[j].room = r
      BY DEF Grows, r
    <3>4. PoolAt(tasks'[d], jobs', globalActive[d] + 1, [roomActive[d] EXCEPT ![r] = @ + 1])
      BY <1>0, <1>2, <2>0, <2>1, <3>1, <3>3, PoolStarts
    <3> QED
      BY <2>1, <3>2, <3>4
  <2>2. CASE e # d
    <3>1. tasks'[e] = tasks[e] /\ globalActive'[e] = globalActive[e] /\ roomActive'[e] = roomActive[e]
      BY <1>1, <2>0, <2>2 DEF LanesInv, LanesTyped
    <3> QED
      BY <2>0, <3>1
  <2> QED
    BY <2>1, <2>2
<1> QED
  BY <1>1, <1>3, <1>4, <1>5 DEF LanesInv, PoolOK

\* A turn that the server starts outside a drain keeps the lanes consistent.
LEMMA ServerStarts ==
  ASSUME LanesInv, Grows(jobs, jobs'), NEW j \in Jobs, Begun(jobs'[j]),
         StartTask(Server, j), UNCHANGED drainVars,
         pick' = pick \/ pick' = [pick EXCEPT ![Server] = NoPick]
  PROVE  LanesInv'
<1>0. Server \in Lanes /\ Server \notin Drains
  BY RoomQueueAssumption DEF Lanes
<1>1. LanesTyped'
  <2>1. tasks' \in [Lanes -> [Jobs -> Nat]]
    BY <1>0 DEF LanesInv, LanesTyped, StartTask
  <2>2. pick' \in [Lanes -> [job : Jobs \union {0}, attempts : Nat]]
    BY <1>0, NoPickTyped DEF LanesInv, LanesTyped
  <2> QED
    BY <2>1, <2>2 DEF LanesInv, LanesTyped, drainVars
<1>2. LanesOK'
  <2>1. \A m \in Lanes, i \in Jobs : tasks'[m][i] > 0 => tasks[m][i] > 0 \/ i = j
    BY <1>0 DEF LanesInv, LanesTyped, StartTask
  <2>2. \A m \in Lanes : pick'[m] # NoPick => pick'[m] = pick[m]
    BY <1>0 DEF LanesInv, LanesTyped
  <2> QED
    BY <2>1, <2>2 DEF LanesInv, LanesOK, Begun, Grows, drainVars
<1>3. ASSUME NEW e \in Drains
      PROVE  PoolAt(tasks'[e], jobs', globalActive'[e], roomActive'[e])
  <2>1. tasks'[e] = tasks[e] /\ globalActive'[e] = globalActive[e] /\ roomActive'[e] = roomActive[e]
    BY <1>0 DEF LanesInv, LanesTyped, StartTask, drainVars, Lanes
  <2> QED
    BY <2>1, PoolGrows
<1> QED
  BY <1>1, <1>2, <1>3 DEF LanesInv, PoolOK

\* A turn ends and its lane goes on: of a drain, the pool's slot is released.
LEMMA TurnReleases ==
  ASSUME LanesInv, Grows(jobs, jobs'), NEW l \in Lanes, NEW j \in Jobs, tasks[l][j] > 0,
         jobs[j].room \in Rooms, pick[l] = NoPick,
         tasks' = [tasks EXCEPT ![l][j] = @ - 1], pick' = pick,
         ReleaseSlot(l, jobs[j].room)
  PROVE  LanesInv'
<1> DEFINE r == jobs[j].room
<1>0. r \in Rooms
  OBVIOUS
<1>1. /\ tasks[l] \in [Jobs -> Nat] /\ tasks[l][j] - 1 \in Nat
      /\ tasks'[l] \in [Jobs -> Nat] /\ tasks[l][j] = tasks'[l][j] + 1
      /\ \A i \in Jobs \ {j} : tasks'[l][i] = tasks[l][i]
  BY DEF LanesInv, LanesTyped
<1>2. CASE l \in Drains
  <2>0. PoolAt(tasks[l], jobs', globalActive[l], roomActive[l])
    BY <1>2, PoolGrows
  <2>1. roomActive[l] \in [Rooms -> Nat] /\ globalActive[l] \in Nat
    BY <1>2 DEF LanesInv, LanesTyped
  <2>2. jobs'[j].room = r
    BY DEF Grows, LanesInv, LanesOK, Begun
  <2>3. /\ globalActive[l] > 0 /\ roomActive[l][r] > 0
        /\ PoolAt(tasks'[l], jobs', globalActive[l] - 1, [roomActive[l] EXCEPT ![r] = @ - 1])
    <3>1. PICK f, g, q, global, room :
            /\ f = tasks[l] /\ g = tasks'[l] /\ q = jobs'
            /\ global = globalActive[l] /\ room = roomActive[l]
      OBVIOUS
    <3>2. /\ f \in [Jobs -> Nat] /\ g \in [Jobs -> Nat] /\ OneLess(f, g, j)
          /\ global \in Nat /\ room \in [Rooms -> Nat]
      BY <1>1, <2>1, <3>1 DEF OneLess
    <3>3. PoolAt(f, q, global, room) /\ q[j].room = r
      BY <2>0, <2>2, <3>1
    <3> HIDE DEF r
    <3>4. /\ global > 0 /\ room[r] > 0
          /\ PoolAt(g, q, global - 1, [room EXCEPT ![r] = @ - 1])
      BY <1>0, <3>2, <3>3, PoolReleases
    <3> QED
      BY <3>1, <3>4
  <2>4. /\ roomActive' = [roomActive EXCEPT ![l] = [roomActive[l] EXCEPT ![r] = @ - 1]]
        /\ globalActive' = [globalActive EXCEPT ![l] = @ - 1]
        /\ phase' = [phase EXCEPT ![l] = "filling"]
        /\ served' = served /\ scheduled' = scheduled
    BY <1>0, <1>2, <2>1, <2>3 DEF LanesInv, LanesTyped, ReleaseSlot
  <2> HIDE DEF r
  <2>5. LanesTyped'
    <3>0. [roomActive[l] EXCEPT ![r] = @ - 1] \in [Rooms -> Nat] /\ globalActive[l] - 1 \in Nat
      <4>1. roomActive[l][r] - 1 \in Nat /\ globalActive[l] - 1 \in Nat
        BY <1>0, <2>1, <2>3
      <4> QED
        BY <2>1, <4>1
    <3>1. roomActive' \in [Drains -> [Rooms -> Nat]]
      BY <2>4, <3>0 DEF LanesInv, LanesTyped
    <3>2. globalActive' \in [Drains -> Nat]
      BY <2>4, <3>0 DEF LanesInv, LanesTyped
    <3>3. phase' \in [Drains -> Phases]
      BY <2>4 DEF LanesInv, LanesTyped, Phases
    <3>4. tasks' \in [Lanes -> [Jobs -> Nat]]
      BY <1>1 DEF LanesInv, LanesTyped
    <3> QED
      BY <2>4, <3>1, <3>2, <3>3, <3>4 DEF LanesInv, LanesTyped
  <2>6. LanesOK'
    <3>1. \A m \in Lanes, i \in Jobs : tasks'[m][i] > 0 => tasks[m][i] > 0
      BY <1>1 DEF LanesInv, LanesTyped
    <3>2. \A m \in Lanes : pick'[m] # NoPick =>
            m # l /\ pick'[m] = pick[m]
            /\ (m \in Drains => phase'[m] = phase[m] /\ globalActive'[m] = globalActive[m])
      BY <2>4 DEF LanesInv, LanesTyped
    <3> QED
      BY <3>1, <3>2 DEF LanesInv, LanesOK, Begun, Grows
  <2>7. ASSUME NEW e \in Drains
        PROVE  PoolAt(tasks'[e], jobs', globalActive'[e], roomActive'[e])
    <3>1. CASE e = l
      <4>1. globalActive'[l] = globalActive[l] - 1 /\ roomActive'[l] = [roomActive[l] EXCEPT ![r] = @ - 1]
        BY <1>2, <2>4 DEF LanesInv, LanesTyped
      <4> QED
        BY <2>3, <3>1, <4>1
    <3>2. CASE e # l
      <4>1. tasks'[e] = tasks[e] /\ globalActive'[e] = globalActive[e] /\ roomActive'[e] = roomActive[e]
        BY <2>4, <3>2 DEF LanesInv, LanesTyped, Lanes
      <4> QED
        BY <4>1, PoolGrows
    <3> QED
      BY <3>1, <3>2
  <2> QED
    BY <2>5, <2>6, <2>7 DEF LanesInv, PoolOK
<1>3. CASE l \notin Drains
  <2>1. UNCHANGED drainVars
    BY <1>3 DEF ReleaseSlot
  <2>2. LanesTyped'
    <3>1. tasks' \in [Lanes -> [Jobs -> Nat]]
      BY <1>1 DEF LanesInv, LanesTyped
    <3> QED
      BY <2>1, <3>1 DEF LanesInv, LanesTyped, drainVars
  <2>3. LanesOK'
    <3>1. \A m \in Lanes, i \in Jobs : tasks'[m][i] > 0 => tasks[m][i] > 0
      BY <1>1 DEF LanesInv, LanesTyped
    <3> QED
      BY <2>1, <3>1 DEF LanesInv, LanesOK, Begun, Grows, drainVars
  <2>4. ASSUME NEW e \in Drains
        PROVE  PoolAt(tasks'[e], jobs', globalActive'[e], roomActive'[e])
    <3>1. tasks'[e] = tasks[e] /\ globalActive'[e] = globalActive[e] /\ roomActive'[e] = roomActive[e]
      BY <1>3, <2>1 DEF LanesInv, LanesTyped, drainVars, Lanes
    <3> QED
      BY <3>1, PoolGrows
  <2> QED
    BY <2>2, <2>3, <2>4 DEF LanesInv, PoolOK
<1> QED
  BY <1>2, <1>3
-----------------------------------------------------------------------------
(* One lease at a time, and turns that hold theirs *)

\* Turns end, and those that go on keep their lease.
LEMMA HoldsOn ==
  ASSUME LanesTyped, TurnsHold,
         \A l \in Lanes, j \in Jobs : tasks'[l][j] \in {0, tasks[l][j]},
         \A l \in Lanes, j \in Jobs : tasks'[l][j] > 0 =>
           jobs'[j].status = "leased" /\ jobs'[j].leaseExpiresAt > clock'
  PROVE  TurnsHold'
<1> SUFFICES ASSUME NEW l \in Lanes, NEW j \in Jobs, tasks'[l][j] > 0 PROVE Holds(l, j)'
  BY DEF TurnsHold
<1>1. tasks'[l][j] = tasks[l][j] /\ tasks[l][j] > 0
  OBVIOUS
<1>2. tasks[l][j] = 1 /\ \A m \in Lanes \ {l} : tasks[m][j] = 0
  BY <1>1 DEF TurnsHold, Holds
<1>3. \A m \in Lanes \ {l} : tasks'[m][j] = 0
  BY <1>2
<1> QED
  BY <1>1, <1>2, <1>3 DEF Holds

\* A job that a turn holds is not swept.
LEMMA SweptKeepsHeld ==
  ASSUME IInv, AtomicLease, TimelyTurns, NEW l \in Lanes, NEW j \in Jobs, tasks[l][j] > 0
  PROVE  /\ Swept[j] = jobs[j] /\ jobs[j].status = "leased"
         /\ jobs[j].leaseExpiresAt > clock
<1>1. jobs[j].status = "leased" /\ jobs[j].leaseExpiresAt > clock
  BY DEF IInv, TurnsHold, Holds
<1>2. jobs[j] \in JobRow(Rooms) /\ clock \in Nat /\ TableOK(jobs)
  BY DEF IInv, CountsTyped, TableOK
<1>3. ~ (jobs[j].leaseExpiresAt <= clock)
  BY <1>1, <1>2 DEF JobRow
<1> QED
  BY <1>1, <1>2, <1>3, SweepKeeps

\* A lease of the row selected, with no other lane in between.
LEMMA LeaseInOrder ==
  ASSUME IInv, AtomicLease, NEW counts, NEW j \in NextCandidates(Swept, clock, counts),
         jobs' = LeaseJob(Swept, j, Swept[j].attempts, clock)
  PROVE  /\ j \in Jobs /\ Swept[j].status = "queued" /\ jobs[j].status # "absent"
         /\ jobs[j].room \in Rooms
         /\ TableOK(jobs') /\ LeasedFirst(jobs') /\ Grows(jobs, jobs') /\ Begun(jobs'[j])
         /\ jobs'[j].status = "leased" /\ jobs'[j].leaseExpiresAt > clock
         /\ jobs'[j].attempts = jobs[j].attempts + 1
         /\ \A i \in Jobs \ {j} : jobs'[i] = Swept[i]
<1> DEFINE p == LeaseJob(Swept, j, Swept[j].attempts, clock)
<1>1. TableOK(jobs) /\ clock \in Nat /\ LeasedFirst(jobs)
  BY DEF IInv, CountsTyped
<1>2. /\ TableOK(Swept) /\ Keeps(jobs, Swept) /\ LeasedFirst(Swept)
      /\ \A i \in Jobs : Swept[i].attempts = jobs[i].attempts
  BY <1>1, SweepKeeps
<1>3. Swept \in [Jobs -> JobRow(Rooms)]
  BY <1>2 DEF TableOK
<1>4. /\ j \in Jobs /\ Swept[j].status = "queued"
      /\ \A i \in Jobs : Swept[i].room = Swept[j].room /\ Swept[i].status \in Active
                           => Swept[i].seq >= Swept[j].seq
  BY <1>1, <1>3, CandidateIsFirst
<1>5. Swept[j].attempts \in Nat /\ \A i \in Jobs : Swept[i].seq \in Nat
  BY <1>3, <1>4 DEF JobRow
<1>6. TableOK(p) /\ Keeps(Swept, p)
  BY <1>1, <1>2, <1>4, <1>5, LeaseKeeps
<1>7. /\ p[j].status = "leased" /\ p[j].attempts = Swept[j].attempts + 1
      /\ p[j].leaseExpiresAt > clock /\ SameJob(p[j], Swept[j])
      /\ \A i \in Jobs \ {j} : p[i] = Swept[i]
  BY <1>1, <1>3, <1>4, <1>5, LeaseJobRows
<1> HIDE DEF p
<1>8. LeasedFirst(p)
  <2> SUFFICES ASSUME NEW a \in Jobs, NEW b \in Jobs, a # b, p[a].room = p[b].room,
                      p[a].status = "leased", p[b].status \in Active
               PROVE  p[a].seq < p[b].seq
    BY DEF LeasedFirst
  <2>1. \A i \in Jobs : p[i].room = Swept[i].room /\ p[i].seq = Swept[i].seq
    BY <1>7 DEF SameJob
  <2>2. Swept[a].status \in Active /\ Swept[b].status \in Active
    BY <1>4, <1>7 DEF Active
  <2>3. Swept[a].seq # Swept[b].seq
    BY <1>2, <2>1, <2>2 DEF TableOK, Numbered, Active
  <2>4. CASE a = j
    BY <1>4, <1>5, <2>1, <2>2, <2>3, <2>4
  <2>5. CASE a # j
    <3>1. Swept[a].status = "leased"
      BY <1>7, <2>5
    <3>2. Swept[a].seq < Swept[b].seq
      BY <1>2, <2>1, <2>2, <3>1 DEF LeasedFirst
    <3> QED
      BY <2>1, <3>2
  <2> QED
    BY <2>4, <2>5
<1>9. Grows(jobs, p)
  BY <1>2, <1>6 DEF Keeps, Grows, SameJob
<1>10. jobs[j].status # "absent" /\ jobs[j].room \in Rooms
  BY <1>1, <1>2, <1>4 DEF Keeps, TableOK, RowOK
<1>11. Begun(p[j])
  BY <1>5, <1>7 DEF Begun
<1>12. p[j].attempts = jobs[j].attempts + 1
  BY <1>2, <1>4, <1>7
<1> QED
  BY <1>4, <1>6, <1>7, <1>8, <1>9, <1>10, <1>11, <1>12 DEF p

\* The turn of a job leased in order holds it alone.
LEMMA HoldsLeased ==
  ASSUME IInv, AtomicLease, TimelyTurns, NEW counts, NEW j \in NextCandidates(Swept, clock, counts),
         jobs' = LeaseJob(Swept, j, Swept[j].attempts, clock), NEW l \in Lanes,
         clock' = clock, tasks' = [tasks EXCEPT ![l][j] = @ + 1]
  PROVE  TurnsHold'
<1>1. /\ j \in Jobs /\ Swept[j].status = "queued"
      /\ jobs'[j].status = "leased" /\ jobs'[j].leaseExpiresAt > clock
      /\ \A i \in Jobs \ {j} : jobs'[i] = Swept[i]
  BY LeaseInOrder
<1>2. \A m \in Lanes : tasks[m] \in [Jobs -> Nat]
  BY DEF IInv, LanesTyped
<1>3. \A m \in Lanes : tasks[m][j] = 0
  <2> SUFFICES ASSUME NEW m \in Lanes, tasks[m][j] > 0 PROVE FALSE
    BY <1>1, <1>2
  <2> QED
    BY <1>1, SweptKeepsHeld
<1>4. /\ tasks'[l][j] = 1 /\ \A m \in Lanes \ {l} : tasks'[m][j] = 0
      /\ \A m \in Lanes, i \in Jobs \ {j} : tasks'[m][i] = tasks[m][i]
  BY <1>1, <1>2, <1>3 DEF IInv, LanesTyped
<1> SUFFICES ASSUME NEW m \in Lanes, NEW i \in Jobs, tasks'[m][i] > 0 PROVE Holds(m, i)'
  BY DEF TurnsHold
<1>5. CASE i = j
  <2>1. m = l
    BY <1>4, <1>5
  <2> QED
    BY <1>1, <1>4, <1>5, <2>1 DEF Holds
<1>6. CASE i # j
  <2>1. tasks[m][i] > 0
    BY <1>4, <1>6
  <2>2. jobs'[i].status = "leased" /\ jobs'[i].leaseExpiresAt > clock
    BY <1>1, <1>6, <2>1, SweptKeepsHeld
  <2>3. tasks[m][i] = 1 /\ \A o \in Lanes \ {m} : tasks[o][i] = 0
    BY <2>1 DEF IInv, TurnsHold, Holds
  <2> QED
    BY <1>4, <1>6, <2>2, <2>3 DEF Holds
<1> QED
  BY <1>5, <1>6
-----------------------------------------------------------------------------
(* Init and the steps *)

\* The invariant holds at first.
LEMMA InitInductive ==
  ASSUME Init PROVE IInv
<1>1. CountsTyped /\ LanesTyped
  BY NoPickTyped DEF Init, CountsTyped, LanesTyped, Phases
<1>2. TableOK(jobs)
  BY NoRowIsRow DEF Init, TableOK, RowOK, Numbered, NoRow
<1>3. LanesOK
  BY DEF Init, LanesOK, NoTasks
<1>4. PoolOK
  BY PoolEmpty DEF Init, PoolOK, Lanes
<1>5. LeasedFirst(jobs)
  BY DEF Init, LeasedFirst, NoRow
<1>6. TurnsHold
  BY DEF Init, TurnsHold, NoTasks
<1> QED
  BY <1>1, <1>2, <1>3, <1>4, <1>5, <1>6 DEF IInv

\* An arriving job, queued or leased at once, keeps the invariant.
LEMMA ArriveInductive ==
  ASSUME IInv, NEW j \in Jobs, NEW r \in Rooms, NEW immediate \in BOOLEAN, Arrive(j, r, immediate)
  PROVE  IInv'
<1> DEFINE e == EnqueueJob(jobs, j, r, revision[r] + 1, revision[r] + 1, BasePriority, clock)
           p0 == CancelQueuedBefore(e, r, revision[r] + 1)
<1>1. /\ TableOK(jobs) /\ LanesInv /\ CountsTyped /\ revision[r] + 1 \in Nat /\ clock \in Nat
      /\ BasePriority \in Nat
  BY DEF IInv, LanesInv, CountsTyped, BasePriority
<1>2. PICK rev \in Nat : rev = revision[r] + 1
  BY <1>1
<1>3. /\ e \in [Jobs -> JobRow(Rooms)]
      /\ e[j] = QueuedRow(r, rev, rev, BasePriority, clock)
      /\ \A i \in Jobs \ {j} : e[i] = jobs[i]
  <2>1. e = EnqueueJob(jobs, j, r, rev, rev, BasePriority, clock)
    BY <1>2
  <2> HIDE DEF e
  <2>2. jobs \in [Jobs -> JobRow(Rooms)]
    BY <1>1 DEF TableOK
  <2>3. /\ EnqueueJob(jobs, j, r, rev, rev, BasePriority, clock) \in [Jobs -> JobRow(Rooms)]
        /\ EnqueueJob(jobs, j, r, rev, rev, BasePriority, clock)[j]
             = QueuedRow(r, rev, rev, BasePriority, clock)
        /\ \A i \in Jobs \ {j} :
             EnqueueJob(jobs, j, r, rev, rev, BasePriority, clock)[i] = jobs[i]
    <3> DEFINE row == QueuedRow(r, rev, rev, BasePriority, clock)
    <3>1. row \in JobRow(Rooms)
      BY <1>1, QueuedRowIsRow
    <3>2. EnqueueJob(jobs, j, r, rev, rev, BasePriority, clock) = [jobs EXCEPT ![j] = row]
      BY DEF EnqueueJob
    <3> QED
      BY <2>2, <3>1, <3>2
  <2> QED
    BY <2>1, <2>3
<1>2a. PICK p : p = p0
  OBVIOUS
<1>2b. /\ jobs[j].status = "absent" /\ jobs' = p /\ revision' = [revision EXCEPT ![r] = rev]
      /\ clock' = clock /\ UNCHANGED laneVars
  BY <1>2, <1>2a DEF Arrive
<1>2c. p = CancelQueuedBefore(e, r, rev)
  BY <1>2, <1>2a
<1> HIDE DEF e, p0
<1>4. /\ p \in [Jobs -> JobRow(Rooms)]
      /\ \A i \in Jobs :
           /\ SameJob(p[i], e[i])
           /\ p[i].attempts = e[i].attempts
           /\ p[i].availableAt = e[i].availableAt
           /\ \/ /\ p[i] = e[i]
                 /\ ~ (e[i].status = "queued" /\ e[i].room = r /\ e[i].seq < rev)
              \/ /\ e[i].status = "queued" /\ e[i].room = r /\ e[i].seq < rev
                 /\ p[i].status = "cancelled"
  BY <1>3, <1>2c, CancelQueuedBeforeRows
<1>5. p[j] = e[j]
  BY <1>1, <1>3, <1>4 DEF QueuedRow
<1>6. p[j].room = r /\ p[j].seq = rev /\ p[j].status = "queued" /\ p[j].revision = rev
      /\ p[j].attempts = 0 /\ p[j].availableAt = clock /\ p[j].priority = BasePriority
  BY <1>3, <1>5 DEF QueuedRow
<1>7. \A i \in Jobs \ {j} :
        /\ SameJob(p[i], jobs[i]) /\ p[i].attempts = jobs[i].attempts
        /\ p[i].availableAt = jobs[i].availableAt
        /\ \/ /\ p[i] = jobs[i]
              /\ ~ (jobs[i].status = "queued" /\ jobs[i].room = r /\ jobs[i].seq < rev)
           \/ jobs[i].status = "queued" /\ p[i].status = "cancelled"
  BY <1>3, <1>4
<1>8. \A i \in Jobs : jobs[i].status # "absent" /\ jobs[i].room = r => jobs[i].seq < rev
  BY <1>1, <1>2 DEF TableOK, RowOK, CountsTyped
<1>9. /\ revision' \in [Rooms -> Nat] /\ rev \in Nat
      /\ \A s \in Rooms : revision'[s] >= revision[s] /\ (s # r => revision'[s] = revision[s])
      /\ revision'[r] = rev
  <2>1. revision \in [Rooms -> Nat] /\ revision[r] \in Nat /\ revision' = [revision EXCEPT ![r] = rev]
    BY <1>1, <1>2b DEF CountsTyped
  <2> QED
    BY <1>2, <2>1
<1>10. ASSUME NEW i \in Jobs PROVE RowOK(p[i])'
  <2>1. CASE i = j
    <3>1. rev \in 1 .. rev
      BY <1>1, <1>2, <1>2b, <1>9 DEF CountsTyped
    <3> QED
      BY <1>1, <1>2, <1>2b, <1>6, <1>9, <2>1, <3>1 DEF RowOK
  <2>2. CASE i # j
    <3>1. jobs[i] \in JobRow(Rooms) /\ RowOK(jobs[i])
      BY <1>1 DEF TableOK
    <3>2. CASE p[i] = jobs[i] /\ ~ (jobs[i].status = "queued" /\ jobs[i].room = r /\ jobs[i].seq < rev)
      <4>1. jobs[i].status = "queued" => jobs[i].room # r
        BY <1>8, <3>2
      <4>2. jobs[i].status # "absent" => jobs[i].seq \in 1 .. revision'[jobs[i].room]
        BY <1>1, <1>9, <3>1 DEF RowOK, CountsTyped
      <4> QED
        BY <1>2, <1>2b, <1>9, <3>1, <3>2, <4>1, <4>2 DEF RowOK
    <3>3. CASE jobs[i].status = "queued" /\ p[i].status = "cancelled"
      <4>1. jobs[i].seq \in 1 .. revision'[jobs[i].room]
        BY <1>1, <1>9, <3>1, <3>3 DEF RowOK, CountsTyped
      <4> QED
        BY <1>2, <1>2b, <1>7, <2>2, <3>1, <3>3, <4>1 DEF RowOK, SameJob
    <3> QED
      BY <1>7, <2>2, <3>2, <3>3
  <2> QED
    BY <2>1, <2>2
<1>11. Numbered(p)
  <2> SUFFICES ASSUME NEW a \in Jobs, NEW b \in Jobs, a # b, p[a].room = p[b].room,
                      p[a].status # "absent"
               PROVE  p[a].seq # p[b].seq
    BY DEF Numbered
  <2>0. \A i \in Jobs : jobs[i].seq \in Nat /\ (jobs[i].room \in Rooms => jobs[i].status # "absent")
    BY <1>1, RoomQueueAssumption DEF TableOK, RowOK, NoRow, JobRow
  <2>1. CASE a = j
    BY <1>6, <1>7, <1>8, <2>0, <2>1 DEF SameJob
  <2>2. CASE b = j
    BY <1>6, <1>7, <1>8, <2>0, <2>2 DEF SameJob
  <2>3. CASE a # j /\ b # j
    BY <1>1, <1>7, <2>3 DEF TableOK, Numbered, SameJob
  <2> QED
    BY <2>1, <2>2, <2>3
<1>12. TableOK(jobs)'
  BY <1>2, <1>2b, <1>4, <1>10, <1>11 DEF TableOK, Numbered
<1>13. Grows(jobs, jobs')
  BY <1>2, <1>2b, <1>7 DEF Grows, SameJob
<1>14. LanesInv'
  BY <1>1, <1>2, <1>2b, <1>13, LanesStay
<1>15. CountsTyped'
  BY <1>1, <1>2, <1>2b, <1>9 DEF CountsTyped, Arrive
<1>16. ASSUME AtomicLease PROVE LeasedFirst(jobs)'
  <2> SUFFICES ASSUME NEW a \in Jobs, NEW b \in Jobs, a # b, p[a].room = p[b].room,
                      p[a].status = "leased", p[b].status \in Active
               PROVE  p[a].seq < p[b].seq
    BY <1>2b DEF LeasedFirst
  <2>1. a # j /\ p[a] = jobs[a]
    BY <1>6, <1>7
  <2>2. CASE b = j
    BY <1>6, <1>8, <2>1, <2>2
  <2>3. CASE b # j
    <3>1. p[b] = jobs[b]
      BY <1>7, <2>3 DEF Active
    <3> QED
      BY <1>16, <2>1, <3>1 DEF IInv, LeasedFirst
  <2> QED
    BY <2>2, <2>3
<1>17. ASSUME AtomicLease, TimelyTurns PROVE TurnsHold'
  <2>1. ASSUME NEW l \in Lanes, NEW i \in Jobs, tasks[l][i] > 0
        PROVE  jobs'[i].status = "leased" /\ jobs'[i].leaseExpiresAt > clock
    <3>1. jobs[i].status = "leased" /\ jobs[i].leaseExpiresAt > clock
      BY <1>17, <2>1, SweptKeepsHeld
    <3> QED
      BY <1>2, <1>2b, <1>7, <3>1
  <2>2. tasks' = tasks /\ LanesTyped /\ TurnsHold
    BY <1>2, <1>2b, <1>17 DEF laneVars, IInv
  <2> QED
    BY <1>2, <1>2b, <2>1, <2>2, HoldsOn
<1> QED
  BY <1>12, <1>14, <1>15, <1>16, <1>17 DEF IInv, LanesInv

\* A statement on the table alone, at one moment.
LEMMA TableNext ==
  ASSUME CountsTyped, TableOK(jobs'), revision' = revision, clock' = clock
  PROVE  TableOK(jobs)'
<1>1. PICK q : q = jobs'
  OBVIOUS
<1>2. clock \in Nat
  BY DEF CountsTyped
<1>3. TableOK(q) /\ clock' \in Nat /\ clock <= clock'
  BY <1>1, <1>2
<1> QED
  BY <1>1, <1>2, <1>3, TableStays

\* What a sweep leaves of the invariant.
LEMMA SweepInOrder ==
  ASSUME IInv, jobs' = Swept
  PROVE  /\ TableOK(jobs') /\ Grows(jobs, jobs')
         /\ AtomicLease => LeasedFirst(jobs')
<1>1. TableOK(jobs) /\ clock \in Nat
  BY DEF IInv, CountsTyped
<1>2. TableOK(Swept) /\ Keeps(jobs, Swept) /\ (LeasedFirst(jobs) => LeasedFirst(Swept))
  BY <1>1, SweepKeeps
<1> QED
  BY <1>2, KeepsGrows DEF IInv

\* A drain that starts keeps the invariant.
LEMMA StartDrainInductive ==
  ASSUME IInv, NEW d \in Drains, StartDrain(d)
  PROVE  IInv'
<1>1. /\ phase' = [phase EXCEPT ![d] = "filling"]
      /\ UNCHANGED <<jobs, revision, clock, due, tasks, pick, served, scheduled,
                     roomActive, globalActive, crashes, retries>>
      /\ phase[d] = "idle"
  BY DEF StartDrain
<1>2. CountsTyped' /\ LanesTyped'
  BY <1>1 DEF IInv, CountsTyped, LanesTyped, Phases
<1>3. TableOK(jobs)'
  BY <1>1, TableNext DEF IInv
<1>4. LanesOK'
  BY <1>1 DEF IInv, LanesOK, LanesTyped, Begun
<1>5. PoolOK'
  BY <1>1 DEF IInv, PoolOK
<1>6. AtomicLease => LeasedFirst(jobs)'
  BY <1>1 DEF IInv, LeasedFirst
<1>7. AtomicLease /\ TimelyTurns => TurnsHold'
  BY <1>1 DEF IInv, TurnsHold, Holds
<1> QED
  BY <1>2, <1>3, <1>4, <1>5, <1>6, <1>7 DEF IInv

\* A drain that leases its next job keeps the invariant.
LEMMA ScheduleNextInductive ==
  ASSUME IInv, NEW d \in Drains, ScheduleNext(d)
  PROVE  IInv'
<1>1. PICK j \in NextCandidates(Swept, clock, served[d]) :
        /\ jobs' = LeaseJob(Swept, j, Swept[j].attempts, clock)
        /\ Dispatch(d, j, jobs[j].room)
  BY DEF ScheduleNext
<1>2. /\ AtomicLease /\ globalActive[d] < MaxConcurrentRooms /\ d \in Lanes
      /\ UNCHANGED <<revision, clock, due, crashes, retries>>
  BY DEF ScheduleNext, MayFill, Lanes
<1>3. /\ j \in Jobs /\ jobs[j].status # "absent" /\ jobs[j].room \in Rooms
      /\ TableOK(jobs') /\ LeasedFirst(jobs') /\ Grows(jobs, jobs') /\ Begun(jobs'[j])
  BY <1>1, <1>2, LeaseInOrder
<1>4. LanesInv
  BY DEF IInv, LanesInv
<1>5. CountsTyped'
  BY <1>2 DEF IInv, CountsTyped
<1>6. TableOK(jobs)'
  BY <1>2, <1>3, TableNext DEF IInv
<1>7. LeasedFirst(jobs)'
  BY <1>3 DEF LeasedFirst
<1>8. CASE PoolAccepts(d, jobs[j].room)
  <2>1. LanesInv' /\ tasks' = [tasks EXCEPT ![d][j] = @ + 1]
    BY <1>1, <1>2, <1>3, <1>4, <1>8, DrainStarts
  <2>2. TimelyTurns => TurnsHold'
    BY <1>1, <1>2, <2>1, HoldsLeased
  <2> QED
    BY <1>5, <1>6, <1>7, <2>1, <2>2 DEF IInv, LanesInv
<1>9. CASE ~ PoolAccepts(d, jobs[j].room)
  <2>1. LoseLane(d)
    BY <1>1, <1>9 DEF Dispatch
  <2>2. LanesInv' /\ tasks' = [tasks EXCEPT ![d] = NoTasks]
    BY <1>2, <1>3, <1>4, <2>1, LaneLost
  <2>3. ASSUME TimelyTurns PROVE TurnsHold'
    <3>1. \A l \in Lanes, i \in Jobs : tasks'[l][i] \in {0, tasks[l][i]}
      BY <2>2 DEF IInv, LanesTyped, NoTasks
    <3>2. ASSUME NEW l \in Lanes, NEW i \in Jobs, tasks'[l][i] > 0
          PROVE  jobs'[i].status = "leased" /\ jobs'[i].leaseExpiresAt > clock'
      <4>1. tasks[l][i] > 0
        BY <3>1, <3>2
      <4>2. Swept[i] = jobs[i] /\ jobs[i].status = "leased" /\ jobs[i].leaseExpiresAt > clock
        BY <1>2, <2>3, <4>1, SweptKeepsHeld
      <4>3. /\ jobs'[j].status = "leased" /\ jobs'[j].leaseExpiresAt > clock
            /\ \A k \in Jobs \ {j} : jobs'[k] = Swept[k]
        BY <1>1, <1>2, LeaseInOrder
      <4> QED
        BY <1>2, <4>2, <4>3
    <3>3. LanesTyped /\ TurnsHold
      BY <1>2, <2>3 DEF IInv
    <3> QED
      BY <3>1, <3>2, <3>3, HoldsOn
  <2> QED
    BY <1>5, <1>6, <1>7, <2>2, <2>3 DEF IInv, LanesInv
<1> QED
  BY <1>8, <1>9

\* A drain that has filled its pool keeps the invariant.
LEMMA FillEndsInductive ==
  ASSUME IInv, NEW d \in Drains, FillEnds(d)
  PROVE  IInv'
<1>1. /\ jobs' = Swept \/ jobs' = jobs
      /\ UNCHANGED <<revision, clock, due, crashes, retries>>
      /\ d \in Lanes /\ pick[d] = NoPick
  BY DEF FillEnds, Lanes
<1>2. TableOK(jobs') /\ Grows(jobs, jobs') /\ (AtomicLease => LeasedFirst(jobs'))
  <2>1. CASE jobs' = jobs
    BY <2>1 DEF IInv, Grows
  <2>2. CASE jobs' = Swept
    BY <2>2, SweepInOrder
  <2> QED
    BY <1>1, <2>1, <2>2
<1>3. LanesInv
  BY DEF IInv, LanesInv
<1>4. CountsTyped' /\ TableOK(jobs)' /\ (AtomicLease => LeasedFirst(jobs)')
  <2>1. CountsTyped'
    BY <1>1 DEF IInv, CountsTyped
  <2>2. TableOK(jobs)'
    BY <1>1, <1>2, TableNext DEF IInv
  <2> QED
    BY <1>2, <2>1, <2>2 DEF LeasedFirst
<1>5. LanesInv' /\ \A l \in Lanes, i \in Jobs : tasks'[l][i] \in {0, tasks[l][i]}
  <2>1. CASE phase' = [phase EXCEPT ![d] = "waiting"]
             /\ UNCHANGED <<tasks, pick, served, scheduled, roomActive, globalActive>>
    <3>1. LanesTyped'
      BY <1>3, <2>1 DEF LanesInv, LanesTyped, Phases
    <3>2. LanesOK'
      BY <1>1, <1>2, <1>3, <2>1 DEF LanesInv, LanesOK, LanesTyped, Begun, Grows
    <3>3. ASSUME NEW e \in Drains
          PROVE  PoolAt(tasks'[e], jobs', globalActive'[e], roomActive'[e])
      BY <1>2, <1>3, <2>1, PoolGrows
    <3> QED
      BY <2>1, <3>1, <3>2, <3>3 DEF LanesInv, PoolOK
  <2>2. CASE LoseLane(d)
    <3>1. LanesInv' /\ tasks' = [tasks EXCEPT ![d] = NoTasks]
      BY <1>1, <1>2, <1>3, <2>2, LaneLost
    <3> QED
      BY <3>1 DEF IInv, LanesTyped, NoTasks
  <2> QED
    BY <2>1, <2>2 DEF FillEnds
<1>6. ASSUME AtomicLease, TimelyTurns PROVE TurnsHold'
  <2>1. ASSUME NEW l \in Lanes, NEW i \in Jobs, tasks'[l][i] > 0
        PROVE  jobs'[i].status = "leased" /\ jobs'[i].leaseExpiresAt > clock'
    <3>1. tasks[l][i] > 0
      BY <1>5, <2>1
    <3>2. Swept[i] = jobs[i] /\ jobs[i].status = "leased" /\ jobs[i].leaseExpiresAt > clock
      BY <1>6, <3>1, SweptKeepsHeld
    <3> QED
      BY <1>1, <3>2
  <2>2. LanesTyped /\ TurnsHold
    BY <1>6 DEF IInv
  <2> QED
    BY <1>5, <2>1, <2>2, HoldsOn
<1> QED
  BY <1>4, <1>5, <1>6 DEF IInv, LanesInv

\* The server's turn for the next job keeps the invariant.
LEMMA ProcessNextInductive ==
  ASSUME IInv, ProcessNext
  PROVE  IInv'
<1>1. /\ AtomicLease /\ due > 0 /\ due' = due - 1
      /\ UNCHANGED <<revision, clock, pick, drainVars, crashes, retries>>
      /\ Server \in Lanes
  BY DEF ProcessNext, Lanes
<1>2. CountsTyped'
  BY <1>1 DEF IInv, CountsTyped
<1>3. LanesInv
  BY DEF IInv, LanesInv
<1>4. ASSUME NEW j \in NextCandidates(Swept, clock, NobodyServed),
             jobs' = LeaseJob(Swept, j, Swept[j].attempts, clock), StartTask(Server, j)
      PROVE  IInv'
  <2>1. /\ j \in Jobs /\ TableOK(jobs') /\ LeasedFirst(jobs') /\ Grows(jobs, jobs') /\ Begun(jobs'[j])
    BY <1>1, <1>4, LeaseInOrder
  <2>2. LanesInv'
    BY <1>1, <1>3, <1>4, <2>1, ServerStarts
  <2>3. TableOK(jobs)'
    BY <1>1, <2>1, TableNext DEF IInv
  <2>4. LeasedFirst(jobs)'
    BY <2>1 DEF LeasedFirst
  <2>5. TimelyTurns => TurnsHold'
    BY <1>1, <1>4, HoldsLeased DEF StartTask
  <2> QED
    BY <1>2, <2>2, <2>3, <2>4, <2>5 DEF IInv, LanesInv
<1>5. ASSUME jobs' = Swept, tasks' = tasks PROVE IInv'
  <2>1. TableOK(jobs') /\ Grows(jobs, jobs') /\ LeasedFirst(jobs')
    BY <1>1, <1>5, SweepInOrder
  <2>2. LanesInv'
    BY <1>1, <1>3, <1>5, <2>1, LanesStay DEF laneVars
  <2>3. TableOK(jobs)'
    BY <1>1, <2>1, TableNext DEF IInv
  <2>4. LeasedFirst(jobs)'
    BY <2>1 DEF LeasedFirst
  <2>5. ASSUME TimelyTurns PROVE TurnsHold'
    <3>1. \A l \in Lanes, i \in Jobs : tasks[l][i] > 0 =>
            Swept[i] = jobs[i] /\ jobs[i].status = "leased" /\ jobs[i].leaseExpiresAt > clock
      BY <1>1, <2>5, SweptKeepsHeld
    <3> QED
      BY <1>1, <1>5, <2>5, <3>1, HoldsOn DEF IInv
  <2> QED
    BY <1>1, <1>2, <2>2, <2>3, <2>4, <2>5 DEF IInv, LanesInv
<1> QED
  BY <1>4, <1>5 DEF ProcessNext

\* Selecting a candidate keeps the invariant.
LEMMA SelectNextInductive ==
  ASSUME IInv, NEW l \in Lanes, SelectNext(l)
  PROVE  IInv'
<1>1. /\ ~ AtomicLease /\ MayLease(l) /\ jobs' = Swept
      /\ due' = IF l = Server THEN due - 1 ELSE due
      /\ UNCHANGED <<revision, clock, tasks, drainVars, crashes, retries>>
      /\ \/ \E j \in NextCandidates(Swept, clock, CallerCounts(l)) :
              pick' = [pick EXCEPT ![l] = [job |-> j, attempts |-> Swept[j].attempts]]
         \/ pick' = pick
  BY DEF SelectNext
<1>2. TableOK(jobs') /\ Grows(jobs, jobs')
  BY <1>1, SweepInOrder
<1>3. CountsTyped'
  BY <1>1 DEF IInv, CountsTyped, MayLease
<1>4. TableOK(jobs)'
  BY <1>1, <1>2, TableNext DEF IInv
<1>5. LanesInv
  BY DEF IInv, LanesInv
<1>6. ASSUME NEW j \in NextCandidates(Swept, clock, CallerCounts(l)),
             pick' = [pick EXCEPT ![l] = [job |-> j, attempts |-> Swept[j].attempts]]
      PROVE  LanesInv'
  <2>1. Swept \in [Jobs -> JobRow(Rooms)] /\ clock \in Nat
    BY <1>1, <1>2 DEF TableOK, IInv, CountsTyped
  <2>2. j \in Jobs /\ Swept[j].status = "queued" /\ Swept[j].attempts \in Nat
    <3>1. j \in Jobs /\ Swept[j].status = "queued"
      BY <2>1, CandidateIsFirst
    <3> QED
      BY <2>1, <3>1 DEF JobRow
  <2>3. pick' \in [Lanes -> [job : Jobs \union {0}, attempts : Nat]]
    BY <1>6, <2>2, <1>5 DEF LanesInv, LanesTyped
  <2>4. LanesTyped'
    BY <1>1, <1>5, <2>3 DEF LanesInv, LanesTyped, drainVars
  <2>5. LanesOK'
    <3>1. ASSUME NEW m \in Lanes, NEW i \in Jobs, tasks'[m][i] > 0 PROVE Begun(jobs'[i])
      BY <1>1, <1>2, <1>5, <3>1 DEF LanesInv, LanesOK, Begun, Grows
    <3>2. ASSUME NEW m \in Lanes, pick'[m] # NoPick
          PROVE  /\ pick'[m].job \in Jobs /\ jobs'[pick'[m].job].status # "absent"
                 /\ m \in Drains => phase'[m] = "filling" /\ globalActive'[m] < MaxConcurrentRooms
      <4>1. CASE m = l
        <5>1. pick'[m].job = j
          BY <1>5, <1>6, <4>1 DEF LanesInv, LanesTyped
        <5>2. m \in Drains => phase[m] = "filling" /\ globalActive[m] < MaxConcurrentRooms
          BY <1>1, <4>1, RoomQueueAssumption DEF MayLease, MayFill
        <5> QED
          BY <1>1, <2>2, <5>1, <5>2 DEF drainVars
      <4>2. CASE m # l
        <5>1. pick'[m] = pick[m]
          BY <1>5, <1>6, <4>2 DEF LanesInv, LanesTyped
        <5> QED
          BY <1>1, <1>2, <1>5, <3>2, <5>1 DEF LanesInv, LanesOK, Grows, drainVars
      <4> QED
        BY <4>1, <4>2
    <3> QED
      BY <1>1, <3>1, <3>2 DEF LanesOK
  <2>6. ASSUME NEW e \in Drains
        PROVE  PoolAt(tasks'[e], jobs', globalActive'[e], roomActive'[e])
    BY <1>1, <1>2, <1>5, PoolGrows DEF drainVars
  <2> QED
    BY <2>4, <2>5, <2>6 DEF LanesInv, PoolOK
<1>7. ASSUME pick' = pick PROVE LanesInv'
  BY <1>1, <1>2, <1>5, <1>7, LanesStay DEF laneVars
<1>8. LanesInv'
  BY <1>1, <1>6, <1>7
<1> QED
  BY <1>1, <1>3, <1>4, <1>8 DEF IInv, LanesInv

\* Leasing the candidate selected before keeps the invariant.
LEMMA LeasePickedInductive ==
  ASSUME IInv, NEW l \in Lanes, LeasePicked(l)
  PROVE  IInv'
<1>1. PICK j : j = pick[l].job
  OBVIOUS
<1>2. PICK a : a = pick[l].attempts
  OBVIOUS
<1>3. /\ pick[l] # NoPick
      /\ jobs' = LeaseJob(jobs, j, a, clock)
      /\ l \in Drains => Dispatch(l, j, jobs[j].room)
      /\ l \notin Drains => /\ StartTask(l, j)
                            /\ pick' = [pick EXCEPT ![l] = NoPick]
                            /\ UNCHANGED drainVars
      /\ UNCHANGED <<revision, clock, due, crashes, retries>>
  BY <1>1, <1>2 DEF LeasePicked
<1>4. LanesInv
  BY DEF IInv, LanesInv
<1>5. /\ ~ AtomicLease /\ j \in Jobs /\ a \in Nat /\ jobs[j].status # "absent"
      /\ l \in Drains => globalActive[l] < MaxConcurrentRooms
  BY <1>1, <1>2, <1>3, <1>4 DEF LanesInv, LanesOK, LanesTyped
<1>6. TableOK(jobs) /\ clock \in Nat
  BY DEF IInv, CountsTyped
<1>7. TableOK(jobs') /\ Keeps(jobs, jobs')
  BY <1>3, <1>5, <1>6, LeaseKeeps
<1>8. Grows(jobs, jobs')
  BY <1>7, KeepsGrows
<1>9. Begun(jobs'[j]) /\ jobs[j].room \in Rooms
  <2>1. jobs'[j].status = "leased" /\ jobs'[j].attempts = a + 1
    BY <1>3, <1>5, <1>6, LeaseJobRows DEF TableOK
  <2>2. jobs[j].room \in Rooms
    BY <1>5, <1>6 DEF TableOK, RowOK
  <2> QED
    BY <1>5, <2>1, <2>2 DEF Begun
<1>10. CountsTyped'
  BY <1>3 DEF IInv, CountsTyped
<1>11. TableOK(jobs)'
  BY <1>3, <1>7, TableNext DEF IInv
<1>12. LanesInv'
  <2>1. CASE l \in Drains /\ PoolAccepts(l, jobs[j].room)
    BY <1>3, <1>4, <1>5, <1>8, <1>9, <2>1, DrainStarts
  <2>2. CASE l \in Drains /\ ~ PoolAccepts(l, jobs[j].room)
    <3>1. LoseLane(l)
      BY <1>3, <2>2 DEF Dispatch
    <3> QED
      BY <1>4, <1>8, <3>1, LaneLost
  <2>3. CASE l \notin Drains
    <3>1. l = Server
      BY <2>3 DEF Lanes
    <3> QED
      BY <1>3, <1>4, <1>5, <1>8, <1>9, <2>3, <3>1, ServerStarts
  <2> QED
    BY <2>1, <2>2, <2>3
<1> QED
  BY <1>5, <1>10, <1>11, <1>12 DEF IInv, LanesInv

\* A turn settles its job, whatever becomes of its lane.
LEMMA TurnSettles ==
  ASSUME IInv, NEW l \in Lanes, NEW j \in Jobs, tasks[l][j] > 0,
         NEW status \in Terminal, jobs' = SettleJob(jobs, j, status),
         UNCHANGED <<revision, clock, due, crashes, retries>>,
         LanesInv',
         \A m \in Lanes, i \in Jobs : tasks'[m][i] \in {0, tasks[m][i]} \/ tasks[m][i] > 1,
         AtomicLease /\ TimelyTurns => tasks'[l][j] = 0
  PROVE  IInv'
<1>1. TableOK(jobs) /\ Begun(jobs[j]) /\ CountsTyped
  BY DEF IInv, LanesOK
<1>2. /\ TableOK(SettleJob(jobs, j, status))
      /\ \A i \in Jobs \ {j} : SettleJob(jobs, j, status)[i] = jobs[i]
      /\ LeasedFirst(jobs) => LeasedFirst(SettleJob(jobs, j, status))
  BY <1>1, SettleKeeps
<1>3. TableOK(jobs') /\ (AtomicLease => LeasedFirst(jobs'))
  BY <1>2 DEF IInv
<1>4. CountsTyped' /\ TableOK(jobs)' /\ (AtomicLease => LeasedFirst(jobs)')
  <2>1. TableOK(jobs)'
    BY <1>1, <1>3, TableNext
  <2>2. CountsTyped'
    BY <1>1 DEF CountsTyped
  <2> QED
    BY <1>3, <2>1, <2>2 DEF LeasedFirst
<1>5. ASSUME AtomicLease, TimelyTurns PROVE TurnsHold'
  <2>1. TurnsHold /\ LanesTyped
    BY <1>5 DEF IInv
  <2>2. \A m \in Lanes, i \in Jobs : tasks[m][i] \in Nat /\ tasks[m][i] <= 1
    BY <2>1 DEF LanesTyped, TurnsHold, Holds
  <2>3. \A m \in Lanes, i \in Jobs : tasks'[m][i] \in {0, tasks[m][i]}
    BY <2>2
  <2>4. \A m \in Lanes \ {l} : tasks[m][j] = 0
    BY <2>1 DEF TurnsHold, Holds
  <2>5. ASSUME NEW m \in Lanes, NEW i \in Jobs, tasks'[m][i] > 0
        PROVE  jobs'[i].status = "leased" /\ jobs'[i].leaseExpiresAt > clock'
    <3>1. tasks[m][i] > 0
      BY <2>3, <2>5
    <3>2. i # j
      BY <1>5, <2>3, <2>4, <2>5
    <3>3. jobs[i].status = "leased" /\ jobs[i].leaseExpiresAt > clock
      BY <2>1, <3>1 DEF TurnsHold, Holds
    <3> QED
      BY <1>2, <3>2, <3>3
  <2> QED
    BY <2>1, <2>3, <2>5, HoldsOn
<1> QED
  BY <1>4, <1>5 DEF IInv, LanesInv

\* Settling the job of a running turn grows the table, and the job has a room.
LEMMA SettleGrows ==
  ASSUME IInv, NEW l \in Lanes, NEW j \in Jobs, tasks[l][j] > 0,
         NEW status \in Terminal, jobs' = SettleJob(jobs, j, status)
  PROVE  Grows(jobs, jobs') /\ jobs[j].room \in Rooms
<1>1. TableOK(jobs) /\ Begun(jobs[j])
  BY DEF IInv, LanesOK
<1>2. Keeps(jobs, SettleJob(jobs, j, status))
  BY <1>1, SettleKeeps
<1>3. jobs[j].room \in Rooms
  BY <1>1 DEF Begun, TableOK, RowOK
<1> QED
  BY <1>2, <1>3, KeepsGrows

\* Where a turn held its lease alone, one turn less is none.
LEMMA OneTurnLess ==
  ASSUME IInv, NEW l \in Lanes, NEW j \in Jobs, tasks[l][j] > 0,
         tasks' = [tasks EXCEPT ![l][j] = @ - 1]
  PROVE  /\ \A m \in Lanes, i \in Jobs : tasks'[m][i] \in {0, tasks[m][i]} \/ tasks[m][i] > 1
         /\ AtomicLease /\ TimelyTurns => tasks'[l][j] = 0
<1>1. tasks[l] \in [Jobs -> Nat] /\ tasks[l][j] \in Nat
  BY DEF IInv, LanesTyped
<1>2. /\ tasks'[l][j] = tasks[l][j] - 1
      /\ \A m \in Lanes, i \in Jobs : <<m, i>> # <<l, j>> => tasks'[m][i] = tasks[m][i]
  BY <1>1 DEF IInv, LanesTyped
<1>3. AtomicLease /\ TimelyTurns => tasks[l][j] = 1
  BY DEF IInv, TurnsHold, Holds
<1> QED
  BY <1>1, <1>2, <1>3

\* A turn that ends keeps the invariant.
LEMMA TurnEndsInductive ==
  ASSUME IInv, NEW l \in Lanes, NEW j \in Jobs, TurnEnds(l, j)
  PROVE  IInv'
<1>1. PICK status \in Terminal : jobs' = SettleJob(jobs, j, status)
  BY DEF TurnEnds, Terminal
<1>2. /\ tasks[l][j] > 0 /\ pick[l] = NoPick
      /\ tasks' = [tasks EXCEPT ![l][j] = @ - 1]
      /\ ReleaseSlot(l, jobs[j].room)
      /\ UNCHANGED <<revision, clock, due, pick, crashes, retries>>
  BY DEF TurnEnds, Awaiting
<1>3. Grows(jobs, jobs') /\ jobs[j].room \in Rooms
  BY <1>1, <1>2, SettleGrows
<1>4. LanesInv'
  BY <1>2, <1>3, TurnReleases DEF IInv, LanesInv
<1> QED
  BY <1>1, <1>2, <1>4, OneTurnLess, TurnSettles

\* A turn that fails keeps the invariant.
LEMMA TurnFailsInductive ==
  ASSUME IInv, NEW l \in Lanes, NEW j \in Jobs, TurnFails(l, j)
  PROVE  IInv'
<1>1. /\ tasks[l][j] > 0 /\ pick[l] = NoPick /\ "failed" \in Terminal
      /\ jobs' = SettleJob(jobs, j, "failed")
      /\ UNCHANGED <<revision, clock, due, crashes, retries>>
  BY DEF TurnFails, Awaiting, Terminal
<1>2. Grows(jobs, jobs') /\ jobs[j].room \in Rooms
  BY <1>1, SettleGrows
<1>3. LanesInv
  BY DEF IInv, LanesInv
<1>4. CASE l \in Drains
  <2>1. LoseLane(l)
    BY <1>4 DEF TurnFails
  <2>2. LanesInv' /\ tasks' = [tasks EXCEPT ![l] = NoTasks]
    BY <1>2, <1>3, <2>1, LaneLost
  <2>3. /\ \A m \in Lanes, i \in Jobs : tasks'[m][i] \in {0, tasks[m][i]}
        /\ tasks'[l][j] = 0
    BY <2>2 DEF IInv, LanesTyped, NoTasks
  <2> QED
    BY <1>1, <2>2, <2>3, TurnSettles
<1>5. CASE l \notin Drains
  <2>1. tasks' = [tasks EXCEPT ![l][j] = @ - 1] /\ UNCHANGED <<pick, drainVars>>
    BY <1>5 DEF TurnFails
  <2>2. ReleaseSlot(l, jobs[j].room)
    BY <1>5, <2>1 DEF ReleaseSlot
  <2>3. LanesInv'
    BY <1>1, <1>2, <1>3, <2>1, <2>2, TurnReleases
  <2> QED
    BY <1>1, <2>1, <2>3, OneTurnLess, TurnSettles
<1> QED
  BY <1>4, <1>5

\* The operator's retry keeps the invariant.
LEMMA RetryInductive ==
  ASSUME IInv, NEW j \in Jobs, Retry(j)
  PROVE  IInv'
<1>1. PICK p : p = RetryFailedJob(jobs, j, clock)
  OBVIOUS
<1>2. /\ jobs[j].status = "failed" /\ revision[jobs[j].room] <= jobs[j].revision
      /\ jobs' = p /\ retries' = retries + 1
      /\ UNCHANGED <<revision, clock, due, laneVars, crashes>>
  BY <1>1 DEF Retry
<1>3. TableOK(jobs) /\ CountsTyped /\ LanesInv /\ clock \in Nat
  BY DEF IInv, LanesInv, CountsTyped
<1>4. /\ p \in [Jobs -> JobRow(Rooms)]
      /\ p[j].status = "queued" /\ p[j].attempts = jobs[j].attempts /\ p[j].availableAt = clock
      /\ SameJob(p[j], jobs[j]) /\ \A i \in Jobs \ {j} : p[i] = jobs[i]
  BY <1>1, <1>2, <1>3, RetryFailedJobRows DEF TableOK
<1>5. RowOK(jobs[j]) /\ jobs[j] \in JobRow(Rooms)
  BY <1>3 DEF TableOK
<1>6. RowOK(p[j])
  BY <1>2, <1>3, <1>4, <1>5 DEF RowOK, SameJob, JobRow
<1>7. Numbered(p)
  BY <1>2, <1>3, <1>4 DEF TableOK, Numbered, SameJob
<1>8. TableOK(jobs')
  BY <1>2, <1>3, <1>4, <1>6, <1>7 DEF TableOK
<1>9. TableOK(jobs)'
  BY <1>2, <1>3, <1>8, TableNext
<1>10. Grows(jobs, jobs')
  BY <1>2, <1>4 DEF Grows, SameJob
<1>11. LanesInv'
  BY <1>2, <1>3, <1>10, LanesStay
<1>12. CountsTyped'
  BY <1>2, <1>3 DEF CountsTyped
<1>13. ASSUME AtomicLease PROVE LeasedFirst(jobs)'
  <2> SUFFICES ASSUME NEW a \in Jobs, NEW b \in Jobs, a # b, p[a].room = p[b].room,
                      p[a].status = "leased", p[b].status \in Active
               PROVE  p[a].seq < p[b].seq
    BY <1>2 DEF LeasedFirst
  <2>1. a # j /\ p[a] = jobs[a]
    BY <1>4
  <2>2. CASE b = j
    <3>1. p[b].room = jobs[j].room /\ p[b].seq = jobs[j].seq /\ jobs[j].seq = jobs[j].revision
      BY <1>2, <1>4, <1>5, <2>2 DEF SameJob, RowOK
    <3>2. jobs[a].seq \in 1 .. revision[jobs[j].room] /\ revision[jobs[j].room] \in Nat
      BY <1>3, <2>1, <3>1 DEF TableOK, RowOK, CountsTyped
    <3>3. jobs[a].seq # jobs[j].seq
      BY <1>2, <1>3, <2>1, <2>2, <3>1 DEF TableOK, Numbered
    <3>4. jobs[j].revision \in Nat
      BY <1>5 DEF JobRow
    <3> QED
      BY <1>2, <2>1, <3>1, <3>2, <3>3, <3>4
  <2>3. CASE b # j
    <3>1. p[b] = jobs[b]
      BY <1>4, <2>3
    <3> QED
      BY <1>13, <2>1, <3>1 DEF IInv, LeasedFirst
  <2> QED
    BY <2>2, <2>3
<1>14. ASSUME AtomicLease, TimelyTurns PROVE TurnsHold'
  <2>1. ASSUME NEW l \in Lanes, NEW i \in Jobs, tasks[l][i] > 0
        PROVE  jobs'[i].status = "leased" /\ jobs'[i].leaseExpiresAt > clock
    <3>1. jobs[i].status = "leased" /\ jobs[i].leaseExpiresAt > clock
      BY <1>14, <2>1, SweptKeepsHeld
    <3> QED
      BY <1>2, <1>4, <3>1
  <2>2. tasks' = tasks /\ LanesTyped /\ TurnsHold
    BY <1>2, <1>14 DEF laneVars, IInv
  <2> QED
    BY <1>2, <2>1, <2>2, HoldsOn
<1> QED
  BY <1>9, <1>11, <1>12, <1>13, <1>14 DEF IInv, LanesInv

\* Recovery at start-up keeps the invariant.
LEMMA RecoverInductive ==
  ASSUME IInv, Recover
  PROVE  IInv'
<1>1. jobs' = Swept /\ UNCHANGED <<revision, clock, due, laneVars, crashes, retries>>
  BY DEF Recover
<1>2. TableOK(jobs') /\ Grows(jobs, jobs') /\ (AtomicLease => LeasedFirst(jobs'))
  BY <1>1, SweepInOrder
<1>3. CountsTyped'
  BY <1>1 DEF IInv, CountsTyped
<1>4. TableOK(jobs)'
  BY <1>1, <1>2, TableNext DEF IInv
<1>5. LanesInv'
  BY <1>1, <1>2, LanesStay DEF IInv, LanesInv
<1>6. AtomicLease => LeasedFirst(jobs)'
  BY <1>2 DEF LeasedFirst
<1>7. ASSUME AtomicLease, TimelyTurns PROVE TurnsHold'
  <2>1. ASSUME NEW l \in Lanes, NEW i \in Jobs, tasks[l][i] > 0
        PROVE  jobs'[i].status = "leased" /\ jobs'[i].leaseExpiresAt > clock
    BY <1>1, <1>7, <2>1, SweptKeepsHeld
  <2>2. tasks' = tasks /\ LanesTyped /\ TurnsHold
    BY <1>1, <1>7 DEF laneVars, IInv
  <2> QED
    BY <1>1, <2>1, <2>2, HoldsOn
<1> QED
  BY <1>3, <1>4, <1>5, <1>6, <1>7 DEF IInv, LanesInv

\* A process that dies keeps the invariant.
LEMMA CrashInductive ==
  ASSUME IInv, NEW l \in Lanes, Crash(l)
  PROVE  IInv'
<1>1. /\ LoseLane(l) /\ crashes' = crashes + 1
      /\ due' = IF l = Server THEN 0 ELSE due
      /\ UNCHANGED <<jobs, revision, clock, retries>>
  BY DEF Crash
<1>2. CountsTyped'
  BY <1>1 DEF IInv, CountsTyped
<1>3. TableOK(jobs)'
  BY <1>1, TableNext DEF IInv
<1>4. LanesInv' /\ tasks' = [tasks EXCEPT ![l] = NoTasks]
  <2>1. Grows(jobs, jobs')
    BY <1>1 DEF Grows
  <2> QED
    BY <1>1, <2>1, LaneLost DEF IInv, LanesInv
<1>5. AtomicLease => LeasedFirst(jobs)'
  BY <1>1 DEF IInv, LeasedFirst
<1>6. ASSUME AtomicLease, TimelyTurns PROVE TurnsHold'
  <2>1. LanesTyped /\ TurnsHold
    BY <1>6 DEF IInv
  <2>2. \A m \in Lanes, i \in Jobs : tasks'[m][i] \in {0, tasks[m][i]}
    BY <1>4, <2>1 DEF LanesTyped, NoTasks
  <2>3. ASSUME NEW m \in Lanes, NEW i \in Jobs, tasks'[m][i] > 0
        PROVE  jobs'[i].status = "leased" /\ jobs'[i].leaseExpiresAt > clock'
    <3>1. tasks[m][i] > 0
      BY <2>2, <2>3
    <3> QED
      BY <1>1, <1>6, <3>1, SweptKeepsHeld
  <2> QED
    BY <2>1, <2>2, <2>3, HoldsOn
<1> QED
  BY <1>2, <1>3, <1>4, <1>5, <1>6 DEF IInv, LanesInv

\* The clock keeps the invariant.
LEMMA TickInductive ==
  ASSUME IInv, Tick
  PROVE  IInv'
<1>1. /\ clock' = clock + 1 /\ clock \in Nat
      /\ TimelyTurns => \A l \in Lanes, j \in Jobs :
                          tasks[l][j] > 0 => jobs[j].leaseExpiresAt > clock + 1
      /\ UNCHANGED <<jobs, revision, due, laneVars, crashes, retries>>
  BY DEF Tick, IInv, CountsTyped
<1>2. CountsTyped'
  BY <1>1 DEF IInv, CountsTyped
<1>3. TableOK(jobs)'
  <2>1. PICK q : q = jobs
    OBVIOUS
  <2>2. TableOK(q) /\ jobs' = q /\ revision' = revision /\ clock' \in Nat /\ clock <= clock'
    BY <1>1, <2>1 DEF IInv
  <2> QED
    BY <1>1, <2>2, TableStays
<1>4. LanesInv'
  <2>1. Grows(jobs, jobs')
    BY <1>1 DEF Grows
  <2> QED
    BY <1>1, <2>1, LanesStay DEF IInv, LanesInv
<1>5. AtomicLease => LeasedFirst(jobs)'
  BY <1>1 DEF IInv, LeasedFirst
<1>6. AtomicLease /\ TimelyTurns => TurnsHold'
  BY <1>1 DEF IInv, TurnsHold, Holds, laneVars
<1> QED
  BY <1>2, <1>3, <1>4, <1>5, <1>6 DEF IInv, LanesInv

\* A stuttering step keeps the invariant.
LEMMA StutterInductive ==
  ASSUME IInv, UNCHANGED vars PROVE IInv'
<1>1. UNCHANGED <<jobs, revision, clock, due, laneVars, crashes, retries>>
  BY DEF vars
<1>2. CountsTyped'
  BY <1>1 DEF IInv, CountsTyped
<1>3. TableOK(jobs)'
  BY <1>1, TableNext DEF IInv
<1>4. LanesInv'
  <2>1. Grows(jobs, jobs')
    BY <1>1 DEF Grows
  <2> QED
    BY <1>1, <2>1, LanesStay DEF IInv, LanesInv
<1>5. AtomicLease => LeasedFirst(jobs)'
  BY <1>1 DEF IInv, LeasedFirst
<1>6. AtomicLease /\ TimelyTurns => TurnsHold'
  BY <1>1 DEF IInv, TurnsHold, Holds, laneVars
<1> QED
  BY <1>2, <1>3, <1>4, <1>5, <1>6 DEF IInv, LanesInv

\* Every step keeps the invariant.
LEMMA NextInductive ==
  ASSUME IInv, [Next]_vars PROVE IInv'
<1>1. ASSUME NEW j \in Jobs, NEW r \in Rooms, NEW immediate \in BOOLEAN, Arrive(j, r, immediate)
      PROVE  IInv'
  BY <1>1, ArriveInductive
<1>2. ASSUME NEW d \in Drains, StartDrain(d) \/ ScheduleNext(d) \/ FillEnds(d)
      PROVE  IInv'
  BY <1>2, StartDrainInductive, ScheduleNextInductive, FillEndsInductive
<1>3. CASE ProcessNext
  BY <1>3, ProcessNextInductive
<1>4. ASSUME NEW l \in Lanes, SelectNext(l) \/ LeasePicked(l) \/ Crash(l)
      PROVE  IInv'
  BY <1>4, SelectNextInductive, LeasePickedInductive, CrashInductive
<1>5. ASSUME NEW l \in Lanes, NEW j \in Jobs, TurnEnds(l, j) \/ TurnFails(l, j)
      PROVE  IInv'
  BY <1>5, TurnEndsInductive, TurnFailsInductive
<1>6. ASSUME NEW j \in Jobs, Retry(j) PROVE IInv'
  BY <1>6, RetryInductive
<1>7. CASE Recover
  BY <1>7, RecoverInductive
<1>8. CASE Tick
  BY <1>8, TickInductive
<1>9. CASE UNCHANGED vars
  BY <1>9, StutterInductive
<1> QED
  BY <1>1, <1>2, <1>3, <1>4, <1>5, <1>6, <1>7, <1>8, <1>9 DEF Next

\* The invariant the theorems rest on.
THEOREM Inductive == Spec => []IInv
<1>1. Init => IInv
  BY InitInductive
<1>2. IInv /\ [Next]_vars => IInv'
  BY NextInductive
<1> QED
  BY <1>1, <1>2, PTL DEF Spec
-----------------------------------------------------------------------------
(* The theorems *)

\* The table, the lanes and the counters stay what the code declares them to
\* be, in every state.
THEOREM TypeCorrect == Spec => []TypeOK
<1>1. IInv => TypeOK
  BY DEF IInv, CountsTyped, LanesTyped, TableOK, TypeOK
<1> QED
  BY <1>1, Inductive, PTL

\* Bursts coalesce: what ingestion enqueues and cancels leaves queued, of the
\* jobs never leased, only the one of the room's newest message.
THEOREM QueuedIsCurrent == Spec => []QueuedJobIsCurrent
<1>1. IInv => QueuedJobIsCurrent
  BY DEF IInv, TableOK, RowOK, QueuedJobIsCurrent
<1> QED
  BY <1>1, Inductive, PTL

\* The worker pool of a drain counts the turns that run, in total and by room,
\* and never more than MaxConcurrentRooms, after any failure, refusal or crash.
THEOREM PoolCounted == Spec => []PoolCountsTurns
<1>1. IInv => PoolCountsTurns
  <2>1. \A d \in Drains, some \in SUBSET Jobs : TurnsFor(d, some) = Slots(tasks[d], some)
    BY DEF TurnsFor, Slots
  <2> QED
    BY <2>1 DEF IInv, PoolOK, PoolAt, PoolCountsTurns, JobsIn
<1> QED
  BY <1>1, Inductive, PTL

\* The queue serializes the turns of a room, as long as no other process runs
\* inside leaseNextRoomJob and every turn ends before its lease expires.
THEOREM TurnsSerialized ==
  ASSUME AtomicLease, TimelyTurns
  PROVE  Spec => []OneTurnPerRoom
<1>1. ASSUME IInv PROVE OneTurnPerRoom
  <2>0. LeasedFirst(jobs) /\ TurnsHold
    BY <1>1 DEF IInv
  <2>1. ASSUME NEW r \in Rooms, NEW t \in TurnsOf(r) PROVE Holds(t[1], t[2])
    BY <2>0 DEF TurnsOf, TurnsHold
  <2>2. ASSUME NEW r \in Rooms, NEW t \in TurnsOf(r), NEW u \in TurnsOf(r) PROVE t = u
    <3>1. PICK l \in Lanes, j \in Jobs :
            t = <<l, j>> /\ tasks[l][j] > 0 /\ jobs[j].room = r
      BY DEF TurnsOf
    <3>2. PICK m \in Lanes, i \in Jobs :
            u = <<m, i>> /\ tasks[m][i] > 0 /\ jobs[i].room = r
      BY DEF TurnsOf
    <3>3. Holds(l, j) /\ Holds(m, i)
      BY <2>0, <3>1, <3>2 DEF TurnsHold
    <3>4. jobs[i].seq \in Nat /\ jobs[j].seq \in Nat
      BY <1>1 DEF IInv, TableOK, JobRow
    <3>5. i = j
      BY <2>0, <3>1, <3>2, <3>3, <3>4 DEF LeasedFirst, Holds, Active
    <3>6. l = m
      BY <3>1, <3>2, <3>3, <3>5 DEF Holds
    <3> QED
      BY <3>1, <3>2, <3>5, <3>6
  <2> QED
    BY <2>1, <2>2 DEF OneTurnPerRoom, Holds
<1> QED
  BY <1>1, Inductive, PTL

-----------------------------------------------------------------------------
(* Steps *)

\* With atomic leases no lane has selected a row it has not leased.
LEMMA NothingPicked ==
  ASSUME IInv, AtomicLease, NEW l \in Lanes
  PROVE  pick[l] = NoPick /\ ~ LeasePicked(l)
BY DEF IInv, LanesOK, LeasePicked

\* With an atomic lease and timely turns no step reopens a settled job.
LEMMA SettledStays ==
  ASSUME IInv, [Next]_vars, AtomicLease, TimelyTurns,
         NEW j \in Jobs, jobs[j].status \in {"completed", "cancelled"}
  PROVE  jobs'[j].status = jobs[j].status
<1>0. /\ TableOK(jobs) /\ clock \in Nat /\ jobs \in [Jobs -> JobRow(Rooms)]
      /\ jobs[j].status # "queued" /\ jobs[j].status # "leased"
  BY DEF IInv, CountsTyped, TableOK
<1>1. Swept[j] = jobs[j]
  BY <1>0, SweepKeeps
<1>2. ASSUME NEW counts, NEW k \in NextCandidates(Swept, clock, counts),
             jobs' = LeaseJob(Swept, k, Swept[k].attempts, clock)
      PROVE  jobs'[j].status = jobs[j].status
  <2>1. Swept[k].status = "queued" /\ \A i \in Jobs \ {k} : jobs'[i] = Swept[i]
    BY <1>2, LeaseInOrder
  <2>2. k # j
    BY <1>0, <1>1, <2>1
  <2> QED
    BY <1>1, <2>1, <2>2
<1>3. ASSUME NEW l \in Lanes, NEW k \in Jobs, tasks[l][k] > 0, NEW status \in Terminal,
             jobs' = SettleJob(jobs, k, status)
      PROVE  jobs'[j].status = jobs[j].status
  <2>1. jobs[k].status = "leased" /\ Begun(jobs[k])
    BY <1>3 DEF IInv, TurnsHold, Holds, LanesOK
  <2>2. \A i \in Jobs \ {k} : jobs'[i] = jobs[i]
    BY <1>0, <1>3, <2>1, SettleKeeps
  <2> QED
    BY <1>0, <2>1, <2>2
<1>4. ASSUME NEW k \in Jobs, NEW r \in Rooms, NEW immediate \in BOOLEAN, Arrive(k, r, immediate)
      PROVE  jobs'[j].status = jobs[j].status
  <2>1. PICK rev, e :
          /\ e = EnqueueJob(jobs, k, r, rev, rev, BasePriority, clock)
          /\ jobs' = CancelQueuedBefore(e, r, rev)
    BY <1>4 DEF Arrive
  <2>2. k # j
    BY <1>4 DEF Arrive
  <2>3. j \in DOMAIN e /\ e[j] = jobs[j]
    BY <1>0, <2>1, <2>2 DEF EnqueueJob
  <2> QED
    BY <1>0, <2>1, <2>3 DEF CancelQueuedBefore, Cancellable
<1>5. ASSUME NEW d \in Drains, StartDrain(d) \/ ScheduleNext(d) \/ FillEnds(d)
      PROVE  jobs'[j].status = jobs[j].status
  BY <1>1, <1>2, <1>5 DEF StartDrain, ScheduleNext, FillEnds
<1>6. CASE ProcessNext
  BY <1>1, <1>2, <1>6 DEF ProcessNext
<1>7. ASSUME NEW l \in Lanes, SelectNext(l) \/ LeasePicked(l) \/ Crash(l)
      PROVE  jobs'[j].status = jobs[j].status
  BY <1>7, NothingPicked DEF SelectNext, Crash
<1>8. ASSUME NEW l \in Lanes, NEW k \in Jobs, TurnEnds(l, k) \/ TurnFails(l, k)
      PROVE  jobs'[j].status = jobs[j].status
  <2>1. PICK status \in Terminal : jobs' = SettleJob(jobs, k, status)
    BY <1>8 DEF TurnEnds, TurnFails, Terminal
  <2> QED
    BY <1>3, <1>8, <2>1 DEF TurnEnds, TurnFails
<1>9. ASSUME NEW k \in Jobs, Retry(k) PROVE jobs'[j].status = jobs[j].status
  <2>1. k # j /\ jobs' = RetryFailedJob(jobs, k, clock)
    BY <1>9 DEF Retry
  <2> QED
    BY <1>0, <2>1 DEF RetryFailedJob
<1>10. CASE Recover
  BY <1>1, <1>10 DEF Recover
<1>11. CASE Tick \/ UNCHANGED vars
  BY <1>11 DEF Tick, vars
<1> QED
  BY <1>4, <1>5, <1>6, <1>7, <1>8, <1>9, <1>10, <1>11 DEF Next

\* The job a drain leases, and when it does.
LEMMA SchedulesOnly ==
  ASSUME IInv, [Next]_vars, AtomicLease, NEW d \in Drains, scheduled'[d] > scheduled[d]
  PROVE  ScheduleNext(d)
<1>0. scheduled \in [Drains -> Nat]
  BY DEF IInv, LanesTyped
<1>1. ASSUME NEW l \in Lanes, LoseLane(l) PROVE FALSE
  <2>1. scheduled'[d] = scheduled[d] \/ scheduled'[d] = 0
    BY <1>0, <1>1 DEF LoseLane, drainVars
  <2> QED
    BY <1>0, <2>1
<1>2. ~ (scheduled' = scheduled)
  BY <1>0
<1>3. ASSUME NEW j \in Jobs, NEW r \in Rooms, NEW immediate \in BOOLEAN, Arrive(j, r, immediate)
      PROVE  FALSE
  BY <1>2, <1>3 DEF Arrive, laneVars, drainVars
<1>4. ASSUME NEW e \in Drains, StartDrain(e) \/ FillEnds(e) PROVE FALSE
  <2>1. e \in Lanes
    BY DEF Lanes
  <2> QED
    BY <1>1, <1>2, <1>4, <2>1 DEF StartDrain, FillEnds
<1>5. ASSUME NEW e \in Drains, ScheduleNext(e) PROVE e = d
  <2>1. e \in Lanes
    BY DEF Lanes
  <2>2. PICK j : Dispatch(e, j, jobs[j].room)
    BY <1>5 DEF ScheduleNext
  <2>3. scheduled' = [scheduled EXCEPT ![e] = @ + 1]
    BY <1>1, <2>1, <2>2 DEF Dispatch
  <2> QED
    BY <1>0, <2>3
<1>6. CASE ProcessNext
  BY <1>2, <1>6 DEF ProcessNext, drainVars
<1>7. ASSUME NEW l \in Lanes, SelectNext(l) \/ LeasePicked(l) \/ Crash(l) PROVE FALSE
  BY <1>1, <1>7, NothingPicked DEF SelectNext, Crash
<1>8. ASSUME NEW l \in Lanes, NEW j \in Jobs, TurnEnds(l, j) \/ TurnFails(l, j) PROVE FALSE
  BY <1>1, <1>2, <1>8 DEF TurnEnds, TurnFails, ReleaseSlot, drainVars
<1>9. ASSUME NEW j \in Jobs, Retry(j) PROVE FALSE
  BY <1>2, <1>9 DEF Retry, laneVars, drainVars
<1>10. CASE Recover \/ Tick
  BY <1>2, <1>10 DEF Recover, Tick, laneVars, drainVars
<1>11. CASE UNCHANGED vars
  BY <1>2, <1>11 DEF vars, laneVars, drainVars
<1> QED
  BY <1>3, <1>4, <1>5, <1>6, <1>7, <1>8, <1>9, <1>10, <1>11 DEF Next

\* The job a caller of the lease gets, against another it could have had.
LEMMA AgingLeads ==
  ASSUME IInv, AtomicLease, NEW counts \in [Rooms -> Nat], NEW k \in NextCandidates(Swept, clock, counts),
         NEW c \in Jobs, Leasable(Swept, c, clock)
  PROVE  ((jobs[k].availableAt - jobs[c].availableAt) \div AgingMs) * AgingStep
            <= PenaltyStep * counts[jobs[c].room]
<1>0. TableOK(jobs) /\ clock \in Nat
  BY DEF IInv, CountsTyped
<1>1. /\ TableOK(Swept) /\ Swept \in [Jobs -> JobRow(Rooms)]
      /\ \A i \in Jobs : Swept[i].availableAt = jobs[i].availableAt /\ SameJob(Swept[i], jobs[i])
  <2>1. TableOK(Swept) /\ Keeps(jobs, Swept) /\ \A i \in Jobs : Swept[i].availableAt = jobs[i].availableAt
    BY <1>0, SweepKeeps
  <2> QED
    BY <2>1 DEF Keeps
<1>2. /\ k \in Jobs /\ Swept[k].status = "queued" /\ Swept[c].status = "queued"
      /\ ~ Precedes(Swept[c], Swept[k], clock, counts)
  BY <1>0, <1>1, CandidateIsFirst DEF Leasable
<1>3. PICK a : a = Swept[k]
  OBVIOUS
<1>4. PICK b : b = Swept[c]
  OBVIOUS
<1>5. /\ a.availableAt \in Nat /\ a.availableAt <= clock /\ a.room \in Rooms /\ a.priority = BasePriority
      /\ b.availableAt \in Nat /\ b.availableAt <= clock /\ b.room \in Rooms /\ b.priority = BasePriority
      /\ BasePriority \in Int
  BY <1>1, <1>2, <1>3, <1>4 DEF TableOK, RowOK, JobRow, BasePriority
<1>6. ~ (EffectivePriority(b, clock, counts) > EffectivePriority(a, clock, counts))
  BY <1>2, <1>3, <1>4 DEF Precedes
<1>7. PICK lead \in Int : lead = ((a.availableAt - b.availableAt) \div AgingMs) * AgingStep
  <2>1. AgingMs \in Nat \ {0} /\ AgingStep \in Nat
    BY RoomJobsAssumption
  <2>2. PICK q \in Int : q = (a.availableAt - b.availableAt) \div AgingMs
    BY <1>5, <2>1, DivBounds
  <2> QED
    BY <2>1, <2>2
<1>8. PICK x \in Int, y \in Int : x = AgingCredit(a, clock) /\ y = AgingCredit(b, clock) /\ lead + x <= y
  BY <1>0, <1>5, <1>7, CreditApart
<1>9. PICK u \in Nat, v \in Nat : u = PenaltyStep * counts[a.room] /\ v = PenaltyStep * counts[b.room]
  BY <1>5, RoomJobsAssumption
<1>10. /\ EffectivePriority(a, clock, counts) = BasePriority + x - u
       /\ EffectivePriority(b, clock, counts) = BasePriority + y - v
  BY <1>5, <1>8, <1>9 DEF EffectivePriority
<1>11. BasePriority + y - v <= BasePriority + x - u
  BY <1>5, <1>6, <1>10
<1>12. lead <= v
  BY <1>5, <1>8, <1>11
<1>13. a.availableAt = jobs[k].availableAt /\ b.availableAt = jobs[c].availableAt /\ b.room = jobs[c].room
  BY <1>1, <1>2, <1>3, <1>4 DEF SameJob
<1> QED
  BY <1>7, <1>9, <1>12, <1>13

\* Under the hypotheses the pool has room for what a drain leases: the room of
\* the job has no turn in any lane.
LEMMA PoolHasRoom ==
  ASSUME IInv, AtomicLease, TimelyTurns, MaxConcurrentRooms <= MaxGlobalWorkers,
         NEW d \in Drains, MayFill(d), NEW counts, NEW k \in NextCandidates(Swept, clock, counts)
  PROVE  PoolAccepts(d, jobs[k].room)
<1>0. TableOK(jobs) /\ clock \in Nat /\ LeasedFirst(jobs) /\ d \in Lanes
  BY DEF IInv, CountsTyped, Lanes
<1>1. /\ TableOK(Swept) /\ Swept \in [Jobs -> JobRow(Rooms)] /\ LeasedFirst(Swept)
      /\ \A i \in Jobs : SameJob(Swept[i], jobs[i])
  <2>1. TableOK(Swept) /\ Keeps(jobs, Swept) /\ LeasedFirst(Swept)
    BY <1>0, SweepKeeps
  <2> QED
    BY <2>1 DEF Keeps, TableOK
<1>2. /\ k \in Jobs /\ Swept[k].status = "queued"
      /\ \A i \in Jobs : Swept[i].room = Swept[k].room /\ Swept[i].status \in Active
                           => Swept[i].seq >= Swept[k].seq
  BY <1>0, <1>1, CandidateIsFirst
<1>3. jobs[k].room \in Rooms
  BY <1>0, <1>1, <1>2 DEF TableOK, RowOK, SameJob
<1>4. ASSUME NEW i \in Jobs, jobs[i].room = jobs[k].room, tasks[d][i] > 0 PROVE FALSE
  <2>1. Swept[i] = jobs[i] /\ jobs[i].status = "leased"
    BY <1>0, <1>4, SweptKeepsHeld
  <2>2. Swept[i].room = Swept[k].room /\ i # k
    BY <1>1, <1>2, <1>4, <2>1 DEF SameJob
  <2>3. Swept[i].seq < Swept[k].seq
    BY <1>1, <1>2, <2>1, <2>2 DEF LeasedFirst, Active
  <2>4. Swept[i].seq >= Swept[k].seq
    BY <1>2, <2>1, <2>2 DEF Active
  <2>5. Swept[i].seq \in Nat /\ Swept[k].seq \in Nat
    BY <1>1, <1>2 DEF JobRow
  <2> QED
    BY <2>3, <2>4, <2>5
<1>5. roomActive[d][jobs[k].room] = 0
  <2>1. tasks[d] \in [Jobs -> Nat]
    BY <1>0 DEF IInv, LanesTyped
  <2>2. PICK f \in [Jobs -> Nat] : f = tasks[d]
    BY <2>1
  <2>3. PICK r \in Rooms : r = jobs[k].room
    BY <1>3
  <2>4. roomActive[d][r] = Cardinality(Slots(f, {i \in Jobs : jobs[i].room = r}))
    BY <2>2 DEF IInv, PoolOK, PoolAt
  <2>5. Slots(f, {i \in Jobs : jobs[i].room = r}) = Slots(f, {})
    BY <1>4, <2>2, <2>3, SlotsSame
  <2>6. Slots(f, {}) = {}
    BY DEF Slots
  <2> QED
    BY <2>3, <2>4, <2>5, <2>6, FS_EmptySet
<1>6. MaxWorkersPerRoom \in Nat \ {0} /\ MaxConcurrentRooms \in Nat /\ MaxGlobalWorkers \in Nat
  BY RoomQueueAssumption
<1>7. globalActive[d] \in Nat /\ globalActive[d] < MaxConcurrentRooms
  BY DEF IInv, LanesTyped, MayFill
<1> QED
  BY <1>5, <1>6, <1>7 DEF PoolAccepts

\* A drain whose pool fits the workers leases nothing in the step that ends its filling.
LEMMA EndsWithoutLease ==
  ASSUME IInv, [Next]_vars, AtomicLease, TimelyTurns, MaxConcurrentRooms <= MaxGlobalWorkers,
         NEW d \in Drains, phase[d] = "filling", phase'[d] = "idle", NEW j \in Jobs
  PROVE  jobs'[j].attempts <= jobs[j].attempts
<1>0. /\ TableOK(jobs) /\ clock \in Nat /\ jobs \in [Jobs -> JobRow(Rooms)]
      /\ jobs[j].attempts \in Nat /\ Swept[j].attempts = jobs[j].attempts
  <2>1. TableOK(jobs) /\ clock \in Nat /\ jobs \in [Jobs -> JobRow(Rooms)]
    BY DEF IInv, CountsTyped, TableOK
  <2> QED
    BY <2>1, SweepKeeps DEF JobRow
<1>1. jobs' = jobs \/ jobs' = Swept => jobs'[j].attempts <= jobs[j].attempts
  BY <1>0
<1>2. ~ (phase' = phase)
  OBVIOUS
<1>3. ASSUME NEW k \in Jobs, NEW r \in Rooms, NEW immediate \in BOOLEAN, Arrive(k, r, immediate)
      PROVE  FALSE
  BY <1>2, <1>3 DEF Arrive, laneVars, drainVars
<1>4. ASSUME NEW e \in Drains, StartDrain(e) \/ FillEnds(e)
      PROVE  jobs'[j].attempts <= jobs[j].attempts
  BY <1>1, <1>4 DEF StartDrain, FillEnds
<1>5. ASSUME NEW e \in Drains, ScheduleNext(e) PROVE FALSE
  <2>1. PICK k \in NextCandidates(Swept, clock, served[e]) : Dispatch(e, k, jobs[k].room)
    BY <1>5 DEF ScheduleNext
  <2>2. PoolAccepts(e, jobs[k].room)
    BY <1>5, PoolHasRoom DEF ScheduleNext
  <2> QED
    BY <1>2, <2>1, <2>2 DEF Dispatch
<1>6. CASE ProcessNext
  BY <1>2, <1>6 DEF ProcessNext, drainVars
<1>7. ASSUME NEW l \in Lanes, SelectNext(l) \/ LeasePicked(l) \/ Crash(l)
      PROVE  jobs'[j].attempts <= jobs[j].attempts
  BY <1>1, <1>7, NothingPicked DEF SelectNext, Crash
<1>8. ASSUME NEW l \in Lanes, NEW k \in Jobs, TurnEnds(l, k) \/ TurnFails(l, k)
      PROVE  jobs'[j].attempts <= jobs[j].attempts
  <2>1. PICK status \in Terminal : jobs' = SettleJob(jobs, k, status)
    BY <1>8 DEF TurnEnds, TurnFails, Terminal
  <2>2. jobs'[j].attempts = jobs[j].attempts
    BY <1>0, <2>1, SettleJobRows
  <2> QED
    BY <1>0, <2>2
<1>9. ASSUME NEW k \in Jobs, Retry(k) PROVE FALSE
  BY <1>2, <1>9 DEF Retry, laneVars, drainVars
<1>10. CASE Recover \/ Tick
  BY <1>1, <1>10 DEF Recover, Tick
<1>11. CASE UNCHANGED vars
  BY <1>1, <1>11 DEF vars
<1> QED
  BY <1>3, <1>4, <1>5, <1>6, <1>7, <1>8, <1>9, <1>10, <1>11 DEF Next
-----------------------------------------------------------------------------
(* The theorems about steps *)

\* What a turn has completed or cancelled no other turn, sweep, retry or lease
\* takes up again, under the hypotheses that serialize the turns.
THEOREM SettledStaysSettled ==
  ASSUME AtomicLease, TimelyTurns
  PROVE  Spec => SettledForGood
<1>1. IInv /\ [Next]_vars =>
        [\A j \in Jobs :
           jobs[j].status \in {"completed", "cancelled"} => jobs'[j].status = jobs[j].status]_vars
  BY SettledStays
<1> QED
  BY <1>1, Inductive, PTL DEF Spec, SettledForGood

\* However its counters, priorities and penalties stand, a drain passes over a
\* leasable job only for one whose shorter wait the penalty of the room makes
\* up for.
THEOREM AgingBounds ==
  ASSUME AtomicLease
  PROVE  Spec => AgingBoundsBypass
<1>1. ASSUME IInv, [Next]_vars, NEW d \in Drains, NEW j \in Jobs, NEW c \in Jobs,
             scheduled'[d] > scheduled[d], jobs'[j].attempts > jobs[j].attempts, c # j,
             Leasable(Swept, c, clock)
      PROVE  ((jobs[j].availableAt - jobs[c].availableAt) \div AgingMs) * AgingStep
               <= PenaltyStep * served[d][jobs[c].room]
  <2>1. ScheduleNext(d)
    BY <1>1, SchedulesOnly
  <2>2. PICK k \in NextCandidates(Swept, clock, served[d]) :
          jobs' = LeaseJob(Swept, k, Swept[k].attempts, clock)
    BY <2>1 DEF ScheduleNext
  <2>3. \A i \in Jobs \ {k} : jobs'[i] = Swept[i]
    BY <1>1, <2>2, LeaseInOrder
  <2>4. /\ TableOK(jobs) /\ clock \in Nat
        /\ Swept[j].attempts = jobs[j].attempts /\ jobs[j].attempts \in Nat
    <3>1. TableOK(jobs) /\ clock \in Nat /\ jobs[j] \in JobRow(Rooms)
      BY <1>1 DEF IInv, CountsTyped, TableOK
    <3> QED
      BY <3>1, SweepKeeps DEF JobRow
  <2>5. j = k
    BY <1>1, <2>3, <2>4
  <2>6. served[d] \in [Rooms -> Nat]
    BY <1>1 DEF IInv, LanesTyped
  <2> QED
    BY <1>1, <2>2, <2>5, <2>6, AgingLeads
<1>2. IInv /\ [Next]_vars =>
        [\A d \in Drains, j, c \in Jobs :
           /\ scheduled'[d] > scheduled[d]
           /\ jobs'[j].attempts > jobs[j].attempts
           /\ c # j
           /\ Leasable(Swept, c, clock)
           => ((jobs[j].availableAt - jobs[c].availableAt) \div AgingMs) * AgingStep
                <= PenaltyStep * served[d][jobs[c].room]]_vars
  BY <1>1
<1> QED
  BY <1>2, Inductive, PTL DEF Spec, AgingBoundsBypass

\* A pool at least as large as what the drain fills it with refuses no job that
\* was leased for it: the room of such a job has no turn left in the pool.
THEOREM NeverRefuses ==
  ASSUME AtomicLease, TimelyTurns, MaxConcurrentRooms <= MaxGlobalWorkers
  PROVE  Spec => PoolNeverRefuses
<1>1. IInv /\ [Next]_vars =>
        [\A d \in Drains :
           phase[d] = "filling" /\ phase'[d] = "idle"
             => \A j \in Jobs : jobs'[j].attempts <= jobs[j].attempts]_vars
  BY EndsWithoutLease
<1> QED
  BY <1>1, Inductive, PTL DEF Spec, PoolNeverRefuses
=============================================================================
