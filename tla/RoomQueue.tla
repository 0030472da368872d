------------------------------ MODULE RoomQueue ------------------------------
(***************************************************************************)
(* The room queue as the processes that share it drive it.  Each lane is   *)
(* an operating-system process on the same SQLite file: the server, which  *)
(* leases one job per message ingested with processImmediately, and the    *)
(* `mailctl drain` commands, each with a worker pool of its own.  A turn   *)
(* (processLeasedRoomJob) is a task of its lane: what it does to the room  *)
(* is left to MailRoom, here it only ends and settles its job.             *)
(*                                                                         *)
(* The statements of one lane do not interleave with each other between    *)
(* two awaits, those of two lanes do: AtomicLease says whether another     *)
(* lane may run between the SELECT and the UPDATE of leaseNextRoomJob.     *)
(***************************************************************************)
EXTENDS RoomJobs, FiniteSets

CONSTANTS
  Rooms, Jobs,          \* room keys; job ids 1..n, taken in order
  Drains, Server,       \* `mailctl drain` processes; the server process
  MaxConcurrentRooms, MaxGlobalWorkers, MaxWorkersPerRoom, \* config.queue
  MaxRuns,              \* drainQueue's maxRuns
  AtomicLease,          \* no other lane runs inside leaseNextRoomJob
  TimelyTurns,          \* a turn ends before its lease expires
  MaxClock,             \* bound on the clock
  MaxCrashes,           \* bound on the crashes of a lane
  MaxRetries            \* bound on the operator's retries

Lanes == Drains \union {Server}
BasePriority == 100     \* every caller enqueues with priority 100
NoPick == [job |-> 0, attempts |-> 0]

ASSUME RoomQueueAssumption ==
  /\ Jobs \subseteq Nat \ {0}
  /\ NoRoom \notin Rooms
  /\ Server \notin Drains
  /\ {MaxConcurrentRooms, MaxGlobalWorkers, MaxWorkersPerRoom, MaxRuns} \subseteq Nat \ {0}
  /\ {AtomicLease, TimelyTurns} \subseteq BOOLEAN
  /\ {MaxClock, MaxCrashes, MaxRetries} \subseteq Nat

VARIABLES
  jobs,        \* room_queue_jobs
  revision,    \* thread_rooms.revision, which equals last_inbound_seq here
  clock,
  due,         \* processNextRoomJob calls the server has still to make
  tasks,       \* tasks[l][j]: turns lane l is running for job j
  pick,        \* pick[l]: the row l has selected and not yet updated
  phase,       \* where a drainQueue call is
  served,      \* servedRoomsThisCycle
  scheduled,   \* its scheduled counter
  roomActive, globalActive,   \* the counters of its worker pool
  crashes, retries            \* counted against MaxCrashes and MaxRetries

drainVars == <<phase, served, scheduled, roomActive, globalActive>>
laneVars == <<tasks, pick, drainVars>>
vars == <<jobs, revision, clock, due, laneVars, crashes, retries>>

Phases == {"idle", "filling", "waiting"}

TypeOK ==
  /\ jobs \in [Jobs -> JobRow(Rooms)]
  /\ revision \in [Rooms -> Nat]
  /\ clock \in Nat
  /\ due \in Nat
  /\ tasks \in [Lanes -> [Jobs -> Nat]]
  /\ pick \in [Lanes -> [job : Jobs \union {0}, attempts : Nat]]
  /\ phase \in [Drains -> Phases]
  /\ served \in [Drains -> [Rooms -> Nat]]
  /\ scheduled \in [Drains -> Nat]
  /\ roomActive \in [Drains -> [Rooms -> Nat]]
  /\ globalActive \in [Drains -> Nat]
  /\ crashes \in Nat
  /\ retries \in Nat

NoTasks == [j \in Jobs |-> 0]
NobodyServed == [r \in Rooms |-> 0]

Init ==
  /\ jobs = [j \in Jobs |-> NoRow]
  /\ revision = [r \in Rooms |-> 0]
  /\ clock = 0
  /\ due = 0
  /\ tasks = [l \in Lanes |-> NoTasks]
  /\ pick = [l \in Lanes |-> NoPick]
  /\ phase = [d \in Drains |-> "idle"]
  /\ served = [d \in Drains |-> NobodyServed]
  /\ scheduled = [d \in Drains |-> 0]
  /\ roomActive = [d \in Drains |-> NobodyServed]
  /\ globalActive = [d \in Drains |-> 0]
  /\ crashes = 0
  /\ retries = 0

-----------------------------------------------------------------------------
RunsTask(l) == \E j \in Jobs : tasks[l][j] > 0
TurnsOf(r) ==
  {t \in Lanes \X Jobs : tasks[t[1]][t[2]] > 0 /\ jobs[t[2]].room = r}

JobsIn(r) == {j \in Jobs : jobs[j].room = r}

\* The turns of a lane for some of the jobs, one by one.
TurnsFor(l, some) == UNION {{j} \X (1 .. tasks[l][j]) : j \in some}

\* A message arrives: its job is enqueued and the queued jobs of earlier
\* messages of the room are cancelled, in one synchronous block.
Arrive(j, r, immediate) ==
  /\ jobs[j].status = "absent"
  /\ \A i \in Jobs : i < j => jobs[i].status # "absent"
  /\ LET rev == revision[r] + 1
     IN  /\ revision' = [revision EXCEPT ![r] = rev]
         /\ jobs' = CancelQueuedBefore(
                      EnqueueJob(jobs, j, r, rev, rev, BasePriority, clock), r, rev)
  /\ due' = IF immediate THEN due + 1 ELSE due
  /\ UNCHANGED <<clock, laneVars, crashes, retries>>

\* The row leaseNextRoomJob leases, after its sweep of expired leases.
Swept == RecoverExpired(jobs, clock)

StartTask(l, j) == tasks' = [tasks EXCEPT ![l][j] = @ + 1]

\* The pool refuses a leased job: drainQueue throws, mailctl closes the
\* database, and the turns of the lane still running can write nothing more.
PoolAccepts(d, r) ==
  /\ globalActive[d] < IF MaxConcurrentRooms < MaxGlobalWorkers
                       THEN MaxConcurrentRooms ELSE MaxGlobalWorkers
  /\ roomActive[d][r] < MaxWorkersPerRoom

LoseLane(l) ==
  /\ tasks' = [tasks EXCEPT ![l] = NoTasks]
  /\ pick' = [pick EXCEPT ![l] = NoPick]
  /\ IF l \in Drains
     THEN /\ phase' = [phase EXCEPT ![l] = "idle"]
          /\ served' = [served EXCEPT ![l] = NobodyServed]
          /\ scheduled' = [scheduled EXCEPT ![l] = 0]
          /\ roomActive' = [roomActive EXCEPT ![l] = NobodyServed]
          /\ globalActive' = [globalActive EXCEPT ![l] = 0]
     ELSE UNCHANGED drainVars

\* scheduleNext once its job is leased.
Dispatch(d, j, r) ==
  IF PoolAccepts(d, r)
  THEN /\ StartTask(d, j)
       /\ pick' = [pick EXCEPT ![d] = NoPick]
       /\ served' = [served EXCEPT ![d][r] = @ + 1]
       /\ scheduled' = [scheduled EXCEPT ![d] = @ + 1]
       /\ roomActive' = [roomActive EXCEPT ![d][r] = @ + 1]
       /\ globalActive' = [globalActive EXCEPT ![d] = @ + 1]
       /\ UNCHANGED phase
  ELSE LoseLane(d)

-----------------------------------------------------------------------------
StartDrain(d) ==
  /\ phase[d] = "idle"
  /\ \E j \in Jobs : jobs[j].status \in Active     \* nothing to drain otherwise
  /\ phase' = [phase EXCEPT ![d] = "filling"]
  /\ UNCHANGED <<jobs, revision, clock, due, tasks, pick, served, scheduled,
                 roomActive, globalActive, crashes, retries>>

\* while (activeTasks.size < maxConcurrentRooms && scheduleNext()); the
\* pool's global counter equals activeTasks.size.
MayFill(d) ==
  /\ phase[d] = "filling"
  /\ pick[d] = NoPick
  /\ globalActive[d] < MaxConcurrentRooms
  /\ scheduled[d] < MaxRuns

ScheduleNext(d) ==
  /\ AtomicLease
  /\ MayFill(d)
  /\ \E j \in NextCandidates(Swept, clock, served[d]) :
       /\ jobs' = LeaseJob(Swept, j, Swept[j].attempts, clock)
       /\ Dispatch(d, j, jobs[j].room)
  /\ UNCHANGED <<revision, clock, due, crashes, retries>>

FillEnds(d) ==
  /\ phase[d] = "filling"
  /\ pick[d] = NoPick
  /\ ~ (MayFill(d) /\ NextCandidates(Swept, clock, served[d]) # {})
  /\ jobs' = IF MayFill(d) THEN Swept ELSE jobs
  /\ IF RunsTask(d)
     THEN /\ phase' = [phase EXCEPT ![d] = "waiting"]
          /\ UNCHANGED <<tasks, pick, served, scheduled, roomActive, globalActive>>
     ELSE LoseLane(d)       \* drainQueue returns
  /\ UNCHANGED <<revision, clock, due, crashes, retries>>

\* processNextRoomJob in the server: no fairness penalty, no pool.
ProcessNext ==
  /\ AtomicLease
  /\ due > 0
  /\ due' = due - 1
  /\ \/ \E j \in NextCandidates(Swept, clock, NobodyServed) :
          /\ jobs' = LeaseJob(Swept, j, Swept[j].attempts, clock)
          /\ StartTask(Server, j)
     \/ /\ NextCandidates(Swept, clock, NobodyServed) = {}
        /\ jobs' = Swept
        /\ UNCHANGED tasks
  /\ UNCHANGED <<revision, clock, pick, drainVars, crashes, retries>>

-----------------------------------------------------------------------------
\* leaseNextRoomJob with another lane between its statements.
CallerCounts(l) == IF l \in Drains THEN served[l] ELSE NobodyServed
MayLease(l) == IF l = Server THEN due > 0 /\ pick[l] = NoPick ELSE MayFill(l)

SelectNext(l) ==
  /\ ~ AtomicLease
  /\ MayLease(l)
  /\ \/ \E j \in NextCandidates(Swept, clock, CallerCounts(l)) :
          pick' = [pick EXCEPT ![l] = [job |-> j, attempts |-> Swept[j].attempts]]
     \/ /\ l = Server
        /\ NextCandidates(Swept, clock, CallerCounts(l)) = {}
        /\ UNCHANGED pick
  /\ jobs' = Swept
  /\ due' = IF l = Server THEN due - 1 ELSE due
  /\ UNCHANGED <<revision, clock, tasks, drainVars, crashes, retries>>

LeasePicked(l) ==
  /\ pick[l] # NoPick
  /\ LET j == pick[l].job
     IN  /\ jobs' = LeaseJob(jobs, j, pick[l].attempts, clock)
         /\ IF l \in Drains
            THEN Dispatch(l, j, jobs[j].room)
            ELSE /\ StartTask(l, j)
                 /\ pick' = [pick EXCEPT ![l] = NoPick]
                 /\ UNCHANGED drainVars
  /\ UNCHANGED <<revision, clock, due, crashes, retries>>

-----------------------------------------------------------------------------
\* Mutant: the room's counter is not given back.
ReleaseSlot_GlobalOnly(l, r) ==
  IF l \in Drains
  THEN /\ globalActive' = [globalActive EXCEPT ![l] = IF @ > 0 THEN @ - 1 ELSE @]
       /\ phase' = [phase EXCEPT ![l] = "filling"]
       /\ UNCHANGED <<served, scheduled, roomActive>>
  ELSE UNCHANGED drainVars

\* The pool's release, after a turn of a drain that ended well.  The race the
\* drain awaits resolves and it fills its pool again.
ReleaseSlot(l, r) ==
  IF l \in Drains
  THEN /\ roomActive' = [roomActive EXCEPT ![l][r] = IF @ > 0 THEN @ - 1 ELSE @]
       /\ globalActive' = [globalActive EXCEPT
            ![l] = IF roomActive[l][r] > 0 /\ @ > 0 THEN @ - 1 ELSE @]
       /\ phase' = [phase EXCEPT ![l] = "filling"]
       /\ UNCHANGED <<served, scheduled>>
  ELSE UNCHANGED drainVars

\* The turn's last synchronous block runs only while its lane awaits.
Awaiting(l) == pick[l] = NoPick /\ (l \in Drains => phase[l] = "waiting")

\* A turn ends: a stale one is cancelled, any other completed.
TurnEnds(l, j) ==
  /\ tasks[l][j] > 0
  /\ Awaiting(l)
  /\ jobs' = SettleJob(jobs, j, IF revision[jobs[j].room] > jobs[j].revision
                                THEN "cancelled" ELSE "completed")
  /\ tasks' = [tasks EXCEPT ![l][j] = @ - 1]
  /\ ReleaseSlot(l, jobs[j].room)
  /\ UNCHANGED <<revision, clock, due, pick, crashes, retries>>

\* A turn throws: its job fails.  In a drain the race rejects, the command
\* ends, and its other turns are lost; in the server only the request fails.
TurnFails(l, j) ==
  /\ tasks[l][j] > 0
  /\ Awaiting(l)
  /\ jobs' = SettleJob(jobs, j, "failed")
  /\ IF l \in Drains
     THEN LoseLane(l)
     ELSE /\ tasks' = [tasks EXCEPT ![l][j] = @ - 1]
          /\ UNCHANGED <<pick, drainVars>>
  /\ UNCHANGED <<revision, clock, due, crashes, retries>>

\* retryRoomJob; a job of a superseded revision is refused.
Retry(j) ==
  /\ retries < MaxRetries
  /\ jobs[j].status = "failed"
  /\ revision[jobs[j].room] <= jobs[j].revision
  /\ jobs' = RetryFailedJob(jobs, j, clock)
  /\ retries' = retries + 1
  /\ UNCHANGED <<revision, clock, due, laneVars, crashes>>

\* recoverRoomQueue: at startup, `mailctl recover`, POST /api/recovery.
Recover ==
  /\ Swept # jobs
  /\ jobs' = Swept
  /\ UNCHANGED <<revision, clock, due, laneVars, crashes, retries>>

\* A process dies: its turns are lost, its leases stay.
Crash(l) ==
  /\ crashes < MaxCrashes
  /\ RunsTask(l) \/ pick[l] # NoPick
  /\ LoseLane(l)
  /\ due' = IF l = Server THEN 0 ELSE due
  /\ crashes' = crashes + 1
  /\ UNCHANGED <<jobs, revision, clock, retries>>

Tick ==
  /\ clock < MaxClock
  /\ TimelyTurns => \A l \in Lanes, j \in Jobs :
                      tasks[l][j] > 0 => jobs[j].leaseExpiresAt > clock + 1
  /\ clock' = clock + 1
  /\ UNCHANGED <<jobs, revision, due, laneVars, crashes, retries>>

Next ==
  \/ \E j \in Jobs, r \in Rooms, immediate \in BOOLEAN : Arrive(j, r, immediate)
  \/ \E d \in Drains : StartDrain(d) \/ ScheduleNext(d) \/ FillEnds(d)
  \/ ProcessNext
  \/ \E l \in Lanes : SelectNext(l) \/ LeasePicked(l) \/ Crash(l)
  \/ \E l \in Lanes, j \in Jobs : TurnEnds(l, j) \/ TurnFails(l, j)
  \/ \E j \in Jobs : Retry(j)
  \/ Recover
  \/ Tick

Spec == Init /\ [][Next]_vars

(***************************************************************************)
(* The commands are run again and again, every turn ends, time passes; no  *)
(* fairness is asked of arrivals, crashes, failures or retries.            *)
(***************************************************************************)
Fairness ==
  /\ \A d \in Drains : WF_vars(StartDrain(d)) /\ WF_vars(ScheduleNext(d)) /\ WF_vars(FillEnds(d))
  /\ WF_vars(ProcessNext)
  /\ \A l \in Lanes : WF_vars(SelectNext(l)) /\ WF_vars(LeasePicked(l))
  /\ \A l \in Lanes : WF_vars(\E j \in Jobs : TurnEnds(l, j) \/ TurnFails(l, j))
  /\ WF_vars(Tick)

FairSpec == Spec /\ Fairness

-----------------------------------------------------------------------------
(* Safety *)

\* The queue "serializes jobs within the same room": two turns of one room
\* never run at the same time, in whatever lanes they are.
OneTurnPerRoom ==
  \A r \in Rooms :
    /\ \A t, u \in TurnsOf(r) : t = u
    /\ \A t \in TurnsOf(r) : tasks[t[1]][t[2]] = 1

\* The counters of a drain's pool count the turns it runs, room by room, also
\* after failures, refusals and crashes.
PoolCountsTurns ==
  \A d \in Drains :
    /\ globalActive[d] <= MaxConcurrentRooms
    /\ globalActive[d] = Cardinality(TurnsFor(d, Jobs))
    /\ \A r \in Rooms : roomActive[d][r] = Cardinality(TurnsFor(d, JobsIn(r)))

\* Bursts coalesce: a queued job that was never leased belongs to the newest
\* message of its room.
QueuedJobIsCurrent ==
  \A j \in Jobs :
    jobs[j].status = "queued" /\ jobs[j].attempts = 0
      => jobs[j].revision = revision[jobs[j].room]

(* Action properties *)

\* A job that was completed or cancelled stays so, whichever turns still hold it.
SettledForGood ==
  [][\A j \in Jobs :
       jobs[j].status \in {"completed", "cancelled"} => jobs'[j].status = jobs[j].status]_vars

\* Aging bounds how long a drain can prefer others to a waiting job c: it
\* passes c over only while c's lead in waiting time is worth no more than the
\* fairness penalty of c's room.
AgingBoundsBypass ==
  [][\A d \in Drains, j, c \in Jobs :
       /\ scheduled'[d] > scheduled[d]
       /\ jobs'[j].attempts > jobs[j].attempts
       /\ c # j
       /\ Leasable(Swept, c, clock)
       => ((jobs[j].availableAt - jobs[c].availableAt) \div AgingMs) * AgingStep
            <= PenaltyStep * served[d][jobs[c].room]]_vars

\* A drain leases no job its worker pool then refuses, for want of a slot or
\* because the room of the job has all it may have: it never ends, with the
\* turns it is running, over a job that stays leased and waits for its expiry.
PoolNeverRefuses ==
  [][\A d \in Drains :
       phase[d] = "filling" /\ phase'[d] = "idle"
         => \A j \in Jobs : jobs'[j].attempts <= jobs[j].attempts]_vars

(* Liveness *)

Abandoned(j) ==
  jobs[j].status = "leased" /\ \A l \in Lanes : tasks[l][j] = 0

\* Every message's job reaches a terminal status, whatever fails or crashes,
\* unless a lease is abandoned so late that the bounded clock never expires it.
BeyondHorizon == \E j \in Jobs : Abandoned(j) /\ jobs[j].leaseExpiresAt > MaxClock

EveryJobSettles ==
  \A j \in Jobs :
    (jobs[j].status \in Active) ~> (jobs[j].status \in Terminal \/ BeyondHorizon)
=============================================================================
