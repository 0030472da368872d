------------------------------ MODULE MailRoom ------------------------------
(***************************************************************************)
(* The life of mail rooms: how inbound mail, the turns that answer it and  *)
(* the operator change a row of thread_rooms, the room's jobs and its      *)
(* outbox (src/orchestration/service.ts and runtime.ts).                   *)
(*                                                                         *)
(* processLeasedRoomJob is cut at its awaits: what lies between two of     *)
(* them is one action, because one process runs it without interleaving.   *)
(* A turn keeps the row of its room it read at the start and writes it     *)
(* back later, whatever has happened to the row since.  No statements are  *)
(* grouped in a transaction: "torn_write" lets the process die in between. *)
(*                                                                         *)
(* Time: the table's clock stands at Now, and LeaseLapses moves the expiry *)
(* of a lease into the past.  Priorities play no part between the jobs of  *)
(* one room, and between rooms every order is allowed.                     *)
(***************************************************************************)
EXTENDS RoomJobs, FollowUps, Sequences, FiniteSets

CONSTANTS
  Jobs,            \* job ids 1..n, taken in order
  Turns, NoTurn,   \* slots for concurrent turns; the content of a free slot
  Scenarios        \* what may happen in a behaviour, and its bounds

Events ==
  {"duplicate",      \* a message is delivered again
   "policy_block",   \* a message violates the inbound policy
   "turn_fails",     \* an executor or a worker throws
   "slow_turn",      \* a lease may expire while its turn runs
   "crash",          \* the process dies while its turns await
   "torn_write",     \* the process dies between two statements of a block
   "torn_insert",    \* it dies with a new message stored and its room not written
   "misdated",       \* mail is not dated in the order in which it comes
   "disk_fails",     \* a file that is written after the reply's intent cannot be
   "handoff", "release", "retry",    \* calls of the operator
   "follow_ups",     \* days pass, and the operator handles the follow-ups
   "torn_run"}       \* the process dies while it runs the due follow-ups

\* What the text of a message asks for, as far as ingestion looks at it.
Message ==
  [kind : {"reply_now", "project_work", "run_at", "cron_like"},
   project : Projects \union {NoProject}]

(***************************************************************************)
(* mail: the messages each room may get, in order.  workers: the worker    *)
(* stages a turn may have.  A reply is torn only while fewer than          *)
(* maxTornReplies have been emitted.                                       *)
(***************************************************************************)
Now == 1
NoneServed == [r \in Rooms |-> 0]
BasePriority == 100

\* In place of a message: the thread's mail that the agent itself has sent.
Own == 0

ASSUME MailRoomAssumption ==
  /\ Jobs \subseteq Nat \ {0}
  /\ NoRoom \notin Rooms
  /\ \A s \in Scenarios :
       /\ s.events \subseteq Events
       /\ s.workers \subseteq {"prelude", "postrun"}
       /\ s.mail \in [Rooms -> Seq(Message)]
       /\ {s.maxJobs, s.maxRetries, s.maxTornReplies} \subseteq Nat

VARIABLES
  rooms,      \* thread_rooms
  jobs,       \* room_queue_jobs
  turns,      \* the running calls of processLeasedRoomJob
  outbox,     \* the final replies, in the order their intents are inserted
  lastMail,   \* the mail of a room's thread with the latest date, Own or a message
  subject,    \* subject[j]: the mail that job j handles, Own or a message
  inbound,    \* history: inbound[j] is the newest message when job j was made
  released,   \* the jobs releaseHandoff enqueued ("handoff-release:" ids)
  arrived,    \* history: messages that arrived in a room, duplicates apart
  blocked,    \* history: the messages the policy blocked, as <<room, n>>
  handedOff,  \* history: handoff requested and not yet released
  retries,    \* counted against the scenario's bound
  scenario    \* chosen at the start

history == <<arrived, blocked, handedOff>>
vars == <<rooms, jobs, turns, outbox, lastMail, subject, inbound, released, history,
          retries, followVars, scenario>>

RoomStates ==
  {"none", "idle", "queued", "running", "waiting_workers", "replying", "done",
   "failed", "handoff"}

RoomRow == [state : RoomStates, revision : Nat, inSeq : Nat, outSeq : Nat]
NoRoomRow == [state |-> "none", revision |-> 0, inSeq |-> 0, outSeq |-> 0]

\* results: workers have reported (the worker summaries are not empty).
Turn ==
  [at : {"prelude", "executing", "postrun"}, job : Jobs, room : RoomRow,
   results : BOOLEAN]

ASSUME NoTurnAssumption == NoTurn \notin Turn

OutboxEntry ==
  [room : Rooms, job : Jobs, to : Nat, asked : Nat, newest : Nat, held : BOOLEAN]

TypeOK ==
  /\ rooms \in [Rooms -> RoomRow]
  /\ jobs \in [Jobs -> JobRow(Rooms)]
  /\ turns \in [Turns -> Turn \union {NoTurn}]
  /\ outbox \in Seq(OutboxEntry)
  /\ lastMail \in [Rooms -> Nat]
  /\ subject \in [Jobs -> Nat]
  /\ inbound \in [Jobs -> Nat]
  /\ released \subseteq Jobs
  /\ arrived \in [Rooms -> Nat]
  /\ blocked \subseteq Rooms \X Nat
  /\ handedOff \in [Rooms -> BOOLEAN]
  /\ retries \in Nat
  /\ FollowTypeOK
  /\ scenario \in Scenarios

Init ==
  /\ rooms = [r \in Rooms |-> NoRoomRow]
  /\ jobs = [j \in Jobs |-> NoRow]
  /\ turns = [t \in Turns |-> NoTurn]
  /\ outbox = <<>>
  /\ lastMail = [r \in Rooms |-> Own]
  /\ subject = [j \in Jobs |-> Own]
  /\ inbound = [j \in Jobs |-> 0]
  /\ released = {}
  /\ arrived = [r \in Rooms |-> 0]
  /\ blocked = {}
  /\ handedOff = [r \in Rooms |-> FALSE]
  /\ retries = 0
  /\ FollowInit
  /\ scenario \in Scenarios

-----------------------------------------------------------------------------
May(event) == event \in scenario.events
Exists(r) == rooms[r].state # "none"
SetState(r, state) == rooms' = [rooms EXCEPT ![r].state = state]
NextJob(j) ==
  /\ j <= scenario.maxJobs
  /\ jobs[j].status = "absent"
  /\ \A i \in Jobs : i < j => jobs[i].status # "absent"

(* ingestIncomingMail *)

\* Mutant: new mail takes a room out of its handoff.
Bumped_Queued(r, state) ==
  [rooms[r] EXCEPT !.state = "queued", !.revision = @ + 1, !.inSeq = @ + 1]

\* The row with the revision and the sequence number bumped.
Bumped(r, state) ==
  [rooms[r] EXCEPT !.state = state, !.revision = @ + 1, !.inSeq = @ + 1]

\* A room is bound to the project the mail names, the agent's own quoting any; a
\* room given the state done or handoff is at rest.
Assign(r, n, state) ==
  LET named == IF n = Own THEN Projects \union {NoProject}
                          ELSE {scenario.mail[r][n].project}
      atRest == {q \in Rooms :
        (IF q = r THEN state ELSE rooms[q].state) \in {"done", "handoff"}}
  IN  \/ NoProject \in named /\ UNCHANGED projectVars
      \/ \E project \in named \ {NoProject} : Bind(r, project, atRest)

IsWork(r, n) == scenario.mail[r][n].kind = "project_work" /\ rooms[r].state # "handoff"
AssignWork(r, n) ==
  IF IsWork(r, n) THEN Assign(r, n, "queued") ELSE UNCHANGED projectVars

\* A first message may plan a follow-up, any other ends it.
Schedule(r) ==
  LET kind == scenario.mail[r][arrived[r] + 1].kind
  IN  IF Exists(r) THEN Stop(r)
      ELSE IF kind \in {"run_at", "cron_like"} THEN Plan(r, kind)
      ELSE UNCHANGED scheduleVars

\* What every new message does, blocked or not, under handoff or not.
Arranged(r) ==
  /\ Schedule(r)
  /\ AssignWork(r, arrived[r] + 1)
  /\ UNCHANGED day

\* Mail is added to the thread of a room, mostly with the latest date of all.
Filed(r, mail) ==
  \/ lastMail' = [lastMail EXCEPT ![r] = mail]
  \/ May("misdated") /\ arrived[r] > 0 /\ UNCHANGED lastMail

\* resolveThreadForMail stores the message.
Arrives(r) ==
  /\ arrived[r] < Len(scenario.mail[r])
  /\ arrived' = [arrived EXCEPT ![r] = @ + 1]
  /\ Filed(r, arrived'[r])

\* A new message in a room nobody has taken over gets a job.
Accepts(r, j) ==
  /\ Arrives(r)
  /\ rooms[r].state # "handoff"
  /\ NextJob(j)
  /\ rooms' = [rooms EXCEPT ![r] = Bumped(r, "queued")]
  /\ subject' = [subject EXCEPT ![j] = arrived'[r]]
  /\ inbound' = [inbound EXCEPT ![j] = arrived'[r]]
  /\ Arranged(r)
  /\ UNCHANGED <<outbox, released, blocked, handedOff, retries, scenario>>

Enqueued(r, j) ==
  LET row == Bumped(r, "queued")
  IN  EnqueueJob(jobs, j, r, row.revision, row.inSeq, BasePriority, Now)

\* The job is enqueued, then the queued jobs of earlier messages are cancelled.
IngestAccepted(r, j) ==
  /\ Accepts(r, j)
  /\ jobs' = CancelQueuedBefore(Enqueued(r, j), r, Bumped(r, "queued").inSeq)
  /\ UNCHANGED turns

\* The process dies before they are.
IngestCut(r, j) ==
  /\ May("torn_write")
  /\ Accepts(r, j)
  /\ jobs' = Enqueued(r, j)
  /\ turns' = [t \in Turns |-> NoTurn]

\* In a room under handoff the message is recorded and no job is made.
IngestHeld(r) ==
  /\ Arrives(r)
  /\ rooms[r].state = "handoff"
  /\ rooms' = [rooms EXCEPT ![r] = Bumped(r, "handoff")]
  /\ Arranged(r)
  /\ UNCHANGED <<jobs, turns, outbox, subject, inbound, released, blocked, handedOff,
                 retries, scenario>>

\* A message that violates the policy: the room fails, also under handoff.
IngestBlocked(r) ==
  /\ May("policy_block")
  /\ Arrives(r)
  /\ rooms' = [rooms EXCEPT ![r] = Bumped(r, "failed")]
  /\ blocked' = blocked \union {<<r, arrived'[r]>>}
  /\ Arranged(r)
  /\ UNCHANGED <<jobs, turns, outbox, subject, inbound, released, handedOff, retries,
                 scenario>>

\* A room whose row was never written gets one that counts one message.
DuplicateRow(r) ==
  IF Exists(r)
  THEN [rooms[r] EXCEPT !.state = IF @ = "handoff" THEN "handoff" ELSE "queued"]
  ELSE [NoRoomRow EXCEPT !.state = "queued", !.revision = 1, !.inSeq = 1]

\* A message delivered again: no job is made, and still the state is written.
IngestDuplicate(r) ==
  /\ May("duplicate")
  /\ arrived[r] > 0
  /\ rooms' = [rooms EXCEPT ![r] = DuplicateRow(r)]
  /\ UNCHANGED <<jobs, turns, outbox, lastMail, subject, inbound, released, history,
                 retries, followVars, scenario>>

\* The process dies between saveThreadRoom and enqueueRoomJob.  The message is
\* known by then: delivered again it is a duplicate.
IngestTorn(r) ==
  /\ May("torn_write")
  /\ Arrives(r)
  /\ rooms' = [rooms EXCEPT ![r] =
                 Bumped(r, IF @.state = "handoff" THEN "handoff" ELSE "queued")]
  /\ turns' = [t \in Turns |-> NoTurn]
  /\ \/ UNCHANGED <<scheduleVars, projectVars>>
     \/ Schedule(r) /\ UNCHANGED projectVars
     \/ Schedule(r) /\ AssignWork(r, arrived'[r])
  /\ UNCHANGED <<jobs, outbox, subject, inbound, released, blocked, handedOff,
                 retries, day, scenario>>

\* It dies before saveThreadRoom: the room never counts the message.
IngestUncounted(r) ==
  /\ May("torn_insert")
  /\ Arrives(r)
  /\ turns' = [t \in Turns |-> NoTurn]
  /\ UNCHANGED <<rooms, jobs, outbox, subject, inbound, released, blocked, handedOff,
                 retries, followVars, scenario>>

-----------------------------------------------------------------------------
(* processLeasedRoomJob *)

Free(t) == turns[t] = NoTurn
At(t, place) == ~ Free(t) /\ turns[t].at = place
RoomOf(t) == jobs[turns[t].job].room
RevisionOf(t) == jobs[turns[t].job].revision
MailOf(t) == subject[turns[t].job]
Leave(t) == turns' = [turns EXCEPT ![t] = NoTurn]
\* Mutant: expired leases are not swept.
Swept_None == jobs

Swept == RecoverExpired(jobs, Now)

\* Mutant: the revision is not compared.
Superseded_Never(t) == FALSE

\* The room has moved past the turn; a stale write-back has put it before.
\* Virtual mail is refused unless the room is at the turn's revision.
Superseded(t) == rooms[RoomOf(t)].revision > RevisionOf(t)
Behind(t) == rooms[RoomOf(t)].revision < RevisionOf(t)
Current(t) == rooms[RoomOf(t)].revision = RevisionOf(t)

\* Whether a turn has a stage of workers depends on features.swarmWorkers in
\* the environment of its process, for the prelude also on its room's roster.
MayHave(stage) == stage \in scenario.workers

\* A job is leased and its turn runs up to its first await.  If the prelude's
\* task mail is refused, the turn is over and its job stays leased.  attempts
\* is only ever compared with 0, so it stops counting at 1.
StartTurn(t) ==
  /\ Free(t)
  /\ \E j \in NextCandidates(Swept, Now, NoneServed), prelude \in BOOLEAN :
       LET r == jobs[j].room
           refused == prelude /\ rooms[r].revision # jobs[j].revision
       IN  /\ prelude => MayHave("prelude")
           /\ jobs' = LeaseJob(Swept, j, 0, Now)
           /\ turns' = IF refused THEN turns ELSE
                [turns EXCEPT ![t] =
                  [at |-> IF prelude THEN "prelude" ELSE "executing",
                   job |-> j, room |-> rooms[r], results |-> FALSE]]
           /\ SetState(r, IF prelude THEN "waiting_workers" ELSE "running")
  /\ UNCHANGED <<outbox, lastMail, subject, inbound, released, history, retries,
                 followVars, scenario>>

\* The prelude workers are done: the row read at the start is written back.
\* What they report for a superseded revision is dropped.
PreludeEnds(t) ==
  /\ At(t, "prelude")
  /\ rooms' = [rooms EXCEPT ![RoomOf(t)] = [turns[t].room EXCEPT !.state = "running"]]
  /\ turns' = [turns EXCEPT ![t].at = "executing", ![t].results = ~ Superseded(t)]
  /\ UNCHANGED <<jobs, outbox, lastMail, subject, inbound, released, history, retries,
                 followVars, scenario>>

\* A prelude worker throws, or its report is refused.  That is outside the
\* try block: the job stays leased.
PreludeFails(t) ==
  /\ At(t, "prelude")
  /\ May("turn_fails") \/ Behind(t)
  /\ Leave(t)
  /\ UNCHANGED <<rooms, jobs, outbox, lastMail, subject, inbound, released, history,
                 retries, followVars, scenario>>

\* What follows the last await, with the room's row as it is then: a stale
\* turn is cancelled, under handoff the reply is suppressed, otherwise it is
\* emitted and the row read at the start is written back.
Reply(t) ==
  [room |-> RoomOf(t), job |-> turns[t].job, to |-> MailOf(t),
   asked |-> inbound[turns[t].job], newest |-> arrived[RoomOf(t)],
   held |-> handedOff[RoomOf(t)]]

\* The reply's intent is inserted and its mail added to the thread.
Sends(t) == outbox' = Append(outbox, Reply(t)) /\ Filed(RoomOf(t), Own)

\* Mutants: an unknown state; the reply not counted; the state not written.
Answered_Closed(t) == [turns[t].room EXCEPT !.state = "closed", !.outSeq = @ + 1]
Answered_NotCounted(t) == [turns[t].room EXCEPT !.state = "done"]
Answered_KeepsState(t) == [turns[t].room EXCEPT !.outSeq = @ + 1]

Answered(t) == [turns[t].room EXCEPT !.state = "done", !.outSeq = @ + 1]

\* Mutants: a stale turn replies; a turn replies under handoff.
Emits_Stale(t, state) == state # "handoff"
Emits_UnderHandoff(t, state) == ~ Superseded(t)

Emits(t, state) == ~ Superseded(t) /\ state # "handoff"

Conclude(t, state) ==
  LET r == RoomOf(t)
  IN  /\ jobs' = SettleJob(jobs, turns[t].job,
                           IF Superseded(t) THEN "cancelled" ELSE "completed")
      /\ rooms' = [rooms EXCEPT ![r] =
                     IF Emits(t, state) THEN Answered(t)
                                        ELSE [@ EXCEPT !.state = state]]
      /\ IF Emits(t, state)
         THEN Sends(t) /\ Assign(r, MailOf(t), "done")
         ELSE UNCHANGED <<outbox, lastMail, projectVars>>
      /\ Leave(t)

\* The catch block, with the room in the given state.
Failed(t, state) ==
  /\ jobs' = SettleJob(jobs, turns[t].job, "failed")
  /\ rooms' = [rooms EXCEPT ![RoomOf(t)] =
                 IF Superseded(t) THEN [@ EXCEPT !.state = state]
                                  ELSE [turns[t].room EXCEPT !.state = "failed"]]
  /\ IF Superseded(t) THEN UNCHANGED projectVars
     ELSE Assign(RoomOf(t), MailOf(t), "failed")
  /\ Leave(t)

Fail(t, state) == Failed(t, state) /\ UNCHANGED <<outbox, lastMail>>

\* A reply built on reports is announced by virtual mail before it is emitted.
AnnouncementRefused(t) == turns[t].results /\ Behind(t)

ExecutionEnds(t) ==
  LET state == rooms[RoomOf(t)].state
  IN  /\ At(t, "executing")
      /\ \/ IF AnnouncementRefused(t) THEN Fail(t, state) ELSE Conclude(t, state)
         \/ /\ MayHave("postrun") /\ Current(t)
            /\ SetState(RoomOf(t), "waiting_workers")
            /\ turns' = [turns EXCEPT ![t].at = "postrun", ![t].results = TRUE]
            /\ UNCHANGED <<jobs, outbox, lastMail, projectVars>>
         \/ /\ MayHave("postrun") /\ ~ Current(t)
            /\ Fail(t, "waiting_workers")
      /\ UNCHANGED <<subject, inbound, released, history, retries, scheduleVars, day,
                     scenario>>

\* The post-run workers are done: "replying" is written before the checks.
PostRunEnds(t) ==
  /\ At(t, "postrun")
  /\ IF AnnouncementRefused(t)
     THEN Fail(t, rooms[RoomOf(t)].state)
     ELSE Conclude(t, "replying")
  /\ UNCHANGED <<subject, inbound, released, history, retries, scheduleVars, day,
                 scenario>>

\* The executor or a post-run worker throws.
ExecutionFails(t) ==
  /\ May("turn_fails")
  /\ At(t, "executing") \/ At(t, "postrun")
  /\ Fail(t, rooms[RoomOf(t)].state)
  /\ UNCHANGED <<subject, inbound, released, history, retries, scheduleVars, day,
                 scenario>>

\* The turn gets as far as its reply.
Answers(t) ==
  /\ \/ At(t, "executing") /\ Emits(t, rooms[RoomOf(t)].state)
     \/ At(t, "postrun") /\ Emits(t, "replying")
  /\ ~ AnnouncementRefused(t)

\* Then the room's facts, digest or memory cannot be written: the turn fails.
ReplyFails(t) ==
  /\ May("disk_fails")
  /\ Answers(t)
  /\ Sends(t)
  /\ Failed(t, rooms[RoomOf(t)].state)
  /\ UNCHANGED <<subject, inbound, released, history, retries, scheduleVars, day,
                 scenario>>

\* The process dies after "replying", the intent of the reply, its mail in the
\* thread, the job's settlement or the room's row.
ConcludeTorn(t) ==
  LET replying == IF At(t, "postrun")
                  THEN [rooms EXCEPT ![RoomOf(t)].state = "replying"] ELSE rooms
      answered == [rooms EXCEPT ![RoomOf(t)] = Answered(t)]
      completed == SettleJob(jobs, turns[t].job, "completed")
  IN  /\ May("torn_write")
      /\ \/ /\ At(t, "postrun") /\ ~ AnnouncementRefused(t)
            /\ rooms' = replying
            /\ UNCHANGED <<jobs, outbox, lastMail>>
         \/ /\ Len(outbox) < scenario.maxTornReplies
            /\ Answers(t)
            /\ outbox' = Append(outbox, Reply(t))
            /\ \/ rooms' = replying /\ UNCHANGED <<jobs, lastMail>>
               \/ /\ rooms' = replying
                  /\ Filed(RoomOf(t), Own)
                  /\ jobs' \in {jobs, completed}
               \/ rooms' = answered /\ Filed(RoomOf(t), Own) /\ jobs' = completed
      /\ turns' = [u \in Turns |-> NoTurn]
      /\ UNCHANGED <<subject, inbound, released, history, retries, followVars,
                     scenario>>

\* Or in the catch block, after the job's settlement or the room's row.
FailTorn(t) ==
  /\ May("torn_write")
  /\ May("turn_fails")
  /\ At(t, "executing") \/ At(t, "postrun")
  /\ ~ Superseded(t)
  /\ jobs' = SettleJob(jobs, turns[t].job, "failed")
  /\ \/ UNCHANGED rooms
     \/ rooms' = [rooms EXCEPT ![RoomOf(t)] =
                    [turns[t].room EXCEPT !.state = "failed"]]
  /\ turns' = [u \in Turns |-> NoTurn]
  /\ UNCHANGED <<outbox, lastMail, subject, inbound, released, history, retries,
                 followVars, scenario>>

-----------------------------------------------------------------------------
(* The operator *)

QueuedIn(r) == {j \in Jobs : jobs[j].room = r /\ jobs[j].status = "queued"}
Cancelling(queued) ==
  [j \in Jobs |->
     IF j \in queued THEN SettleJob(jobs, j, "cancelled")[j] ELSE jobs[j]]

RequestHandoff(r) ==
  /\ May("handoff")
  /\ Exists(r)
  /\ jobs' = Cancelling(QueuedIn(r))
  /\ SetState(r, "handoff")
  /\ handedOff' = [handedOff EXCEPT ![r] = TRUE]
  /\ UNCHANGED <<turns, outbox, lastMail, subject, inbound, released, arrived,
                 blocked, retries, followVars, scenario>>

Resumable(r) ==
  {j \in Jobs : /\ jobs[j].room = r
                /\ jobs[j].status \in Active
                /\ jobs[j].revision = rooms[r].revision}

\* A job of the current revision and sequence number for the thread's mail with
\* the latest date, which after an answer is the agent's own.
Resumes(r, j) ==
  /\ NextJob(j)
  /\ jobs' = EnqueueJob(jobs, j, r, rooms[r].revision, rooms[r].inSeq,
                        BasePriority, Now)
  /\ subject' = [subject EXCEPT ![j] = lastMail[r]]
  /\ inbound' = [inbound EXCEPT ![j] = arrived[r]]
  /\ released' = released \union {j}

\* releaseHandoff does not ask whether the room is under handoff.  An active
\* job of the current revision goes on; otherwise one is made.
ReleaseHandoff(r) ==
  /\ May("release")
  /\ Exists(r)
  /\ \/ Resumable(r) # {} /\ UNCHANGED <<jobs, subject, inbound, released>>
     \/ Resumable(r) = {} /\ \E j \in Jobs : Resumes(r, j)
  /\ SetState(r, "queued")
  /\ handedOff' = [handedOff EXCEPT ![r] = FALSE]
  /\ UNCHANGED <<turns, outbox, lastMail, arrived, blocked, retries, followVars,
                 scenario>>

Retryable(j) ==
  /\ May("retry")
  /\ retries < scenario.maxRetries
  /\ jobs[j].status = "failed"
  /\ rooms[jobs[j].room].revision <= jobs[j].revision

RetryRoomJob(j) ==
  /\ Retryable(j)
  /\ jobs' = RetryFailedJob(jobs, j, Now)
  /\ SetState(jobs[j].room, "queued")
  /\ retries' = retries + 1
  /\ UNCHANGED <<turns, outbox, lastMail, subject, inbound, released, history,
                 followVars, scenario>>

\* The process dies with jobs leased, cancelled, made or retried and the row of
\* their room not written.
JobsTorn ==
  /\ May("torn_write")
  /\ \/ /\ \E j \in NextCandidates(Swept, Now, NoneServed) :
             jobs' = LeaseJob(Swept, j, 0, Now)
        /\ UNCHANGED <<subject, inbound, released, retries>>
     \/ /\ May("handoff")
        /\ \E r \in Rooms : \E queued \in SUBSET QueuedIn(r) :
             Exists(r) /\ jobs' = Cancelling(queued)
        /\ UNCHANGED <<subject, inbound, released, retries>>
     \/ /\ May("release")
        /\ \E r \in Rooms, j \in Jobs :
             Exists(r) /\ Resumable(r) = {} /\ Resumes(r, j)
        /\ UNCHANGED retries
     \/ /\ \E j \in Jobs : Retryable(j) /\ jobs' = RetryFailedJob(jobs, j, Now)
        /\ retries' = retries + 1
        /\ UNCHANGED <<subject, inbound, released>>
  /\ turns' = [t \in Turns |-> NoTurn]
  /\ UNCHANGED <<rooms, outbox, lastMail, history, followVars, scenario>>

-----------------------------------------------------------------------------
(* Time and the process *)

Runs(j) == \E t \in Turns : turns[t] # NoTurn /\ turns[t].job = j

LeaseLapses(j) ==
  /\ jobs[j].status = "leased"
  /\ ~ LeaseExpired(jobs[j], Now)
  /\ Runs(j) => May("slow_turn")
  /\ jobs' = [jobs EXCEPT ![j].leaseExpiresAt = Now]
  /\ UNCHANGED <<rooms, turns, outbox, lastMail, subject, inbound, released, history,
                 retries, followVars, scenario>>

\* recoverRoomQueue, at startup or on request.
Recover ==
  /\ Swept # jobs
  /\ jobs' = Swept
  /\ UNCHANGED <<rooms, turns, outbox, lastMail, subject, inbound, released, history,
                 retries, followVars, scenario>>

Crash ==
  /\ May("crash")
  /\ \E t \in Turns : ~ Free(t)
  /\ turns' = [t \in Turns |-> NoTurn]
  /\ UNCHANGED <<rooms, jobs, outbox, lastMail, subject, inbound, released, history,
                 retries, followVars, scenario>>

\* The follow-ups sent are the latest mail of their threads, those of the rooms
\* in unfiled apart.
FollowUpsFiled(unfiled) ==
  lastMail' = [r \in Rooms |->
    IF sent'[r] > sent[r] /\ r \notin unfiled THEN Own ELSE lastMail[r]]

MayMisdate == IF May("misdated") THEN Rooms ELSE {}

\* What a step of the follow-ups leaves alone.
FollowUpStep ==
  /\ May("follow_ups")
  /\ \E unfiled \in SUBSET MayMisdate : FollowUpsFiled(unfiled)
  /\ UNCHANGED <<rooms, jobs, turns, outbox, subject, inbound, released, history,
                 retries, scenario>>

\* The process dies with the follow-up of r sent, before or after its mail is
\* added to the thread.
FollowUpTorn ==
  /\ May("torn_run")
  /\ \E r \in DueNow :
       /\ RunTorn(r)
       /\ \E unfiled \in SUBSET (MayMisdate \union {r}) : FollowUpsFiled(unfiled)
  /\ turns' = [t \in Turns |-> NoTurn]
  /\ UNCHANGED <<rooms, jobs, outbox, subject, inbound, released, history, retries,
                 scenario>>

EndTurn(t) ==
  \/ PreludeEnds(t) \/ PreludeFails(t)
  \/ ExecutionEnds(t) \/ PostRunEnds(t) \/ ExecutionFails(t) \/ ReplyFails(t)

Next ==
  \/ \E r \in Rooms, j \in Jobs : IngestAccepted(r, j) \/ IngestCut(r, j)
  \/ \E r \in Rooms : \/ IngestHeld(r) \/ IngestBlocked(r) \/ IngestDuplicate(r)
                      \/ IngestTorn(r) \/ IngestUncounted(r)
                      \/ RequestHandoff(r) \/ ReleaseHandoff(r)
  \/ \E t \in Turns : StartTurn(t) \/ EndTurn(t) \/ ConcludeTorn(t) \/ FailTorn(t)
  \/ \E j \in Jobs : RetryRoomJob(j) \/ LeaseLapses(j)
  \/ JobsTorn
  \/ Recover
  \/ Crash
  \/ RunDue /\ FollowUpStep
  \/ NextDay /\ FollowUpStep
  \/ \E r \in Rooms : \/ Pause(r) /\ FollowUpStep
                      \/ Resume(r) /\ FollowUpStep
                      \/ Cancel(r) /\ FollowUpStep
                      \/ RunNow(r) /\ FollowUpStep
  \/ FollowUpTorn

Spec == Init /\ [][Next]_vars

(***************************************************************************)
(* Somebody keeps draining the queue, time passes, and a turn that is      *)
(* started again and again ends at last, whatever crashes come between;    *)
(* the operator and the mail owe nothing.                                  *)
(***************************************************************************)
Fairness ==
  /\ WF_vars(\E t \in Turns : StartTurn(t))
  /\ \A t \in Turns : SF_vars(EndTurn(t))
  /\ \A j \in Jobs : WF_vars(~ Runs(j) /\ LeaseLapses(j))

FairSpec == Spec /\ Fairness

-----------------------------------------------------------------------------
(* Safety *)

(***************************************************************************)
(* What fails in a behaviour decides what can be promised in it.  Worker   *)
(* stages write back a row read before them, an expiring lease starts a    *)
(* second turn beside the first, and nothing is grouped in a transaction.  *)
(***************************************************************************)
Without(events) == scenario.events \intersect events = {}
NoPrelude == "prelude" \notin scenario.workers
Replies == 1 .. Len(outbox)
RepliesIn(r) == {n \in Replies : outbox[n].room = r}

\* A room counts its messages: none is stored without its row being written.
Counted == NoPrelude /\ Without({"torn_insert"})

\* "explicit stale discard when the conversation moves again": a reply is emitted
\* by a job made since the newest message of its room arrived, and it goes to
\* that message unless the job was made by releaseHandoff.
NoSupersededReply ==
  \A n \in Replies :
    /\ outbox[n].asked = outbox[n].newest
    /\ outbox[n].job \notin released => outbox[n].to = outbox[n].newest

\* The same where no turn has a prelude stage, whatever else fails.
RepliesAreCurrent == Counted => NoSupersededReply

\* No write-back of an old row loses a message: revision and last_inbound_seq
\* count the messages that arrived.
RevisionCountsArrivals ==
  Counted =>
    \A r \in Rooms : rooms[r].revision = arrived[r] /\ rooms[r].inSeq = arrived[r]

\* A release makes a job beside those it finds settled, with the number of the
\* newest message.  One of those that is retried then runs beside it; so does
\* one that a row which does not count its messages hides from the release.
ReleasesApart == Without({"release"}) \/ (Counted /\ Without({"retry"}))

\* The queue "serializes jobs within the same room" while a turn keeps its lease:
\* whatever fails, crashes, is handed off, released or retried meanwhile.
OneTurnPerRoom ==
  \A t, u \in Turns : t # u /\ ~ Free(t) /\ ~ Free(u) => RoomOf(t) # RoomOf(u)

\* The same where releases and retries do not meet and rows are not torn.
RoomsAreSerial ==
  Counted /\ ReleasesApart /\ Without({"slow_turn"}) => OneTurnPerRoom

\* last_outbound_seq counts the replies of the room, whatever fails between,
\* unless two turns of the room overlap or a statement block is torn.
OutboundSeqCountsReplies ==
  Counted /\ ReleasesApart /\ Without({"slow_turn", "torn_write", "disk_fails"}) =>
    \A r \in Rooms :
      rooms[r].outSeq = Cardinality(RepliesIn(r))

\* "handoff suppresses auto-reply until the room is released": from the
\* operator's request to the release no reply is emitted.
NoReplyWhileHandedOff == \A n \in Replies : ~ outbox[n].held

\* What takes a room out of the state handoff without a release: a turn that
\* fails, has workers or is lost and started again, and mail the policy blocks.
HandoffUndisturbed ==
  /\ Without({"turn_fails", "slow_turn", "policy_block", "crash", "torn_write",
              "torn_insert", "disk_fails", "torn_run"})
  /\ scenario.workers = {}

\* The same while nothing disturbs the handoff.
HandoffSuppressesReplies == HandoffUndisturbed => NoReplyWhileHandedOff

\* A room does not leave the state handoff behind the operator's back.
HandoffHolds ==
  HandoffUndisturbed => \A r \in Rooms : handedOff[r] => rooms[r].state = "handoff"

\* Turns lost, failed and started again do not reply twice while no newer message
\* comes; only a job made by releaseHandoff replies after another reply.
SecondReplyIsReleased ==
  ReleasesApart /\ Without({"slow_turn", "torn_write", "disk_fails"}) =>
    \A m, n \in Replies :
      m < n /\ outbox[m].room = outbox[n].room /\ outbox[m].asked = outbox[n].asked
        => outbox[n].job \in released \ {outbox[m].job}

\* Where the mail with the latest date is the newest message, or answers it: dates
\* follow the arrivals, and no follow-up comes between a message and the release.
LatestIsNewest ==
  Without({"misdated"}) /\ (Without({"follow_ups", "torn_run"}) \/ Without({"release"}))

\* Nothing is dropped on the way: the newest message of a room is answered, or
\* blocked by the policy, or the operator's, or has a job that is active or
\* failed and thus can be retried.
NewestMessageAccountedFor ==
  Counted /\ LatestIsNewest /\ Without({"torn_write"}) =>
    \A r \in Rooms :
      \/ arrived[r] = 0
      \/ <<r, arrived[r]>> \in blocked
      \/ handedOff[r]
      \/ \E n \in Replies : outbox[n].room = r /\ outbox[n].to = arrived[r]
      \/ \E j \in Jobs : /\ jobs[j].room = r
                        /\ subject[j] = arrived[r]
                        /\ jobs[j].status \in Active \union {"failed"}

\* A reminder is sent once and a recurring one once a day, however often the due
\* follow-ups are run and the operator pauses, resumes or cancels them; what the
\* operator runs is sent besides, and a torn run sends again.
FollowUpSentOnce ==
  Without({"torn_run"}) =>
    \A r \in Rooms :
      Planned(r) =>
        sent[r] <=
          byHand[r] + (IF followUps[r].kind = "run_at" THEN 1
                                                 ELSE day - followUps[r].born)

\* After a reply no follow-up comes due, whether it was paused, pending or run
\* before; only a recurring one does that the operator resumes again.
ReplyEndsFollowUps ==
  Without({"torn_write", "torn_insert"}) =>
    \A r \in DueNow :
      arrived[r] > 1 => followUps[r].kind = "cron_like" /\ operated[r] = "resumed"

\* "creates run-at reminders that execute through outbox": a follow-up is not
\* given up unless somebody wrote again or the operator had a hand in it.
FollowUpNotDropped ==
  \A r \in Rooms :
    Planned(r) /\ followUps[r].status = "cancelled"
      => arrived[r] > 1 \/ operated[r] # "no"

(* Refinement *)

\* Where the room keeps its promise: as in the invariants above.
Promised == Counted /\ Without({"slow_turn", "torn_write", "disk_fails"})

\* The jobs made since the newest message that have not had their say.
Due(r) ==
  {j \in Jobs : /\ jobs[j].room = r
                /\ inbound[j] = arrived[r]
                /\ jobs[j].status \in Active \union {"failed"}}

Promise == INSTANCE RoomPromise WITH
  arrived <- [r \in Rooms |-> IF Promised THEN arrived[r] ELSE 0],
  due <- [r \in Rooms |-> IF Promised THEN Cardinality(Due(r)) ELSE 0],
  replies <- [r \in Rooms |-> IF Promised THEN Cardinality(RepliesIn(r)) ELSE 0],
  held <- [r \in Rooms |-> Promised /\ HandoffUndisturbed /\ handedOff[r]]

\* Rows, jobs, leases, failures, crashes, retries, handoffs and releases put
\* together, a room replies once per request, after its newest message and before
\* the next, and keeps silent under handoff.
PromiseKept == Promise!Spec

(* Liveness *)

\* "Queue recovery is lease-based": every job reaches a terminal status.
JobsSettle ==
  \A j \in Jobs : jobs[j].status \in Active ~> jobs[j].status \in Terminal

\* A room does not stay in a state that promises work: with its jobs settled it
\* comes to rest, also after turns that were lost, failed or superseded.
RoomComesToRest ==
  \A r \in Rooms :
    rooms[r].state \in {"queued", "running", "waiting_workers", "replying"}
      ~> rooms[r].state \in {"done", "failed", "idle"}
=============================================================================
