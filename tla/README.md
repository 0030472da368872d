# A TLA+ verification of MailClaws

MailClaws turns e-mail threads into *rooms* that agents work in: a message joins
a room, a durable job is queued for it, a *turn* runs agents over it, and the
reply leaves through an outbox that people may gate, hold or resend. This
directory states what that machinery promises, models it in TLA+ closely enough
to the TypeScript to check those promises with TLC, and proves the central ones
with TLAPS.

Contents: [the system](#the-system), [the modules](#the-modules),
[the runs](#the-runs), [disagreements](#where-the-code-and-its-documents-disagree),
[the proofs](#the-proofs), [limits](#limits), [the plan](#the-plan).

## The system

All state is in one SQLite database (`storage/db.ts`: WAL, `busy_timeout` 5000)
and in files beside it. Two kinds of processes use it: one server (`app.ts`, with
the provider watchers) and any number of `mailctl` commands. Inside a process
JavaScript interleaves only at `await`; between processes it is the SQL
statements that interleave. **No code groups statements in a transaction**: each
commits by itself, so a crash may fall between any two.

Paths are under `src/src/`.

| component | state it keeps | operations | hard behaviour | what makes it correct |
|---|---|---|---|---|
| room queue (`queue/thread-queue.ts`, `core/recovery.ts`) | `room_queue_jobs` | enqueue, lease next, settle, cancel older, sweep, retry | leases that expire, two processes, aging against fairness | one turn per room, only superseded jobs cancelled, every job settles |
| drain and worker pool (`queue/worker-pool.ts`, `drainQueue`) | counters of a call | fill, await a turn, fill again | a failing turn ends the call and loses its siblings | exact counters, no job leased and then refused |
| mail room lifecycle (`orchestration/service.ts`) | `thread_rooms` | ingest, run a turn with worker stages | rows read before an await and written after it | no superseded reply, no lost message, no second reply |
| operator actions (`orchestration/runtime.ts`) | rooms, jobs, outbox | handoff, release, retry, recover; approve, reject, resend | they race with running turns and passes | a handoff silences the room, a gate holds |
| governed outbox (`providers/smtp.ts`, `storage/repositories/outbox-*`, `mail-outbox*`) | intents, approvals, attempts | insert, decide, deliver, resend | overlapping passes, a send whose outcome is unknown | at most one acceptance per release |
| virtual mail (`core/virtual-mail.ts`) | messages, deliveries, threads, mailboxes | send, lease, reply, consume, mark stale, rebuild | projections of the ledger, leases nobody looks at, stale revisions | a rebuild takes nothing back, no task is lost or run twice |
| ledger and replay (`core/replay.ts`) | `thread_ledger_events` | append, replay | writes to tables without an event | replay equals tables |
| sub-agent bridge (`subagent-bridge/`) | runs, targets, sessions | dispatch, watch, deliver | a limit checked before an await, crash between dispatch and result | a task runs once, the limit counts live runs, used reports are current |
| provider watchers (`providers/imap.ts`, `watcher.ts`, `gmail.ts`) | checkpoints, notifications | poll, ingest, replace a watcher | a watcher replaced during its poll, redelivery | checkpoints never run ahead of what was ingested |
| thread resolution, dedupe (`threading/`) | thread and dedupe keys | resolve, remember | mail delivered again, out of order, renumbered | a message enters once |
| scheduled mail (`orchestration/scheduled-mail.ts`) | scheduled jobs | create, pause, resume, cancel, run | calls in an unexpected order | sent once, and not after a reply |
| gateway projection (`gateway/`) | projection events, receipts | project, dispatch | a dispatch repeated after a failure | one outcome, one dispatch |
| public inbox (`inbox/`) | inbox items | project, acknowledge, schedule | limits and deadlines | limits are kept |
| memory (`memory/`), pre-context and facts (`core/pre.ts`, `core/shared-facts.ts`) | files, facts per revision | merge, draft, promote | stale drafts | promotion only of what was approved |
| projects and task nodes (`orchestration/project-runtime.ts`, `mail-task-protocol.ts`) | aggregates | bind, refresh | status computed when a room is bound, read later | decides which follow-ups go out |
| OAuth login (`auth/`) | login sessions | start, callback, expire | repeated and late callbacks | a session is used once |
| inbound policy (`security/`, `identity/`) | none | predicates of a message | none | definitions |
| executors, OpenClaw (`runtime/`, `openclaw/`) | external sessions | run a turn | they throw, take long | callers cope |
| parsing, composition, transport (`providers/rfc822.ts`, `reporting/`) | none | formats | none | formats |
| storage, search, server, CLI, presentation, experiments | — | I/O | — | — |

How a message travels: a watcher, a push notification or `POST /api/inbound` calls
`ingestIncomingMail`, which saves the room, plans or cancels its follow-up, enqueues a
job and cancels the queued jobs of older messages. With `processImmediately` the server
then leases *some* job and runs its turn; `mailctl drain` runs `drainQueue`. A turn
awaits prelude workers or sub-agents, to which it delegates by virtual mail, the executor
and post-run workers, then inserts outbox intents and settles its job.
`POST /api/outbox/deliver` or a `mailctl` command runs a pass of
`deliverQueuedOutbox`. The operator's calls change rooms, jobs, follow-ups and intents at
any time. All of them meet in the tables and nowhere else.

PROJECT.json lists the hazards of this code by line, with the properties
that would catch each.

## The modules

| module | models |
|---|---|
| `RoomJobs` | the job table: every statement of `thread-queue.ts` as an operator on a function from job ids to rows |
| `RoomQueue` | processes driving that table: server, `mailctl drain` with its pool, crashes, time |
| `MailRoom` | the life of rooms over the same table: ingestion, turns cut at their awaits, operator, crashes |
| `FollowUps` | scheduled mail and the projects that decide about it; `MailRoom` extends it and says when mail and turns call it |
| `RoomPromise` | what a room promises its correspondents, abstractly |
| `VirtualMail` | messages, deliveries and the ledger they are projected from |
| `SubAgentRuns` | turns and the API delegating by virtual mail to workers and sub-agents |
| `MailIntake` | watchers, notifications and recoveries reading a mailbox behind a durable cursor |
| `OutboxDelivery` | intents, approvals, attempts and the passes of `deliverQueuedOutbox` |
| `OutboxPromise` | what the outbox promises, abstractly |
| `OutboxDelivery_proofs`, `MailIntake_proofs` | theorems about `OutboxDelivery` and `MailIntake` |
| `RoomJobs_proofs`, `RoomQueue_proofs` | lemmas about the statements on the job table; theorems about `RoomQueue` |
| `FollowUps_proofs`, `MailRoom_proofs`, `MailRoomTurns_proofs` | lemmas about follow-ups; theorems about `MailRoom`: its tables, messages, handoffs and follow-ups; its turns and `RoomPromise` |
| `SubAgentRuns_proofs` | theorems about `SubAgentRuns` and the `VirtualMail` it runs on |
| `MCRoomQueue`, `MCMailRoom`, `MCSubAgentRuns`, `MCMailIntake`, `MCOutboxDelivery` | instances for TLC |

`RoomQueue` and `MailRoom` both extend `RoomJobs` and look at the queue from two
sides: in `RoomQueue` processes, pool, clock and priorities are exact and a turn
only ends; in `MailRoom` the turn is exact and time is one step ("this lease has
run out").

**RoomJobs.** A row has status, room, revision, `inbound_seq`, priority,
attempts, `available_at`, `created_at`, `lease_expires_at`. `NextCandidates` is
the SELECT of `leaseNextRoomJob` with its three-way order, aging credit and
fairness penalty; it is a set because the ORDER BY may tie. `LeaseJob` is the
UPDATE, which names the row by id alone and writes the attempts the SELECT saw.

**RoomQueue.** `tasks[l][j]` counts the turns process `l` runs for job `j`.
`StartDrain`, `ScheduleNext`, `FillEnds`, `TurnEnds` and `TurnFails` are the
loop of `drainQueue`; a failing turn rejects its `Promise.race`, `mailctl` closes the
database and the sibling turns are lost (`LoseLane`). `ProcessNext` is the
server's. When `AtomicLease` is FALSE, `SelectNext` and `LeasePicked` replace
them and another process may run in between.

**Scenarios.** `MailRoom`, `SubAgentRuns` and `MailIntake` have a variable `scenario`
that is chosen at the start and never changes: the set of `events` that may happen in
the behaviour (`May("crash")` guards the action `Crash`) and the bounds. One run so
checks several mixes of faults, each small enough to be exhausted, and a
property that does not hold under every fault names those it excludes
(`Without({"torn_write"})`). What a property excludes is said below and in the hazards.

**MailRoom.** One action per synchronous stretch of `processLeasedRoomJob`:
`StartTurn` up to the first await; `PreludeEnds` / `PreludeFails`; `ExecutionEnds` /
`ExecutionFails`; `PostRunEnds`. A turn carries the room's row it read at the
start (`turns[t].room`), because the code writes that row back later. `Failed` is
the catch block, `Conclude` the rest. `ReplyFails` is the exception after the reply's intent is
inserted. `ConcludeTorn`, `FailTorn` and `JobsTorn` are deaths between two statements of a turn or of an operator's call.
Whether a turn has worker stages depends on the environment of its process and on the
room's roster, so a turn chooses among the stages in `scenario.workers`. The `Ingest` actions are the outcomes of
`ingestIncomingMail`: accepted, held by a handoff, blocked by the policy, duplicate; and a process that dies with the
message stored and the room not saved (`IngestUncounted`, the event "torn_insert"), with the room saved
and no job made (`IngestTorn`), or with the job made and the older ones not cancelled (`IngestCut`).

The agent's own mail is in the table of messages too (`persistOutboundMessageIndex`), and `releaseHandoff` makes its job for
the row of the thread with the latest `received_at`, which is a message's Date header and the clock for own mail.
`lastMail` is that row, `Own` or a message; with the event "misdated" mail may come that is dated before it. `subject[j]` is
the mail a job handles, `inbound[j]` the newest message when the job was made. They differ for released jobs only.

**FollowUps.** `Plan` and `Stop` are called by ingestion, `Bind` by ingestion and by the
end of a turn; `RunDue` is `runScheduledMailJobs`, `NextDay` the clock, the rest the operator's
commands, which look at no status. A room has one follow-up, since only the first message
of a thread can plan one; a project is named by the subject, so rooms share projects.

**VirtualMail.** The ledger is represented by what replaying it would give: an event carries
whole rows, so appending it overwrites these rows of the replay. What a block writes is a sequence of *waves*,
each a function from some messages to their new rows, one event apiece, in the order of the ids; `Written` gives every row as the last
wave that has it left it, without a recursion over the events. `Record` appends and applies the waves, `RecordTorn` stops after any event, applied or
not; `Block` is the one write that goes around the ledger. `Rebuild` replaces the tables by the replay; a process that dies in it
(`RebuildTorn`) leaves the messages without their deliveries, or what some first events of the ledger give, which `replays` collects.

**SubAgentRuns.** A call is an invocation of `dispatchSubAgentMailbox` through the API or
the delegating stage of a turn. Its steps are cut at the awaits: `Delegate` or
`ApiDispatch` (submit, lease, ask the limit) up to `Spawned` for a burst, then `RunEnds`,
`ReportFails` or the workers' `WorkerEnds`, then `Collect`. `runs` are rows of
`subagent_runs`. `Commit` writes a block's mail and then the rest; if the process dies in between (`Torn`), the mail
is there as far as it got and a run that was to be inserted is not; only `RunEnds`, which updates the run's row between its events, may
have settled the run by then. The room's revision moves with mail (`MailArrives`) and is put back by turns
(`PutBack`), as `MailRoom` shows in detail.

**MailIntake.** A poll remembers what it read when it started (`from`, `knew`), awaits the
provider (`FetchImap`; `AskGmail`, `FetchHistory`, `Backfill`, `FetchAll`), ingests its batch message by
message, and persists where it ended. `StartWatch` builds a new watcher and then tells
the old one to stop, which goes on until it looks. `Duplicate` is the dedupe key of
ingestion. The mailbox itself (`Arrive`, `Expunge`, `Renumber`) is outside the program. A message has a place in the box and a
UID (`Uid`); the cursor is a UID, and the range `FetchImap` asks for counts places, because `createImapClient` passes
`{uid: true}` as the query and not as the option of `fetch`. The two agree until mail is removed.

**OutboxDelivery.** A pass lists the queued intents, then takes them one by one:
skipped under handoff, settled when an attempt already reached the provider,
claimed (the UPDATE has `AND status = 'queued'`), or lost to another pass. It
awaits the sender's resolution (`BeginSend`, `CannotSend`) and the send.
An operator's decision is cut between its two writes: `ApproveOutbox` and `RejectOutbox` write the intent,
`RecordDecision` the approval request, and passes may run between them; `LoseDecision` is a death there. The intents in
`Gateable` are those that may be inserted with an approval open; an insertion may be torn in the same way (`InsertTorn`).
`ProviderAccepts` is the moment outside the program at which the mail is taken;
the pass learns of it (`SendSucceeds`), or sees a failure that tells nothing
(`SendFails`), or dies (`Crash`, `RecordTorn`). `SendFails` after an acceptance
also stands for the write of the success that throws.

**Mutants.** Operators named `X_Something`, under a comment that begins with
"Mutant", are faulty variants of `X`. No specification uses them; PROJECT.json
pairs each with a property that breaks when it replaces `X`.

## The runs

Twelve runs; eight pass and four refute a statement of the repository. `CHECK_DEADLOCK FALSE`
is in every cfg because the system may stop: nothing arrives any more and everything is
settled.

| run | question | instance | distinct states |
|---|---|---|---|
| `queue_serial` | do bursts, failures, retries, a crash and sweeps keep rooms serial, settled jobs settled and aging bounded; is a leased job ever refused? | 2 rooms, 3 jobs, server + 1 drain with 2 slots and 1 per room, clock to 2, lease 2, 1 crash, 1 retry | 1 090 153 |
| `queue_live` | with interleaved leases and a crash, are the counters exact, and is every job settled? | 2 rooms, 2 jobs, server + 1 drain with 1 slot, clock to 2, lease 1, 1 crash | 107 711 |
| `rooms` | are turns serial, replies current, counted and given once, handoffs silent, messages and follow-ups accounted for; is `RoomPromise` kept? | 2 rooms, up to 3 messages, 4 jobs, 2 turns, 16 scenarios | 642 786 |
| `room_live` | does every job settle and every room rest? | 2 rooms, 3 jobs, 2 turns, 1 retry | 7 047 |
| `sub_agents` | does a task run once, whatever is lost or rebuilt; is the limit honest; are used reports current? | 3 helpers, 6 messages, 2 calls, 2 turns, 7 scenarios | 370 810 |
| `intake` | does the cursor ever pass mail that was not ingested, and does mail enter twice? | 3 messages, 2 polls, 2 UIDVALIDITYs, 5 scenarios | 773 847 |
| `outbox_safety` | is a mail in one pass's hands, accepted once per release, held by its gate; is the promise kept? | 2 intents, 2 passes, 2 releases each, 1 crash, 1 handoff | 493 457 |
| `outbox_live` | is queued mail taken up and every send concluded? | 2 intents, 2 passes, no crash | 100 092 |
| `room_prelude_stale`, `room_handoff_failure`, `room_overlap`, `follow_up_dropped` | counterexamples, below | | |

What the properties say, beyond their comments in the modules, and what they exclude:

- *One turn per room, and what is settled stays settled.* Blocking compares
  `inbound_seq`; the sweep looks at expiry only. The two are enough as long as a
  turn ends within its lease and lease calls do not interleave (`TimelyTurns`,
  `AtomicLease`). Neither is enforced by the code: the lease is 60 s, nothing renews it,
  and the UPDATE does not repeat `status = 'queued'`. With either constant FALSE in
  `QueueSerial.cfg` TLC runs a job twice. `PoolCountsTurns` and the liveness
  properties do not need atomic leases (`queue_live`).
  `MailRoom` states the same as `RoomsAreSerial`, with handoffs, releases and the rest of the life of a
  room: there releases and retries must not meet (`ReleasesApart`), which `RoomQueue` has no release to show.
- *The pool counts turns.* `TurnsFor` is the set of the turns a lane runs, a turn being a job and its number
  among those of that job, so that a job which is run twice counts twice.
- *Aging bounds bypass.* A drain prefers `j` to a waiting `c` only while `c`'s
  lead in waiting time is worth no more than the penalty of `c`'s room. The cfg uses
  a penalty of 30 for steps of 25 so that a lead of two clock steps outweighs one served turn.
- *Replies are current; the row counts the arrivals.* The check of the revision comes after the
  last await, and duplicates, failures, torn writes and slow turns never lower a row. A prelude's write-back does
  (`NoPrelude`), and a process that dies with a message stored and its room not saved leaves a row that never counts it
  ("torn_insert"); `Counted` excludes both. (`RoomsAreSerial` and `OutboundSeqCountsReplies` carry
  `Counted` because their proofs count messages; TLC finds neither violated with "torn_insert" in these scenarios.)
- *A second reply is a released one, and replies are counted.* Turns that are lost, failed or
  run again do not reply twice; `releaseHandoff` makes a job for the thread's latest mail whether or not the room was
  answered. Overlapping turns, torn writes and a
  file that cannot be written after the intent (`disk_fails`) do answer twice and are excluded.
- *The newest message is accounted for*: answered, blocked, the operator's, or with a job that is active or can be retried.
  It is claimed where the latest mail of a thread is what a release should find (`LatestIsNewest`): mail is
  dated in the order in which it comes, and no follow-up of the agent goes out between a message and the release.
- *A handoff silences the room*, unless something takes the row out of the state "handoff"
  (`HandoffUndisturbed`): failing turns, worker stages, mail the policy blocks, and turns that are
  lost and leased again; among the last are those that die with the process when a run of follow-ups is torn.
- *`PromiseKept`* puts these together as a refinement: `RoomPromise` knows arrivals, replies due,
  replies given and whether the room is held; jobs, leases, rows, crashes and retries are
  hidden. What is due is the number of unsettled or retryable jobs made since the newest
  message. Only a message or a release makes something due.
- *Follow-ups* go out once (once a day if they recur), whatever the operator pauses, resumes and cancels, besides what he runs by hand
  (`byHand`), unless a run of them is torn between the mail and its row; and none comes due after somebody has replied, unless the
  operator resumes a recurring one.
- *A task runs once, and a rebuild takes nothing back.* Both rest on every lease and every
  settlement being an event before it is a row, and on the rebuild coming to its end: it deletes three tables and replays the ledger
  event by event, and a process that dies in between (`RebuildDies`, "torn_rebuild") leaves deliveries queued that were leased or consumed. They run again.
  The two properties, `MailMovesOn` and `TasksAreAttended` exclude it; the limit and the use of reports are claimed with it. A delivery blocked by a failing dispatch
  is the one row the ledger does not know. `MailMovesOn` says it of every step: nothing brings a leased delivery
  back into the queue or touches one that is consumed or stale; a blocked one can become leased or stale by a rebuild.
- *The limit counts live runs.* `maxActivePerRoom` bounds the bound runs of a
  target in a thread; bursts are inserted after an await and may exceed it. Without crashes and
  unpostable reports each run that counts is being watched; with them the limit is used up for good.
- *Used reports are current*, also if turns overlap and the room is put back; that a turn can
  take the reports on its own tasks holds only for a turn that is alone.
- *The cursor covers the mail* that polls which overlap, fail or write late have passed.
  `Claimed` leaves out what makes the code lose mail: Gmail watchers that are stopped, IMAP boxes from which mail is removed, and a mix of renumbering with lost notes, named under
  [disagreements](#where-the-code-and-its-documents-disagree). The other properties are claimed of boxes from which mail is removed as well.
- *The gate holds*: no mail is sent, or in a pass's hands, while its request says requested or rejected, unless the operator
  resent it, is between the two writes of an approval, or died between the writes of a decision (`decision`).
- *The pool never refuses* a job that was just leased. It is checked with two slots of which a room may take one, so that the limit
  per room could refuse what the free slot takes.

**Bounds.** Three jobs are the fewest with a running job, one it supersedes and one
that supersedes both, and the fewest with two rooms of which one waits. Two turns, calls, polls or
passes are the fewest that overlap. One crash, one
retry (in the runs that have them) and two releases let each fault precede or follow every
other step (crashes of `MailRoom`, `SubAgentRuns` and `MailIntake` are not bounded); the properties relate
two turns, two passes or two messages, and none gets easier to break by a third.
`MaxClock` = 2 with leases of 1 or 2 lets a lease be renewed after expiry. `MaxDay` = 2 lets a
recurring follow-up run on two days. Two revisions of the room (`MaxRevision`) are a turn and the
mail that makes it stale; six messages are three tasks and their reports. Three messages in a mailbox
are one before the cursor, one at it and one after it (Gmail's scenarios have two); two UIDVALIDITYs are one renumbering; a
backfill window of one leaves mail out. Bounds on counters are in guards: `MaxRuns`, `MaxRetries`,
`MaxCrashes`, `MaxClock`, `MaxReleases`, `MaxHandoffs`, `MaxDay`, `MaxRevision`, `MaxMail`, `MaxValidity`, and in
a scenario `maxJobs`, `maxRetries`, `maxTornReplies`, `mail`, `maxTurns`, `maxTasks`, `maxMail`. Symmetry is used
over rooms, turns, polls, passes and intents in runs without liveness.

**Fairness.**
- `RoomQueue`: drains are started again and again, a started process goes on,
  turns end (in success or failure), time passes. Arrivals, crashes, failures and retries are never owed.
  The command is external; without somebody running it, or more mail, nothing drains.
- `MailRoom`: weak fairness for leasing and for the expiry of leases nobody
  runs; strong fairness for the end of each turn, since crashes may interrupt
  it: a turn started again and again is not interrupted for ever.
- `OutboxDelivery`: weak fairness for the steps of a pass (their awaits end);
  strong fairness for starting one, because the number of slots is a bound of
  the model and must not keep a request out for ever.

Liveness is claimed only where the code has it: `SendingConcludes` without
crashes (after one the row stays "sending", and `resendOutbox` refuses it);
`RoomComesToRest` without duplicates (a duplicate writes "queued" and makes no job), without torn writes
and handoffs; `EveryJobSettles` excepts leases abandoned so late that the bounded clock never
expires them. `SubAgentRuns` and `MailIntake` have none: nothing in the code takes up a lost delivery or run, and
nothing in this repository starts a watcher again after its one poll.

## Where the code and its documents disagree

Four runs end in a counterexample, each with a quotation in PROJECT.json.

1. `room_prelude_stale`. After the prelude's await `service.ts:859` saves the row
   read before it. A message that arrived meanwhile is erased from `revision`
   and `last_inbound_seq`, the stale check passes, the superseded reply goes out.
2. `room_handoff_failure`. The catch block writes the state "failed" over a
   handoff requested while the turn ran; the next message is answered although
   nobody released the room.
3. `room_overlap`. A turn fails; the operator releases the room, which enqueues its newest message anew, and then
   retries the failed job, whose revision is still the room's. Both jobs have one `inbound_seq`, the lease
   blocks only on smaller ones, and two turns of the room run at a time.
4. `follow_up_dropped`. Every completed turn binds its room to a project named by the
   subject, and a project whose rooms are all done is done. The turn that acknowledges
   "remind me tomorrow" thereby closes its project, and the next day the reminder is
   cancelled as "project_closed".

The same models show more, where a property has its exclusion taken away:

- A rejected mail can be resent (`resendOutbox` takes it) and goes out without a new approval: the delivery does not look at it.
- `AtomicLease = FALSE` or `TimelyTurns = FALSE` in `QueueSerial.cfg`: a job runs twice.
- `MaxGlobalWorkers = 1` in `QueueSerial.cfg`, with two concurrent rooms: the fill loop is bounded by `maxConcurrentRooms`
  alone, so the pool refuses a job that is already leased, `drainQueue` throws, and the job waits for its expiry.
- Post-run workers, or crashes, beside handoffs (`HandoffUndisturbed`): the post-run stage writes
  "waiting_workers" and "replying" over a handoff; the job of a lost turn is leased again
  under the handoff and the turn writes "running" over it.
- `{"prelude"}` in `LiveScenario`: a job whose room was put back behind
  its revision is refused by virtual mail outside the `try`; it expires and is leased again for ever.
- Torn writes (`NewestMessageAccountedFor`, `SecondReplyIsReleased`): a message torn between `saveThreadRoom` and
  `enqueueRoomJob` is a duplicate when delivered again and never gets a job, nor are its room's
  follow-ups cancelled; a reply torn from its job's settlement is given again.
- A message torn between `insertMailMessage` and `saveThreadRoom` (`RepliesAreCurrent`, `RevisionCountsArrivals`): it is known, so that
  no delivery raises the revision any more, and the turn for the message before it replies.
- Releases (`LatestIsNewest`, `NoSupersededReply`): `releaseHandoff` takes the thread's mail with the latest date, the agent's own
  included. Released after an answer, a room makes a turn that answers the agent's own reply; a message that was held, and is dated before that
  reply or came before a follow-up of the agent, gets no job and is dropped.
- Torn decisions (`GatedMailWaits`): a process that dies between the two writes of an approval leaves mail that is sent with its request
  open; after one that dies in a rejection a resend sends it with its request open. A pass of another process between the writes does so for a moment.
- Torn rebuilds (`TaskRunsOnce`, `RebuildTakesNothingBack`): tasks that ran are queued again and run twice.
- Overlapping turns (`ReportsObtainable`): a turn leases whatever is queued at the desk, and the turn whose
  report it was throws when it collects.
- Bursts (`LimitCountsLiveRuns`): two dispatches in one thread pass the limit before either has inserted its run.
- `Claimed` for IMAP boxes from which mail is removed: the watcher asks for the range after its cursor, a UID, and gets a range of places in the
  box (`imap.ts:145`, `373`). Once mail was removed places lie below UIDs: of two messages that arrived since, the poll
  reads the last one, its UID becomes the cursor, and the other is never read.
- `Claimed` for Gmail with watchers that are stopped: the predecessor's fetches give nothing any more, its messages
  are passed over, and its checkpoint is written. For IMAP, a renumbering and either a torn
  checkpoint or settings saved without `uidValidity`: the cursor of the old numbering is taken for the new.
- `EntersOnce` with a renumbered mailbox: a new message that has the UID of an old one is a duplicate, and an old one enters again.

## The proofs

The theorems hold for any sets of rooms, jobs, turns, processes, polls and intents, any bounds and
any scenarios, from the named assumptions of the modules: bounds are naturals, periods are not zero, the null
values are no rows (`NoTurnAssumption`, `NoFollowUpAssumption`, `NoCallAssumption`), job and message ids are positive numbers, scenarios are well
formed, plans name helpers, and no mailbox is called "none" (the address of the row that is not there). A theorem has no other hypotheses than those its property carries, except where the last column says so.

| module | theorem | states that always | under |
|---|---|---|---|
| `RoomQueue_proofs` | `TypeCorrect` | `TypeOK` | |
| | `QueuedIsCurrent` | `QueuedJobIsCurrent` | |
| | `PoolCounted` | `PoolCountsTurns` | |
| | `TurnsSerialized` | `OneTurnPerRoom` | `AtomicLease`, `TimelyTurns` |
| | `SettledStaysSettled` | `SettledForGood` (steps) | `AtomicLease`, `TimelyTurns` |
| | `AgingBounds` | `AgingBoundsBypass` (steps) | `AtomicLease` |
| | `NeverRefuses` | `PoolNeverRefuses` (steps) | both, `MaxConcurrentRooms <= MaxGlobalWorkers` |
| `MailRoom_proofs` | `TypeCorrect` | `TypeOK` | |
| | `ArrivalsCounted`, `NoStaleReply` | `RevisionCountsArrivals`, `RepliesAreCurrent` | |
| | `NothingDropped` | `NewestMessageAccountedFor` | |
| | `HandoffKept`, `SilentUnderHandoff` | `HandoffHolds` (which no run checks: the other fails when it does), `HandoffSuppressesReplies` | |
| | `SentOnce`, `RepliesEndFollowUps` | `FollowUpSentOnce`, `ReplyEndsFollowUps` | |
| `MailRoomTurns_proofs` | `SerialTurns` | `RoomsAreSerial` | |
| | `RepliesCounted`, `AnsweredOnce` | `OutboundSeqCountsReplies`, `SecondReplyIsReleased` | |
| | `Implements` | `PromiseKept`: rooms implement `RoomPromise` | |
| `MailIntake_proofs` | `TypeCorrect` | `TypeOK` | |
| | `NothingLost`, `AnsweredTruly` | `CursorCoversMail`, `AnsweredIsIngested` | |
| | `EnteredOnce` | `EntersOnce` | |
| `SubAgentRuns_proofs` | `TypeCorrect` | `TypeOK` | |
| | `NoTaskRunsTwice`, `RebuildIsSafe` | `TaskRunsOnce`, `RebuildTakesNothingBack` | |
| | `MailIsKept` | `MailMovesOn` (steps; proved only, no run lists it) | |
| | `UsedReportsAreCurrent`, `OwnReportsCanBeHad` | `UsedReportIsCurrent`, `ReportsObtainable` | |
| | `TheLimitHolds` | `LimitCountsLiveRuns` | |
| | `NoTaskIsForgotten` | `TasksAreAttended` | `MaxActive # 0` |
| `OutboxDelivery_proofs` | `TypeCorrect` | `TypeOK` | |
| | `OneDelivery`, `AcceptedOnce` | `OneDeliveryPerIntent`, `AcceptedOncePerRelease` | |
| | `GatedWaits`, `SentAccepted` | `GatedMailWaits`, `SentIsAccepted` | |
| | `Implements` | `PromiseKept`: the outbox implements `OutboxPromise` | |

The hypotheses of `RoomQueue` are what the code leaves to its configuration (see
[the runs](#the-runs)); with the default limits of `worker-pool.ts` the last one holds.
`MaxActive # 0` is what every template of `agents/templates.ts` has (1 or 2): a limit of 0 refuses each task it is asked for,
before the `try` block, and leaves its delivery leased for ever. None of the properties
is inductive by itself. What has to be added tells why the code works.

**RoomQueue.** `IInv` holds without any hypothesis except for its last two parts.
- `TableOK`: a row is inserted under the next revision of its room, so that numbers are never given twice; a row that was never
  leased and is still queued bears its room's newest number (the step from `CancelQueuedBefore`'s strict comparison to
  `QueuedJobIsCurrent`); only a leased job comes to a terminal status.
- `LanesOK`, `PoolOK`: a turn runs for a job with a room, and the counters are the cardinalities of the finite sets of
  `Slots` of the lane. The lemmas `SlotsMore`, `SlotsFewer` and `SlotsSubset` replace an induction over turns.
- `LeasedFirst`, if leases are atomic: a leased job has the smallest number among the active ones of its room. It rests on
  `Numbered`: were two numbers alike, the blocker would hold back neither.
- `TurnsHold`, if turns are timely too: a turn runs once, in one lane, for a job that is leased beyond now. It makes a room's
  turns serial through `LeasedFirst`, and keeps sweeps and retries away from what is settled.

**MailRoom.** The faults are in the scenario, so the invariants are implications, established one after another;
each may use those before it.
1. `BaseOK` (always): types, every job was made after a message arrived in its room and handles one of them or the agent's own mail.
2. `CountsOK` (`Counted`): every room has its row (`RowsWritten`) and it counts the arrivals, a job's numbers are those of the newest message at its
   making, which it handles unless a release made it (`SubjectCounts`), and *the row a turn read
   is as new as its job and not newer than the room*. The last one is what the stale check needs: a turn whose job
   is as new as the row holds the current row, so that the write-back takes nothing back.
3. `HandoffIsRequested` (always; `NoUnrequestedHandoff`): no state "handoff" in a room that nobody took over. Ingestion makes no job
   for a room in that state, so `NewestMessageAccountedFor` needs it. That property adds, where `LatestIsNewest` holds: the jobs made since the newest
   message handle it, and so would the job of a release, unless it was replied to (`SubjectsAgree`, `LatestAgrees`).
4. `HandedOK` (undisturbed handoff): every lease has a turn, no turn is beyond its execution, nothing failed or is queued in a
   handed-off room. Each is something a later step could turn into a second turn that writes "running" over the handoff.
5. `SentOK`, `FirstPlans`, `RowOK`, `Resting` (follow-ups): what was sent is bounded by the days since the plan and what was run by hand, and a follow-up that has a time has a day to spare; only
   a first message plans, and what an answer has stopped is never due again by itself.
6. `LeaseOK` (no slow turn): every turn holds the lease of a job of its own. Then `SerialOK`: the numbers of a room's active jobs
   differ and a running job is the first. Then `TurnOut` (nobody has replied since a running turn read its row), so
   that the write-back counts every reply, and `OnceOK` (a job whose reply is out is completed; two jobs for one
   message are told apart by `released`).

`Implements` maps a room to its arrivals, the number of open jobs for its newest message (`Due`), its replies and whether it
is held. Each step is quiet in all rooms but one (`Quiet`), and in that one it arrives, answers, lapses, holds or releases as `RoomPromise` allows
(`RoomMoves`); `JobsBounded` makes `Due` finite. It uses the layers 1, 2, 4 and `LeaseOK`.

**MailIntake.** `BoxShape` says what a box can be: mail in the order of its arrival, and, where none is removed, UIDs that are places. `IInv` says of every poll in flight what makes its late writes harmless: it started from a place that
is covered, and *the place it will write is covered by what was ingested together with what is left of its batch*
(`CoversWith`). A poll that overlaps, or was replaced, may put the cursor back but never beyond. `Fits` restricts this to cursors noted under
the UIDVALIDITY of the box; `Paired` and `Dated` say when they are. `Counted` makes the dedupe keys count the entries.

**SubAgentRuns.** `IInv` holds without any hypothesis and has four parts.
- `MailOK` relates the two views of a message row by row (`RowOK`): they agree, or the tables have it blocked where the ledger has it leased
  or stale, or a torn append or a torn rebuild left the tables behind; what is taken in the tables is taken in the ledger.
  The same holds of what any first events of the ledger give (`ReplaysOK`), so that a torn rebuild ends in a state of this kind.
- `CallsOK`: two calls have no task in common in their hands (`InHand`); a task a call alone may run and settle (`Held`) is leased in tables and ledger
  alike; one it has not begun (`Unrun`) has no run; a report it holds answers a task of the turn's own revision.
- `RunsOK`: a run is of a task that was leased, and no two are of one task.
- `TypeOK`.

A step is good if its waves are: a wave writes only over rows that are not settled, keeps what the message is, and leaves taken what was taken
(`GoodWrite`). Good waves in a row keep `MailOK`, completed or torn at any event (`RecordOK`, `TornOK`), and what they do to the mail (`Kept`) is
what `CallKept` and `RunKept` need for the calls and runs that do not take part. `TaskRunsOnce` so rests on leases: a run is only begun for a task just
leased, a leased one is never queued again, and `Unrun` carries "has no run" over the await of the spawn.
`UsedOK` adds to it that a used report's room had not moved on.

The last three theorems depend on the scenario, and need to know what becomes of calls rather than of mail. Every step has one of four *shapes*
(`NextShape`): the process dies (`Dies`), the mail or the room changes and no call does (`Alone`), a call goes on with at most one report more and one run begun or ended
(`CallShape`), or a turn collects and is over (`Gathers`). From these follow
- `RoomAhead` (the room is not put back): no message is of a revision the room has not reached, so no report is refused;
- `OwnReports` (one turn at a time): a report a call holds is queued in tables and ledger, so that with `RoomAhead` the turn can consume it;
- `BoundOK` and `Watched`: a bound run is inserted with the check of the limit, and a run that counts is in the hands of a call that works on it;
- `Attended`: outside the API and torn writes no task is queued between steps. The turn that posts one finds its mailbox empty, leases that very
  task, and cannot be refused, because the thread is new. This is where `MaxActive # 0` comes in.

**OutboxDelivery.** `IInv` adds
- `PassShape`: a pass in flight holds an intent; "accepted and not yet known"
  occurs only while sending, and then the attempt is on record. Needed so that recording
  a success turns an existing attempt, and never takes a count below zero;
- `Unreleased`: what was not released was not accepted, and a request that is open or rejected goes
  with the status "pending_approval" or "rejected", but for the exceptions of the gate. Needed by the gate and by refusal;
- `Covered`: an intent that is queued, or in the hands of a pass that has not yet been accepted, still has a
  release to spare. This is what makes acceptance once per release inductive: the claim
  moves the spare release from the row to the pass, acceptance uses it up;
- `Recorded`: an attempt recorded as sent is the only one, and no pass holds the
  intent any more. So `SettleAccepted` and a resend cannot meet it as "queued".

`Implements` maps an intent to `StandingOf`: due from its release to its
acceptance or the end of its pass, "spent" in between, "sent" when known.
`NextKeepsPromise` shows that each action moves one intent or none as `OutboxPromise` allows, with
`OneMoves` and `Moving` for the function update.

In every module there is a lemma per action, a lemma that puts the actions together, and theorems that follow by `PTL`.

The proof of `HandoffRests` failed at first at a run of follow-ups that is torn: the process dies with its
turns, whose jobs are leased again under the handoff. `HandoffUndisturbed` excludes that event for this reason; no
scenario had combined it with a handoff. The proof of `SerialTurns` failed where a release meets a retry, which led to
`room_overlap`.

The proof of `NoTaskRunsTwice` failed where an append is torn: `Commit` let the process die before the lease was recorded and yet insert the run,
which no order of the statements in `bridge.ts` does. With `MaxActive = 1` TLC did not see it, with 2 it found a task run twice. `Torn` is what
came of it: a run is inserted after the lease, or not at all.

Model-checked only: all liveness (`EveryJobSettles`, `JobsSettle`, `RoomComesToRest`, `QueuedMailIsTakenUp`, `SendingConcludes`:
fairness and ENABLED are out of this prover's reach). Every safety property of the passing runs, of states and of steps, is
a theorem.

## Limits

- The block between two awaits of one process is one action. Statements of two
  processes interleave inside it in the code; `RoomQueue` models that for the
  lease, which is the only place where two processes contend for a row by design,
  `OutboxDelivery` cuts a pass between its listing, each row it considers and its awaits, but takes the
  two writes that record an outcome together (`RecordTorn` is a crash between
  them), and `MailRoom` does not model it.
- `drainQueue` awaits `autoDispatchGatewayOutcomesForRoom` between the settlement of a job and the
  release of its slot; `RoomQueue` gives the slot back with the settlement.
- One reply of a turn stands for its one to three intents (acknowledgement,
  progress, final). Acknowledgements and progress mails that a timer sends are not modelled, neither as intents nor as mail of the thread.
- Binding a room to a project is one step with the turn or the ingestion that does it, but for the tears of `IngestTorn`. A job for the
  agent's own mail may name any project, since what an agent writes is not modelled.
- A decision finds the mail pending and writes its row in one step (`transitionOutbox`, `resendOutbox`): two processes deciding on one mail
  at the same time are not modelled.
- The passes of `OutboxDelivery` are full ones or ask for some intents by id. A pass with a `limit` applies it before it skips the rows under handoff
  (`smtp.ts:106-112`), so that enough of them can keep the others out: `QueuedMailIsTakenUp` says nothing of such passes.
- A rebuild runs in the process of the turns. One by `mailctl`, interleaved with a server at work, is not modelled; nor is
  `consumeMailbox` of the runtime (`runtime.ts:3791`), by which a caller leases whatever is queued in a mailbox beside the turns: `ReportsObtainable`
  and `TasksAreAttended` assume that nobody does.
- Beyond the end of a box an IMAP server answers a range n:* with the last message, or refuses it (`Fail`).
- `MailRoom` and `SubAgentRuns` are not composed: each has the other's effect as an action of its
  own (`PutBack`; the stages of a turn that end or throw at any time). A prelude that
  plans no worker does not await I/O and is a turn without the stage.
- The workers of a turn run in parallel in the code and are one in `SubAgentRuns`; every message has one recipient.
- A watcher polls once per start, as those built from this repository's fetchers do; a caller may
  supply fetchers that go on.
- The days of `FollowUps` are the only periods; a weekly follow-up is a daily one with fewer days.
- Rooms are made by mail; those made by provisioning calls are not modelled.
- A resolver of the sender that throws is modelled as the death of its pass.
- Provider message ids, owners of job leases, and the timestamps nothing reads are left out.

Not modelled, and why:

- *Gateway projection.* A dispatch awaits the gateway and writes the outcome's status, without a
  claim; nothing in code or documents promises that an outcome is dispatched once, so there is no property to
  hold it to. The hazard is listed.
- *OAuth logins.* A protocol with external services over one row; its race is listed as a hazard.
- *Public inbox, pre-context and facts, memory, retrieval.* Recomputed or written by single synchronous calls; the
  approval of a memory draft, two file writes, is listed as a hazard.
- *Which thread a message joins.* Lookups of headers; an input of `MailRoom`. The case of mail
  out of order is listed as a hazard.
- *Veto and supersession of virtual threads*: no code but the tests calls them.
- *Policies, formats, storage, server, command line, presentation, experiments*: predicates, text and I/O.

## The plan

Done: the queue, the rooms with their follow-ups, delegation by virtual mail, intake and the
outbox, with two abstract specifications (`RoomPromise`, `OutboxPromise`). Every safety property of the passing runs and both
refinements are proved. What is left:

1. Compose `MailRoom` and `SubAgentRuns`: the room's revision and the stages of a turn are given to each by an action of its own, and a
   composition would replace `PutBack` by the turn's write-back. The invariants to start from are `CountsOK` and `RoomAhead`.
2. An abstract specification of delegation (a task is posted, run once, reported once, used by its turn) that `SubAgentRuns` implements.
3. The components with a hazard and no property: gateway outcomes, OAuth logins, memory drafts, thread resolution.
