---------------------------- MODULE SubAgentRuns ----------------------------
(***************************************************************************)
(* Delegation by virtual mail: a turn of the room sends tasks to workers   *)
(* or sub-agents, has them run, and collects their reports                 *)
(* (src/subagent-bridge/bridge.ts and src/orchestration/service.ts); the   *)
(* runtime's API submits and dispatches tasks besides.                     *)
(*                                                                         *)
(* A call is a running invocation of one of the two.  Its steps are cut at *)
(* the awaits: the spawn of a burst, the run itself, and each awaited      *)
(* dispatch.  The workers of a turn run in parallel in the code; here they *)
(* are one.  Who leased a delivery is looked at for reports only, and      *)
(* leases never expire: nothing reads lease_until.                         *)
(***************************************************************************)
EXTENDS VirtualMail, FiniteSets

CONSTANTS
  Calls, NoCall,
  Desk,       \* the mailbox of the room's mail-orchestrator
  Mode,       \* per mailbox of a helper: "worker", "bound" or "burst"
  MaxActive,  \* maxActivePerRoom
  Plans,      \* what a turn may delegate: sequences of mailboxes
  Scenarios   \* what may happen; one of them is chosen at the start

Helpers == DOMAIN Mode
Agents == {h \in Helpers : Mode[h] # "worker"}

Events ==
  {"api",          \* the API submits and dispatches tasks
   "slow_turn",    \* a turn outlives its lease and another is started
   "run_fails",    \* the transport or an executor throws
   "disk_fails",   \* the file of a report cannot be written
   "crash",        \* the process dies while its calls await
   "torn_write",   \* the process dies between two statements
   "rebuild",      \* an operator has the tables rebuilt
   "torn_rebuild", \* the process dies rebuilding them
   "put_back"}     \* the room's row is written back by a turn

ASSUME SubAgentRunsAssumption ==
  /\ Mode \in [Helpers -> {"worker", "bound", "burst"}]
  /\ Mailboxes = Helpers \union {Desk} /\ Desk \notin Helpers
  /\ Scenarios \subseteq [events : SUBSET Events, maxTurns : Nat, maxTasks : Nat]
  /\ MaxActive \in Nat
  /\ Plans \subseteq Seq(Helpers)

VARIABLES
  calls,     \* the running calls
  runs,      \* subagent_runs, in the order they are inserted
  used,      \* history: the reports turns have used
  turns,     \* counted against the scenario's bound
  scenario   \* the events that may happen, and bounds on turns and tasks

vars == <<mail, revision, calls, runs, used, turns, scenario>>

\* by: the revision of the turn that calls, 0 for the API.  own: the task the
\* turn itself has submitted.  batch: leased deliveries yet to be processed.
Call ==
  [by : 0 .. MaxRevision, at : {"next", "spawning", "working"},
   todo : Seq(Helpers), batch : SUBSET Messages, task : Messages \union {0},
   own : Messages \union {0}, reports : SUBSET Messages]

ASSUME NoCallAssumption == NoCall \notin Call

Run ==
  [task : Messages, thread : Messages, target : Agents,
   status : {"running", "completed", "failed", "stale"}]

TypeOK ==
  /\ MailTypeOK
  /\ calls \in [Calls -> Call \union {NoCall}]
  /\ runs \in Seq(Run)
  /\ used \subseteq [turn : 1 .. MaxRevision, room : 1 .. MaxRevision, report : Messages]
  /\ scenario \in Scenarios
  /\ turns \in 0 .. scenario.maxTurns

Init ==
  /\ MailInit
  /\ calls = [c \in Calls |-> NoCall]
  /\ runs = <<>>
  /\ used = {}
  /\ turns = 0
  /\ scenario \in Scenarios
  /\ replays # {} <=> "torn_rebuild" \in scenario.events

-----------------------------------------------------------------------------
May(event) == event \in scenario.events
Free(c) == calls[c] = NoCall
At(c, place) == ~ Free(c) /\ calls[c].at = place
ByTurn(c) == ~ Free(c) /\ calls[c].by # 0

Continue(c, call) == calls' = [calls EXCEPT ![c] = call]
Leave(c) == Continue(c, NoCall)

\* A dispatch has ended: the turn goes on with its next target, the API's call
\* with its batch.
Onward(call) ==
  IF call.by = 0 /\ call.batch = {} THEN NoCall ELSE [call EXCEPT !.at = "next"]

\* A dispatch has thrown: the turn notes it and goes on; the API's call is over
\* and the rest of its batch stays leased.
Thrown(call) == IF call.by = 0 THEN NoCall ELSE [call EXCEPT !.at = "next"]

\* The process dies in the middle of what a block writes to the mail.
Torn(waves, newRuns) ==
  /\ May("torn_write")
  /\ RecordTorn(waves)
  /\ runs' = newRuns
  /\ calls' = [c \in Calls |-> NoCall]

\* A block writes its mail and then the rest, or the process dies in between.
Commit(waves, newRuns, c, call) ==
  \/ Record(waves) /\ runs' = newRuns /\ Continue(c, call)
  \/ Torn(waves, runs)

MayTask(m) ==
  /\ NextMessage(m)
  /\ Cardinality({l \in Messages : ledger[l].kind = "task"}) < scenario.maxTasks

-----------------------------------------------------------------------------
(* dispatchSubAgentMailbox: processing a leased task *)

ActiveRuns(thread, target) ==
  {i \in DOMAIN runs : /\ runs[i].status = "running"
                       /\ runs[i].thread = thread
                       /\ runs[i].target = target}

\* Mutant: one more.
LimitReached_Later(row) == Cardinality(ActiveRuns(row.thread, row.to)) > MaxActive

LimitReached(row) == Cardinality(ActiveRuns(row.thread, row.to)) >= MaxActive

Accepted(t, row) ==
  Append(runs, [task |-> t, thread |-> row.thread, target |-> row.to,
                status |-> "running"])

\* What leasing leads to, up to the first await: the limit throws before the
\* try block, a bound run is inserted at once, a burst is to be spawned.
Process(c, call, waves, t, row) ==
  \/ /\ LimitReached(row)
     /\ Commit(waves, runs, c, Thrown(call))
  \/ /\ ~ LimitReached(row) /\ Mode[row.to] = "bound"
     /\ Commit(waves, Accepted(t, row), c, [call EXCEPT !.task = t, !.at = "working"])
  \/ /\ ~ LimitReached(row) /\ Mode[row.to] = "burst"
     /\ Commit(waves, runs, c, [call EXCEPT !.task = t, !.at = "spawning"])

StartTurn(c) ==
  /\ Free(c)
  /\ turns < scenario.maxTurns
  /\ May("slow_turn") \/ \A d \in Calls : ~ ByTurn(d)
  /\ \E plan \in Plans :
       Continue(c, [by |-> revision, at |-> "next", todo |-> plan, batch |-> {},
                    task |-> 0, own |-> 0, reports |-> {}])
  /\ turns' = turns + 1
  /\ UNCHANGED <<mail, revision, runs, used, scenario>>

\* A turn submits the task for its next target and leases a delivery of that
\* mailbox, its own or an older one; a worker does the turn's own task anyway.
Delegate(c) ==
  /\ ByTurn(c) /\ At(c, "next") /\ calls[c].todo # <<>>
  /\ RoomIsAt(calls[c].by)
  /\ \E m \in Messages :
       LET target == Head(calls[c].todo)
           task == Posted("task", target, m, 0, calls[c].by)
           call == [calls[c] EXCEPT !.todo = Tail(@), !.own = m]
       IN  /\ MayTask(m)
           /\ \E t \in QueuedFor(target) \union {m} :
                LET row == IF t = m THEN task ELSE tables[t]
                    waves == Submit(m, task) \o Lease(t, row, 0)
                IN  IF Mode[target] = "worker"
                    THEN Commit(waves, runs, c,
                           [call EXCEPT !.task = m, !.at = "working", !.batch = {m} \intersect {t}])
                    ELSE Process(c, call, waves, t, row)
  /\ UNCHANGED <<revision, used, turns, scenario>>

\* The room has moved: the task is refused and the prelude throws.
DelegateRefused(c) ==
  /\ ByTurn(c) /\ At(c, "next") /\ calls[c].todo # <<>>
  /\ ~ RoomIsAt(calls[c].by)
  /\ Leave(c)
  /\ UNCHANGED <<mail, revision, runs, used, turns, scenario>>

\* Through the API: a task in a new thread or in that of an earlier one.
ApiSubmit ==
  /\ May("api")
  /\ \E m \in Messages, target \in Agents :
       /\ MayTask(m)
       /\ \/ Record(Submit(m, Posted("task", target, m, 0, revision)))
          \/ \E t \in Addressed(target) :
               Record(Submit(m, Posted("task", target, tables[t].thread, t, revision)))
  /\ UNCHANGED <<revision, calls, runs, used, turns, scenario>>

\* Through the API: up to n deliveries are leased, one is processed.
ApiDispatch(c) ==
  /\ May("api")
  /\ Free(c)
  /\ \E target \in Agents, n \in 1 .. 2 : \E batch \in SUBSET QueuedFor(target) :
       /\ Cardinality(batch) <= n
       /\ Cardinality(batch) < n => batch = QueuedFor(target)
       /\ \E t \in batch :
            Process(c,
              [by |-> 0, at |-> "next", todo |-> <<>>, batch |-> batch \ {t},
               task |-> 0, own |-> 0, reports |-> {}],
              <<[l \in batch |-> Leased(tables[l], 0)]>>, t, tables[t])
  /\ UNCHANGED <<revision, used, turns, scenario>>

ApiContinues(c) ==
  /\ At(c, "next") /\ ~ ByTurn(c)
  /\ \E t \in calls[c].batch :
       Process(c, [calls[c] EXCEPT !.batch = @ \ {t}], <<>>, t, tables[t])
  /\ UNCHANGED <<revision, used, turns, scenario>>

\* spawnBurst answers, and the run is inserted; the limit is not asked again.
Spawned(c) ==
  /\ At(c, "spawning")
  /\ runs' = Accepted(calls[c].task, tables[calls[c].task])
  /\ Continue(c, [calls[c] EXCEPT !.at = "working"])
  /\ UNCHANGED <<mail, revision, used, turns, scenario>>

SpawnFails(c) ==
  /\ May("run_fails")
  /\ At(c, "spawning")
  /\ Block(calls[c].task)
  /\ Continue(c, Thrown(calls[c]))
  /\ UNCHANGED <<revision, runs, used, turns, scenario>>

-----------------------------------------------------------------------------
(* watchSubAgentRun, runBoundSubAgentRun and what follows them *)

\* The run of a task that is being run: its last.
RunOf(t) == Max({i \in DOMAIN runs : runs[i].task = t})

Stale(row) == revision > row.revision

\* The report is refused: the room is behind its task.
Refused(row) == revision < row.revision

\* Mutant: the report is in no thread.
Report_Unthreaded(t, row) ==
  Posted("report", Desk, 0, t, IF Stale(row) THEN revision ELSE row.revision)

\* A late report is posted at the room's revision, as a notice.
Report(t, row) ==
  Posted("report", Desk, row.thread, t, IF Stale(row) THEN revision ELSE row.revision)

Reported(call, m) ==
  IF call.task = call.own THEN [call EXCEPT !.reports = @ \union {m}] ELSE call

RunStatus(row, status) == IF Stale(row) THEN "stale" ELSE status

\* The task goes stale with its run unless the transport threw.
Staled(t, row, thrown) == IF Stale(row) /\ ~ thrown THEN MarkStale(t, row) ELSE <<>>

\* The run ends and is reported; its row is written somewhere between the events.
RunEnds(c) ==
  /\ At(c, "working") /\ Mode[tables[calls[c].task].to] # "worker"
  /\ \E m \in Messages, thrown \in BOOLEAN, status \in {"completed", "failed"} :
       LET t == calls[c].task
           row == tables[t]
           marked == Staled(t, row, thrown)
           waves == marked \o Submit(m, Report(t, row))
                      \o (IF marked = <<>> /\ Open(row) THEN Consume(t, row) ELSE <<>>)
           ended == [runs EXCEPT ![RunOf(t)].status = RunStatus(row, status)]
       IN  /\ thrown => May("run_fails") /\ status = "failed"
           /\ NextMessage(m)
           /\ ~ Refused(row)
           /\ \/ Commit(waves, ended, c, Onward(Reported(calls[c], m)))
              \/ Torn(waves, ended)
  /\ UNCHANGED <<revision, used, turns, scenario>>

\* The report cannot be posted: the delivery is blocked, whatever it was; the
\* run is settled before that only if the transport threw.
ReportFails(c) ==
  /\ At(c, "working") /\ Mode[tables[calls[c].task].to] # "worker"
  /\ \E thrown \in BOOLEAN :
       LET t == calls[c].task
           row == tables[t]
       IN  /\ thrown => May("run_fails")
           /\ Refused(row) \/ May("disk_fails")
           /\ Appended(Staled(t, row, thrown))
           /\ tables' = [tables EXCEPT ![t] = Settled(@, "blocked")]
           /\ runs' = IF thrown
                      THEN [runs EXCEPT ![RunOf(t)].status = RunStatus(row, "failed")]
                      ELSE runs
  /\ Continue(c, Thrown(calls[c]))
  /\ UNCHANGED <<revision, used, turns, scenario>>

\* executeWorkerTurn after its await: a stale worker reports nothing.
WorkerEnds(c) ==
  /\ At(c, "working") /\ Mode[tables[calls[c].task].to] = "worker"
  /\ LET t == calls[c].task
         row == tables[t]
         done == [calls[c] EXCEPT !.at = "next", !.batch = {}]
     IN  /\ ~ Refused(row)
         /\ IF Stale(row)
            THEN Commit(MarkStale(t, row), runs, c, done)
            ELSE \E m \in Messages :
                   /\ NextMessage(m)
                   /\ Commit(Submit(m, Report(t, row))
                               \o (IF t \in calls[c].batch THEN Consume(t, row) ELSE <<>>),
                             runs, c, Reported(done, m))
  /\ UNCHANGED <<revision, used, turns, scenario>>

\* The executor throws or the report is refused, and the turn's stage with it.
WorkerFails(c) ==
  /\ At(c, "working") /\ Mode[tables[calls[c].task].to] = "worker"
  /\ May("run_fails") \/ Refused(tables[calls[c].task])
  /\ Leave(c)
  /\ UNCHANGED <<mail, revision, runs, used, turns, scenario>>

-----------------------------------------------------------------------------
(* collectSubAgentReplySummaries, collectWorkerReplySummaries *)

\* Mutant: reports of the turn itself count as old.
Superseded_OwnRevision(by) ==
  {m \in Addressed(Desk) : tables[m].status \in {"queued", "leased"} /\ tables[m].revision <= by}

\* staleSupersededMailboxDeliveries: what is addressed to the desk and older
\* than the turn.
Superseded(by) ==
  {m \in Addressed(Desk) : tables[m].status \in {"queued", "leased"} /\ tables[m].revision < by}

\* The rows of the desk after that and after the turn has leased what is queued.
Desked(m, by) ==
  LET row == tables[m]
  IN  IF m \in Superseded(by) THEN Settled(row, "stale")
      ELSE IF m \in QueuedFor(Desk) THEN Leased(row, by)
      ELSE row

\* Mutant: the room's revision is not looked at again.
Outdated_ByReport(m, by) == tables[m].revision > by

\* A report is dropped if the room or the report is past the turn.
Outdated(m, by) == revision > by \/ tables[m].revision > by

\* The reports the turn cannot consume: collecting throws at the first.
Unobtainable(c) ==
  {m \in calls[c].reports : /\ ~ Outdated(m, calls[c].by)
                            /\ ~ Consumable(Desked(m, calls[c].by), calls[c].by)}

\* The reports the turn settles: those before the first it cannot have.
Reached(c) ==
  {m \in calls[c].reports :
     /\ \A l \in Unobtainable(c) : m < l
     /\ IF Outdated(m, calls[c].by) THEN Open(Desked(m, calls[c].by))
                                   ELSE tables[m].status # "consumed"}

\* What is superseded goes stale, what is queued is leased, and the turn's own
\* reports are settled.
Collection(c) ==
  LET by == calls[c].by
  IN  <<[m \in Superseded(by) |-> Settled(tables[m], "stale")],
        [m \in QueuedFor(Desk) \ Superseded(by) |-> Leased(tables[m], by)],
        [m \in Reached(c) |->
           Settled(Desked(m, by), IF Outdated(m, by) THEN "stale" ELSE "consumed")]>>

Collect(c) ==
  /\ ByTurn(c) /\ At(c, "next") /\ calls[c].todo = <<>>
  /\ Commit(IF calls[c].reports = {} THEN <<>> ELSE Collection(c), runs, c, NoCall)
  /\ LET by == calls[c].by
     IN  used' = IF Unobtainable(c) # {} THEN used
                 ELSE used \union {[turn |-> by, room |-> revision, report |-> m] :
                                    m \in {l \in calls[c].reports : ~ Outdated(l, by)}}
  /\ UNCHANGED <<revision, turns, scenario>>

-----------------------------------------------------------------------------
MailArrives ==
  /\ NewMail
  /\ UNCHANGED <<calls, runs, used, turns, scenario>>

PutBack ==
  /\ May("put_back")
  /\ RoomPutBack
  /\ UNCHANGED <<calls, runs, used, turns, scenario>>

RebuildTables ==
  /\ May("rebuild")
  /\ Rebuild
  /\ UNCHANGED <<calls, runs, used, turns, scenario>>

RebuildDies ==
  /\ May("torn_rebuild")
  /\ RebuildTorn
  /\ calls' = [c \in Calls |-> NoCall]
  /\ UNCHANGED <<runs, used, turns, scenario>>

Crash ==
  /\ May("crash")
  /\ \E c \in Calls : ~ Free(c)
  /\ calls' = [c \in Calls |-> NoCall]
  /\ UNCHANGED <<mail, revision, runs, used, turns, scenario>>

CallStep(c) ==
  \/ Delegate(c) \/ DelegateRefused(c) \/ ApiContinues(c)
  \/ Spawned(c) \/ SpawnFails(c) \/ RunEnds(c) \/ ReportFails(c)
  \/ WorkerEnds(c) \/ WorkerFails(c) \/ Collect(c)

Next ==
  \/ \E c \in Calls : StartTurn(c) \/ ApiDispatch(c) \/ CallStep(c)
  \/ ApiSubmit
  \/ MailArrives \/ PutBack
  \/ RebuildTables \/ RebuildDies
  \/ Crash

Spec == Init /\ [][Next]_vars

-----------------------------------------------------------------------------
(* Safety *)

\* No task is run twice, whatever crashes, rebuilds and dispatches come
\* together: this rests on every lease being in the ledger.  (A rebuild that
\* the process dies in may forget the lease, and the task runs again.)
TaskRunsOnce ==
  ~ May("torn_rebuild") =>
  \A i, j \in DOMAIN runs : runs[i].task = runs[j].task => i = j

\* The tables can be rebuilt at any time: but for deliveries a failing dispatch
\* has blocked, a replay gives what the tables hold; with a torn write it may
\* give more, and never takes back that a delivery is settled.  (After a
\* rebuild that the process died in the tables are behind, and go on so.)
RebuildTakesNothingBack ==
  ~ May("torn_rebuild") =>
  \A m \in Messages :
    \/ tables[m] = ledger[m]
    \/ tables[m].status = "blocked" /\ ledger[m].status \in {"leased", "stale"}
    \/ May("torn_write") /\ tables[m].status \in {"none", "queued", "leased"}

\* What a step may do to the rows of the tables.
MovesOn ==
  ~ May("torn_rebuild") =>
  \A m \in Messages :
    /\ tables[m] # NoMail =>
         \A field \in {"kind", "to", "thread", "parent", "revision"} :
           tables'[m][field] = tables[m][field]
    /\ tables[m].status \notin {"none", "queued"} => tables'[m].status \notin {"none", "queued"}
    /\ tables[m].status \in {"consumed", "stale"} => tables'[m] = tables[m]

\* Mail only moves on, whatever is torn, replayed or done by two turns at once
\* (but for a rebuild that the process dies in):
\* a message stays what it is, a delivery that has been leased is never queued
\* again, and one that is consumed or stale stays that.
MailMovesOn == [][MovesOn]_vars

\* A target never has more than maxActivePerRoom bound runs in a thread; and,
\* unless the process dies or a report cannot be posted, a run that counts is
\* being watched: the limit is not used up by the dead.
LimitCountsLiveRuns ==
  \A i \in DOMAIN runs :
    /\ Mode[runs[i].target] = "bound" =>
         Cardinality(ActiveRuns(runs[i].thread, runs[i].target)) <= MaxActive
    /\ /\ scenario.events \subseteq {"slow_turn", "rebuild", "run_fails", "api"}
       /\ runs[i].status = "running"
       => \E c \in Calls : At(c, "working") /\ calls[c].task = runs[i].task

\* A stale report never gets into a reply: what a turn uses answers a task of
\* its own revision, and the room has not moved past it.
UsedReportIsCurrent ==
  \A u \in used :
    /\ u.room <= u.turn
    /\ ledger[u.report].revision = u.turn
    /\ ledger[ledger[u.report].parent].revision = u.turn

\* A turn that is alone in its room and has not been put back can always take
\* the reports on its own tasks.
ReportsObtainable ==
  scenario.events \intersect {"slow_turn", "put_back"} = {} =>
    \A c \in Calls : ~ Free(c) => Unobtainable(c) = {}

\* Without the API, torn writes and torn rebuilds no task lies in a mailbox
\* unattended; if besides nothing fails or puts the room back, a leased task is
\* in the hands of a call, and none is leased for ever.
TasksAreAttended ==
  \A m \in Messages :
    tables[m].kind = "task" =>
      /\ scenario.events \intersect {"api", "torn_write", "torn_rebuild"} = {} =>
           tables[m].status # "queued"
      /\ /\ scenario.events \subseteq {"slow_turn", "rebuild"}
         /\ tables[m].status = "leased"
         => \E c \in Calls : ~ Free(c) /\ calls[c].task = m
=============================================================================
