----------------------------- MODULE FollowUps -----------------------------
(***************************************************************************)
(* Scheduled follow-ups and the projects rooms are bound to                *)
(* (src/orchestration/scheduled-mail.ts and project-runtime.ts).  A room   *)
(* has one follow-up at most: only its first message can plan one.         *)
(*                                                                         *)
(* Every period is one day.  A project is named by the subject of a        *)
(* message, so a room may come to several; the one bound last is "its"     *)
(* project.  MailRoom says when mail and turns call these operations.      *)
(***************************************************************************)
EXTENDS Naturals

CONSTANTS
  Rooms, Projects,
  MaxDay,       \* bound on the days, and on the follow-ups of a room
  NoFollowUp,
  NoProject     \* of a message that names none, of a room bound to none

ASSUME FollowUpsAssumption ==
  /\ MaxDay \in Nat
  /\ NoProject \notin Projects

VARIABLES
  followUps,    \* scheduled_mail_jobs, by room
  sent,         \* history: follow-ups of a room put into the outbox
  byHand,       \* history: those among them that the operator ran
  operated,     \* history: whether the operator has touched the follow-up,
                \* "resumed" if it was made active since the last message
  links,        \* room_project_links: the projects a room is bound to
  latest,       \* the one of them it was bound to last
  projects,     \* project_aggregates.status
  day

scheduleVars == <<followUps, sent, byHand, operated>>
projectVars == <<links, latest, projects>>
followVars == <<scheduleVars, projectVars, day>>

\* next_run_at is NULL, or lies beyond the last day.
Never == MaxDay + 1

FollowUp ==
  [kind : {"run_at", "cron_like"}, born : 0 .. MaxDay, due : 1 .. Never,
   status : {"active", "paused", "cancelled", "completed"}]

ASSUME NoFollowUpAssumption == NoFollowUp \notin FollowUp

FollowTypeOK ==
  /\ followUps \in [Rooms -> FollowUp \union {NoFollowUp}]
  /\ sent \in [Rooms -> Nat]
  /\ byHand \in [Rooms -> Nat]
  /\ operated \in [Rooms -> {"no", "changed", "resumed"}]
  /\ links \in [Rooms -> SUBSET Projects]
  /\ latest \in [Rooms -> Projects \union {NoProject}]
  /\ projects \in [Projects -> {"none", "open", "done"}]
  /\ day \in 0 .. MaxDay

FollowInit ==
  /\ followUps = [r \in Rooms |-> NoFollowUp]
  /\ sent = [r \in Rooms |-> 0]
  /\ byHand = [r \in Rooms |-> 0]
  /\ operated = [r \in Rooms |-> "no"]
  /\ links = [r \in Rooms |-> {}]
  /\ latest = [r \in Rooms |-> NoProject]
  /\ projects = [p \in Projects |-> "none"]
  /\ day = 0

-----------------------------------------------------------------------------
(* Called by ingestion and by turns *)

Planned(r) == followUps[r] # NoFollowUp
Tomorrow == day + 1     \* Never on the last day

\* maybeCreateScheduledMailJob
Plan(r, kind) ==
  /\ followUps' = [followUps EXCEPT ![r] =
       [kind |-> kind, born |-> day, due |-> Tomorrow, status |-> "active"]]
  /\ UNCHANGED <<sent, byHand, operated>>

\* Mutant: a paused follow-up is left alone.
Stoppable_Active(job) == job # NoFollowUp /\ job.status = "active"

Stoppable(job) == job # NoFollowUp /\ job.status \in {"active", "paused"}

Cancelled(job) == [job EXCEPT !.status = "cancelled", !.due = Never]

\* cancelScheduledMailJobsForRoom, when another message has come.
Stop(r) ==
  /\ followUps' = [followUps EXCEPT ![r] = IF Stoppable(@) THEN Cancelled(@) ELSE @]
  /\ operated' = [operated EXCEPT ![r] = IF @ = "resumed" THEN "changed" ELSE @]
  /\ UNCHANGED <<sent, byHand>>

\* maybeBindRoomToProject with the refresh it ends with: the project is done
\* when all the rooms bound to it are at rest.
Bind(r, p, atRest) ==
  /\ links' = [links EXCEPT ![r] = @ \union {p}]
  /\ latest' = [latest EXCEPT ![r] = p]
  /\ projects' = [projects EXCEPT ![p] =
       IF \A q \in Rooms : p \in links'[q] => q \in atRest THEN "done" ELSE "open"]

-----------------------------------------------------------------------------
(* Running what is due *)

\* getRoomProject
ProjectDone(r) == latest[r] # NoProject /\ projects[latest[r]] = "done"

\* Mutant: what ran once stays active.
Ran_Active(job) == IF job.kind = "run_at" THEN job ELSE [job EXCEPT !.due = Tomorrow]

Ran(job) ==
  IF job.kind = "run_at" THEN [job EXCEPT !.status = "completed", !.due = Never]
                         ELSE [job EXCEPT !.due = Tomorrow]

\* runScheduledMailJobs, in the given rooms: the follow-up of a project that is
\* done is cancelled, any other is put into the outbox.
Run(ready) ==
  /\ followUps' = [r \in Rooms |->
       IF r \notin ready THEN followUps[r]
       ELSE IF ProjectDone(r) THEN Cancelled(followUps[r]) ELSE Ran(followUps[r])]
  /\ sent' = [r \in Rooms |->
       IF r \in ready /\ ~ ProjectDone(r) THEN sent[r] + 1 ELSE sent[r]]
  /\ UNCHANGED <<projectVars, day>>

IsActive(r) == Planned(r) /\ followUps[r].status = "active"
DueNow == {r \in Rooms : IsActive(r) /\ followUps[r].due <= day}

RunDue ==
  /\ DueNow # {}
  /\ Run(DueNow)
  /\ UNCHANGED <<byHand, operated>>

\* The process dies at the follow-up of r, the older ones being done: r's is in
\* the outbox and its row is not written.
RunTorn(r) ==
  /\ r \in DueNow
  /\ ~ ProjectDone(r)
  /\ sent[r] <= MaxDay
  /\ LET older == {q \in DueNow : followUps[q].born < followUps[r].born}
     IN  /\ followUps' = [q \in Rooms |->
              IF q \notin older THEN followUps[q]
              ELSE IF ProjectDone(q) THEN Cancelled(followUps[q])
                                     ELSE Ran(followUps[q])]
         /\ sent' = [q \in Rooms |->
              IF q = r \/ (q \in older /\ ~ ProjectDone(q)) THEN sent[q] + 1
                                                            ELSE sent[q]]
  /\ UNCHANGED <<byHand, operated, projectVars, day>>

NextDay ==
  /\ day < MaxDay
  /\ day' = day + 1
  /\ UNCHANGED <<scheduleVars, projectVars>>

-----------------------------------------------------------------------------
(* The operator: none of these but RunNow looks at the status *)

Touched(r) == [operated EXCEPT ![r] = IF @ = "no" THEN "changed" ELSE @]

Pause(r) ==
  /\ Planned(r)
  /\ followUps' = [followUps EXCEPT ![r].status = "paused"]
  /\ operated' = Touched(r)
  /\ UNCHANGED <<sent, byHand, projectVars, day>>

\* Mutant: whatever has no time gets one.
Resumed_Due(job) == IF job.due = Never THEN Tomorrow ELSE job.due

\* A reminder without a time gets none; a recurring one starts afresh.
Resumed(job) == IF job.due = Never /\ job.kind = "cron_like" THEN Tomorrow ELSE job.due

Resume(r) ==
  /\ Planned(r)
  /\ followUps' =
       [followUps EXCEPT ![r].status = "active", ![r].due = Resumed(followUps[r])]
  /\ operated' = [operated EXCEPT ![r] = "resumed"]
  /\ UNCHANGED <<sent, byHand, projectVars, day>>

Cancel(r) ==
  /\ Planned(r)
  /\ followUps' = [followUps EXCEPT ![r] = Cancelled(@)]
  /\ operated' = Touched(r)
  /\ UNCHANGED <<sent, byHand, projectVars, day>>

RunNow(r) ==
  /\ IsActive(r)
  /\ sent[r] <= MaxDay
  /\ Run({r})
  /\ byHand' = [byHand EXCEPT ![r] = @ + (sent'[r] - sent[r])]
  /\ operated' = Touched(r)
=============================================================================
