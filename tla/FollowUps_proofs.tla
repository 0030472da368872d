-------------------------- MODULE FollowUps_proofs --------------------------
(***************************************************************************)
(* Lemmas about the operations on follow-ups and projects, for any rooms,  *)
(* projects and number of days.                                            *)
(***************************************************************************)
EXTENDS FollowUps, TLAPS

ScheduleTyped ==
  /\ followUps \in [Rooms -> FollowUp \union {NoFollowUp}]
  /\ sent \in [Rooms -> Nat]
  /\ byHand \in [Rooms -> Nat]
  /\ operated \in [Rooms -> {"no", "changed", "resumed"}]

ProjectsTyped ==
  /\ links \in [Rooms -> SUBSET Projects]
  /\ latest \in [Rooms -> Projects \union {NoProject}]
  /\ projects \in [Projects -> {"none", "open", "done"}]

DayTyped == day \in 0 .. MaxDay

\* The three parts of the type invariant.
LEMMA FollowTyped == FollowTypeOK <=> ScheduleTyped /\ ProjectsTyped /\ DayTyped
BY DEF FollowTypeOK, ScheduleTyped, ProjectsTyped, DayTyped

\* The parts of the type invariant, in the next state, make the whole.
LEMMA FollowTypedNext == ScheduleTyped' /\ ProjectsTyped' /\ DayTyped' => FollowTypeOK'
BY DEF FollowTypeOK, ScheduleTyped, ProjectsTyped, DayTyped

\* Steps that leave a part alone.
LEMMA ScheduleSame == ScheduleTyped /\ UNCHANGED scheduleVars => ScheduleTyped'
BY DEF ScheduleTyped, scheduleVars, FollowUp, Never

\* A step that touches no project keeps the projects typed.
LEMMA ProjectsSame == ProjectsTyped /\ UNCHANGED projectVars => ProjectsTyped'
BY DEF ProjectsTyped, projectVars

\* The first day of a follow-up and its end are due dates.
LEMMA DueDates == DayTyped => Tomorrow \in 1 .. Never /\ Never \in 1 .. Never
BY FollowUpsAssumption DEF DayTyped, Tomorrow, Never

\* A follow-up remains one when it is cancelled or has run.
LEMMA CancelledTyped ==
  ASSUME NEW f \in FollowUp
  PROVE  Cancelled(f) \in FollowUp
<1>1. Never \in 1 .. Never
  BY FollowUpsAssumption DEF Never
<1> QED
  BY <1>1 DEF Cancelled, FollowUp

\* A follow-up that has been run is a follow-up row again.
LEMMA RanTyped ==
  ASSUME DayTyped, NEW f \in FollowUp
  PROVE  Ran(f) \in FollowUp
<1>1. Tomorrow \in 1 .. Never /\ Never \in 1 .. Never
  BY DueDates
<1> QED
  BY <1>1 DEF Ran, FollowUp

\* Planning a follow-up writes a well-formed row.
LEMMA PlanTyped ==
  ASSUME ScheduleTyped, DayTyped, NEW r \in Rooms,
         NEW kind \in {"run_at", "cron_like"}, Plan(r, kind)
  PROVE  ScheduleTyped'
<1> DEFINE f == [kind |-> kind, born |-> day, due |-> Tomorrow, status |-> "active"]
<1>1. f \in FollowUp
  BY DueDates DEF FollowUp, DayTyped
<1>2. followUps' = [followUps EXCEPT ![r] = f]
  BY DEF Plan
<1> HIDE DEF f
<1> QED
  BY <1>1, <1>2 DEF Plan, ScheduleTyped

\* Stopping a room's follow-ups writes a well-formed row.
LEMMA StopTyped ==
  ASSUME ScheduleTyped, NEW r \in Rooms, Stop(r)
  PROVE  ScheduleTyped'
<1>1. Stoppable(followUps[r]) => Cancelled(followUps[r]) \in FollowUp
  BY CancelledTyped DEF ScheduleTyped, Stoppable
<1>2. followUps' \in [Rooms -> FollowUp \union {NoFollowUp}]
  BY <1>1 DEF Stop, ScheduleTyped
<1> QED
  BY <1>2 DEF Stop, ScheduleTyped

\* Binding a room to a project keeps the projects typed.
LEMMA BindTyped ==
  ASSUME ProjectsTyped, NEW r \in Rooms, NEW p \in Projects, NEW atRest, Bind(r, p, atRest)
  PROVE  ProjectsTyped'
BY DEF Bind, ProjectsTyped

\* Running any set of active follow-ups writes well-formed rows and counts.
LEMMA RunTyped ==
  ASSUME FollowTypeOK, NEW ready \in SUBSET Rooms, \A r \in ready : IsActive(r), Run(ready)
  PROVE  /\ followUps' \in [Rooms -> FollowUp \union {NoFollowUp}]
         /\ sent' \in [Rooms -> Nat]
         /\ ProjectsTyped' /\ DayTyped'
<1>1. \A r \in ready : followUps[r] \in FollowUp
  BY DEF IsActive, Planned, FollowTypeOK
<1>2. \A r \in ready : Cancelled(followUps[r]) \in FollowUp /\ Ran(followUps[r]) \in FollowUp
  BY <1>1, CancelledTyped, RanTyped, FollowTyped
<1>3. followUps' \in [Rooms -> FollowUp \union {NoFollowUp}]
  BY <1>2 DEF Run, FollowTypeOK
<1>4. sent' \in [Rooms -> Nat]
  BY DEF Run, FollowTypeOK
<1>5. ProjectsTyped' /\ DayTyped'
  BY FollowTyped, ProjectsSame DEF Run, DayTyped
<1> QED
  BY <1>3, <1>4, <1>5

\* What is due now is active: only such rows reach Run.
LEMMA DueAreActive == \A r \in DueNow : r \in Rooms /\ IsActive(r)
BY DEF DueNow

\* The scheduler's pass over what is due keeps the types.
LEMMA RunDueTyped == FollowTypeOK /\ RunDue => FollowTypeOK'
<1> SUFFICES ASSUME FollowTypeOK, RunDue PROVE FollowTypeOK'
  OBVIOUS
<1>1. /\ followUps' \in [Rooms -> FollowUp \union {NoFollowUp}]
      /\ sent' \in [Rooms -> Nat]
      /\ ProjectsTyped' /\ DayTyped'
  BY DueAreActive, RunTyped DEF RunDue
<1>2. /\ operated' \in [Rooms -> {"no", "changed", "resumed"}]
      /\ byHand' \in [Rooms -> Nat]
  BY DEF RunDue, FollowTypeOK
<1> QED
  BY <1>1, <1>2, FollowTyped, FollowTypedNext DEF ScheduleTyped

\* A pass that a crash cuts short keeps the types.
LEMMA RunTornTyped ==
  ASSUME FollowTypeOK, NEW r, RunTorn(r)
  PROVE  FollowTypeOK'
<1> DEFINE older == {q \in DueNow : followUps[q].born < followUps[r].born}
<1>2. \A q \in older : followUps[q] \in FollowUp
  BY DueAreActive DEF IsActive, Planned, FollowTypeOK
<1>3. \A q \in older : Cancelled(followUps[q]) \in FollowUp /\ Ran(followUps[q]) \in FollowUp
  BY <1>2, CancelledTyped, RanTyped, FollowTyped
<1>4. /\ followUps' = [q \in Rooms |->
           IF q \notin older THEN followUps[q]
           ELSE IF ProjectDone(q) THEN Cancelled(followUps[q]) ELSE Ran(followUps[q])]
      /\ sent' = [q \in Rooms |->
           IF q = r \/ (q \in older /\ ~ ProjectDone(q)) THEN sent[q] + 1 ELSE sent[q]]
  BY DEF RunTorn
<1> HIDE DEF older
<1>5. followUps' \in [Rooms -> FollowUp \union {NoFollowUp}]
  BY <1>3, <1>4 DEF FollowTypeOK
<1>6. sent' \in [Rooms -> Nat]
  BY <1>4 DEF FollowTypeOK
<1>7. byHand' = byHand /\ operated' = operated /\ UNCHANGED projectVars /\ day' = day
  BY DEF RunTorn
<1> QED
  BY <1>5, <1>6, <1>7, FollowTyped, FollowTypedNext, ProjectsSame DEF ScheduleTyped, DayTyped

\* The next day keeps the types.
LEMMA NextDayTyped == FollowTypeOK /\ NextDay => FollowTypeOK'
<1> SUFFICES ASSUME FollowTypeOK, NextDay PROVE FollowTypeOK'
  OBVIOUS
<1>1. DayTyped'
  BY FollowUpsAssumption, FollowTyped DEF NextDay, DayTyped
<1> QED
  BY <1>1, FollowTyped, FollowTypedNext, ScheduleSame, ProjectsSame DEF NextDay

\* What the operator touched is noted per room.
LEMMA TouchedTyped ==
  ASSUME FollowTypeOK, NEW r \in Rooms
  PROVE  Touched(r) \in [Rooms -> {"no", "changed", "resumed"}]
BY DEF Touched, FollowTypeOK

\* The operator's pause keeps the types.
LEMMA PauseTyped ==
  ASSUME FollowTypeOK, NEW r \in Rooms, Pause(r)
  PROVE  FollowTypeOK'
<1>1. PICK f \in FollowUp : f = [followUps[r] EXCEPT !.status = "paused"]
  BY DEF Pause, Planned, FollowTypeOK, FollowUp
<1>2. followUps' = [followUps EXCEPT ![r] = f]
  BY <1>1 DEF Pause
<1>3. ScheduleTyped'
  BY <1>2, TouchedTyped DEF Pause, ScheduleTyped, FollowTypeOK
<1> QED
  BY <1>3, FollowTyped, FollowTypedNext, ProjectsSame DEF Pause, DayTyped

\* The operator's resume keeps the types.
LEMMA ResumeTyped ==
  ASSUME FollowTypeOK, NEW r \in Rooms, Resume(r)
  PROVE  FollowTypeOK'
<1>1. followUps[r] \in FollowUp /\ followUps \in [Rooms -> FollowUp \union {NoFollowUp}]
  BY DEF Resume, Planned, FollowTypeOK
<1>2. PICK due : due = Resumed(followUps[r])
  OBVIOUS
<1>3. due \in 1 .. Never
  BY <1>1, <1>2, DueDates, FollowTyped DEF FollowUp, Resumed
<1>4. PICK f : f = [followUps[r] EXCEPT !.status = "active", !.due = due]
  OBVIOUS
<1>5. f \in FollowUp
  BY <1>1, <1>3, <1>4 DEF FollowUp
<1>6. followUps' = [followUps EXCEPT ![r] = f]
  BY <1>1, <1>2, <1>4 DEF Resume, FollowTypeOK, FollowUp
<1>7. /\ operated' \in [Rooms -> {"no", "changed", "resumed"}]
      /\ sent' = sent /\ byHand' = byHand
  BY DEF Resume, FollowTypeOK
<1>8. followUps' \in [Rooms -> FollowUp \union {NoFollowUp}]
  BY <1>1, <1>5, <1>6
<1>9. ScheduleTyped'
  BY <1>7, <1>8 DEF ScheduleTyped, FollowTypeOK
<1> QED
  BY <1>9, FollowTyped, FollowTypedNext, ProjectsSame DEF Resume, DayTyped

\* The operator's cancellation keeps the types.
LEMMA CancelTyped ==
  ASSUME FollowTypeOK, NEW r \in Rooms, Cancel(r)
  PROVE  FollowTypeOK'
<1>1. Cancelled(followUps[r]) \in FollowUp
  BY CancelledTyped DEF Cancel, Planned, FollowTypeOK
<1>2. followUps' = [followUps EXCEPT ![r] = Cancelled(followUps[r])]
  BY DEF Cancel
<1>3. ScheduleTyped'
  BY <1>1, <1>2, TouchedTyped DEF Cancel, ScheduleTyped, FollowTypeOK
<1> QED
  BY <1>3, FollowTyped, FollowTypedNext, ProjectsSame DEF Cancel, DayTyped

\* The operator's run-now keeps the types.
LEMMA RunNowTyped ==
  ASSUME FollowTypeOK, NEW r \in Rooms, RunNow(r)
  PROVE  FollowTypeOK'
<1>1. /\ followUps' \in [Rooms -> FollowUp \union {NoFollowUp}]
      /\ sent' \in [Rooms -> Nat]
      /\ ProjectsTyped' /\ DayTyped'
  BY RunTyped DEF RunNow
<1>2. operated' \in [Rooms -> {"no", "changed", "resumed"}]
  BY TouchedTyped DEF RunNow
<1>3. byHand' \in [Rooms -> Nat]
  <2>1. sent'[r] - sent[r] \in {0, 1}
    BY DEF RunNow, Run, FollowTypeOK
  <2> QED
    BY <2>1 DEF RunNow, FollowTypeOK
<1> QED
  BY <1>1, <1>2, <1>3, FollowTyped, FollowTypedNext DEF ScheduleTyped

-----------------------------------------------------------------------------
(* What becomes of a room's follow-up *)

\* The row of a follow-up that was cancelled, and of one that has run.
LEMMA CancelledRow ==
  ASSUME NEW f \in FollowUp
  PROVE  /\ Cancelled(f) # NoFollowUp
         /\ Cancelled(f).status = "cancelled" /\ Cancelled(f).due = Never
         /\ Cancelled(f).kind = f.kind /\ Cancelled(f).born = f.born
<1>1. Cancelled(f) # NoFollowUp
  BY CancelledTyped, NoFollowUpAssumption
<1> QED
  BY <1>1 DEF Cancelled, FollowUp

\* A run-at row completes and leaves the schedule; a cron-like one moves to tomorrow.
LEMMA RanRow ==
  ASSUME DayTyped, NEW f \in FollowUp
  PROVE  /\ Ran(f) # NoFollowUp
         /\ Ran(f).kind = f.kind /\ Ran(f).born = f.born
         /\ f.kind = "run_at" => Ran(f).status = "completed" /\ Ran(f).due = Never
         /\ f.kind = "cron_like" => Ran(f).status = f.status /\ Ran(f).due = Tomorrow
<1>1. Ran(f) # NoFollowUp
  BY RanTyped, NoFollowUpAssumption
<1> QED
  BY <1>1 DEF Ran, FollowUp

\* A room with a plan has a row whose days compare with today.
LEMMA PlannedRow ==
  ASSUME FollowTypeOK, NEW q \in Rooms, Planned(q)
  PROVE  /\ followUps[q] \in FollowUp
         /\ followUps[q].kind \in {"run_at", "cron_like"}
         /\ followUps[q].born \in Nat /\ followUps[q].due \in Nat
         /\ day \in Nat /\ day < Never /\ sent[q] \in Nat
<1>1. followUps[q] \in FollowUp
  BY DEF FollowTypeOK, Planned
<1> QED
  BY <1>1, FollowUpsAssumption DEF FollowTypeOK, FollowUp, Never

\* The operator's hand is not forgotten.
LEMMA TouchedRow ==
  ASSUME FollowTypeOK, NEW r \in Rooms
  PROVE  /\ Touched(r)[r] # "no"
         /\ operated[r] = "resumed" => Touched(r)[r] = "resumed"
         /\ \A q \in Rooms \ {r} : Touched(r)[q] = operated[q]
BY DEF Touched, FollowTypeOK

\* How often a follow-up may have been sent, by its row, what the operator ran and
\* the day: a reminder not before it has run, a recurring one once for each of its
\* days that are past.
AccountOK(f, s, b, d) ==
  f # NoFollowUp =>
    /\ f.born <= d
    /\ f.kind = "run_at" => s <= b + 1 /\ (f.due # Never => s <= b)
    /\ f.kind = "cron_like" => s + f.born <= b + d /\ s + f.born < b + f.due

SentOK(q) ==
  /\ ~ Planned(q) => sent[q] = 0
  /\ AccountOK(followUps[q], sent[q], byHand[q], day)

\* Giving a follow-up up sends nothing.
LEMMA AccountCancelled ==
  ASSUME NEW f \in FollowUp, NEW s \in Nat, NEW b \in Nat, NEW d \in 0 .. MaxDay,
         AccountOK(f, s, b, d)
  PROVE  AccountOK(Cancelled(f), s, b, d)
<1>1. PICK g : g = Cancelled(f)
  OBVIOUS
<1>2. g.due = Never /\ g.kind = f.kind /\ g.born = f.born
  BY <1>1, CancelledRow
<1>3. f # NoFollowUp /\ f.born \in Nat /\ f.kind \in {"run_at", "cron_like"}
  BY NoFollowUpAssumption DEF FollowUp
<1>4. AccountOK(g, s, b, d)
  BY <1>2, <1>3, FollowUpsAssumption DEF AccountOK, Never
<1> QED
  BY <1>1, <1>4

\* What is due is sent once more, and is not due again before tomorrow.
LEMMA AccountRan ==
  ASSUME DayTyped, NEW f \in FollowUp, NEW s \in Nat, NEW b \in Nat,
         AccountOK(f, s, b, day), f.due <= day
  PROVE  AccountOK(Ran(f), s + 1, b, day)
<1>1. PICK g : g = Ran(f)
  OBVIOUS
<1>2. /\ g.kind = f.kind /\ g.born = f.born
      /\ f.kind = "run_at" => g.due = Never
      /\ f.kind = "cron_like" => g.due = day + 1
  BY <1>1, RanRow DEF Tomorrow
<1>3. /\ f # NoFollowUp /\ f.born \in Nat /\ f.kind \in {"run_at", "cron_like"}
      /\ f.due \in Nat /\ day \in Nat /\ day < Never
  BY NoFollowUpAssumption, FollowUpsAssumption DEF FollowUp, DayTyped, Never
<1>4. AccountOK(g, s + 1, b, day)
  BY <1>2, <1>3 DEF AccountOK
<1> QED
  BY <1>1, <1>4

\* What the operator runs is counted apart.
LEMMA AccountByHand ==
  ASSUME DayTyped, NEW f \in FollowUp, NEW s \in Nat, NEW b \in Nat,
         AccountOK(f, s, b, day)
  PROVE  AccountOK(Ran(f), s + 1, b + 1, day)
<1>1. PICK g : g = Ran(f)
  OBVIOUS
<1>2. /\ g.kind = f.kind /\ g.born = f.born
      /\ f.kind = "run_at" => g.due = Never
      /\ f.kind = "cron_like" => g.due = day + 1
  BY <1>1, RanRow DEF Tomorrow
<1>3. /\ f # NoFollowUp /\ f.born \in Nat /\ f.kind \in {"run_at", "cron_like"}
      /\ f.due \in Nat /\ day \in Nat /\ day < Never
  BY NoFollowUpAssumption, FollowUpsAssumption DEF FollowUp, DayTyped, Never
<1>4. AccountOK(g, s + 1, b + 1, day)
  BY <1>2, <1>3 DEF AccountOK
<1> QED
  BY <1>1, <1>4

\* A row that keeps its kind and its day of birth, and its time if it is a reminder.
LEMMA AccountChanged ==
  ASSUME NEW f \in FollowUp, NEW g, NEW s \in Nat, NEW b \in Nat, NEW d \in 0 .. MaxDay,
         AccountOK(f, s, b, d), g.kind = f.kind, g.born = f.born,
         \/ g.due = f.due
         \/ f.kind = "cron_like" /\ g.due = d + 1
  PROVE  AccountOK(g, s, b, d)
<1>1. f # NoFollowUp /\ f.born \in Nat /\ f.kind \in {"run_at", "cron_like"}
  BY NoFollowUpAssumption DEF FollowUp
<1> QED
  BY <1>1 DEF AccountOK

\* A room whose row, counts and day stand still keeps its account of what was sent.
LEMMA SentSame ==
  ASSUME NEW q, SentOK(q), followUps'[q] = followUps[q], sent'[q] = sent[q],
         byHand'[q] = byHand[q], day' = day
  PROVE  SentOK(q)'
BY DEF SentOK, Planned, AccountOK, Never

\* The room's account, from those of its row and counts.
LEMMA SentAccounted ==
  ASSUME NEW q, NEW f, NEW g, NEW s, NEW b, followUps[q] = f, f # NoFollowUp,
         followUps'[q] = g, g # NoFollowUp, sent'[q] = s, byHand'[q] = b,
         AccountOK(g, s, b, day')
  PROVE  SentOK(q)'
BY DEF SentOK, Planned, AccountOK, Never

\* The counts of a room with a plan, as numbers.
LEMMA PlannedCounts ==
  ASSUME FollowTypeOK, NEW q \in Rooms, SentOK(q), Planned(q)
  PROVE  \E f \in FollowUp, s \in Nat, b \in Nat, d \in 0 .. MaxDay :
           /\ f = followUps[q] /\ s = sent[q] /\ b = byHand[q] /\ d = day
           /\ f # NoFollowUp
           /\ AccountOK(f, s, b, d)
<1>1. followUps[q] \in FollowUp
  BY PlannedRow
<1>2. sent[q] \in Nat /\ byHand[q] \in Nat /\ day \in 0 .. MaxDay
  BY DEF FollowTypeOK
<1> QED
  BY <1>1, <1>2, NoFollowUpAssumption DEF SentOK

\* A room without a plan that gets one has sent nothing for it yet.
LEMMA SentPlanned ==
  ASSUME FollowTypeOK, NEW q \in Rooms, SentOK(q), ~ Planned(q),
         NEW kind \in {"run_at", "cron_like"}, Plan(q, kind), day' = day
  PROVE  SentOK(q)'
<1>1. PICK f : f = [kind |-> kind, born |-> day, due |-> Tomorrow, status |-> "active"]
  OBVIOUS
<1>2. f.kind = kind /\ f.born = day /\ f.due = day + 1
  BY <1>1 DEF Tomorrow
<1>3. followUps' = [followUps EXCEPT ![q] = f] /\ sent'[q] = 0 /\ byHand' = byHand
  BY <1>1 DEF Plan, SentOK
<1>4. PICK d \in Nat, b \in Nat : d = day /\ b = byHand[q]
  BY DEF FollowTypeOK
<1>5. AccountOK(f, 0, b, d)
  BY <1>2, <1>4 DEF AccountOK
<1>6. followUps'[q] = f /\ byHand'[q] = b /\ day' = d
  BY <1>3, <1>4 DEF FollowTypeOK
<1> QED
  BY <1>3, <1>5, <1>6 DEF SentOK, Planned, AccountOK, Never

\* Stopping a plan sends nothing.
LEMMA SentStopped ==
  ASSUME FollowTypeOK, NEW q \in Rooms, SentOK(q), Stop(q), day' = day
  PROVE  SentOK(q)'
<1>1. sent' = sent /\ byHand' = byHand
  BY DEF Stop
<1>2. CASE ~ Stoppable(followUps[q])
  <2>1. followUps'[q] = followUps[q]
    BY <1>2 DEF Stop, FollowTypeOK
  <2> QED
    BY <1>1, <2>1, SentSame
<1>3. CASE Stoppable(followUps[q])
  <2>1. Planned(q)
    BY <1>3 DEF Stoppable, Planned
  <2>2. PICK f \in FollowUp, s \in Nat, b \in Nat, d \in 0 .. MaxDay :
          /\ f = followUps[q] /\ s = sent[q] /\ b = byHand[q] /\ d = day
          /\ f # NoFollowUp
          /\ AccountOK(f, s, b, d)
    BY <2>1, PlannedCounts
  <2>3. followUps'[q] = Cancelled(f)
    BY <1>3, <2>2 DEF Stop, FollowTypeOK
  <2> QED
    BY <1>1, <2>2, <2>3, AccountCancelled, CancelledRow, SentAccounted
<1> QED
  BY <1>2, <1>3

\* It runs because it is due.
LEMMA SentRun ==
  ASSUME FollowTypeOK, NEW q \in Rooms, SentOK(q), RunDue
  PROVE  SentOK(q)'
<1>1. /\ byHand' = byHand /\ day' = day
      /\ followUps'[q] = IF q \notin DueNow THEN followUps[q]
                         ELSE IF ProjectDone(q) THEN Cancelled(followUps[q]) ELSE Ran(followUps[q])
      /\ sent'[q] = IF q \in DueNow /\ ~ ProjectDone(q) THEN sent[q] + 1 ELSE sent[q]
  BY DEF RunDue, Run
<1>2. CASE q \notin DueNow
  BY <1>1, <1>2, SentSame
<1>3. CASE q \in DueNow
  <2>1. Planned(q) /\ followUps[q].due <= day
    BY <1>3 DEF DueNow, IsActive
  <2>2. PICK f \in FollowUp, s \in Nat, b \in Nat, d \in 0 .. MaxDay :
          /\ f = followUps[q] /\ s = sent[q] /\ b = byHand[q] /\ d = day
          /\ f # NoFollowUp
          /\ AccountOK(f, s, b, d)
    BY <2>1, PlannedCounts
  <2>3. CASE ProjectDone(q)
    <3>1. followUps'[q] = Cancelled(f) /\ sent'[q] = s /\ byHand'[q] = b /\ day' = d
      BY <1>1, <1>3, <2>2, <2>3
    <3> QED
      BY <2>2, <3>1, AccountCancelled, CancelledRow, SentAccounted
  <2>4. CASE ~ ProjectDone(q)
    <3>1. followUps'[q] = Ran(f) /\ sent'[q] = s + 1 /\ byHand'[q] = b /\ day' = day
      BY <1>1, <1>3, <2>2, <2>4
    <3>2. DayTyped
      BY FollowTyped
    <3>3. AccountOK(Ran(f), s + 1, b, day) /\ Ran(f) # NoFollowUp
      BY <2>1, <2>2, <3>2, AccountRan, RanRow
    <3> QED
      BY <2>2, <3>1, <3>3, SentAccounted
  <2> QED
    BY <2>3, <2>4
<1> QED
  BY <1>2, <1>3

\* A new day makes room for one more message of a daily plan.
LEMMA SentNextDay ==
  ASSUME FollowTypeOK, NEW q \in Rooms, SentOK(q), NextDay
  PROVE  SentOK(q)'
<1>1. UNCHANGED scheduleVars /\ day' = day + 1
  BY DEF NextDay
<1>2. CASE ~ Planned(q)
  BY <1>1, <1>2 DEF SentOK, Planned, scheduleVars, AccountOK
<1>3. CASE Planned(q)
  <2>1. PICK f \in FollowUp, s \in Nat, b \in Nat, d \in 0 .. MaxDay :
          /\ f = followUps[q] /\ s = sent[q] /\ b = byHand[q] /\ d = day
          /\ f # NoFollowUp
          /\ AccountOK(f, s, b, d)
    BY <1>3, PlannedCounts
  <2>2. f.born \in Nat
    BY <2>1 DEF FollowUp
  <2>3. AccountOK(f, s, b, d + 1)
    BY <2>1, <2>2 DEF AccountOK
  <2>4. followUps'[q] = f /\ sent'[q] = s /\ byHand'[q] = b /\ day' = d + 1
    BY <1>1, <2>1 DEF scheduleVars
  <2> QED
    BY <2>1, <2>3, <2>4, SentAccounted
<1> QED
  BY <1>2, <1>3

\* The operator's calls, but RunNow.
LEMMA SentOperated ==
  ASSUME FollowTypeOK, NEW r \in Rooms, Pause(r) \/ Resume(r) \/ Cancel(r),
         NEW q \in Rooms, SentOK(q)
  PROVE  SentOK(q)'
<1>1. sent' = sent /\ byHand' = byHand /\ day' = day /\ Planned(r)
  BY DEF Pause, Resume, Cancel
<1>2. CASE q # r
  <2>1. followUps'[q] = followUps[q]
    BY <1>2 DEF Pause, Resume, Cancel, FollowTypeOK
  <2> QED
    BY <1>1, <2>1, SentSame
<1>3. CASE q = r
  <2>1. PICK f \in FollowUp, s \in Nat, b \in Nat, d \in 0 .. MaxDay :
          /\ f = followUps[q] /\ s = sent[q] /\ b = byHand[q] /\ d = day
          /\ f # NoFollowUp
          /\ AccountOK(f, s, b, d)
    BY <1>1, <1>3, PlannedCounts
  <2>2. CASE Pause(r)
    <3>1. PICK g : g = [f EXCEPT !.status = "paused"]
      OBVIOUS
    <3>2. g \in FollowUp /\ g.kind = f.kind /\ g.born = f.born /\ g.due = f.due
      BY <3>1 DEF FollowUp
    <3>3. followUps'[q] = g
      BY <1>3, <2>1, <2>2, <3>1 DEF Pause, FollowTypeOK
    <3>4. AccountOK(g, s, b, d)
      BY <2>1, <3>2, AccountChanged
    <3> QED
      BY <1>1, <2>1, <3>2, <3>3, <3>4, NoFollowUpAssumption, SentAccounted
  <2>3. CASE Resume(r)
    <3>1. PICK due : due = Resumed(f)
      OBVIOUS
    <3>2. /\ due \in 1 .. Never
          /\ due = f.due \/ (f.kind = "cron_like" /\ due = d + 1)
      BY <2>1, <3>1, DueDates, FollowTyped DEF FollowUp, Resumed, Tomorrow
    <3>3. PICK g : g = [f EXCEPT !.status = "active", !.due = due]
      OBVIOUS
    <3>4. g \in FollowUp /\ g.kind = f.kind /\ g.born = f.born /\ g.due = due
      BY <3>2, <3>3 DEF FollowUp
    <3>5. followUps'[q] = g
      BY <1>3, <2>1, <2>3, <3>1, <3>3 DEF Resume, FollowTypeOK, FollowUp
    <3>6. AccountOK(g, s, b, d)
      BY <2>1, <3>2, <3>4, AccountChanged
    <3> QED
      BY <1>1, <2>1, <3>4, <3>5, <3>6, NoFollowUpAssumption, SentAccounted
  <2>4. CASE Cancel(r)
    <3>1. followUps'[q] = Cancelled(f)
      BY <1>3, <2>1, <2>4 DEF Cancel, FollowTypeOK
    <3> QED
      BY <1>1, <2>1, <3>1, AccountCancelled, CancelledRow, SentAccounted
  <2> QED
    BY <2>2, <2>3, <2>4
<1> QED
  BY <1>2, <1>3

\* Run-now is counted as the operator's own doing.
LEMMA SentRunNow ==
  ASSUME FollowTypeOK, NEW r \in Rooms, RunNow(r), NEW q \in Rooms, SentOK(q)
  PROVE  SentOK(q)'
<1>1. /\ day' = day /\ Planned(r)
      /\ followUps'[q] = IF q \notin {r} THEN followUps[q]
                         ELSE IF ProjectDone(q) THEN Cancelled(followUps[q]) ELSE Ran(followUps[q])
      /\ sent'[q] = IF q \in {r} /\ ~ ProjectDone(q) THEN sent[q] + 1 ELSE sent[q]
  BY DEF RunNow, Run, IsActive
<1>2. byHand'[q] = IF q = r THEN byHand[q] + (sent'[q] - sent[q]) ELSE byHand[q]
  BY DEF RunNow, FollowTypeOK
<1>3. CASE q # r
  BY <1>1, <1>2, <1>3, SentSame
<1>4. CASE q = r
  <2>1. PICK f \in FollowUp, s \in Nat, b \in Nat, d \in 0 .. MaxDay :
          /\ f = followUps[q] /\ s = sent[q] /\ b = byHand[q] /\ d = day
          /\ f # NoFollowUp
          /\ AccountOK(f, s, b, d)
    BY <1>1, <1>4, PlannedCounts
  <2>2. CASE ProjectDone(q)
    <3>1. followUps'[q] = Cancelled(f) /\ sent'[q] = s /\ byHand'[q] = b /\ day' = d
      BY <1>1, <1>2, <1>4, <2>1, <2>2
    <3> QED
      BY <2>1, <3>1, AccountCancelled, CancelledRow, SentAccounted
  <2>3. CASE ~ ProjectDone(q)
    <3>1. followUps'[q] = Ran(f) /\ sent'[q] = s + 1 /\ byHand'[q] = b + 1 /\ day' = day
      BY <1>1, <1>2, <1>4, <2>1, <2>3
    <3>2. DayTyped
      BY FollowTyped
    <3>3. AccountOK(Ran(f), s + 1, b + 1, day) /\ Ran(f) # NoFollowUp
      BY <2>1, <3>2, AccountByHand, RanRow
    <3> QED
      BY <2>1, <3>1, <3>3, SentAccounted
  <2> QED
    BY <2>2, <2>3
<1> QED
  BY <1>3, <1>4

\* A follow-up that is over has no due date, and a recurring one does not end by
\* itself.
RowOK(q) ==
  Planned(q) =>
    /\ followUps[q].status \in {"cancelled", "completed"} => followUps[q].due = Never
    /\ followUps[q].status = "completed" => followUps[q].kind = "run_at"

\* What a room's second message leaves behind: a follow-up that cannot come due,
\* unless it is a recurring one that the operator resumes.
Resting(q) ==
  Planned(q) =>
    \/ followUps[q].kind = "cron_like" /\ operated[q] = "resumed"
    \/ /\ followUps[q].due = Never
       /\ followUps[q].kind = "cron_like" => followUps[q].status # "active"

\* The rows of other rooms' follow-ups.
LEMMA RestSame ==
  ASSUME NEW q, RowOK(q), followUps'[q] = followUps[q], operated'[q] = operated[q]
  PROVE  RowOK(q)' /\ (Resting(q) => Resting(q)')
BY DEF RowOK, Resting, Planned, Never

\* A cancelled follow-up rests, whatever it was before.
LEMMA CancelledRests ==
  ASSUME FollowTypeOK, NEW q \in Rooms, Planned(q), followUps'[q] = Cancelled(followUps[q])
  PROVE  RowOK(q)' /\ Resting(q)'
<1>1. PICK f \in FollowUp : f = followUps[q]
  BY PlannedRow
<1>2. PICK g : g = Cancelled(f)
  OBVIOUS
<1>3. g.status = "cancelled" /\ g.due = Never
  BY <1>2, CancelledRow
<1>4. followUps'[q] = g
  BY <1>1, <1>2
<1> QED
  BY <1>3, <1>4 DEF RowOK, Resting, Never

\* A follow-up that has run is completed, or recurs as it did before.
LEMMA RanRests ==
  ASSUME FollowTypeOK, NEW q \in Rooms, IsActive(q), followUps'[q] = Ran(followUps[q]),
         operated[q] = "resumed" => operated'[q] = "resumed"
  PROVE  RowOK(q)' /\ (Resting(q) => Resting(q)')
<1>1. PICK f \in FollowUp : f = followUps[q]
  BY PlannedRow DEF IsActive
<1>2. f.kind \in {"run_at", "cron_like"} /\ f.status = "active"
  BY <1>1, PlannedRow DEF IsActive
<1>3. PICK g : g = Ran(f)
  OBVIOUS
<1>4. /\ g.kind = f.kind
      /\ f.kind = "run_at" => g.status = "completed" /\ g.due = Never
      /\ f.kind = "cron_like" => g.status = f.status
  BY <1>3, RanRow, FollowTyped
<1>5. followUps'[q] = g
  BY <1>1, <1>3
<1>6. RowOK(q)'
  BY <1>2, <1>4, <1>5 DEF RowOK, Never
<1>7. ASSUME Resting(q) PROVE Resting(q)'
  <2>1. f.kind = "cron_like" => operated[q] = "resumed"
    BY <1>1, <1>2, <1>7 DEF Resting, IsActive
  <2> QED
    BY <1>2, <1>4, <1>5, <2>1 DEF Resting, Never
<1> QED
  BY <1>6, <1>7

\* Another message ends the follow-up of its room.
LEMMA StoppedRests ==
  ASSUME FollowTypeOK, NEW q \in Rooms, RowOK(q), Stop(q)
  PROVE  RowOK(q)' /\ Resting(q)'
<1>1. CASE Stoppable(followUps[q])
  <2>1. Planned(q)
    BY <1>1 DEF Stoppable, Planned
  <2>2. followUps'[q] = Cancelled(followUps[q])
    BY <1>1 DEF Stop, FollowTypeOK
  <2> QED
    BY <2>1, <2>2, CancelledRests
<1>2. CASE ~ Stoppable(followUps[q]) /\ Planned(q)
  <2>1. PICK f \in FollowUp : f = followUps[q]
    BY <1>2, PlannedRow
  <2>2. f.status \in {"cancelled", "completed"}
    BY <1>2, <2>1 DEF Stoppable, Planned, FollowUp
  <2>3. f.due = Never /\ (f.status = "completed" => f.kind = "run_at")
    BY <1>2, <2>1, <2>2 DEF RowOK
  <2>4. followUps'[q] = f
    BY <1>2, <2>1 DEF Stop, FollowTypeOK
  <2> QED
    BY <2>2, <2>3, <2>4 DEF RowOK, Resting, Never
<1>3. CASE ~ Planned(q)
  <2>1. followUps'[q] = followUps[q]
    BY <1>3 DEF Stop, FollowTypeOK, Planned, Stoppable
  <2> QED
    BY <1>3, <2>1 DEF RowOK, Resting, Planned
<1> QED
  BY <1>1, <1>2, <1>3

\* A room's new row is well formed.
LEMMA PlannedRests ==
  ASSUME FollowTypeOK, NEW q \in Rooms, NEW kind \in {"run_at", "cron_like"}, Plan(q, kind)
  PROVE  RowOK(q)'
<1>1. PICK f : f = [kind |-> kind, born |-> day, due |-> Tomorrow, status |-> "active"]
  OBVIOUS
<1>2. f.status = "active" /\ followUps'[q] = f
  BY <1>1 DEF Plan, FollowTypeOK
<1> QED
  BY <1>2 DEF RowOK

\* A pass, whole or cut short, revives no follow-up that rests.
LEMMA RunRests ==
  ASSUME FollowTypeOK, NEW q \in Rooms, RowOK(q),
         RunDue \/ (\E r \in DueNow : RunTorn(r)) \/ RunNow(q)
  PROVE  RowOK(q)' /\ (Resting(q) => Resting(q)')
<1>1. \/ followUps'[q] = followUps[q]
      \/ IsActive(q) /\ followUps'[q] = Cancelled(followUps[q])
      \/ IsActive(q) /\ followUps'[q] = Ran(followUps[q])
  BY DEF RunDue, RunTorn, RunNow, Run, DueNow
<1>2. operated'[q] = operated[q] \/ operated' = Touched(q)
  BY DEF RunDue, RunTorn, RunNow
<1>3. operated[q] = "resumed" => operated'[q] = "resumed"
  BY <1>2, TouchedRow
<1>4. CASE followUps'[q] = followUps[q]
  BY <1>3, <1>4 DEF RowOK, Resting, Planned, Never
<1>5. CASE IsActive(q) /\ followUps'[q] = Cancelled(followUps[q])
  BY <1>5, CancelledRests DEF IsActive
<1>6. CASE IsActive(q) /\ followUps'[q] = Ran(followUps[q])
  BY <1>3, <1>6, RanRests
<1> QED
  BY <1>1, <1>4, <1>5, <1>6

\* Pause, resume and cancel revive no follow-up that rests.
LEMMA OperatedRests ==
  ASSUME FollowTypeOK, NEW q \in Rooms, RowOK(q), Pause(q) \/ Resume(q) \/ Cancel(q)
  PROVE  RowOK(q)' /\ (Resting(q) => Resting(q)')
<1>1. Planned(q)
  BY DEF Pause, Resume, Cancel
<1>2. PICK f \in FollowUp : f = followUps[q]
  BY <1>1, PlannedRow
<1>3. f.kind \in {"run_at", "cron_like"}
  BY DEF FollowUp
<1>4. CASE Pause(q)
  <2>1. PICK g : g = [f EXCEPT !.status = "paused"]
    OBVIOUS
  <2>2. g.status = "paused" /\ g.kind = f.kind /\ g.due = f.due
    BY <2>1 DEF FollowUp
  <2>3. followUps'[q] = g
    BY <1>2, <1>4, <2>1 DEF Pause, FollowTypeOK
  <2>4. operated[q] = "resumed" => operated'[q] = "resumed"
    BY <1>4, TouchedRow DEF Pause
  <2>5. RowOK(q)'
    BY <2>2, <2>3 DEF RowOK
  <2>6. ASSUME Resting(q) PROVE Resting(q)'
    <3>1. (f.kind = "cron_like" /\ operated[q] = "resumed") \/ f.due = Never
      BY <1>1, <1>2, <2>6 DEF Resting
    <3> QED
      BY <2>2, <2>3, <2>4, <3>1 DEF Resting, Never
  <2> QED
    BY <2>5, <2>6
<1>5. CASE Resume(q)
  <2>1. PICK due : due = Resumed(f)
    OBVIOUS
  <2>2. PICK g : g = [f EXCEPT !.status = "active", !.due = due]
    OBVIOUS
  <2>3. g.status = "active" /\ g.kind = f.kind /\ g.due = due
    BY <2>2 DEF FollowUp
  <2>4. followUps'[q] = g /\ operated'[q] = "resumed"
    BY <1>2, <1>5, <2>1, <2>2 DEF Resume, FollowTypeOK, FollowUp
  <2>5. RowOK(q)'
    BY <2>3, <2>4 DEF RowOK
  <2>6. ASSUME Resting(q) PROVE Resting(q)'
    <3>1. f.kind = "run_at" => f.due = Never
      BY <1>1, <1>2, <2>6 DEF Resting
    <3>2. f.kind = "run_at" => g.due = Never
      BY <2>1, <2>3, <3>1 DEF Resumed
    <3> QED
      BY <1>3, <2>3, <2>4, <3>2 DEF Resting, Never
  <2> QED
    BY <2>5, <2>6
<1>6. CASE Cancel(q)
  <2>1. followUps'[q] = Cancelled(followUps[q])
    BY <1>6 DEF Cancel, FollowTypeOK
  <2> QED
    BY <1>1, <2>1, CancelledRests
<1> QED
  BY <1>4, <1>5, <1>6

\* The operator's calls touch one row.
LEMMA OthersSame ==
  ASSUME FollowTypeOK, NEW r \in Rooms, NEW q \in Rooms, q # r,
         \/ Pause(r) \/ Resume(r) \/ Cancel(r) \/ RunNow(r) \/ Stop(r)
         \/ \E kind \in {"run_at", "cron_like"} : Plan(r, kind)
  PROVE  /\ followUps'[q] = followUps[q] /\ operated'[q] = operated[q]
         /\ sent'[q] = sent[q] /\ byHand'[q] = byHand[q]
<1>1. CASE Pause(r) \/ Resume(r) \/ Cancel(r)
  <2>1. followUps'[q] = followUps[q] /\ sent'[q] = sent[q] /\ byHand'[q] = byHand[q]
    BY <1>1 DEF Pause, Resume, Cancel, FollowTypeOK
  <2>2. operated'[q] = operated[q]
    BY <1>1, TouchedRow DEF Pause, Resume, Cancel, FollowTypeOK
  <2> QED
    BY <2>1, <2>2
<1>2. CASE RunNow(r)
  BY <1>2, TouchedRow DEF RunNow, Run, FollowTypeOK
<1>3. CASE Stop(r) \/ \E kind \in {"run_at", "cron_like"} : Plan(r, kind)
  BY <1>3 DEF Stop, Plan, FollowTypeOK
<1> QED
  BY <1>1, <1>2, <1>3
=============================================================================
