-------------------------- MODULE MailRoom_proofs --------------------------
(***************************************************************************)
(* Proofs about MailRoom for any rooms, jobs, turns, projects, days and    *)
(* scenarios: any mail, any set of events and any worker stages.           *)
(***************************************************************************)
EXTENDS MailRoom, RoomJobs_proofs, FollowUps_proofs, FiniteSetTheorems

-----------------------------------------------------------------------------
(* The tables fit together *)

\* A job that was inserted belongs to a room and was made after a message arrived
\* in it; it handles one of them or the agent's own mail.
JobsOK ==
  \A j \in Jobs :
    /\ jobs[j].status = "absent" => jobs[j].room = NoRoom
    /\ jobs[j].status # "absent" =>
         /\ jobs[j].room \in Rooms
         /\ inbound[j] \in 1 .. arrived[jobs[j].room]
         /\ subject[j] \in 0 .. inbound[j]

\* A turn runs for a job that was inserted.
TurnsOK ==
  \A t \in Turns : turns[t] # NoTurn => jobs[turns[t].job].status # "absent"

\* A room exists once a message has arrived.
RoomsOK ==
  \A r \in Rooms : (Exists(r) => arrived[r] > 0) /\ arrived[r] <= Len(scenario.mail[r])

\* The latest mail of a thread is a message that arrived or the agent's own.
MailOK == \A r \in Rooms : lastMail[r] \in 0 .. arrived[r]

BaseOK == TypeOK /\ JobsOK /\ TurnsOK /\ RoomsOK /\ MailOK

\* The tables' types, one by one.
LEMMA Types ==
  ASSUME TypeOK
  PROVE  /\ rooms \in [Rooms -> RoomRow] /\ jobs \in [Jobs -> JobRow(Rooms)]
         /\ turns \in [Turns -> Turn \union {NoTurn}] /\ outbox \in Seq(OutboxEntry)
         /\ lastMail \in [Rooms -> Nat] /\ arrived \in [Rooms -> Nat]
         /\ subject \in [Jobs -> Nat] /\ inbound \in [Jobs -> Nat]
BY DEF TypeOK

\* What the assumption says of the scenario that was chosen.
LEMMA ScenarioFacts ==
  ASSUME TypeOK
  PROVE  /\ scenario.mail \in [Rooms -> Seq(Message)]
         /\ scenario.maxJobs \in Nat /\ scenario.maxRetries \in Nat
         /\ scenario.maxTornReplies \in Nat
         /\ scenario.workers \subseteq {"prelude", "postrun"}
BY MailRoomAssumption DEF TypeOK

\* The room's type invariant includes that of the follow-ups.
LEMMA FollowPart == TypeOK => ScheduleTyped /\ ProjectsTyped /\ DayTyped
BY FollowTyped DEF TypeOK

\* Where a running turn's job, room and message are.
LEMMA TurnFacts ==
  ASSUME BaseOK, NEW t \in Turns, ~ Free(t)
  PROVE  /\ turns[t] \in Turn /\ turns[t].job \in Jobs /\ turns[t].room \in RoomRow
         /\ jobs[turns[t].job] \in JobRow(Rooms)
         /\ jobs[turns[t].job].status # "absent"
         /\ RoomOf(t) \in Rooms /\ RevisionOf(t) \in Nat
         /\ inbound[turns[t].job] \in 1 .. arrived[RoomOf(t)]
         /\ arrived[RoomOf(t)] \in Nat /\ arrived[RoomOf(t)] > 0
         /\ MailOf(t) \in 0 .. arrived[RoomOf(t)]
         /\ MailOf(t) \in 0 .. Len(scenario.mail[RoomOf(t)])
         /\ rooms[RoomOf(t)] \in RoomRow
<1>1. /\ turns[t] \in Turn /\ turns[t].job \in Jobs /\ turns[t].room \in RoomRow
      /\ jobs[turns[t].job] \in JobRow(Rooms)
      /\ jobs[turns[t].job].status # "absent"
  BY DEF BaseOK, TypeOK, TurnsOK, Free, Turn
<1>2. /\ RoomOf(t) \in Rooms /\ RevisionOf(t) \in Nat
      /\ inbound[turns[t].job] \in 1 .. arrived[RoomOf(t)]
      /\ MailOf(t) \in 0 .. arrived[RoomOf(t)]
  <2>1. PICK j \in Jobs : j = turns[t].job
    BY <1>1
  <2>2. /\ jobs[j].room \in Rooms /\ jobs[j].revision \in Nat
        /\ inbound[j] \in 1 .. arrived[jobs[j].room] /\ subject[j] \in 0 .. inbound[j]
    BY <1>1, <2>1 DEF BaseOK, JobsOK, JobRow
  <2>3. arrived[jobs[j].room] \in Nat
    BY <2>2, Types DEF BaseOK
  <2> QED
    BY <2>1, <2>2, <2>3 DEF RoomOf, RevisionOf, MailOf
<1>3. arrived[RoomOf(t)] \in Nat /\ arrived[RoomOf(t)] <= Len(scenario.mail[RoomOf(t)])
  BY <1>2 DEF BaseOK, TypeOK, RoomsOK
<1>4. Len(scenario.mail[RoomOf(t)]) \in Nat
  BY <1>2, ScenarioFacts DEF BaseOK
<1> QED
  BY <1>1, <1>2, <1>3, <1>4 DEF BaseOK, TypeOK

\* A row with another state is a row.
LEMMA StateTyped ==
  ASSUME NEW row \in RoomRow, NEW state \in RoomStates
  PROVE  /\ [row EXCEPT !.state = state] \in RoomRow
         /\ [row EXCEPT !.state = state].state = state
         /\ [row EXCEPT !.state = state].revision = row.revision
         /\ [row EXCEPT !.state = state].inSeq = row.inSeq
         /\ [row EXCEPT !.state = state].outSeq = row.outSeq
BY DEF RoomRow

\* A message bumps a room's revision and inbound number by one.
LEMMA BumpedTyped ==
  ASSUME TypeOK, NEW r \in Rooms, NEW state \in RoomStates
  PROVE  /\ Bumped(r, state) \in RoomRow
         /\ Bumped(r, state).state = state
         /\ Bumped(r, state).revision = rooms[r].revision + 1
         /\ Bumped(r, state).inSeq = rooms[r].inSeq + 1
         /\ Bumped(r, state).outSeq = rooms[r].outSeq
<1>1. PICK row \in RoomRow : row = rooms[r]
  BY DEF TypeOK
<1>2. PICK n \in Nat, m \in Nat : n = row.revision + 1 /\ m = row.inSeq + 1
  BY DEF RoomRow
<1>3. Bumped(r, state) = [row EXCEPT !.state = state, !.revision = n, !.inSeq = m]
  BY <1>1, <1>2 DEF Bumped, RoomRow
<1>4. PICK new : new = [row EXCEPT !.state = state, !.revision = n, !.inSeq = m]
  OBVIOUS
<1>5. /\ new \in RoomRow /\ new.state = state /\ new.revision = n
      /\ new.inSeq = m /\ new.outSeq = row.outSeq
  BY <1>4 DEF RoomRow
<1> QED
  BY <1>1, <1>2, <1>3, <1>4, <1>5

\* The row a turn writes back is done, with one reply more than it read.
LEMMA AnsweredTyped ==
  ASSUME NEW t, turns[t].room \in RoomRow
  PROVE  /\ Answered(t) \in RoomRow
         /\ Answered(t).state = "done"
         /\ Answered(t).revision = turns[t].room.revision
         /\ Answered(t).inSeq = turns[t].room.inSeq
         /\ Answered(t).outSeq = turns[t].room.outSeq + 1
<1>1. PICK row \in RoomRow : row = turns[t].room
  OBVIOUS
<1>2. PICK n \in Nat : n = row.outSeq + 1
  BY DEF RoomRow
<1>3. Answered(t) = [row EXCEPT !.state = "done", !.outSeq = n]
  BY <1>1, <1>2 DEF Answered, RoomRow
<1>4. PICK new : new = [row EXCEPT !.state = "done", !.outSeq = n]
  OBVIOUS
<1>5. /\ new \in RoomRow /\ new.state = "done" /\ new.revision = row.revision
      /\ new.inSeq = row.inSeq /\ new.outSeq = n
  BY <1>4 DEF RoomRow, RoomStates
<1> QED
  BY <1>1, <1>2, <1>3, <1>4, <1>5

\* Binding a room to a project that its mail may name keeps the projects typed.
LEMMA AssignTyped ==
  ASSUME TypeOK, NEW r \in Rooms, NEW n \in 0 .. Len(scenario.mail[r]), NEW state,
         Assign(r, n, state)
  PROVE  ProjectsTyped'
<1>1. scenario.mail[r] \in Seq(Message) /\ Len(scenario.mail[r]) \in Nat
  BY ScenarioFacts
<1>2. n # Own => scenario.mail[r][n] \in Message
  BY <1>1 DEF Own
<1>3. n # Own => scenario.mail[r][n].project \in Projects \union {NoProject}
  BY <1>2 DEF Message
<1>4. ASSUME NEW p \in Projects, NEW atRest, Bind(r, p, atRest) PROVE ProjectsTyped'
  BY <1>4, BindTyped, FollowPart
<1>5. \/ UNCHANGED projectVars
      \/ \E p \in Projects, atRest \in SUBSET Rooms : Bind(r, p, atRest)
  BY <1>3 DEF Assign
<1> QED
  BY <1>4, <1>5, ProjectsSame, FollowPart

\* Scheduling a follow-up from a message keeps the schedule typed.
LEMMA ScheduleKeepsTyped ==
  ASSUME TypeOK, NEW r \in Rooms, Schedule(r)
  PROVE  ScheduleTyped'
BY StopTyped, PlanTyped, ScheduleSame, FollowPart DEF Schedule

\* What a message arranges keeps the follow-ups typed.
LEMMA ArrangedTyped ==
  ASSUME BaseOK, NEW r \in Rooms, Arrives(r), Arranged(r)
  PROVE  FollowTypeOK'
<1>1. arrived[r] + 1 \in 1 .. Len(scenario.mail[r])
  BY ScenarioFacts DEF BaseOK, TypeOK, Arrives
<1>2. ScheduleTyped'
  BY ScheduleKeepsTyped DEF BaseOK, Arranged
<1>3. ProjectsTyped'
  BY <1>1, AssignTyped, ProjectsSame, FollowPart DEF BaseOK, Arranged, AssignWork
<1>4. DayTyped'
  BY FollowPart DEF BaseOK, Arranged, DayTyped
<1> QED
  BY <1>2, <1>3, <1>4, FollowTypedNext

\* A step that leaves the follow-ups alone keeps them typed.
LEMMA FollowSame == FollowTypeOK /\ UNCHANGED followVars => FollowTypeOK'
BY DEF FollowTypeOK, followVars, scheduleVars, projectVars, FollowUp, Never

\* Mail added to the thread of a room is its own or a message that has arrived.
LEMMA FiledTyped ==
  ASSUME BaseOK, NEW r \in Rooms, NEW mail, Filed(r, mail),
         arrived' \in [Rooms -> Nat], \A q \in Rooms : arrived[q] <= arrived'[q],
         mail \in 0 .. arrived'[r]
  PROVE  lastMail' \in [Rooms -> Nat] /\ MailOK'
<1>0. lastMail \in [Rooms -> Nat] /\ mail \in Nat
  BY Types DEF BaseOK
<1>1. \A q \in Rooms : lastMail'[q] = lastMail[q] \/ (q = r /\ lastMail'[q] = mail)
  BY <1>0 DEF Filed
<1>2. lastMail' \in [Rooms -> Nat]
  BY <1>0 DEF Filed
<1>3. \A q \in Rooms : lastMail[q] \in 0 .. arrived'[q]
  BY DEF BaseOK, TypeOK, MailOK
<1> QED
  BY <1>1, <1>2, <1>3 DEF MailOK

\* Where no mail is added the latest stays the latest.
LEMMA MailSame ==
  ASSUME BaseOK, lastMail' = lastMail,
         arrived' \in [Rooms -> Nat], \A q \in Rooms : arrived[q] <= arrived'[q]
  PROVE  lastMail' \in [Rooms -> Nat] /\ MailOK'
BY DEF BaseOK, TypeOK, MailOK

\* Steps that insert no job and start no turn.
LEMMA JobsStay ==
  ASSUME BaseOK, jobs' \in [Jobs -> JobRow(Rooms)],
         \A j \in Jobs : /\ SameJob(jobs'[j], jobs[j])
                         /\ jobs'[j].status = "absent" <=> jobs[j].status = "absent",
         subject' = subject, inbound' = inbound, arrived' = arrived,
         \A t \in Turns : turns'[t] # NoTurn => turns'[t].job = turns[t].job /\ turns[t] # NoTurn
  PROVE  JobsOK' /\ TurnsOK'
<1>1. JobsOK'
  BY DEF BaseOK, JobsOK, SameJob
<1>2. TurnsOK'
  BY DEF BaseOK, TypeOK, TurnsOK, Turn
<1> QED
  BY <1>1, <1>2

\* A row written for a room in which a message has arrived.
LEMMA RoomWritten ==
  ASSUME BaseOK, NEW r \in Rooms, NEW row \in RoomRow, arrived[r] > 0,
         rooms' = [rooms EXCEPT ![r] = row], arrived' = arrived, scenario' = scenario
  PROVE  rooms' \in [Rooms -> RoomRow] /\ RoomsOK'
<1>1. rooms' \in [Rooms -> RoomRow]
  BY DEF BaseOK, TypeOK
<1>2. RoomsOK'
  BY DEF BaseOK, TypeOK, RoomsOK, Exists
<1> QED
  BY <1>1, <1>2

\* Setting the state of a room changes nothing else of it.
LEMMA StateSet ==
  ASSUME BaseOK, NEW r \in Rooms, NEW state \in RoomStates, arrived[r] > 0,
         SetState(r, state), arrived' = arrived, scenario' = scenario
  PROVE  /\ rooms' \in [Rooms -> RoomRow] /\ RoomsOK'
         /\ rooms' = [rooms EXCEPT ![r] = [rooms[r] EXCEPT !.state = state]]
<1>1. PICK row : row = [rooms[r] EXCEPT !.state = state]
  OBVIOUS
<1>2. row \in RoomRow /\ row.state = state
  BY <1>1, StateTyped DEF BaseOK, TypeOK
<1>3. rooms' = [rooms EXCEPT ![r] = row]
  BY <1>1 DEF SetState
<1> QED
  BY <1>1, <1>2, <1>3, RoomWritten

\* A message that arrives is one more, and may be the latest mail of its thread.
LEMMA ArrivalTyped ==
  ASSUME BaseOK, NEW r \in Rooms, Arrives(r)
  PROVE  /\ arrived' = [arrived EXCEPT ![r] = arrived[r] + 1]
         /\ arrived' \in [Rooms -> Nat] /\ arrived'[r] \in Nat \ {0}
         /\ \A q \in Rooms : arrived[q] <= arrived'[q]
         /\ \A q \in Rooms : arrived'[q] <= Len(scenario.mail[q])
         /\ lastMail' \in [Rooms -> Nat] /\ MailOK'
<1>1. arrived' = [arrived EXCEPT ![r] = arrived[r] + 1] /\ arrived[r] < Len(scenario.mail[r])
  BY DEF Arrives
<1>2. arrived' \in [Rooms -> Nat] /\ \A q \in Rooms : arrived[q] <= arrived'[q]
  BY <1>1 DEF BaseOK, TypeOK
<1>3. \A q \in Rooms : Len(scenario.mail[q]) \in Nat
  BY ScenarioFacts DEF BaseOK
<1>4. \A q \in Rooms : arrived'[q] <= Len(scenario.mail[q])
  BY <1>1, <1>3 DEF BaseOK, TypeOK, RoomsOK
<1>5. arrived'[r] \in Nat \ {0}
  BY <1>1 DEF BaseOK, TypeOK
<1>6. PICK mail : mail = arrived'[r]
  OBVIOUS
<1>7. Filed(r, mail) /\ mail \in 0 .. arrived'[r]
  BY <1>5, <1>6 DEF Arrives
<1>8. lastMail' \in [Rooms -> Nat] /\ MailOK'
  BY <1>2, <1>7, FiledTyped
<1> QED
  BY <1>1, <1>2, <1>4, <1>5, <1>8

\* A row written with a message that arrives.
LEMMA RoomBumped ==
  ASSUME BaseOK, NEW r \in Rooms, NEW state \in RoomStates,
         rooms' = [rooms EXCEPT ![r] = Bumped(r, state)], Arrives(r), scenario' = scenario
  PROVE  /\ rooms' \in [Rooms -> RoomRow] /\ RoomsOK'
         /\ arrived' \in [Rooms -> Nat]
         /\ \A q \in Rooms : arrived[q] <= arrived'[q]
         /\ lastMail' \in [Rooms -> Nat] /\ MailOK'
<1>1. PICK row \in RoomRow : row = Bumped(r, state) /\ row.state = state
  BY BumpedTyped DEF BaseOK
<1>2. rooms' = [rooms EXCEPT ![r] = row]
  BY <1>1
<1>3. rooms' \in [Rooms -> RoomRow]
  BY <1>2 DEF BaseOK, TypeOK
<1>4. arrived' = [arrived EXCEPT ![r] = arrived[r] + 1]
  BY ArrivalTyped
<1>5. \A q \in Rooms : rooms'[q].state # "none" => arrived'[q] > 0
  BY <1>1, <1>2, <1>4 DEF BaseOK, TypeOK, RoomsOK, Exists
<1> QED
  BY <1>3, <1>5, ArrivalTyped DEF RoomsOK, Exists

\* Steps that leave the jobs alone, and their messages in place.
LEMMA JobsSame ==
  ASSUME BaseOK, jobs' = jobs, subject' = subject, inbound' = inbound,
         arrived' \in [Rooms -> Nat],
         \A r \in Rooms : arrived[r] <= arrived'[r],
         \A t \in Turns : turns'[t] # NoTurn => turns'[t].job = turns[t].job /\ turns[t] # NoTurn
  PROVE  JobsOK' /\ TurnsOK'
<1>1. JobsOK'
  BY DEF BaseOK, TypeOK, JobsOK, JobRow
<1>2. TurnsOK'
  BY DEF BaseOK, TypeOK, TurnsOK, Turn
<1> QED
  BY <1>1, <1>2

\* All turns are lost.
LEMMA AllFree ==
  ASSUME turns' = [t \in Turns |-> NoTurn]
  PROVE  /\ turns' \in [Turns -> Turn \union {NoTurn}]
         /\ \A t \in Turns : turns'[t] = NoTurn
OBVIOUS

\* Holding a message keeps the tables well formed.
LEMMA HeldBase == ASSUME BaseOK, NEW r \in Rooms, IngestHeld(r) PROVE BaseOK'
<1>1. /\ rooms' \in [Rooms -> RoomRow] /\ RoomsOK' /\ arrived' \in [Rooms -> Nat]
      /\ \A q \in Rooms : arrived[q] <= arrived'[q]
      /\ lastMail' \in [Rooms -> Nat] /\ MailOK'
  BY RoomBumped DEF IngestHeld, RoomStates
<1>2. FollowTypeOK'
  BY ArrangedTyped DEF IngestHeld
<1>3. JobsOK' /\ TurnsOK'
  <2>1. jobs' = jobs /\ subject' = subject /\ inbound' = inbound
    BY DEF IngestHeld
  <2>2. \A t \in Turns : turns'[t] # NoTurn => turns'[t].job = turns[t].job /\ turns[t] # NoTurn
    BY DEF IngestHeld
  <2> QED
    BY <2>1, <2>2, <1>1, JobsSame
<1> QED
  BY <1>1, <1>2, <1>3 DEF BaseOK, TypeOK, IngestHeld

\* Blocking a message keeps the tables well formed.
LEMMA BlockedBase == ASSUME BaseOK, NEW r \in Rooms, IngestBlocked(r) PROVE BaseOK'
<1>1. /\ rooms' \in [Rooms -> RoomRow] /\ RoomsOK' /\ arrived' \in [Rooms -> Nat]
      /\ \A q \in Rooms : arrived[q] <= arrived'[q]
      /\ lastMail' \in [Rooms -> Nat] /\ MailOK'
  BY RoomBumped DEF IngestBlocked, RoomStates
<1>2. FollowTypeOK'
  BY ArrangedTyped DEF IngestBlocked
<1>3. JobsOK' /\ TurnsOK'
  <2>1. jobs' = jobs /\ subject' = subject /\ inbound' = inbound
    BY DEF IngestBlocked
  <2>2. \A t \in Turns : turns'[t] # NoTurn => turns'[t].job = turns[t].job /\ turns[t] # NoTurn
    BY DEF IngestBlocked
  <2> QED
    BY <2>1, <2>2, <1>1, JobsSame
<1>4. blocked' \subseteq Rooms \X Nat
  BY <1>1 DEF BaseOK, TypeOK, IngestBlocked
<1> QED
  BY <1>1, <1>2, <1>3, <1>4 DEF BaseOK, TypeOK, IngestBlocked

\* What a duplicate writes is a row.
LEMMA DuplicateRowTyped ==
  ASSUME TypeOK, NEW r \in Rooms
  PROVE  /\ DuplicateRow(r) \in RoomRow
         /\ DuplicateRow(r).state =
              IF rooms[r].state = "handoff" THEN "handoff" ELSE "queued"
         /\ Exists(r) => /\ DuplicateRow(r).revision = rooms[r].revision
                         /\ DuplicateRow(r).inSeq = rooms[r].inSeq
                         /\ DuplicateRow(r).outSeq = rooms[r].outSeq
<1>1. CASE Exists(r)
  <2>1. PICK state : state = IF rooms[r].state = "handoff" THEN "handoff" ELSE "queued"
    OBVIOUS
  <2>2. state \in RoomStates /\ rooms[r] \in RoomRow
    BY <2>1 DEF RoomStates, TypeOK
  <2>3. DuplicateRow(r) = [rooms[r] EXCEPT !.state = state]
    BY <1>1, <2>1, <2>2 DEF DuplicateRow, RoomRow
  <2> QED
    BY <2>1, <2>2, <2>3, StateTyped
<1>2. CASE ~ Exists(r)
  <2>1. DuplicateRow(r) = [state |-> "queued", revision |-> 1, inSeq |-> 1, outSeq |-> 0]
    BY <1>2 DEF DuplicateRow, NoRoomRow
  <2> QED
    BY <1>2, <2>1 DEF RoomRow, RoomStates, Exists
<1> QED
  BY <1>1, <1>2

\* Recognising a duplicate keeps the tables well formed.
LEMMA DuplicateBase == ASSUME BaseOK, NEW r \in Rooms, IngestDuplicate(r) PROVE BaseOK'
<1>1. arrived' = arrived /\ blocked' = blocked /\ handedOff' = handedOff
  BY DEF IngestDuplicate, history
<1>2. arrived[r] > 0
  BY DEF IngestDuplicate
<1>3. rooms' \in [Rooms -> RoomRow] /\ RoomsOK'
  <2>1. PICK row : row = DuplicateRow(r)
    OBVIOUS
  <2>2. row \in RoomRow
    BY <2>1, DuplicateRowTyped DEF BaseOK
  <2>3. rooms' = [rooms EXCEPT ![r] = row] /\ scenario' = scenario
    BY <2>1 DEF IngestDuplicate
  <2> QED
    BY <1>1, <1>2, <2>2, <2>3, RoomWritten
<1>4. FollowTypeOK'
  BY FollowSame DEF BaseOK, TypeOK, IngestDuplicate
<1>5. JobsOK' /\ TurnsOK' /\ MailOK'
  <2>1. jobs' = jobs /\ subject' = subject /\ inbound' = inbound /\ lastMail' = lastMail
    BY DEF IngestDuplicate
  <2>2. \A t \in Turns : turns'[t] # NoTurn => turns'[t].job = turns[t].job /\ turns[t] # NoTurn
    BY DEF IngestDuplicate
  <2>3. arrived' \in [Rooms -> Nat] /\ \A q \in Rooms : arrived[q] <= arrived'[q]
    BY <1>1 DEF BaseOK, TypeOK
  <2> QED
    BY <2>1, <2>2, <2>3, JobsSame, MailSame
<1> QED
  BY <1>1, <1>3, <1>4, <1>5 DEF BaseOK, TypeOK, IngestDuplicate

\* An ingest that a crash cuts short keeps the tables well formed.
LEMMA IngestTornBase == ASSUME BaseOK, NEW r \in Rooms, IngestTorn(r) PROVE BaseOK'
<1>1. /\ rooms' \in [Rooms -> RoomRow] /\ RoomsOK' /\ arrived' \in [Rooms -> Nat]
      /\ \A q \in Rooms : arrived[q] <= arrived'[q]
      /\ lastMail' \in [Rooms -> Nat] /\ MailOK'
  <2>1. PICK state \in RoomStates :
          state = IF rooms[r].state = "handoff" THEN "handoff" ELSE "queued"
    BY DEF RoomStates
  <2>2. rooms' = [rooms EXCEPT ![r] = Bumped(r, state)]
    BY <2>1 DEF IngestTorn, BaseOK, TypeOK
  <2> QED
    BY <2>2, RoomBumped DEF IngestTorn
<1>2. /\ turns' \in [Turns -> Turn \union {NoTurn}] /\ \A t \in Turns : turns'[t] = NoTurn
  BY AllFree DEF IngestTorn
<1>3. JobsOK' /\ TurnsOK'
  <2>1. jobs' = jobs /\ subject' = subject /\ inbound' = inbound
    BY DEF IngestTorn
  <2>2. \A t \in Turns : turns'[t] # NoTurn => turns'[t].job = turns[t].job /\ turns[t] # NoTurn
    BY <1>2 DEF IngestTorn
  <2> QED
    BY <2>1, <2>2, <1>1, <1>2, JobsSame
<1>4. arrived'[r] \in 1 .. Len(scenario.mail[r])
  BY ScenarioFacts, ArrivalTyped DEF BaseOK, TypeOK, IngestTorn
<1>5. ScheduleTyped'
  BY ScheduleKeepsTyped, ScheduleSame, FollowPart DEF BaseOK, IngestTorn
<1>6. PICK n : n = arrived'[r]
  OBVIOUS
<1>7. UNCHANGED projectVars \/ AssignWork(r, n)
  BY <1>6 DEF IngestTorn
<1>8. ProjectsTyped'
  BY <1>4, <1>6, <1>7, AssignTyped, ProjectsSame, FollowPart DEF BaseOK, AssignWork
<1>9. FollowTypeOK'
  BY <1>5, <1>8, FollowPart, FollowTypedNext DEF BaseOK, IngestTorn, DayTyped
<1> QED
  BY <1>1, <1>2, <1>3, <1>9 DEF BaseOK, TypeOK, IngestTorn

\* A message that is stored and not counted keeps the tables well formed.
LEMMA UncountedBase == ASSUME BaseOK, NEW r \in Rooms, IngestUncounted(r) PROVE BaseOK'
<1>1. /\ arrived' \in [Rooms -> Nat] /\ \A q \in Rooms : arrived[q] <= arrived'[q]
      /\ \A q \in Rooms : arrived'[q] <= Len(scenario.mail[q])
      /\ lastMail' \in [Rooms -> Nat] /\ MailOK'
  BY ArrivalTyped DEF IngestUncounted
<1>2. /\ turns' \in [Turns -> Turn \union {NoTurn}] /\ \A t \in Turns : turns'[t] = NoTurn
  BY AllFree DEF IngestUncounted
<1>3. /\ rooms' = rooms /\ jobs' = jobs /\ subject' = subject /\ inbound' = inbound
      /\ scenario' = scenario
  BY DEF IngestUncounted
<1>4. JobsOK' /\ TurnsOK'
  BY <1>1, <1>2, <1>3, JobsSame
<1>5. RoomsOK'
  BY <1>1, <1>3 DEF BaseOK, TypeOK, RoomsOK, Exists
<1>6. FollowTypeOK'
  BY FollowSame DEF BaseOK, TypeOK, IngestUncounted
<1> QED
  BY <1>1, <1>2, <1>3, <1>4, <1>5, <1>6 DEF BaseOK, TypeOK, IngestUncounted

\* The table with the job of a new message.
LEMMA EnqueuedJobs ==
  ASSUME BaseOK, NEW r \in Rooms, NEW j \in Jobs, NextJob(j)
  PROVE  /\ Enqueued(r, j) \in [Jobs -> JobRow(Rooms)]
         /\ jobs[j].status = "absent"
         /\ Enqueued(r, j)[j].status = "queued" /\ Enqueued(r, j)[j].room = r
         /\ Enqueued(r, j)[j].revision = rooms[r].revision + 1
         /\ Enqueued(r, j)[j].seq = rooms[r].inSeq + 1
         /\ Bumped(r, "queued").inSeq = rooms[r].inSeq + 1
         /\ rooms[r].inSeq \in Nat
         /\ \A i \in Jobs \ {j} : Enqueued(r, j)[i] = jobs[i]
<1>1. PICK rev \in Nat, seq \in Nat : rev = rooms[r].revision + 1 /\ seq = rooms[r].inSeq + 1
  <2>1. PICK row \in RoomRow : row = rooms[r]
    BY DEF BaseOK, TypeOK
  <2>2. row.revision + 1 \in Nat /\ row.inSeq + 1 \in Nat
    BY DEF RoomRow
  <2> QED
    BY <2>1, <2>2
<1>2. Bumped(r, "queued").revision = rev /\ Bumped(r, "queued").inSeq = seq
  BY <1>1, BumpedTyped DEF BaseOK, RoomStates
<1>3. PICK row : row = QueuedRow(r, rev, seq, BasePriority, Now)
  OBVIOUS
<1>4. /\ row \in JobRow(Rooms) /\ row.status = "queued" /\ row.room = r
      /\ row.revision = rev /\ row.seq = seq
  BY <1>3, QueuedRowIsRow DEF QueuedRow, BasePriority, Now
<1>5. Enqueued(r, j) = [jobs EXCEPT ![j] = row]
  BY <1>2, <1>3 DEF Enqueued, EnqueueJob
<1>6. rooms[r].inSeq \in Nat
  BY DEF BaseOK, TypeOK, RoomRow
<1> QED
  BY <1>1, <1>2, <1>4, <1>5, <1>6 DEF BaseOK, TypeOK, NextJob

\* A new message in a room that is not taken over, with its job in the table.
Accepted(r, j) == IngestAccepted(r, j) \/ IngestCut(r, j)

\* The job of a new message is queued; the queued jobs of earlier ones go, or
\* the process dies and they stay.
LEMMA AcceptedJobs ==
  ASSUME BaseOK, NEW r \in Rooms, NEW j \in Jobs, Accepted(r, j)
  PROVE  /\ jobs' \in [Jobs -> JobRow(Rooms)]
         /\ jobs[j].status = "absent"
         /\ jobs'[j].status = "queued" /\ jobs'[j].room = r
         /\ jobs'[j].revision = rooms[r].revision + 1
         /\ jobs'[j].seq = rooms[r].inSeq + 1
         /\ \A i \in Jobs \ {j} :
              /\ SameJob(jobs'[i], jobs[i])
              /\ \/ /\ jobs'[i] = jobs[i]
                    /\ IngestAccepted(r, j) =>
                         ~ (/\ jobs[i].status = "queued" /\ jobs[i].room = r
                            /\ jobs[i].seq <= rooms[r].inSeq)
                 \/ /\ jobs[i].status = "queued" /\ jobs[i].room = r
                    /\ jobs[i].seq <= rooms[r].inSeq
                    /\ jobs'[i].status = "cancelled"
<1>1. NextJob(j)
  BY DEF Accepted, IngestAccepted, IngestCut, Accepts
<1>2. PICK q : q = Enqueued(r, j)
  OBVIOUS
<1>3. PICK seq \in Nat : seq = rooms[r].inSeq + 1
  BY <1>1, EnqueuedJobs
<1>4. /\ q \in [Jobs -> JobRow(Rooms)]
      /\ jobs[j].status = "absent"
      /\ q[j].status = "queued" /\ q[j].room = r
      /\ q[j].revision = rooms[r].revision + 1 /\ q[j].seq = seq
      /\ Bumped(r, "queued").inSeq = seq
      /\ \A i \in Jobs \ {j} : q[i] = jobs[i]
  BY <1>1, <1>2, <1>3, EnqueuedJobs
<1>5. CASE IngestCut(r, j) /\ ~ IngestAccepted(r, j)
  <2>1. jobs' = q
    BY <1>2, <1>5 DEF IngestCut
  <2>2. \A i \in Jobs \ {j} : jobs'[i] = jobs[i]
    BY <1>4, <2>1
  <2> QED
    BY <1>3, <1>4, <1>5, <2>1, <2>2 DEF SameJob
<1>6. CASE IngestAccepted(r, j)
  <2>1. jobs' = CancelQueuedBefore(q, r, seq)
    BY <1>2, <1>4, <1>6 DEF IngestAccepted
  <2>2. PICK p : p = CancelQueuedBefore(q, r, seq)
    OBVIOUS
  <2>3. /\ p \in [Jobs -> JobRow(Rooms)]
        /\ \A i \in Jobs :
             /\ SameJob(p[i], q[i])
             /\ \/ p[i] = q[i] /\ ~ (q[i].status = "queued" /\ q[i].room = r /\ q[i].seq < seq)
                \/ /\ q[i].status = "queued" /\ q[i].room = r /\ q[i].seq < seq
                   /\ p[i].status = "cancelled"
    BY <1>4, <2>2, CancelQueuedBeforeRows
  <2>4. \A i \in Jobs : jobs[i].seq \in Nat
    BY DEF BaseOK, TypeOK, JobRow
  <2>5. \A i \in Jobs \ {j} : jobs[i].seq < seq <=> jobs[i].seq <= rooms[r].inSeq
    BY <1>3, <2>4 DEF BaseOK, TypeOK, RoomRow
  <2>6. p[j] = q[j]
    BY <1>4, <2>3
  <2> QED
    BY <1>3, <1>4, <1>6, <2>1, <2>2, <2>3, <2>5, <2>6
<1> QED
  BY <1>5, <1>6 DEF Accepted

\* What every accepted message writes.
LEMMA AcceptedFacts ==
  ASSUME NEW r \in Rooms, NEW j \in Jobs, Accepted(r, j)
  PROVE  /\ Accepts(r, j) /\ Arrives(r) /\ Arranged(r) /\ NextJob(j)
         /\ rooms[r].state # "handoff"
         /\ rooms' = [rooms EXCEPT ![r] = Bumped(r, "queued")]
         /\ subject' = [subject EXCEPT ![j] = arrived'[r]]
         /\ inbound' = [inbound EXCEPT ![j] = arrived'[r]]
         /\ UNCHANGED <<outbox, released, blocked, handedOff, retries, scenario>>
         /\ turns' = turns \/ turns' = [t \in Turns |-> NoTurn]
BY DEF Accepted, IngestAccepted, IngestCut, Accepts

\* Accepting a message keeps the tables well formed.
LEMMA AcceptedBase ==
  ASSUME BaseOK, NEW r \in Rooms, NEW j \in Jobs, Accepted(r, j)
  PROVE  BaseOK'
<1>1. /\ rooms' \in [Rooms -> RoomRow] /\ RoomsOK' /\ arrived' \in [Rooms -> Nat]
      /\ \A q \in Rooms : arrived[q] <= arrived'[q]
      /\ lastMail' \in [Rooms -> Nat] /\ MailOK'
  BY RoomBumped, AcceptedFacts DEF RoomStates
<1>2. FollowTypeOK'
  BY ArrangedTyped, AcceptedFacts
<1>3. jobs' \in [Jobs -> JobRow(Rooms)] /\ jobs[j].status = "absent"
  BY AcceptedJobs
<1>4. /\ jobs'[j].status = "queued" /\ jobs'[j].room = r
      /\ \A i \in Jobs \ {j} :
           jobs'[i].room = jobs[i].room /\ (jobs'[i].status = "absent" <=> jobs[i].status = "absent")
  BY AcceptedJobs DEF SameJob
<1>5. /\ inbound' = [inbound EXCEPT ![j] = arrived'[r]]
      /\ subject' = [subject EXCEPT ![j] = arrived'[r]]
      /\ arrived'[r] \in Nat \ {0}
  BY AcceptedFacts, ArrivalTyped
<1>6. inbound' \in [Jobs -> Nat] /\ subject' \in [Jobs -> Nat]
  BY <1>5 DEF BaseOK, TypeOK
<1>7. JobsOK'
  <2>1. /\ inbound'[j] = arrived'[r] /\ \A i \in Jobs \ {j} : inbound'[i] = inbound[i]
        /\ subject'[j] = arrived'[r] /\ \A i \in Jobs \ {j} : subject'[i] = subject[i]
    BY <1>5 DEF BaseOK, TypeOK
  <2>2. /\ jobs'[j].room \in Rooms /\ inbound'[j] \in 1 .. arrived'[jobs'[j].room]
        /\ subject'[j] \in 0 .. inbound'[j]
    BY <1>4, <1>5, <2>1
  <2>3. ASSUME NEW i \in Jobs \ {j}, jobs'[i].status # "absent"
        PROVE  /\ jobs'[i].room \in Rooms /\ inbound'[i] \in 1 .. arrived'[jobs'[i].room]
               /\ subject'[i] \in 0 .. inbound'[i]
    <3>1. /\ jobs[i].room \in Rooms /\ inbound[i] \in 1 .. arrived[jobs[i].room]
          /\ subject[i] \in 0 .. inbound[i]
      BY <1>4, <2>3 DEF BaseOK, JobsOK
    <3>2. arrived[jobs[i].room] <= arrived'[jobs[i].room] /\ arrived'[jobs[i].room] \in Nat
      BY <1>1, <3>1
    <3>3. arrived[jobs[i].room] \in Nat
      BY <3>1 DEF BaseOK, TypeOK
    <3> QED
      BY <1>4, <2>1, <2>3, <3>1, <3>2, <3>3
  <2>4. ASSUME NEW i \in Jobs, jobs'[i].status = "absent" PROVE jobs'[i].room = NoRoom
    BY <1>4, <2>4 DEF BaseOK, JobsOK
  <2> QED
    BY <1>4, <2>2, <2>3, <2>4 DEF JobsOK
<1>8. TurnsOK' /\ turns' \in [Turns -> Turn \union {NoTurn}]
  <2>1. CASE turns' = [t \in Turns |-> NoTurn]
    BY <2>1, AllFree DEF TurnsOK
  <2>2. CASE turns' = turns
    <3>1. turns \in [Turns -> Turn \union {NoTurn}] /\ TurnsOK
      BY Types DEF BaseOK
    <3>2. \A t \in Turns : turns[t] # NoTurn =>
            turns[t].job \in Jobs /\ jobs[turns[t].job].status # "absent"
      BY <3>1 DEF TurnsOK, Turn
    <3>3. \A t \in Turns : turns[t] # NoTurn => jobs'[turns[t].job].status # "absent"
      BY <1>3, <1>4, <3>2
    <3> QED
      BY <2>2, <3>1, <3>3 DEF TurnsOK
  <2> QED
    BY <2>1, <2>2, AcceptedFacts
<1> QED
  BY <1>1, <1>2, <1>3, <1>6, <1>7, <1>8, AcceptedFacts DEF BaseOK, TypeOK

\* What the sweep leaves, and how the job of a turn is leased from it.
LEMMA SweptJobs ==
  ASSUME TypeOK
  PROVE  /\ Swept \in [Jobs -> JobRow(Rooms)]
         /\ \A j \in Jobs :
              /\ SameJob(Swept[j], jobs[j])
              /\ Swept[j].attempts = jobs[j].attempts
              /\ Swept[j].availableAt = jobs[j].availableAt
              /\ \/ Swept[j] = jobs[j] /\ ~ LeaseExpired(jobs[j], Now)
                 \/ /\ jobs[j].status = "leased" /\ jobs[j].leaseExpiresAt <= Now
                    /\ Swept[j].status = "queued"
<1>1. jobs \in [Jobs -> JobRow(Rooms)] /\ Now \in Nat
  BY Types DEF Now
<1> QED
  BY <1>1, RecoverExpiredRows DEF Swept

\* The job a turn starts is leased from now, all others are as swept.
LEMMA StartedJobs ==
  ASSUME TypeOK, NEW j \in NextCandidates(Swept, Now, NoneServed),
         jobs' = LeaseJob(Swept, j, 0, Now)
  PROVE  /\ j \in Jobs /\ jobs' \in [Jobs -> JobRow(Rooms)]
         /\ Leasable(Swept, j, Now)
         /\ jobs[j].status # "absent"
         /\ jobs'[j].status = "leased" /\ jobs'[j].leaseExpiresAt > Now
         /\ SameJob(jobs'[j], jobs[j])
         /\ \A i \in Jobs \ {j} : jobs'[i] = Swept[i] /\ SameJob(jobs'[i], jobs[i])
<1>1. PICK q : q = Swept
  OBVIOUS
<1>2. q \in [Jobs -> JobRow(Rooms)]
  BY <1>1, SweptJobs
<1>3. j \in NextCandidates(q, Now, NoneServed) /\ jobs' = LeaseJob(q, j, 0, Now)
  BY <1>1
<1>4. j \in Jobs /\ q[j].status = "queued" /\ Leasable(q, j, Now)
  BY <1>2, <1>3, CandidateIsFirst DEF Now
<1>5. PICK p : p = LeaseJob(q, j, 0, Now)
  OBVIOUS
<1>6. /\ p \in [Jobs -> JobRow(Rooms)] /\ p[j].status = "leased"
      /\ p[j].leaseExpiresAt > Now /\ SameJob(p[j], q[j])
      /\ \A i \in Jobs \ {j} : p[i] = q[i]
  BY <1>2, <1>4, <1>5, LeaseJobRows DEF Now
<1>7. \A i \in Jobs : SameJob(q[i], jobs[i])
  BY <1>1, SweptJobs
<1>8. q[j].status = "queued" => jobs[j].status # "absent"
  BY <1>1, <1>4, SweptJobs
<1>9. SameJob(p[j], jobs[j]) /\ \A i \in Jobs \ {j} : SameJob(p[i], jobs[i])
  BY <1>4, <1>6, <1>7 DEF SameJob
<1> QED
  BY <1>1, <1>3, <1>4, <1>5, <1>6, <1>8, <1>9

\* Starting a turn keeps the tables well formed.
LEMMA StartBase == ASSUME BaseOK, NEW t \in Turns, StartTurn(t) PROVE BaseOK'
<1>1. PICK j \in NextCandidates(Swept, Now, NoneServed), prelude \in BOOLEAN :
        /\ jobs' = LeaseJob(Swept, j, 0, Now)
        /\ turns' = IF prelude /\ rooms[jobs[j].room].revision # jobs[j].revision THEN turns ELSE
             [turns EXCEPT ![t] =
               [at |-> IF prelude THEN "prelude" ELSE "executing",
                job |-> j, room |-> rooms[jobs[j].room], results |-> FALSE]]
        /\ SetState(jobs[j].room, IF prelude THEN "waiting_workers" ELSE "running")
  BY DEF StartTurn
<1>2. /\ j \in Jobs /\ jobs' \in [Jobs -> JobRow(Rooms)] /\ jobs[j].status # "absent"
      /\ jobs'[j].status = "leased" /\ SameJob(jobs'[j], jobs[j])
      /\ \A i \in Jobs \ {j} : jobs'[i] = Swept[i] /\ SameJob(jobs'[i], jobs[i])
  BY <1>1, StartedJobs DEF BaseOK
<1>3. \A i \in Jobs : /\ SameJob(jobs'[i], jobs[i])
                      /\ (jobs'[i].status = "absent") <=> (jobs[i].status = "absent")
  BY <1>2, SweptJobs DEF BaseOK
<1>4. PICK r \in Rooms : r = jobs[j].room
  BY <1>2 DEF BaseOK, JobsOK
<1>5. arrived[r] > 0
  BY <1>2, <1>4 DEF BaseOK, JobsOK, TypeOK
<1>6. /\ arrived' = arrived /\ inbound' = inbound /\ subject' = subject
      /\ lastMail' = lastMail
  BY DEF StartTurn, history
<1>7. rooms' \in [Rooms -> RoomRow] /\ RoomsOK'
  <2>1. scenario' = scenario
    BY DEF StartTurn
  <2>2. PICK state \in RoomStates : SetState(r, state)
    BY <1>1, <1>4 DEF RoomStates
  <2> QED
    BY <1>5, <1>6, <2>1, <2>2, StateSet
<1>8. JobsOK'
  BY <1>3, <1>6 DEF BaseOK, JobsOK, SameJob
<1>9. PICK new \in Turn :
        /\ new.job = j
        /\ turns' = turns \/ turns' = [turns EXCEPT ![t] = new]
  <2>1. rooms[r] \in RoomRow
    BY DEF BaseOK, TypeOK
  <2>2. PICK new : new = [at |-> IF prelude THEN "prelude" ELSE "executing", job |-> j,
                          room |-> rooms[r], results |-> FALSE]
    OBVIOUS
  <2>3. new \in Turn /\ new.job = j
    BY <1>2, <2>1, <2>2 DEF Turn
  <2> QED
    BY <1>1, <1>4, <2>2, <2>3
<1>10. turns' \in [Turns -> Turn \union {NoTurn}]
  BY <1>9 DEF BaseOK, TypeOK
<1>11. TurnsOK'
  <2> SUFFICES ASSUME NEW u \in Turns, turns'[u] # NoTurn
               PROVE  jobs'[turns'[u].job].status # "absent"
    BY DEF TurnsOK
  <2>1. turns'[u] = turns[u] \/ turns'[u] = new
    BY <1>9 DEF BaseOK, TypeOK
  <2>2. CASE turns'[u] = turns[u]
    BY <1>3, <2>2 DEF BaseOK, TypeOK, TurnsOK, Turn
  <2>3. CASE turns'[u] = new
    BY <1>2, <1>9, <2>3
  <2> QED
    BY <2>1, <2>2, <2>3
<1>12. FollowTypeOK' /\ MailOK'
  BY <1>6, FollowSame DEF BaseOK, TypeOK, StartTurn, MailOK
<1> QED
  BY <1>2, <1>6, <1>7, <1>8, <1>10, <1>11, <1>12 DEF BaseOK, TypeOK, StartTurn, history

-----------------------------------------------------------------------------
(* The ways a turn goes on *)

TurnRest ==
  UNCHANGED <<subject, inbound, released, history, retries, scheduleVars, day, scenario>>

PostRunStarts(t) ==
  /\ At(t, "executing") /\ MayHave("postrun") /\ Current(t)
  /\ SetState(RoomOf(t), "waiting_workers")
  /\ turns' = [turns EXCEPT ![t].at = "postrun", ![t].results = TRUE]
  /\ UNCHANGED <<jobs, outbox, lastMail, projectVars>>
  /\ TurnRest

\* The turn comes to its end with the room in the given state.
Concludes(t, state) ==
  /\ \/ At(t, "executing") /\ state = rooms[RoomOf(t)].state
     \/ At(t, "postrun") /\ state = "replying"
  /\ Conclude(t, state)
  /\ TurnRest

\* It fails, with its reply inserted or without.
Fails(t, state) ==
  /\ At(t, "executing") \/ At(t, "postrun")
  /\ May("turn_fails") \/ May("disk_fails") \/ MayHave("postrun") \/ turns[t].results
  /\ state \in {rooms[RoomOf(t)].state, "waiting_workers"}
  /\ Failed(t, state)
  /\ \/ UNCHANGED <<outbox, lastMail>>
     \/ May("disk_fails") /\ Answers(t) /\ Sends(t)
  /\ TurnRest

\* These are all the ways.
LEMMA EndCases ==
  ASSUME BaseOK, NEW t \in Turns, EndTurn(t)
  PROVE  /\ ~ Free(t)
         /\ \/ PreludeEnds(t) \/ PreludeFails(t) \/ PostRunStarts(t)
            \/ \E state \in RoomStates : Concludes(t, state) \/ Fails(t, state)
<1>1. ~ Free(t)
  BY DEF EndTurn, PreludeEnds, PreludeFails, ExecutionEnds, PostRunEnds, ExecutionFails,
         ReplyFails, Answers, At
<1>2. rooms[RoomOf(t)].state \in RoomStates
  BY <1>1, TurnFacts DEF RoomRow
<1>3. "replying" \in RoomStates /\ "waiting_workers" \in RoomStates
  BY DEF RoomStates
<1>4. PICK st \in RoomStates : st = rooms[RoomOf(t)].state
  BY <1>2
<1>5. ASSUME EndTurn(t), ~ PreludeEnds(t), ~ PreludeFails(t)
      PROVE  TurnRest /\ (At(t, "executing") \/ At(t, "postrun"))
  BY <1>5 DEF EndTurn, ExecutionEnds, PostRunEnds, ExecutionFails, ReplyFails, Answers, TurnRest
<1>6. ASSUME ExecutionEnds(t), TurnRest, ~ PostRunStarts(t)
      PROVE  \E state \in RoomStates : Concludes(t, state) \/ Fails(t, state)
  <2>1. /\ At(t, "executing")
        /\ \/ turns[t].results /\ Fail(t, st)
           \/ Conclude(t, st)
           \/ MayHave("postrun") /\ Fail(t, "waiting_workers")
    BY <1>4, <1>6 DEF ExecutionEnds, AnnouncementRefused, PostRunStarts
  <2>2. CASE turns[t].results /\ Fail(t, st)
    BY <1>4, <1>6, <2>1, <2>2 DEF Fails, Fail
  <2>3. CASE Conclude(t, st)
    BY <1>4, <1>6, <2>1, <2>3 DEF Concludes
  <2>4. CASE MayHave("postrun") /\ Fail(t, "waiting_workers")
    BY <1>3, <1>6, <2>1, <2>4 DEF Fails, Fail
  <2> QED
    BY <2>1, <2>2, <2>3, <2>4
<1>7. ASSUME PostRunEnds(t), TurnRest
      PROVE  \E state \in RoomStates : Concludes(t, state) \/ Fails(t, state)
  <2>1. /\ At(t, "postrun")
        /\ \/ turns[t].results /\ Fail(t, st)
           \/ Conclude(t, "replying")
    BY <1>4, <1>7 DEF PostRunEnds, AnnouncementRefused
  <2>2. CASE turns[t].results /\ Fail(t, st)
    BY <1>4, <1>7, <2>1, <2>2 DEF Fails, Fail
  <2>3. CASE Conclude(t, "replying")
    BY <1>3, <1>7, <2>1, <2>3 DEF Concludes
  <2> QED
    BY <2>1, <2>2, <2>3
<1>8. ASSUME ExecutionFails(t), TurnRest
      PROVE  Fails(t, st)
  BY <1>4, <1>8 DEF ExecutionFails, Fails, Fail
<1>9. ASSUME ReplyFails(t), TurnRest
      PROVE  Fails(t, st)
  BY <1>4, <1>9 DEF ReplyFails, Fails, Answers
<1> QED
  BY <1>1, <1>4, <1>5, <1>6, <1>7, <1>8, <1>9 DEF EndTurn

-----------------------------------------------------------------------------
(* What the ends of turns write *)

\* A turn that leaves settles its own job and frees its own place only.
LEMMA SettledTurn ==
  ASSUME BaseOK, NEW t \in Turns, ~ Free(t), NEW status \in Terminal,
         jobs' = SettleJob(jobs, turns[t].job, status), Leave(t)
  PROVE  /\ jobs' \in [Jobs -> JobRow(Rooms)]
         /\ jobs'[turns[t].job].status = status
         /\ SameJob(jobs'[turns[t].job], jobs[turns[t].job])
         /\ \A i \in Jobs \ {turns[t].job} : jobs'[i] = jobs[i]
         /\ turns' \in [Turns -> Turn \union {NoTurn}]
         /\ turns'[t] = NoTurn
         /\ \A u \in Turns \ {t} : turns'[u] = turns[u]
<1>1. PICK j \in Jobs : j = turns[t].job
  BY TurnFacts
<1>2. PICK q : q = SettleJob(jobs, j, status)
  OBVIOUS
<1>3. /\ q \in [Jobs -> JobRow(Rooms)] /\ q[j].status = status /\ SameJob(q[j], jobs[j])
      /\ \A i \in Jobs \ {j} : q[i] = jobs[i]
  <2>1. PICK p \in [Jobs -> JobRow(Rooms)] : p = jobs
    BY Types DEF BaseOK
  <2> QED
    BY <1>2, <2>1, SettleJobRows
<1>4. jobs' = q
  BY <1>1, <1>2
<1>5. /\ turns' \in [Turns -> Turn \union {NoTurn}] /\ turns'[t] = NoTurn
      /\ \A u \in Turns \ {t} : turns'[u] = turns[u]
  BY DEF Leave, BaseOK, TypeOK
<1> QED
  BY <1>1, <1>3, <1>4, <1>5

\* What a turn sends is an outbox entry.
LEMMA ReplyTyped ==
  ASSUME BaseOK, NEW t \in Turns, ~ Free(t)
  PROVE  Reply(t) \in OutboxEntry
<1>1. handedOff[RoomOf(t)] \in BOOLEAN /\ arrived[RoomOf(t)] \in Nat
  BY TurnFacts DEF BaseOK, TypeOK
<1> QED
  BY <1>1, TurnFacts DEF Reply, OutboxEntry

\* Sending the reply keeps the outbox a sequence of entries, and the agent's own
\* mail may be the latest of the thread.
LEMMA SendsTyped ==
  ASSUME BaseOK, NEW t \in Turns, ~ Free(t), arrived' = arrived,
         \/ UNCHANGED <<outbox, lastMail>>
         \/ outbox' = Append(outbox, Reply(t)) /\ UNCHANGED lastMail
         \/ outbox' = Append(outbox, Reply(t)) /\ Filed(RoomOf(t), Own)
  PROVE  outbox' \in Seq(OutboxEntry) /\ lastMail' \in [Rooms -> Nat] /\ MailOK'
<1>1. outbox' \in Seq(OutboxEntry)
  <2>1. outbox \in Seq(OutboxEntry) /\ Reply(t) \in OutboxEntry
    BY ReplyTyped, Types DEF BaseOK
  <2>2. Append(outbox, Reply(t)) \in Seq(OutboxEntry)
    BY <2>1
  <2> QED
    BY <2>1, <2>2
<1>2. arrived' \in [Rooms -> Nat] /\ \A q \in Rooms : arrived[q] <= arrived'[q]
  BY DEF BaseOK, TypeOK
<1>3. CASE lastMail' = lastMail
  BY <1>1, <1>2, <1>3, MailSame
<1>4. CASE Filed(RoomOf(t), Own)
  <2>1. PICK r \in Rooms : r = RoomOf(t)
    BY TurnFacts
  <2>2. Filed(r, Own) /\ Own \in 0 .. arrived'[r]
    BY <1>2, <1>4, <2>1 DEF Own
  <2> QED
    BY <1>1, <1>2, <2>2, FiledTyped
<1> QED
  BY <1>3, <1>4

\* Only the turn's own job and the projects change when it ends, besides the
\* room and the outbox.
LEMMA LeftBase ==
  ASSUME BaseOK, NEW t \in Turns, ~ Free(t), NEW status \in Terminal,
         jobs' = SettleJob(jobs, turns[t].job, status), Leave(t), TurnRest,
         outbox' \in Seq(OutboxEntry), lastMail' \in [Rooms -> Nat], MailOK', ProjectsTyped',
         NEW row \in RoomRow, rooms' = [rooms EXCEPT ![RoomOf(t)] = row]
  PROVE  BaseOK'
<1>1. /\ jobs' \in [Jobs -> JobRow(Rooms)]
      /\ \A j \in Jobs : /\ SameJob(jobs'[j], jobs[j])
                         /\ (jobs'[j].status = "absent") <=> (jobs[j].status = "absent")
  BY SettledTurn, TurnFacts DEF SameJob, Terminal
<1>2. /\ turns' \in [Turns -> Turn \union {NoTurn}] /\ turns'[t] = NoTurn
      /\ \A u \in Turns \ {t} : turns'[u] = turns[u]
  BY SettledTurn
<1>3. /\ subject' = subject /\ inbound' = inbound /\ arrived' = arrived
      /\ scenario' = scenario
  BY DEF TurnRest, history
<1>4. JobsOK' /\ TurnsOK'
  <2>1. \A u \in Turns : turns'[u] # NoTurn => turns'[u].job = turns[u].job /\ turns[u] # NoTurn
    BY <1>2
  <2> QED
    BY <1>1, <1>3, <2>1, JobsStay
<1>5. rooms' \in [Rooms -> RoomRow] /\ RoomsOK'
  <2>1. PICK r \in Rooms : r = RoomOf(t)
    BY TurnFacts
  <2>2. arrived[r] > 0
    BY <2>1, TurnFacts
  <2> QED
    BY <1>3, <2>1, <2>2, RoomWritten
<1>6. FollowTypeOK'
  BY FollowPart, FollowTypedNext, ScheduleSame DEF BaseOK, TurnRest, DayTyped
<1> QED
  BY <1>1, <1>2, <1>3, <1>4, <1>5, <1>6 DEF BaseOK, TypeOK, TurnRest, history

\* A turn that concludes keeps the tables well formed.
LEMMA ConcludesBase ==
  ASSUME BaseOK, NEW t \in Turns, ~ Free(t), NEW state \in RoomStates,
         Concludes(t, state)
  PROVE  BaseOK'
<1>1. PICK status \in Terminal : jobs' = SettleJob(jobs, turns[t].job, status)
  BY DEF Concludes, Conclude, Terminal
<1>2. Leave(t) /\ TurnRest
  BY DEF Concludes, Conclude
<1>3. outbox' \in Seq(OutboxEntry) /\ lastMail' \in [Rooms -> Nat] /\ MailOK'
  <2>1. arrived' = arrived
    BY <1>2 DEF TurnRest, history
  <2>2. \/ UNCHANGED <<outbox, lastMail>>
        \/ outbox' = Append(outbox, Reply(t)) /\ Filed(RoomOf(t), Own)
    BY DEF Concludes, Conclude, Sends
  <2> QED
    BY <2>1, <2>2, SendsTyped
<1>4. ProjectsTyped'
  BY AssignTyped, TurnFacts, FollowPart, ProjectsSame DEF BaseOK, Concludes, Conclude
<1>5. PICK row : row = IF Emits(t, state) THEN Answered(t)
                       ELSE [rooms[RoomOf(t)] EXCEPT !.state = state]
  OBVIOUS
<1>6. row \in RoomRow
  BY <1>5, TurnFacts, AnsweredTyped, StateTyped
<1>7. rooms' = [rooms EXCEPT ![RoomOf(t)] = row]
  BY <1>5 DEF Concludes, Conclude
<1> QED
  BY <1>1, <1>2, <1>3, <1>4, <1>6, <1>7, LeftBase

\* A turn that fails keeps the tables well formed.
LEMMA FailsBase ==
  ASSUME BaseOK, NEW t \in Turns, ~ Free(t), NEW state \in RoomStates,
         Fails(t, state)
  PROVE  BaseOK'
<1>1. jobs' = SettleJob(jobs, turns[t].job, "failed") /\ Leave(t) /\ TurnRest
  BY DEF Fails, Failed
<1>2. outbox' \in Seq(OutboxEntry) /\ lastMail' \in [Rooms -> Nat] /\ MailOK'
  <2>1. arrived' = arrived
    BY <1>1 DEF TurnRest, history
  <2>2. \/ UNCHANGED <<outbox, lastMail>>
        \/ outbox' = Append(outbox, Reply(t)) /\ Filed(RoomOf(t), Own)
    BY DEF Fails, Sends
  <2> QED
    BY <2>1, <2>2, SendsTyped
<1>3. ProjectsTyped'
  BY AssignTyped, TurnFacts, FollowPart, ProjectsSame DEF BaseOK, Fails, Failed
<1>4. PICK row : row = IF Superseded(t) THEN [rooms[RoomOf(t)] EXCEPT !.state = state]
                       ELSE [turns[t].room EXCEPT !.state = "failed"]
  OBVIOUS
<1>5. row \in RoomRow
  <2>1. "failed" \in RoomStates
    BY DEF RoomStates
  <2> QED
    BY <1>4, <2>1, TurnFacts, StateTyped
<1>6. rooms' = [rooms EXCEPT ![RoomOf(t)] = row]
  BY <1>4 DEF Fails, Failed
<1>7. "failed" \in Terminal
  BY DEF Terminal
<1> QED
  BY <1>1, <1>2, <1>3, <1>5, <1>6, <1>7, LeftBase

\* Steps of a turn that settle nothing.
LEMMA GoesOnBase ==
  ASSUME BaseOK, UNCHANGED <<jobs, outbox, lastMail, subject, inbound, released, history, retries,
                     scenario>>,
         FollowTypeOK', rooms' \in [Rooms -> RoomRow], RoomsOK',
         turns' \in [Turns -> Turn \union {NoTurn}],
         \A t \in Turns : turns'[t] # NoTurn => turns'[t].job = turns[t].job /\ turns[t] # NoTurn
  PROVE  BaseOK'
<1>1. arrived' \in [Rooms -> Nat] /\ \A r \in Rooms : arrived[r] <= arrived'[r]
  BY DEF BaseOK, TypeOK, history
<1>2. JobsOK' /\ TurnsOK' /\ lastMail' \in [Rooms -> Nat] /\ MailOK'
  BY <1>1, JobsSame, MailSame
<1> QED
  BY <1>2 DEF BaseOK, TypeOK, history

\* A prelude worker's report keeps the tables well formed.
LEMMA PreludeEndsBase ==
  ASSUME BaseOK, NEW t \in Turns, ~ Free(t), PreludeEnds(t)
  PROVE  BaseOK'
<1>1. PICK row : row = [turns[t].room EXCEPT !.state = "running"]
  OBVIOUS
<1>2. row \in RoomRow
  BY <1>1, TurnFacts, StateTyped DEF RoomStates
<1>3. rooms' \in [Rooms -> RoomRow] /\ RoomsOK'
  <2>1. PICK r \in Rooms : r = RoomOf(t) /\ arrived[r] > 0
    BY TurnFacts
  <2>2. rooms' = [rooms EXCEPT ![r] = row] /\ arrived' = arrived /\ scenario' = scenario
    BY <1>1, <2>1 DEF PreludeEnds, history
  <2> QED
    BY <1>2, <2>1, <2>2, RoomWritten
<1>4. PICK new : new = [turns[t] EXCEPT !.at = "executing", !.results = ~ Superseded(t)]
  OBVIOUS
<1>5. new \in Turn /\ new.job = turns[t].job
  BY <1>4, TurnFacts DEF Turn
<1>6. turns' = [turns EXCEPT ![t] = new]
  BY <1>4, TurnFacts DEF PreludeEnds, BaseOK, TypeOK
<1>7. /\ turns' \in [Turns -> Turn \union {NoTurn}]
      /\ \A u \in Turns : turns'[u] # NoTurn => turns'[u].job = turns[u].job /\ turns[u] # NoTurn
  BY <1>5, <1>6 DEF BaseOK, TypeOK, Free
<1>8. FollowTypeOK'
  BY FollowSame DEF BaseOK, TypeOK, PreludeEnds
<1>9. UNCHANGED <<jobs, outbox, lastMail, subject, inbound, released, history, retries,
                     scenario>>
  BY DEF PreludeEnds
<1> QED
  BY <1>3, <1>7, <1>8, <1>9, GoesOnBase

\* A prelude worker's failure keeps the tables well formed.
LEMMA PreludeFailsBase ==
  ASSUME BaseOK, NEW t \in Turns, PreludeFails(t)
  PROVE  BaseOK'
<1>1. /\ turns' \in [Turns -> Turn \union {NoTurn}]
      /\ \A u \in Turns : turns'[u] # NoTurn => turns'[u].job = turns[u].job /\ turns[u] # NoTurn
  BY DEF BaseOK, TypeOK, PreludeFails, Leave
<1>2. FollowTypeOK'
  BY FollowSame DEF BaseOK, TypeOK, PreludeFails
<1>3. rooms' \in [Rooms -> RoomRow] /\ RoomsOK'
  BY DEF BaseOK, TypeOK, PreludeFails, RoomsOK, Exists, history
<1>4. UNCHANGED <<jobs, outbox, lastMail, subject, inbound, released, history, retries,
                     scenario>>
  BY DEF PreludeFails
<1> QED
  BY <1>1, <1>2, <1>3, <1>4, GoesOnBase

\* Handing over to a post-run worker keeps the tables well formed.
LEMMA PostRunStartsBase ==
  ASSUME BaseOK, NEW t \in Turns, ~ Free(t), PostRunStarts(t)
  PROVE  BaseOK'
<1>1. PICK new : new = [turns[t] EXCEPT !.at = "postrun", !.results = TRUE]
  OBVIOUS
<1>2. new \in Turn /\ new.job = turns[t].job
  BY <1>1, TurnFacts DEF Turn
<1>3. turns' = [turns EXCEPT ![t] = new]
  BY <1>1, TurnFacts DEF PostRunStarts, BaseOK, TypeOK
<1>4. /\ turns' \in [Turns -> Turn \union {NoTurn}]
      /\ \A u \in Turns : turns'[u] # NoTurn => turns'[u].job = turns[u].job /\ turns[u] # NoTurn
  BY <1>2, <1>3 DEF BaseOK, TypeOK, Free
<1>5. rooms' \in [Rooms -> RoomRow] /\ RoomsOK'
  <2>1. PICK r \in Rooms : r = RoomOf(t) /\ arrived[r] > 0
    BY TurnFacts
  <2>2. SetState(r, "waiting_workers") /\ arrived' = arrived /\ scenario' = scenario
    BY <2>1 DEF PostRunStarts, TurnRest, history
  <2>3. "waiting_workers" \in RoomStates
    BY DEF RoomStates
  <2> QED
    BY <2>1, <2>2, <2>3, StateSet
<1>6. FollowTypeOK'
  BY FollowPart, FollowTypedNext, ScheduleSame, ProjectsSame
     DEF BaseOK, TypeOK, PostRunStarts, TurnRest, DayTyped
<1>7. UNCHANGED <<jobs, outbox, lastMail, subject, inbound, released, history, retries,
                     scenario>>
  BY DEF PostRunStarts, TurnRest
<1> QED
  BY <1>4, <1>5, <1>6, <1>7, GoesOnBase

\* What a crash leaves of a turn's conclusion.
LEMMA ConcludeTornCases ==
  ASSUME BaseOK, NEW t \in Turns, ConcludeTorn(t)
  PROVE  /\ ~ Free(t) /\ May("torn_write")
         /\ turns' = [u \in Turns |-> NoTurn]
         /\ UNCHANGED <<subject, inbound, released, history, retries, followVars, scenario>>
         /\ \/ UNCHANGED <<outbox, lastMail>>
            \/ outbox' = Append(outbox, Reply(t)) /\ UNCHANGED lastMail /\ Answers(t)
            \/ outbox' = Append(outbox, Reply(t)) /\ Filed(RoomOf(t), Own) /\ Answers(t)
         /\ \/ jobs' = jobs
            \/ /\ jobs' = SettleJob(jobs, turns[t].job, "completed")
               /\ outbox' = Append(outbox, Reply(t)) /\ Answers(t)
         /\ \/ rooms' = rooms
            \/ SetState(RoomOf(t), "replying") /\ turns[t].at # "executing"
            \/ rooms' = [rooms EXCEPT ![RoomOf(t)] = Answered(t)] /\ Answers(t)
<1> DEFINE replying == IF At(t, "postrun")
                       THEN [rooms EXCEPT ![RoomOf(t)].state = "replying"] ELSE rooms
<1>1. ~ Free(t) /\ (At(t, "executing") \/ At(t, "postrun"))
  BY DEF ConcludeTorn, Answers, At
<1>2. rooms' = replying \/ (rooms' = [rooms EXCEPT ![RoomOf(t)] = Answered(t)] /\ Answers(t))
  BY DEF ConcludeTorn
<1>3. \/ rooms' = rooms
      \/ SetState(RoomOf(t), "replying") /\ turns[t].at # "executing"
      \/ rooms' = [rooms EXCEPT ![RoomOf(t)] = Answered(t)] /\ Answers(t)
  BY <1>2 DEF SetState, At
<1>4. \/ UNCHANGED <<outbox, lastMail>>
      \/ outbox' = Append(outbox, Reply(t)) /\ UNCHANGED lastMail /\ Answers(t)
      \/ outbox' = Append(outbox, Reply(t)) /\ Filed(RoomOf(t), Own) /\ Answers(t)
  BY DEF ConcludeTorn
<1>5. \/ jobs' = jobs
      \/ /\ jobs' = SettleJob(jobs, turns[t].job, "completed")
         /\ outbox' = Append(outbox, Reply(t)) /\ Answers(t)
  BY DEF ConcludeTorn
<1> QED
  BY <1>1, <1>3, <1>4, <1>5 DEF ConcludeTorn

\* A turn lost in a step that settles its own job at most.
LEMMA LostBase ==
  ASSUME BaseOK, NEW t \in Turns, ~ Free(t), turns' = [u \in Turns |-> NoTurn],
         UNCHANGED <<subject, inbound, released, history, retries, followVars, scenario>>,
         outbox' \in Seq(OutboxEntry), lastMail' \in [Rooms -> Nat], MailOK',
         NEW status \in Terminal,
         jobs' = jobs \/ jobs' = SettleJob(jobs, turns[t].job, status),
         rooms' \in [Rooms -> RoomRow], RoomsOK'
  PROVE  BaseOK'
<1>1. /\ turns' \in [Turns -> Turn \union {NoTurn}] /\ \A u \in Turns : turns'[u] = NoTurn
  BY AllFree
<1>2. arrived' = arrived
  BY DEF history
<1>3. /\ jobs' \in [Jobs -> JobRow(Rooms)]
      /\ \A j \in Jobs : /\ SameJob(jobs'[j], jobs[j])
                         /\ (jobs'[j].status = "absent") <=> (jobs[j].status = "absent")
  <2>1. CASE jobs' = jobs
    BY <2>1 DEF BaseOK, TypeOK, SameJob
  <2>2. CASE jobs' = SettleJob(jobs, turns[t].job, status)
    <3>1. PICK j \in Jobs : j = turns[t].job /\ jobs[j].status # "absent"
      BY TurnFacts
    <3>2. PICK q : q = SettleJob(jobs, j, status)
      OBVIOUS
    <3>3. /\ q \in [Jobs -> JobRow(Rooms)] /\ q[j].status = status /\ SameJob(q[j], jobs[j])
          /\ \A i \in Jobs \ {j} : q[i] = jobs[i]
      <4>1. PICK p \in [Jobs -> JobRow(Rooms)] : p = jobs
        BY Types DEF BaseOK
      <4> QED
        BY <3>2, <4>1, SettleJobRows
    <3>4. jobs' = q
      BY <2>2, <3>1, <3>2
    <3> QED
      BY <3>1, <3>3, <3>4 DEF SameJob, Terminal
  <2> QED
    BY <2>1, <2>2
<1>4. JobsOK' /\ TurnsOK'
  BY <1>1, <1>2, <1>3, JobsStay
<1>5. FollowTypeOK'
  BY FollowSame DEF BaseOK, TypeOK
<1> QED
  BY <1>1, <1>2, <1>3, <1>4, <1>5 DEF BaseOK, TypeOK, history

\* A conclusion that a crash cuts short keeps the tables well formed.
LEMMA ConcludeTornBase == ASSUME BaseOK, NEW t \in Turns, ConcludeTorn(t) PROVE BaseOK'
<1>1. ~ Free(t) /\ arrived' = arrived /\ scenario' = scenario
  BY ConcludeTornCases DEF history
<1>2. rooms' \in [Rooms -> RoomRow] /\ RoomsOK'
  <2>1. PICK r \in Rooms : r = RoomOf(t) /\ arrived[r] > 0
    BY <1>1, TurnFacts
  <2>2. CASE rooms' = rooms
    BY <1>1, <2>2 DEF BaseOK, TypeOK, RoomsOK, Exists
  <2>3. CASE SetState(r, "replying")
    BY <1>1, <2>1, <2>3, StateSet DEF RoomStates
  <2>4. CASE rooms' = [rooms EXCEPT ![r] = Answered(t)]
    <3>1. Answered(t) \in RoomRow
      BY <1>1, TurnFacts, AnsweredTyped
    <3> QED
      BY <1>1, <2>1, <2>4, <3>1, RoomWritten
  <2> QED
    BY <2>1, <2>2, <2>3, <2>4, ConcludeTornCases
<1>3. outbox' \in Seq(OutboxEntry) /\ lastMail' \in [Rooms -> Nat] /\ MailOK'
  BY <1>1, ConcludeTornCases, SendsTyped
<1>4. "completed" \in Terminal
  BY DEF Terminal
<1> QED
  BY <1>2, <1>3, <1>4, ConcludeTornCases, LostBase

\* A failure that a crash cuts short keeps the tables well formed.
LEMMA FailTornBase == ASSUME BaseOK, NEW t \in Turns, FailTorn(t) PROVE BaseOK'
<1>1. /\ ~ Free(t) /\ arrived' = arrived /\ scenario' = scenario
      /\ turns' = [u \in Turns |-> NoTurn]
      /\ UNCHANGED <<outbox, lastMail, subject, inbound, released, history, retries,
                     followVars, scenario>>
      /\ jobs' = SettleJob(jobs, turns[t].job, "failed")
  BY DEF FailTorn, At, history
<1>2. rooms' \in [Rooms -> RoomRow] /\ RoomsOK'
  <2>1. PICK r \in Rooms : r = RoomOf(t) /\ arrived[r] > 0
    BY <1>1, TurnFacts
  <2>2. PICK row : row = [turns[t].room EXCEPT !.state = "failed"]
    OBVIOUS
  <2>3. row \in RoomRow
    BY <1>1, <2>2, TurnFacts, StateTyped DEF RoomStates
  <2>4. rooms' = rooms \/ rooms' = [rooms EXCEPT ![r] = row]
    BY <2>1, <2>2 DEF FailTorn
  <2>5. CASE rooms' = rooms
    BY <1>1, <2>5 DEF BaseOK, TypeOK, RoomsOK, Exists
  <2> QED
    BY <1>1, <2>1, <2>3, <2>4, <2>5, RoomWritten
<1>3. outbox' \in Seq(OutboxEntry) /\ lastMail' \in [Rooms -> Nat] /\ MailOK'
  BY <1>1, SendsTyped
<1>4. "failed" \in Terminal
  BY DEF Terminal
<1> QED
  BY <1>1, <1>2, <1>3, <1>4, LostBase

\* Cancelling some of the queued jobs of a room settles them and no other.
LEMMA CancellingJobs ==
  ASSUME BaseOK, NEW r \in Rooms, NEW queued \in SUBSET QueuedIn(r), jobs' = Cancelling(queued)
  PROVE  /\ jobs' \in [Jobs -> JobRow(Rooms)]
         /\ \A j \in Jobs :
              /\ SameJob(jobs'[j], jobs[j])
              /\ \/ /\ jobs[j].room = r /\ jobs[j].status = "queued"
                    /\ jobs'[j].status = "cancelled" /\ j \in queued
                 \/ j \notin queued /\ jobs'[j] = jobs[j]
<1>1. \A j \in Jobs : /\ SettleJob(jobs, j, "cancelled")[j] \in JobRow(Rooms)
                      /\ SettleJob(jobs, j, "cancelled")[j].status = "cancelled"
                      /\ SameJob(SettleJob(jobs, j, "cancelled")[j], jobs[j])
  <2> SUFFICES ASSUME NEW j \in Jobs
               PROVE  /\ SettleJob(jobs, j, "cancelled")[j] \in JobRow(Rooms)
                      /\ SettleJob(jobs, j, "cancelled")[j].status = "cancelled"
                      /\ SameJob(SettleJob(jobs, j, "cancelled")[j], jobs[j])
    OBVIOUS
  <2>1. "cancelled" \in Terminal
    BY DEF Terminal
  <2>2. SettleJob(jobs, j, "cancelled") \in [Jobs -> JobRow(Rooms)]
    BY <2>1, SettleJobRows, Types DEF BaseOK
  <2>3. /\ SettleJob(jobs, j, "cancelled")[j].status = "cancelled"
        /\ SameJob(SettleJob(jobs, j, "cancelled")[j], jobs[j])
    BY <2>1, SettleJobRows, Types DEF BaseOK
  <2> QED
    BY <2>2, <2>3
<1>2. PICK q : q = [j \in Jobs |-> IF j \in queued
                                   THEN SettleJob(jobs, j, "cancelled")[j] ELSE jobs[j]]
  OBVIOUS
<1>3. \A j \in Jobs : q[j] \in JobRow(Rooms)
  BY <1>1, <1>2 DEF BaseOK, TypeOK
<1>4. jobs' = q /\ q \in [Jobs -> JobRow(Rooms)]
  BY <1>2, <1>3 DEF Cancelling
<1>5. \A j \in queued : j \in Jobs /\ jobs[j].room = r /\ jobs[j].status = "queued"
  BY DEF QueuedIn
<1>6. \A j \in Jobs : SameJob(jobs[j], jobs[j])
  BY DEF SameJob
<1> QED
  BY <1>1, <1>2, <1>4, <1>5, <1>6

\* The operator's request cancels the queued jobs of the room.
LEMMA HandoffJobs ==
  ASSUME BaseOK, NEW r \in Rooms, RequestHandoff(r)
  PROVE  /\ jobs' \in [Jobs -> JobRow(Rooms)]
         /\ \A j \in Jobs :
              /\ SameJob(jobs'[j], jobs[j])
              /\ \/ /\ jobs[j].room = r /\ jobs[j].status = "queued"
                    /\ jobs'[j].status = "cancelled"
                 \/ ~ (jobs[j].room = r /\ jobs[j].status = "queued") /\ jobs'[j] = jobs[j]
<1>1. PICK queued \in SUBSET QueuedIn(r) : queued = QueuedIn(r)
  OBVIOUS
<1>2. jobs' = Cancelling(queued)
  BY <1>1 DEF RequestHandoff
<1>3. \A j \in Jobs : j \in queued <=> jobs[j].room = r /\ jobs[j].status = "queued"
  BY <1>1 DEF QueuedIn
<1> QED
  BY <1>2, <1>3, CancellingJobs

\* A handoff keeps the tables well formed.
LEMMA HandoffBase == ASSUME BaseOK, NEW r \in Rooms, RequestHandoff(r) PROVE BaseOK'
<1>1. /\ arrived' = arrived /\ scenario' = scenario /\ inbound' = inbound
      /\ subject' = subject /\ lastMail' = lastMail /\ turns' = turns
  BY DEF RequestHandoff
<1>2. rooms' \in [Rooms -> RoomRow] /\ RoomsOK'
  <2>1. arrived[r] > 0 /\ "handoff" \in RoomStates
    BY DEF BaseOK, RoomsOK, RequestHandoff, RoomStates
  <2> QED
    BY <1>1, <2>1, StateSet DEF RequestHandoff
<1>3. /\ jobs' \in [Jobs -> JobRow(Rooms)]
      /\ \A j \in Jobs : /\ SameJob(jobs'[j], jobs[j])
                         /\ (jobs'[j].status = "absent") <=> (jobs[j].status = "absent")
  BY HandoffJobs
<1>4. JobsOK' /\ TurnsOK'
  <2>1. \A u \in Turns : turns'[u] # NoTurn => turns'[u].job = turns[u].job /\ turns[u] # NoTurn
    BY <1>1
  <2> QED
    BY <1>1, <1>3, <2>1, JobsStay
<1>5. handedOff' \in [Rooms -> BOOLEAN]
  BY DEF BaseOK, TypeOK, RequestHandoff
<1>6. FollowTypeOK'
  BY FollowSame DEF BaseOK, TypeOK, RequestHandoff
<1>7. MailOK'
  BY <1>1 DEF BaseOK, MailOK
<1> QED
  BY <1>1, <1>2, <1>3, <1>4, <1>5, <1>6, <1>7 DEF BaseOK, TypeOK, RequestHandoff

\* The operator's release leaves the jobs alone or inserts one.
ReleaseInserts(r, j) ==
  /\ Resumable(r) = {}
  /\ jobs[j].status = "absent" /\ j <= scenario.maxJobs
  /\ jobs' \in [Jobs -> JobRow(Rooms)]
  /\ jobs'[j].status = "queued" /\ jobs'[j].room = r
  /\ jobs'[j].revision = rooms[r].revision /\ jobs'[j].seq = rooms[r].inSeq
  /\ \A i \in Jobs \ {j} : jobs'[i] = jobs[i]
  /\ inbound' \in [Jobs -> Nat] /\ inbound'[j] = arrived[r]
  /\ \A i \in Jobs \ {j} : inbound'[i] = inbound[i]
  /\ subject' \in [Jobs -> Nat] /\ subject'[j] = lastMail[r]
  /\ \A i \in Jobs \ {j} : subject'[i] = subject[i]
  /\ released' = released \union {j}

\* A job made by a release is inserted.
LEMMA ResumesInserts ==
  ASSUME BaseOK, NEW r \in Rooms, NEW j \in Jobs, Resumable(r) = {}, Resumes(r, j)
  PROVE  ReleaseInserts(r, j)
<1>1. /\ NextJob(j)
      /\ jobs' = EnqueueJob(jobs, j, r, rooms[r].revision, rooms[r].inSeq, BasePriority, Now)
      /\ inbound' = [inbound EXCEPT ![j] = arrived[r]]
      /\ subject' = [subject EXCEPT ![j] = lastMail[r]]
      /\ released' = released \union {j}
  BY DEF Resumes
<1>2. PICK rev \in Nat, seq \in Nat : rev = rooms[r].revision /\ seq = rooms[r].inSeq
  BY DEF BaseOK, TypeOK, RoomRow
<1>3. PICK row : row = QueuedRow(r, rev, seq, BasePriority, Now)
  OBVIOUS
<1>4. /\ row \in JobRow(Rooms) /\ row.status = "queued" /\ row.room = r
      /\ row.revision = rev /\ row.seq = seq
  BY <1>3, QueuedRowIsRow DEF QueuedRow, BasePriority, Now
<1>5. jobs' = [jobs EXCEPT ![j] = row]
  BY <1>1, <1>2, <1>3 DEF EnqueueJob
<1>6. /\ jobs' \in [Jobs -> JobRow(Rooms)] /\ jobs'[j] = row
      /\ \A i \in Jobs \ {j} : jobs'[i] = jobs[i]
  BY <1>4, <1>5 DEF BaseOK, TypeOK
<1>7. /\ inbound' \in [Jobs -> Nat] /\ inbound'[j] = arrived[r]
      /\ \A i \in Jobs \ {j} : inbound'[i] = inbound[i]
      /\ subject' \in [Jobs -> Nat] /\ subject'[j] = lastMail[r]
      /\ \A i \in Jobs \ {j} : subject'[i] = subject[i]
  BY <1>1 DEF BaseOK, TypeOK
<1>8. jobs[j].status = "absent" /\ j <= scenario.maxJobs
  BY <1>1 DEF NextJob
<1> QED
  BY <1>1, <1>2, <1>4, <1>6, <1>7, <1>8 DEF ReleaseInserts

\* A release resumes what is left, or inserts one job.
LEMMA ReleaseJobs ==
  ASSUME BaseOK, NEW r \in Rooms, ReleaseHandoff(r)
  PROVE  \/ Resumable(r) # {} /\ UNCHANGED <<jobs, subject, inbound, released>>
         \/ \E j \in Jobs : ReleaseInserts(r, j)
BY ResumesInserts DEF ReleaseHandoff

\* Inserting the job keeps jobs and turns well formed.
LEMMA InsertsBase ==
  ASSUME BaseOK, NEW r \in Rooms, Exists(r), NEW j \in Jobs, ReleaseInserts(r, j),
         arrived' = arrived, turns' = turns \/ turns' = [t \in Turns |-> NoTurn]
  PROVE  /\ jobs' \in [Jobs -> JobRow(Rooms)] /\ inbound' \in [Jobs -> Nat]
         /\ subject' \in [Jobs -> Nat]
         /\ released' \subseteq Jobs /\ JobsOK' /\ TurnsOK'
<1>1. arrived[r] \in Nat /\ arrived[r] > 0 /\ lastMail[r] \in 0 .. arrived[r]
  BY DEF BaseOK, TypeOK, RoomsOK, MailOK
<1>2. /\ jobs' \in [Jobs -> JobRow(Rooms)] /\ inbound' \in [Jobs -> Nat]
      /\ jobs[j].status = "absent" /\ jobs'[j].status = "queued" /\ jobs'[j].room = r
      /\ inbound'[j] = arrived[r] /\ subject'[j] = lastMail[r]
      /\ subject' \in [Jobs -> Nat]
      /\ \A i \in Jobs \ {j} :
           jobs'[i] = jobs[i] /\ inbound'[i] = inbound[i] /\ subject'[i] = subject[i]
  BY DEF ReleaseInserts
<1>3. released' \subseteq Jobs
  BY DEF ReleaseInserts, BaseOK, TypeOK
<1>4. JobsOK'
  BY <1>1, <1>2 DEF BaseOK, JobsOK
<1>5. TurnsOK'
  <2>1. CASE turns' = [t \in Turns |-> NoTurn]
    BY <2>1, AllFree DEF TurnsOK
  <2>2. CASE turns' = turns
    <3>1. turns \in [Turns -> Turn \union {NoTurn}] /\ TurnsOK
      BY Types DEF BaseOK
    <3>2. \A t \in Turns : turns[t] # NoTurn =>
            turns[t].job \in Jobs /\ jobs[turns[t].job].status # "absent"
      BY <3>1 DEF TurnsOK, Turn
    <3>3. \A t \in Turns : turns[t] # NoTurn => jobs'[turns[t].job].status # "absent"
      BY <1>2, <3>2
    <3> QED
      BY <2>2, <3>3 DEF TurnsOK
  <2> QED
    BY <2>1, <2>2
<1> QED
  BY <1>2, <1>3, <1>4, <1>5

\* A release keeps the tables well formed.
LEMMA ReleaseBase == ASSUME BaseOK, NEW r \in Rooms, ReleaseHandoff(r) PROVE BaseOK'
<1>1. /\ arrived' = arrived /\ scenario' = scenario /\ turns' = turns
      /\ lastMail' = lastMail
  BY DEF ReleaseHandoff
<1>2. arrived[r] \in Nat /\ arrived[r] > 0
  BY DEF BaseOK, TypeOK, RoomsOK, ReleaseHandoff
<1>3. rooms' \in [Rooms -> RoomRow] /\ RoomsOK'
  <2>1. "queued" \in RoomStates
    BY DEF RoomStates
  <2> QED
    BY <1>1, <1>2, <2>1, StateSet DEF ReleaseHandoff
<1>4. handedOff' \in [Rooms -> BOOLEAN]
  BY DEF BaseOK, TypeOK, ReleaseHandoff
<1>5. FollowTypeOK'
  BY FollowSame DEF BaseOK, TypeOK, ReleaseHandoff
<1>6. /\ jobs' \in [Jobs -> JobRow(Rooms)] /\ inbound' \in [Jobs -> Nat]
      /\ subject' \in [Jobs -> Nat]
      /\ released' \subseteq Jobs /\ JobsOK' /\ TurnsOK'
  <2>1. CASE UNCHANGED <<jobs, subject, inbound, released>>
    <3>1. \A u \in Turns : turns'[u] # NoTurn => turns'[u].job = turns[u].job /\ turns[u] # NoTurn
      BY <1>1
    <3>2. JobsOK' /\ TurnsOK'
      BY <1>1, <2>1, <3>1, JobsSame DEF BaseOK, TypeOK
    <3> QED
      BY <2>1, <3>2 DEF BaseOK, TypeOK
  <2>2. Exists(r)
    BY DEF ReleaseHandoff
  <2> QED
    BY <1>1, <2>1, <2>2, ReleaseJobs, InsertsBase
<1>7. MailOK'
  BY <1>1 DEF BaseOK, MailOK
<1> QED
  BY <1>1, <1>3, <1>4, <1>5, <1>6, <1>7 DEF BaseOK, TypeOK, ReleaseHandoff

\* A retry queues the failed job and touches no other.
LEMMA RetriedJobs ==
  ASSUME BaseOK, NEW j \in Jobs, Retryable(j), jobs' = RetryFailedJob(jobs, j, Now)
  PROVE  /\ jobs' \in [Jobs -> JobRow(Rooms)] /\ jobs[j].status = "failed"
         /\ jobs'[j].status = "queued" /\ SameJob(jobs'[j], jobs[j])
         /\ \A i \in Jobs \ {j} : jobs'[i] = jobs[i]
<1>1. jobs \in [Jobs -> JobRow(Rooms)] /\ jobs[j].status = "failed" /\ Now \in Nat
  BY DEF BaseOK, TypeOK, Retryable, Now
<1>2. PICK q : q = RetryFailedJob(jobs, j, Now)
  OBVIOUS
<1>3. /\ q \in [Jobs -> JobRow(Rooms)] /\ q[j].status = "queued" /\ SameJob(q[j], jobs[j])
      /\ \A i \in Jobs \ {j} : q[i] = jobs[i]
  BY <1>1, <1>2, RetryFailedJobRows
<1> QED
  BY <1>1, <1>2, <1>3

\* A retry keeps the tables well formed.
LEMMA RetryBase == ASSUME BaseOK, NEW j \in Jobs, RetryRoomJob(j) PROVE BaseOK'
<1>1. /\ arrived' = arrived /\ scenario' = scenario /\ turns' = turns /\ inbound' = inbound
      /\ subject' = subject /\ lastMail' = lastMail
  BY DEF RetryRoomJob, history
<1>2. PICK r \in Rooms : r = jobs[j].room /\ arrived[r] > 0
  <2>1. jobs[j].status # "absent"
    BY DEF RetryRoomJob, Retryable
  <2>2. jobs[j].room \in Rooms /\ inbound[j] \in 1 .. arrived[jobs[j].room]
    BY <2>1 DEF BaseOK, JobsOK
  <2>3. arrived[jobs[j].room] \in Nat
    BY <2>2, Types DEF BaseOK
  <2> QED
    BY <2>2, <2>3
<1>3. rooms' \in [Rooms -> RoomRow] /\ RoomsOK'
  <2>1. "queued" \in RoomStates
    BY DEF RoomStates
  <2> QED
    BY <1>1, <1>2, <2>1, StateSet DEF RetryRoomJob
<1>4. /\ jobs' \in [Jobs -> JobRow(Rooms)] /\ jobs[j].status = "failed"
      /\ jobs'[j].status = "queued" /\ SameJob(jobs'[j], jobs[j])
      /\ \A i \in Jobs \ {j} : jobs'[i] = jobs[i]
  BY RetriedJobs DEF RetryRoomJob
<1>5. JobsOK' /\ TurnsOK'
  <2>1. \A u \in Turns : turns'[u] # NoTurn => turns'[u].job = turns[u].job /\ turns[u] # NoTurn
    BY <1>1
  <2>2. \A i \in Jobs : /\ SameJob(jobs'[i], jobs[i])
                        /\ (jobs'[i].status = "absent") <=> (jobs[i].status = "absent")
    BY <1>4 DEF SameJob
  <2> QED
    BY <1>1, <1>4, <2>1, <2>2, JobsStay
<1>6. retries' \in Nat
  BY DEF BaseOK, TypeOK, RetryRoomJob
<1>7. FollowTypeOK'
  BY FollowSame DEF BaseOK, TypeOK, RetryRoomJob
<1>8. MailOK'
  BY <1>1 DEF BaseOK, MailOK
<1> QED
  BY <1>1, <1>3, <1>4, <1>5, <1>6, <1>7, <1>8 DEF BaseOK, TypeOK, RetryRoomJob, history

\* Steps of the clock and the process: the jobs keep what they are for.
LEMMA RestBase ==
  ASSUME BaseOK, UNCHANGED <<rooms, outbox, lastMail, subject, inbound, released, history, retries,
                     scenario>>,
         FollowTypeOK', jobs' \in [Jobs -> JobRow(Rooms)],
         \A j \in Jobs : /\ SameJob(jobs'[j], jobs[j])
                         /\ (jobs'[j].status = "absent") <=> (jobs[j].status = "absent"),
         \/ turns' = turns
         \/ turns' = [t \in Turns |-> NoTurn]
  PROVE  BaseOK'
<1>1. /\ turns' \in [Turns -> Turn \union {NoTurn}]
      /\ \A u \in Turns : turns'[u] # NoTurn => turns'[u].job = turns[u].job /\ turns[u] # NoTurn
  BY DEF BaseOK, TypeOK
<1>2. arrived' = arrived
  BY DEF history
<1>3. JobsOK' /\ TurnsOK'
  BY <1>1, <1>2, JobsStay
<1>4. RoomsOK' /\ MailOK'
  BY <1>2 DEF BaseOK, RoomsOK, MailOK, Exists
<1> QED
  BY <1>1, <1>3, <1>4 DEF BaseOK, TypeOK, history

\* A lease that lapses changes its own row only, and not its status.
LEMMA LapsedJobs ==
  ASSUME BaseOK, NEW j \in Jobs, LeaseLapses(j)
  PROVE  /\ jobs' \in [Jobs -> JobRow(Rooms)]
         /\ \A i \in Jobs : /\ SameJob(jobs'[i], jobs[i])
                            /\ jobs'[i].status = jobs[i].status
         /\ \A i \in Jobs \ {j} : jobs'[i] = jobs[i]
<1>1. PICK row : row = [jobs[j] EXCEPT !.leaseExpiresAt = Now]
  OBVIOUS
<1>2. row \in JobRow(Rooms) /\ SameJob(row, jobs[j]) /\ row.status = jobs[j].status
  BY <1>1 DEF BaseOK, TypeOK, JobRow, Now, SameJob
<1>3. jobs' = [jobs EXCEPT ![j] = row]
  BY <1>1 DEF LeaseLapses
<1> QED
  BY <1>2, <1>3 DEF BaseOK, TypeOK, SameJob

\* A lease that lapses keeps the tables well formed.
LEMMA LeaseLapsesBase == ASSUME BaseOK, NEW j \in Jobs, LeaseLapses(j) PROVE BaseOK'
<1>1. /\ UNCHANGED <<rooms, outbox, lastMail, subject, inbound, released, history, retries,
                     scenario>>
      /\ turns' = turns /\ FollowTypeOK'
  BY FollowSame DEF BaseOK, TypeOK, LeaseLapses
<1> QED
  BY <1>1, LapsedJobs, RestBase

\* Recovery at start-up keeps the tables well formed.
LEMMA RecoverBase == ASSUME BaseOK, Recover PROVE BaseOK'
<1>1. /\ UNCHANGED <<rooms, outbox, lastMail, subject, inbound, released, history, retries,
                     scenario>>
      /\ turns' = turns /\ FollowTypeOK' /\ jobs' = Swept
  BY FollowSame DEF BaseOK, TypeOK, Recover
<1>2. /\ jobs' \in [Jobs -> JobRow(Rooms)]
      /\ \A j \in Jobs : /\ SameJob(jobs'[j], jobs[j])
                         /\ (jobs'[j].status = "absent") <=> (jobs[j].status = "absent")
  BY <1>1, SweptJobs DEF BaseOK
<1> QED
  BY <1>1, <1>2, RestBase

\* A crash keeps the tables well formed.
LEMMA CrashBase == ASSUME BaseOK, Crash PROVE BaseOK'
<1>1. FollowTypeOK'
  BY FollowSame DEF BaseOK, TypeOK, Crash
<1>2. /\ jobs' \in [Jobs -> JobRow(Rooms)]
      /\ \A j \in Jobs : /\ SameJob(jobs'[j], jobs[j])
                         /\ (jobs'[j].status = "absent") <=> (jobs[j].status = "absent")
  BY DEF BaseOK, TypeOK, SameJob, Crash
<1> QED
  BY <1>1, <1>2, RestBase DEF Crash

\* What a crash leaves of a step whose jobs are written and whose room is not.
LEMMA JobsTornCases ==
  ASSUME BaseOK, JobsTorn
  PROVE  /\ May("torn_write")
         /\ turns' = [t \in Turns |-> NoTurn]
         /\ UNCHANGED <<rooms, outbox, lastMail, history, followVars, scenario>>
         /\ \/ \E j \in NextCandidates(Swept, Now, NoneServed) :
                 /\ jobs' = LeaseJob(Swept, j, 0, Now)
                 /\ UNCHANGED <<subject, inbound, released, retries>>
            \/ \E r \in Rooms : \E queued \in SUBSET QueuedIn(r) :
                 /\ May("handoff") /\ jobs' = Cancelling(queued)
                 /\ UNCHANGED <<subject, inbound, released, retries>>
            \/ \E r \in Rooms, j \in Jobs :
                 /\ May("release") /\ Exists(r) /\ ReleaseInserts(r, j) /\ UNCHANGED retries
            \/ \E j \in Jobs :
                 /\ Retryable(j) /\ jobs' = RetryFailedJob(jobs, j, Now)
                 /\ retries' = retries + 1
                 /\ UNCHANGED <<subject, inbound, released>>
BY ResumesInserts DEF JobsTorn

\* Such a crash keeps the tables well formed.
LEMMA JobsTornBase == ASSUME BaseOK, JobsTorn PROVE BaseOK'
<1>1. /\ turns' = [t \in Turns |-> NoTurn]
      /\ UNCHANGED <<rooms, outbox, lastMail, history, followVars, scenario>>
      /\ arrived' = arrived
  BY JobsTornCases DEF history
<1>2. /\ turns' \in [Turns -> Turn \union {NoTurn}] /\ \A u \in Turns : turns'[u] = NoTurn
  BY <1>1, AllFree
<1>3. FollowTypeOK' /\ RoomsOK' /\ MailOK'
  BY <1>1, FollowSame DEF BaseOK, TypeOK, RoomsOK, MailOK, Exists
<1>4. ASSUME jobs' \in [Jobs -> JobRow(Rooms)], UNCHANGED <<subject, inbound, released>>,
             retries' \in Nat,
             \A j \in Jobs : /\ SameJob(jobs'[j], jobs[j])
                             /\ (jobs'[j].status = "absent") <=> (jobs[j].status = "absent")
      PROVE  BaseOK'
  <2>1. JobsOK' /\ TurnsOK'
    BY <1>1, <1>2, <1>4, JobsStay
  <2> QED
    BY <1>1, <1>2, <1>3, <1>4, <2>1 DEF BaseOK, TypeOK, history
<1>5. ASSUME NEW j \in NextCandidates(Swept, Now, NoneServed), jobs' = LeaseJob(Swept, j, 0, Now),
             UNCHANGED <<subject, inbound, released, retries>>
      PROVE  BaseOK'
  <2>1. /\ j \in Jobs /\ jobs' \in [Jobs -> JobRow(Rooms)] /\ jobs[j].status # "absent"
        /\ jobs'[j].status = "leased" /\ SameJob(jobs'[j], jobs[j])
        /\ \A i \in Jobs \ {j} : jobs'[i] = Swept[i] /\ SameJob(jobs'[i], jobs[i])
    BY <1>5, StartedJobs DEF BaseOK
  <2>2. \A i \in Jobs : /\ SameJob(jobs'[i], jobs[i])
                        /\ (jobs'[i].status = "absent") <=> (jobs[i].status = "absent")
    BY <2>1, SweptJobs DEF BaseOK
  <2> QED
    BY <1>4, <1>5, <2>1, <2>2 DEF BaseOK, TypeOK
<1>6. ASSUME NEW r \in Rooms, NEW queued \in SUBSET QueuedIn(r), jobs' = Cancelling(queued),
             UNCHANGED <<subject, inbound, released, retries>>
      PROVE  BaseOK'
  <2>1. /\ jobs' \in [Jobs -> JobRow(Rooms)]
        /\ \A j \in Jobs : /\ SameJob(jobs'[j], jobs[j])
                           /\ (jobs'[j].status = "absent") <=> (jobs[j].status = "absent")
    BY <1>6, CancellingJobs
  <2> QED
    BY <1>4, <1>6, <2>1 DEF BaseOK, TypeOK
<1>7. ASSUME NEW r \in Rooms, NEW j \in Jobs, Exists(r), ReleaseInserts(r, j), UNCHANGED retries
      PROVE  BaseOK'
  <2>1. /\ jobs' \in [Jobs -> JobRow(Rooms)] /\ inbound' \in [Jobs -> Nat]
        /\ subject' \in [Jobs -> Nat]
        /\ released' \subseteq Jobs /\ JobsOK' /\ TurnsOK'
    BY <1>1, <1>7, InsertsBase
  <2> QED
    BY <1>1, <1>2, <1>3, <1>7, <2>1 DEF BaseOK, TypeOK, history
<1>8. ASSUME NEW j \in Jobs, Retryable(j), jobs' = RetryFailedJob(jobs, j, Now),
             retries' = retries + 1, UNCHANGED <<subject, inbound, released>>
      PROVE  BaseOK'
  <2>1. /\ jobs' \in [Jobs -> JobRow(Rooms)] /\ jobs[j].status = "failed"
        /\ jobs'[j].status = "queued" /\ SameJob(jobs'[j], jobs[j])
        /\ \A i \in Jobs \ {j} : jobs'[i] = jobs[i]
    BY <1>8, RetriedJobs
  <2>2. \A i \in Jobs : /\ SameJob(jobs'[i], jobs[i])
                        /\ (jobs'[i].status = "absent") <=> (jobs[i].status = "absent")
    BY <2>1 DEF SameJob
  <2> QED
    BY <1>4, <1>8, <2>1, <2>2 DEF BaseOK, TypeOK
<1> QED
  BY <1>5, <1>6, <1>7, <1>8, JobsTornCases

-----------------------------------------------------------------------------
(* The steps of the follow-ups *)

FollowStep ==
  \/ RunDue /\ FollowUpStep
  \/ NextDay /\ FollowUpStep
  \/ \E r \in Rooms : \/ Pause(r) /\ FollowUpStep
                      \/ Resume(r) /\ FollowUpStep
                      \/ Cancel(r) /\ FollowUpStep
                      \/ RunNow(r) /\ FollowUpStep
  \/ FollowUpTorn

\* They change nothing of the rooms but their threads, unless the process dies.
LEMMA FollowStepRest ==
  ASSUME FollowStep
  PROVE  /\ UNCHANGED <<rooms, jobs, outbox, subject, inbound, released, history, retries,
                        scenario>>
         /\ \/ turns' = turns
            \/ turns' = [t \in Turns |-> NoTurn] /\ May("torn_run")
         /\ May("follow_ups") \/ May("torn_run")
         /\ \E unfiled \in SUBSET Rooms : FollowUpsFiled(unfiled)
<1>1. FollowUpTorn \/ FollowUpStep
  BY DEF FollowStep
<1>2. CASE FollowUpStep
  <2>1. MayMisdate \in SUBSET Rooms
    BY DEF MayMisdate
  <2> QED
    BY <1>2, <2>1 DEF FollowUpStep
<1>3. CASE FollowUpTorn
  <2>1. PICK r \in DueNow : \E unfiled \in SUBSET (MayMisdate \union {r}) : FollowUpsFiled(unfiled)
    BY <1>3 DEF FollowUpTorn
  <2>2. MayMisdate \union {r} \in SUBSET Rooms
    BY DueAreActive DEF MayMisdate
  <2> QED
    BY <1>3, <2>1, <2>2 DEF FollowUpTorn
<1> QED
  BY <1>1, <1>2, <1>3

\* The follow-up scheduler's own steps keep its types.
LEMMA FollowStepTyped == ASSUME FollowTypeOK, FollowStep PROVE FollowTypeOK'
BY RunDueTyped, NextDayTyped, PauseTyped, ResumeTyped, CancelTyped, RunNowTyped, RunTornTyped
   DEF FollowStep, FollowUpTorn

\* The follow-up scheduler's own steps keep the tables well formed.
LEMMA FollowStepBase == ASSUME BaseOK, FollowStep PROVE BaseOK'
<1>1. FollowTypeOK'
  BY FollowStepTyped DEF BaseOK, TypeOK
<1>2. /\ UNCHANGED <<rooms, jobs, outbox, subject, inbound, released, history, retries, scenario>>
      /\ turns' = turns \/ turns' = [t \in Turns |-> NoTurn]
      /\ arrived' = arrived
  BY FollowStepRest DEF history
<1>3. lastMail' \in [Rooms -> Nat] /\ MailOK'
  <2>1. \A r \in Rooms : lastMail'[r] = Own \/ lastMail'[r] = lastMail[r]
    BY FollowStepRest DEF FollowUpsFiled
  <2>2. lastMail' = [r \in Rooms |-> lastMail'[r]]
    BY FollowStepRest DEF FollowUpsFiled
  <2>3. \A r \in Rooms : /\ lastMail[r] \in Nat /\ arrived[r] \in Nat
                         /\ lastMail[r] \in 0 .. arrived[r]
    BY Types DEF BaseOK, MailOK
  <2>4. \A r \in Rooms : lastMail'[r] \in Nat /\ lastMail'[r] \in 0 .. arrived[r]
    BY <2>1, <2>3 DEF Own
  <2> QED
    BY <1>2, <2>2, <2>4 DEF MailOK
<1>4. JobsOK' /\ TurnsOK'
  <2>1. \A u \in Turns : turns'[u] # NoTurn => turns'[u].job = turns[u].job /\ turns[u] # NoTurn
    BY <1>2
  <2> QED
    BY <1>2, <2>1, JobsSame DEF BaseOK, TypeOK
<1>5. turns' \in [Turns -> Turn \union {NoTurn}]
  BY <1>2 DEF BaseOK, TypeOK
<1>6. RoomsOK'
  BY <1>2 DEF BaseOK, RoomsOK, Exists
<1> QED
  BY <1>1, <1>2, <1>3, <1>4, <1>5, <1>6 DEF BaseOK, TypeOK, history

\* A stuttering step keeps the tables well formed.
LEMMA StutterBase == ASSUME BaseOK, UNCHANGED vars PROVE BaseOK'
<1>1. /\ UNCHANGED <<rooms, outbox, lastMail, subject, inbound, released, history, retries,
                     scenario>>
      /\ turns' = turns /\ jobs' = jobs /\ UNCHANGED followVars
  BY DEF vars
<1>2. FollowTypeOK'
  BY <1>1, FollowSame DEF BaseOK, TypeOK
<1>3. /\ jobs' \in [Jobs -> JobRow(Rooms)]
      /\ \A j \in Jobs : /\ SameJob(jobs'[j], jobs[j])
                         /\ (jobs'[j].status = "absent") <=> (jobs[j].status = "absent")
  BY <1>1 DEF BaseOK, TypeOK, SameJob
<1> QED
  BY <1>1, <1>2, <1>3, RestBase

\* The tables are well formed at first.
LEMMA InitBase == Init => BaseOK
<1> SUFFICES ASSUME Init PROVE BaseOK
  OBVIOUS
<1>1. NoRoomRow \in RoomRow
  BY DEF NoRoomRow, RoomRow, RoomStates
<1>2. jobs \in [Jobs -> JobRow(Rooms)] /\ \A j \in Jobs : jobs[j] = NoRow
  BY NoRowIsRow DEF Init
<1>3. FollowTypeOK
  BY FollowUpsAssumption DEF Init, FollowInit, FollowTypeOK
<1>4. TypeOK
  BY <1>1, <1>2, <1>3 DEF Init, TypeOK, Own
<1>5. JobsOK /\ TurnsOK
  BY <1>2 DEF Init, JobsOK, TurnsOK, NoRow
<1>6. RoomsOK /\ MailOK
  <2>1. \A r \in Rooms : Len(scenario.mail[r]) \in Nat
    BY <1>4, ScenarioFacts
  <2> QED
    BY <2>1 DEF Init, RoomsOK, MailOK, Exists, NoRoomRow, Own
<1> QED
  BY <1>4, <1>5, <1>6 DEF BaseOK

\* Every step of the specification is one of these.
LEMMA StepCases ==
  ASSUME Next
  PROVE  \/ \E r \in Rooms, j \in Jobs : Accepted(r, j)
         \/ \E r \in Rooms : \/ IngestHeld(r) \/ IngestBlocked(r) \/ IngestDuplicate(r)
                             \/ IngestTorn(r) \/ IngestUncounted(r)
                             \/ RequestHandoff(r) \/ ReleaseHandoff(r)
         \/ \E t \in Turns : StartTurn(t) \/ EndTurn(t) \/ ConcludeTorn(t) \/ FailTorn(t)
         \/ \E j \in Jobs : RetryRoomJob(j) \/ LeaseLapses(j)
         \/ JobsTorn \/ Recover \/ Crash \/ FollowStep
BY DEF Next, FollowStep, Accepted

\* Every step keeps the tables well formed.
LEMMA NextBase == ASSUME BaseOK, [Next]_vars PROVE BaseOK'
<1>1. ASSUME NEW t \in Turns, EndTurn(t) PROVE BaseOK'
  BY <1>1, EndCases, PreludeEndsBase, PreludeFailsBase, PostRunStartsBase, ConcludesBase, FailsBase
<1>2. CASE Next
  BY <1>1, <1>2, StepCases, AcceptedBase, HeldBase, BlockedBase, DuplicateBase, IngestTornBase,
     UncountedBase, HandoffBase, ReleaseBase, StartBase, ConcludeTornBase, FailTornBase,
     RetryBase, LeaseLapsesBase, JobsTornBase, RecoverBase, CrashBase, FollowStepBase
<1> QED
  BY <1>2, StutterBase

\* The tables fit together, whatever fails.
THEOREM TablesFit == Spec => []BaseOK
<1>1. BaseOK /\ [Next]_vars => BaseOK'
  BY NextBase
<1> QED
  BY InitBase, <1>1, PTL DEF Spec

\* Every variable keeps its type.
THEOREM TypeCorrect == Spec => []TypeOK
<1>1. BaseOK => TypeOK
  BY DEF BaseOK
<1> QED
  BY TablesFit, <1>1, PTL

-----------------------------------------------------------------------------
(* What most steps have in common *)

\* Every job is still for the same message.
JobsAlike ==
  \A j \in Jobs : /\ SameJob(jobs'[j], jobs[j])
                  /\ (jobs'[j].status = "absent") <=> (jobs[j].status = "absent")

\* No turn starts, and every turn keeps its job and the row it read.
TurnsAlike ==
  \A t \in Turns : turns'[t] # NoTurn =>
    /\ turns[t] # NoTurn
    /\ turns'[t].job = turns[t].job /\ turns'[t].room = turns[t].room
    /\ turns[t].at # "prelude" => turns'[t].at # "prelude"

ArrivedGrows == arrived' \in [Rooms -> Nat] /\ \A r \in Rooms : arrived[r] <= arrived'[r]

\* At most the state of a room is written.
StatesOnly ==
  \A r \in Rooms : /\ rooms'[r].revision = rooms[r].revision
                   /\ rooms'[r].inSeq = rooms[r].inSeq
                   /\ rooms'[r].outSeq = rooms[r].outSeq

\* A crash that leaves jobs leased, cancelled or retried and their room behind.
JobsCut ==
  /\ May("torn_write")
  /\ turns' = [t \in Turns |-> NoTurn]
  /\ UNCHANGED <<rooms, outbox, lastMail, subject, inbound, released, history, followVars,
                 scenario>>
  /\ JobsAlike

\* A release, cut short or not, makes a job.
Inserts(r, j) == (ReleaseHandoff(r) \/ JobsTorn) /\ Exists(r) /\ ReleaseInserts(r, j)

\* The steps that neither insert a job nor start a turn.
Proceeds ==
  \/ \E r \in Rooms : \/ IngestHeld(r) \/ IngestBlocked(r) \/ IngestDuplicate(r)
                      \/ IngestTorn(r) \/ IngestUncounted(r) \/ RequestHandoff(r)
                      \/ ReleaseHandoff(r) /\ UNCHANGED <<jobs, subject, inbound, released>>
  \/ \E t \in Turns : EndTurn(t) \/ ConcludeTorn(t) \/ FailTorn(t)
  \/ \E j \in Jobs : RetryRoomJob(j) \/ LeaseLapses(j)
  \/ JobsCut \/ Recover \/ Crash \/ FollowStep
  \/ UNCHANGED vars

\* Unchanged jobs are alike.
LEMMA JobsUnchanged == ASSUME jobs' = jobs PROVE JobsAlike
BY DEF JobsAlike, SameJob

\* The end of a turn changes no job's identity and no arrival.
LEMMA EndTurnAlike ==
  ASSUME BaseOK, NEW t \in Turns, EndTurn(t)
  PROVE  /\ JobsAlike /\ TurnsAlike
         /\ UNCHANGED <<subject, inbound, released, arrived, blocked, handedOff, retries,
                        scenario>>
<1>0. ~ Free(t) /\ turns \in [Turns -> Turn \union {NoTurn}]
  BY EndCases DEF BaseOK, TypeOK
<1>1. CASE PreludeEnds(t)
  <2>1. PICK new : new = [turns[t] EXCEPT !.at = "executing", !.results = ~ Superseded(t)]
    OBVIOUS
  <2>2. new.job = turns[t].job /\ new.room = turns[t].room /\ new.at = "executing"
    BY <1>0, <2>1, TurnFacts DEF Turn
  <2>3. turns' = [turns EXCEPT ![t] = new]
    BY <1>0, <1>1, <2>1, TurnFacts DEF PreludeEnds
  <2>4. TurnsAlike
    BY <1>0, <2>2, <2>3 DEF TurnsAlike, Free
  <2> QED
    BY <1>1, <2>4, JobsUnchanged DEF PreludeEnds, history
<1>2. CASE PreludeFails(t)
  <2>1. TurnsAlike
    BY <1>0, <1>2 DEF PreludeFails, Leave, TurnsAlike
  <2> QED
    BY <1>2, <2>1, JobsUnchanged DEF PreludeFails, history
<1>3. CASE PostRunStarts(t)
  <2>1. PICK new : new = [turns[t] EXCEPT !.at = "postrun", !.results = TRUE]
    OBVIOUS
  <2>2. new.job = turns[t].job /\ new.room = turns[t].room /\ new.at = "postrun"
    BY <1>0, <2>1, TurnFacts DEF Turn
  <2>3. turns' = [turns EXCEPT ![t] = new]
    BY <1>0, <1>3, <2>1, TurnFacts DEF PostRunStarts
  <2>4. TurnsAlike
    BY <1>0, <2>2, <2>3 DEF TurnsAlike, Free
  <2> QED
    BY <1>3, <2>4, JobsUnchanged DEF PostRunStarts, TurnRest, history
<1>4. ASSUME NEW status \in Terminal, jobs' = SettleJob(jobs, turns[t].job, status), Leave(t)
      PROVE  JobsAlike /\ TurnsAlike
  <2>1. JobsAlike
    BY <1>0, <1>4, SettledTurn, TurnFacts DEF JobsAlike, SameJob, Terminal
  <2>2. TurnsAlike
    BY <1>0, <1>4 DEF Leave, TurnsAlike
  <2> QED
    BY <2>1, <2>2
<1>5. ASSUME NEW state \in RoomStates, Concludes(t, state)
      PROVE  JobsAlike /\ TurnsAlike /\ TurnRest
  BY <1>4, <1>5 DEF Concludes, Conclude, Terminal
<1>6. ASSUME NEW state \in RoomStates, Fails(t, state)
      PROVE  JobsAlike /\ TurnsAlike /\ TurnRest
  BY <1>4, <1>6 DEF Fails, Failed, Terminal
<1> QED
  BY <1>1, <1>2, <1>3, <1>5, <1>6, EndCases DEF TurnRest, history

\* Turns that stay, or all end, are alike.
LEMMA TurnsUnchanged ==
  ASSUME turns' = turns \/ turns' = [t \in Turns |-> NoTurn]
  PROVE  TurnsAlike
BY DEF TurnsAlike

\* A turn puts its reply into the outbox.
Emitted(t) ==
  /\ ~ Free(t) /\ turns[t].at # "prelude" /\ ~ Superseded(t)
  /\ turns[t].at = "executing" => rooms[RoomOf(t)].state # "handoff"
  /\ outbox' = Append(outbox, Reply(t))

\* It does once it has got as far as its reply.
LEMMA AnswersEmit ==
  ASSUME NEW t \in Turns, Answers(t), outbox' = Append(outbox, Reply(t))
  PROVE  Emitted(t)
BY DEF Answers, Emits, Emitted, At

\* A step whose jobs are written and whose room is not makes a job or is JobsCut.
LEMMA JobsTornKinds ==
  ASSUME BaseOK, JobsTorn
  PROVE  JobsCut \/ \E r \in Rooms, j \in Jobs : Inserts(r, j)
<1>1. ASSUME JobsAlike, UNCHANGED <<subject, inbound, released>> PROVE JobsCut
  BY <1>1, JobsTornCases DEF JobsCut
<1>2. ASSUME NEW j \in NextCandidates(Swept, Now, NoneServed), jobs' = LeaseJob(Swept, j, 0, Now)
      PROVE  JobsAlike
  BY <1>2, StartedJobs, SweptJobs DEF BaseOK, JobsAlike
<1>3. ASSUME NEW r \in Rooms, NEW queued \in SUBSET QueuedIn(r), jobs' = Cancelling(queued)
      PROVE  JobsAlike
  BY <1>3, CancellingJobs DEF JobsAlike
<1>4. ASSUME NEW j \in Jobs, Retryable(j), jobs' = RetryFailedJob(jobs, j, Now)
      PROVE  JobsAlike
  BY <1>4, RetriedJobs DEF JobsAlike, SameJob
<1>5. ASSUME NEW r \in Rooms, NEW j \in Jobs, Exists(r), ReleaseInserts(r, j)
      PROVE  Inserts(r, j)
  BY <1>5 DEF Inserts
<1> QED
  BY <1>1, <1>2, <1>3, <1>4, <1>5, JobsTornCases

\* A turn that is lost in a step settles its own job at most.
LEMMA LostTurn ==
  ASSUME BaseOK, NEW t \in Turns, ConcludeTorn(t) \/ FailTorn(t)
  PROVE  /\ ~ Free(t) /\ May("torn_write") /\ turns' = [u \in Turns |-> NoTurn]
         /\ UNCHANGED <<subject, inbound, released, history, retries, followVars, scenario>>
         /\ JobsAlike
         /\ \A j \in Jobs \ {turns[t].job} : jobs'[j] = jobs[j]
         /\ \/ jobs' = jobs
            \/ jobs'[turns[t].job].status = "completed" /\ Emitted(t)
            \/ jobs'[turns[t].job].status = "failed" /\ FailTorn(t)
<1>1. /\ ~ Free(t) /\ May("torn_write") /\ turns' = [u \in Turns |-> NoTurn]
      /\ UNCHANGED <<subject, inbound, released, history, retries, followVars, scenario>>
  BY ConcludeTornCases DEF FailTorn, At
<1>2. PICK j \in Jobs : j = turns[t].job /\ jobs[j].status # "absent"
  BY <1>1, TurnFacts
<1>3. ASSUME NEW status \in Terminal, jobs' = SettleJob(jobs, j, status)
      PROVE  /\ jobs'[j].status = status /\ SameJob(jobs'[j], jobs[j])
             /\ \A i \in Jobs \ {j} : jobs'[i] = jobs[i]
             /\ JobsAlike
  <2>1. PICK p \in [Jobs -> JobRow(Rooms)] : p = jobs
    BY Types DEF BaseOK
  <2>2. /\ jobs'[j].status = status /\ SameJob(jobs'[j], jobs[j])
        /\ \A i \in Jobs \ {j} : jobs'[i] = jobs[i]
    BY <1>3, <2>1, SettleJobRows
  <2>3. status # "absent"
    BY DEF Terminal
  <2> QED
    BY <1>2, <2>2, <2>3 DEF JobsAlike, SameJob
<1>4. "completed" \in Terminal /\ "failed" \in Terminal
  BY DEF Terminal
<1>5. CASE jobs' = jobs
  BY <1>1, <1>5, JobsUnchanged
<1>6. CASE ConcludeTorn(t) /\ jobs' # jobs
  <2>1. jobs' = SettleJob(jobs, j, "completed") /\ Emitted(t)
    BY <1>2, <1>6, ConcludeTornCases, AnswersEmit
  <2> QED
    BY <1>1, <1>2, <1>3, <1>4, <2>1
<1>7. CASE FailTorn(t)
  <2>1. jobs' = SettleJob(jobs, j, "failed")
    BY <1>2, <1>7 DEF FailTorn
  <2> QED
    BY <1>1, <1>2, <1>3, <1>4, <1>7, <2>1
<1> QED
  BY <1>5, <1>6, <1>7

\* So is every step but an accepted message, a release and a start.
LEMMA ProceedsAlike ==
  ASSUME BaseOK, Proceeds
  PROVE  /\ JobsAlike /\ TurnsAlike /\ ArrivedGrows
         /\ subject' = subject /\ inbound' = inbound /\ scenario' = scenario
<1>1. ASSUME NEW r \in Rooms, Arrives(r) PROVE ArrivedGrows
  BY <1>1, ArrivalTyped DEF ArrivedGrows
<1>2. ASSUME arrived' = arrived PROVE ArrivedGrows
  BY <1>2 DEF ArrivedGrows, BaseOK, TypeOK
<1>3. ASSUME NEW r \in Rooms, IngestHeld(r) \/ IngestBlocked(r)
      PROVE  /\ JobsAlike /\ TurnsAlike /\ ArrivedGrows
             /\ subject' = subject /\ inbound' = inbound /\ scenario' = scenario
  BY <1>1, <1>3, JobsUnchanged, TurnsUnchanged DEF IngestHeld, IngestBlocked
<1>4. ASSUME NEW r \in Rooms, IngestDuplicate(r)
      PROVE  /\ JobsAlike /\ TurnsAlike /\ ArrivedGrows
             /\ subject' = subject /\ inbound' = inbound /\ scenario' = scenario
  BY <1>2, <1>4, JobsUnchanged, TurnsUnchanged DEF IngestDuplicate, history
<1>5. ASSUME NEW r \in Rooms, IngestTorn(r) \/ IngestUncounted(r)
      PROVE  /\ JobsAlike /\ TurnsAlike /\ ArrivedGrows
             /\ subject' = subject /\ inbound' = inbound /\ scenario' = scenario
  BY <1>1, <1>5, JobsUnchanged, TurnsUnchanged DEF IngestTorn, IngestUncounted
<1>6. ASSUME NEW r \in Rooms, RequestHandoff(r)
      PROVE  /\ JobsAlike /\ TurnsAlike /\ ArrivedGrows
             /\ subject' = subject /\ inbound' = inbound /\ scenario' = scenario
  <2>1. JobsAlike
    BY <1>6, HandoffJobs DEF JobsAlike
  <2> QED
    BY <1>2, <1>6, <2>1, TurnsUnchanged DEF RequestHandoff
<1>7. ASSUME NEW r \in Rooms, ReleaseHandoff(r), UNCHANGED <<jobs, subject, inbound, released>>
      PROVE  /\ JobsAlike /\ TurnsAlike /\ ArrivedGrows
             /\ subject' = subject /\ inbound' = inbound /\ scenario' = scenario
  BY <1>2, <1>7, JobsUnchanged, TurnsUnchanged DEF ReleaseHandoff
<1>8. ASSUME NEW t \in Turns, EndTurn(t)
      PROVE  /\ JobsAlike /\ TurnsAlike /\ ArrivedGrows
             /\ subject' = subject /\ inbound' = inbound /\ scenario' = scenario
  BY <1>2, <1>8, EndTurnAlike
<1>9. ASSUME NEW t \in Turns, ConcludeTorn(t) \/ FailTorn(t)
      PROVE  /\ JobsAlike /\ TurnsAlike /\ ArrivedGrows
             /\ subject' = subject /\ inbound' = inbound /\ scenario' = scenario
  BY <1>2, <1>9, LostTurn, TurnsUnchanged DEF history
<1>10. ASSUME NEW j \in Jobs, RetryRoomJob(j)
       PROVE  /\ JobsAlike /\ TurnsAlike /\ ArrivedGrows
              /\ subject' = subject /\ inbound' = inbound /\ scenario' = scenario
  <2>1. /\ jobs[j].status = "failed" /\ jobs'[j].status = "queued" /\ SameJob(jobs'[j], jobs[j])
        /\ \A i \in Jobs \ {j} : jobs'[i] = jobs[i]
    BY <1>10, RetriedJobs DEF RetryRoomJob
  <2>2. JobsAlike
    BY <2>1 DEF JobsAlike, SameJob
  <2> QED
    BY <1>2, <1>10, <2>2, TurnsUnchanged DEF RetryRoomJob, history
<1>11. ASSUME NEW j \in Jobs, LeaseLapses(j)
       PROVE  /\ JobsAlike /\ TurnsAlike /\ ArrivedGrows
              /\ subject' = subject /\ inbound' = inbound /\ scenario' = scenario
  <2>1. JobsAlike
    BY <1>11, LapsedJobs DEF JobsAlike
  <2> QED
    BY <1>2, <1>11, <2>1, TurnsUnchanged DEF LeaseLapses, history
<1>12. ASSUME Recover
       PROVE  /\ JobsAlike /\ TurnsAlike /\ ArrivedGrows
              /\ subject' = subject /\ inbound' = inbound /\ scenario' = scenario
  <2>1. JobsAlike
    BY <1>12, SweptJobs DEF BaseOK, Recover, JobsAlike
  <2> QED
    BY <1>2, <1>12, <2>1, TurnsUnchanged DEF Recover, history
<1>13. ASSUME Crash
       PROVE  /\ JobsAlike /\ TurnsAlike /\ ArrivedGrows
              /\ subject' = subject /\ inbound' = inbound /\ scenario' = scenario
  BY <1>2, <1>13, JobsUnchanged, TurnsUnchanged DEF Crash, history
<1>14. ASSUME FollowStep
       PROVE  /\ JobsAlike /\ TurnsAlike /\ ArrivedGrows
              /\ subject' = subject /\ inbound' = inbound /\ scenario' = scenario
  BY <1>2, <1>14, FollowStepRest, JobsUnchanged, TurnsUnchanged DEF history
<1>16. ASSUME JobsCut
       PROVE  /\ JobsAlike /\ TurnsAlike /\ ArrivedGrows
              /\ subject' = subject /\ inbound' = inbound /\ scenario' = scenario
  BY <1>2, <1>16, TurnsUnchanged DEF JobsCut, history
<1>15. ASSUME UNCHANGED vars
       PROVE  /\ JobsAlike /\ TurnsAlike /\ ArrivedGrows
              /\ subject' = subject /\ inbound' = inbound /\ scenario' = scenario
  BY <1>2, <1>15, JobsUnchanged, TurnsUnchanged DEF vars, history
<1> QED
  BY <1>3, <1>4, <1>5, <1>6, <1>7, <1>8, <1>9, <1>10, <1>11, <1>12, <1>13, <1>14, <1>15,
     <1>16 DEF Proceeds

\* The four kinds of steps.
LEMMA Kinds ==
  ASSUME BaseOK, [Next]_vars
  PROVE  \/ Proceeds
         \/ \E r \in Rooms, j \in Jobs : Accepted(r, j)
         \/ \E r \in Rooms, j \in Jobs : Inserts(r, j)
         \/ \E t \in Turns : StartTurn(t)
<1>1. ASSUME NEW r \in Rooms, ReleaseHandoff(r)
      PROVE  Proceeds \/ \E j \in Jobs : Inserts(r, j)
  <2>1. Exists(r)
    BY <1>1 DEF ReleaseHandoff
  <2> QED
    BY <1>1, <2>1, ReleaseJobs DEF Proceeds, Inserts
<1>2. JobsTorn => Proceeds \/ \E r \in Rooms, j \in Jobs : Inserts(r, j)
  BY JobsTornKinds DEF Proceeds
<1>3. CASE Next
  BY <1>1, <1>2, <1>3, StepCases DEF Proceeds
<1>4. CASE UNCHANGED vars
  BY <1>4 DEF Proceeds
<1> QED
  BY <1>3, <1>4

\* No other step does.
LEMMA OutboxCases ==
  ASSUME BaseOK, [Next]_vars
  PROVE  \/ outbox' = outbox
         \/ \E t \in Turns : Emitted(t) /\ (EndTurn(t) \/ ConcludeTorn(t))
<1>2. ASSUME NEW t \in Turns, ~ Free(t), NEW state, Concludes(t, state)
      PROVE  outbox' = outbox \/ Emitted(t)
  BY <1>2 DEF Concludes, Conclude, Sends, Emits, Emitted, At
<1>3. ASSUME NEW t \in Turns, ~ Free(t), NEW state, Fails(t, state)
      PROVE  outbox' = outbox \/ Emitted(t)
  BY <1>3, AnswersEmit DEF Fails, Sends
<1>4. ASSUME NEW t \in Turns, EndTurn(t)
      PROVE  outbox' = outbox \/ Emitted(t)
  <2>1. CASE PreludeEnds(t) \/ PreludeFails(t) \/ PostRunStarts(t)
    BY <2>1 DEF PreludeEnds, PreludeFails, PostRunStarts
  <2> QED
    BY <1>2, <1>3, <1>4, <2>1, EndCases
<1>5. ASSUME NEW t \in Turns, ConcludeTorn(t)
      PROVE  outbox' = outbox \/ Emitted(t)
  BY <1>5, ConcludeTornCases, AnswersEmit
<1>6. CASE Next
  <2>1. ASSUME NEW r \in Rooms, NEW j \in Jobs, Accepted(r, j) PROVE outbox' = outbox
    BY <2>1, AcceptedFacts
  <2>2. ASSUME NEW r \in Rooms, IngestHeld(r) \/ IngestBlocked(r) \/ IngestDuplicate(r)
        PROVE  outbox' = outbox
    BY <2>2 DEF IngestHeld, IngestBlocked, IngestDuplicate
  <2>3. ASSUME NEW r \in Rooms, IngestTorn(r) \/ IngestUncounted(r) \/ RequestHandoff(r)
                               \/ ReleaseHandoff(r)
        PROVE  outbox' = outbox
    BY <2>3 DEF IngestTorn, IngestUncounted, RequestHandoff, ReleaseHandoff
  <2>4. ASSUME NEW t \in Turns, StartTurn(t) \/ FailTorn(t) PROVE outbox' = outbox
    BY <2>4 DEF StartTurn, FailTorn
  <2>5. ASSUME NEW j \in Jobs, RetryRoomJob(j) \/ LeaseLapses(j) PROVE outbox' = outbox
    BY <2>5 DEF RetryRoomJob, LeaseLapses
  <2>6. ASSUME JobsTorn \/ Recover \/ Crash \/ FollowStep PROVE outbox' = outbox
    BY <2>6, FollowStepRest DEF JobsTorn, Recover, Crash
  <2> QED
    BY <1>4, <1>5, <1>6, <2>1, <2>2, <2>3, <2>4, <2>5, <2>6, StepCases
<1> QED
  BY <1>6 DEF vars

\* A reply is appended: the earlier entries stay.
LEMMA AppendReply ==
  ASSUME BaseOK, NEW t \in Turns, Emitted(t)
  PROVE  /\ outbox \in Seq(OutboxEntry) /\ Reply(t) \in OutboxEntry
         /\ Len(outbox) \in Nat /\ Len(outbox') = Len(outbox) + 1
         /\ outbox'[Len(outbox) + 1] = Reply(t)
         /\ \A n \in Replies : outbox'[n] = outbox[n]
<1>1. outbox \in Seq(OutboxEntry) /\ Reply(t) \in OutboxEntry
  BY ReplyTyped, Types DEF BaseOK, Emitted
<1> QED
  BY <1>1 DEF Emitted, Replies

-----------------------------------------------------------------------------
(* What becomes of the state of a room *)

\* Writing a row leaves the other rooms alone.
LEMMA StateWritten ==
  ASSUME BaseOK, NEW r \in Rooms, NEW row, rooms' = [rooms EXCEPT ![r] = row]
  PROVE  /\ rooms'[r] = row
         /\ \A q \in Rooms \ {r} : rooms'[q] = rooms[q]
BY DEF BaseOK, TypeOK

\* Setting a state sets it, and in that room only.
LEMMA StateSetTo ==
  ASSUME BaseOK, NEW r \in Rooms, NEW state \in RoomStates, SetState(r, state)
  PROVE  /\ rooms'[r].state = state
         /\ \A q \in Rooms \ {r} : rooms'[q] = rooms[q]
<1>1. PICK row : row = [rooms[r] EXCEPT !.state = state]
  OBVIOUS
<1>2. row.state = state
  BY <1>1, StateTyped DEF BaseOK, TypeOK
<1>3. rooms' = [rooms EXCEPT ![r] = row]
  BY <1>1 DEF SetState
<1> QED
  BY <1>2, <1>3, StateWritten

\* A bumped row has the state it was given.
LEMMA StateBumped ==
  ASSUME BaseOK, NEW r \in Rooms, NEW state \in RoomStates,
         rooms' = [rooms EXCEPT ![r] = Bumped(r, state)]
  PROVE  /\ rooms'[r].state = state
         /\ \A q \in Rooms \ {r} : rooms'[q] = rooms[q]
<1>1. PICK row : row = Bumped(r, state)
  OBVIOUS
<1>2. row.state = state
  BY <1>1, BumpedTyped DEF BaseOK
<1> QED
  BY <1>1, <1>2, StateWritten

\* What may take a room out of the state handoff other than its release.
Disturbed(q) ==
  \/ rooms[q].state # "handoff"
  \/ May("policy_block") \/ May("turn_fails") \/ May("disk_fails") \/ May("torn_write")
  \/ scenario.workers # {}
  \/ \E t \in Turns : ~ Free(t) /\ (turns[t].at # "executing" \/ turns[t].results)
  \/ \E j \in Jobs : jobs[j].room = q /\ (jobs[j].status = "failed" \/ Swept[j].status = "queued")

\* What a step makes of the state of a room: no row is lost, and a room leaves its
\* handoff by its release or by a disturbance.
StateSteps(q) ==
  /\ rooms[q].state # "none" => rooms'[q].state # "none"
  /\ \/ rooms'[q].state = rooms[q].state /\ handedOff'[q] = handedOff[q]
     \/ rooms'[q].state = "handoff" /\ handedOff'[q]
     \/ rooms'[q].state # "handoff" /\ ~ handedOff'[q]
     \/ rooms'[q].state # "handoff" /\ handedOff'[q] = handedOff[q] /\ Disturbed(q)

\* The end of a turn moves a room's state as StateSteps says.
LEMMA EndTurnStates ==
  ASSUME BaseOK, NEW t \in Turns, EndTurn(t), NEW q \in Rooms
  PROVE  StateSteps(q)
<1>0. ~ Free(t) /\ handedOff' = handedOff
  BY EndCases, EndTurnAlike
<1>1. PICK r \in Rooms : r = RoomOf(t)
  BY <1>0, TurnFacts
<1>2. turns[t].room \in RoomRow /\ rooms[r] \in RoomRow
  BY <1>0, <1>1, TurnFacts
<1>3. CASE PreludeEnds(t)
  <2>1. PICK row : row = [turns[t].room EXCEPT !.state = "running"]
    OBVIOUS
  <2>2. row.state = "running"
    BY <1>2, <2>1, StateTyped DEF RoomStates
  <2>3. turns[t].at # "executing"
    BY <1>3 DEF PreludeEnds, At
  <2>4. rooms' = [rooms EXCEPT ![r] = row]
    BY <1>1, <1>3, <2>1 DEF PreludeEnds
  <2> QED
    BY <1>0, <2>2, <2>3, <2>4, StateWritten DEF StateSteps, Disturbed
<1>4. CASE PreludeFails(t)
  BY <1>0, <1>4 DEF PreludeFails, StateSteps
<1>5. CASE PostRunStarts(t)
  <2>1. scenario.workers # {}
    BY <1>5 DEF PostRunStarts, MayHave
  <2>2. SetState(r, "waiting_workers")
    BY <1>1, <1>5 DEF PostRunStarts
  <2>3. "waiting_workers" \in RoomStates
    BY DEF RoomStates
  <2> QED
    BY <1>0, <2>1, <2>2, <2>3, StateSetTo DEF StateSteps, Disturbed
<1>6. ASSUME NEW state \in RoomStates, Concludes(t, state)
      PROVE  StateSteps(q)
  <2>1. PICK row : row = IF Emits(t, state) THEN Answered(t)
                         ELSE [rooms[r] EXCEPT !.state = state]
    OBVIOUS
  <2>2. row.state = IF Emits(t, state) THEN "done" ELSE state
    BY <1>2, <2>1, StateTyped, AnsweredTyped
  <2>3. rooms' = [rooms EXCEPT ![r] = row]
    BY <1>1, <1>6, <2>1 DEF Concludes, Conclude
  <2>4. \/ turns[t].at = "executing" /\ state = rooms[r].state
        \/ turns[t].at # "executing" /\ state = "replying"
    BY <1>1, <1>6 DEF Concludes, At
  <2>5. Emits(t, state) => state # "handoff"
    BY DEF Emits
  <2> QED
    BY <1>0, <2>2, <2>3, <2>4, <2>5, StateWritten DEF StateSteps, Disturbed
<1>7. ASSUME NEW state \in RoomStates, Fails(t, state)
      PROVE  StateSteps(q)
  <2>1. PICK row : row = IF Superseded(t) THEN [rooms[r] EXCEPT !.state = state]
                         ELSE [turns[t].room EXCEPT !.state = "failed"]
    OBVIOUS
  <2>2. row.state = IF Superseded(t) THEN state ELSE "failed"
    BY <1>2, <2>1, StateTyped DEF RoomStates
  <2>3. rooms' = [rooms EXCEPT ![r] = row]
    BY <1>1, <1>7, <2>1 DEF Fails, Failed
  <2>4. state \in {rooms[r].state, "waiting_workers"}
    BY <1>1, <1>7 DEF Fails
  <2>5. Disturbed(q)
    BY <1>0, <1>7 DEF Fails, MayHave, Disturbed
  <2> QED
    BY <1>0, <2>2, <2>3, <2>4, <2>5, StateWritten DEF StateSteps
<1> QED
  BY <1>3, <1>4, <1>5, <1>6, <1>7, EndCases

\* So does every step.
LEMMA NextStates ==
  ASSUME BaseOK, [Next]_vars, NEW q \in Rooms
  PROVE  StateSteps(q)
<1>0. {"handoff", "queued", "failed", "waiting_workers", "running", "replying"} \subseteq RoomStates
  BY DEF RoomStates
<1>1. ASSUME NEW r \in Rooms, NEW j \in Jobs, Accepted(r, j) PROVE StateSteps(q)
  <2>1. rooms' = [rooms EXCEPT ![r] = Bumped(r, "queued")] /\ handedOff' = handedOff
        /\ rooms[r].state # "handoff"
    BY <1>1, AcceptedFacts
  <2> QED
    BY <1>0, <2>1, StateBumped DEF StateSteps, Disturbed
<1>2. ASSUME NEW r \in Rooms, IngestHeld(r) PROVE StateSteps(q)
  <2>1. rooms' = [rooms EXCEPT ![r] = Bumped(r, "handoff")] /\ handedOff' = handedOff
        /\ rooms[r].state = "handoff"
    BY <1>2 DEF IngestHeld
  <2> QED
    BY <1>0, <2>1, StateBumped DEF StateSteps
<1>3. ASSUME NEW r \in Rooms, IngestBlocked(r) PROVE StateSteps(q)
  <2>1. rooms' = [rooms EXCEPT ![r] = Bumped(r, "failed")] /\ handedOff' = handedOff
        /\ May("policy_block")
    BY <1>3 DEF IngestBlocked
  <2> QED
    BY <1>0, <2>1, StateBumped DEF StateSteps, Disturbed
<1>4. ASSUME NEW r \in Rooms, IngestDuplicate(r) PROVE StateSteps(q)
  <2>1. handedOff' = handedOff
    BY <1>4 DEF IngestDuplicate, history
  <2>2. PICK row : row = DuplicateRow(r)
    OBVIOUS
  <2>3. rooms' = [rooms EXCEPT ![r] = row]
    BY <1>4, <2>2 DEF IngestDuplicate
  <2>4. row.state = IF rooms[r].state = "handoff" THEN "handoff" ELSE "queued"
    BY <2>2, DuplicateRowTyped DEF BaseOK
  <2> QED
    BY <2>1, <2>3, <2>4, StateWritten DEF StateSteps, Disturbed
<1>5. ASSUME NEW r \in Rooms, IngestTorn(r) PROVE StateSteps(q)
  <2>1. PICK state \in RoomStates :
          state = IF rooms[r].state = "handoff" THEN "handoff" ELSE "queued"
    BY <1>0
  <2>2. rooms' = [rooms EXCEPT ![r] = Bumped(r, state)] /\ handedOff' = handedOff
    BY <1>5, <2>1, Types DEF BaseOK, IngestTorn
  <2>3. rooms'[r].state = state /\ \A p \in Rooms \ {r} : rooms'[p] = rooms[p]
    BY <2>2, StateBumped
  <2> QED
    BY <2>1, <2>2, <2>3 DEF StateSteps, Disturbed
<1>6. ASSUME NEW r \in Rooms, RequestHandoff(r) PROVE StateSteps(q)
  <2>1. SetState(r, "handoff") /\ handedOff' = [handedOff EXCEPT ![r] = TRUE]
    BY <1>6 DEF RequestHandoff
  <2> QED
    BY <1>0, <2>1, StateSetTo DEF StateSteps, BaseOK, TypeOK
<1>7. ASSUME NEW r \in Rooms, ReleaseHandoff(r) PROVE StateSteps(q)
  <2>1. SetState(r, "queued") /\ handedOff' = [handedOff EXCEPT ![r] = FALSE]
    BY <1>7 DEF ReleaseHandoff
  <2> QED
    BY <1>0, <2>1, StateSetTo DEF StateSteps, BaseOK, TypeOK
<1>8. ASSUME NEW t \in Turns, StartTurn(t) PROVE StateSteps(q)
  <2>1. PICK j \in NextCandidates(Swept, Now, NoneServed), prelude \in BOOLEAN :
          /\ jobs' = LeaseJob(Swept, j, 0, Now)
          /\ SetState(jobs[j].room, IF prelude THEN "waiting_workers" ELSE "running")
    BY <1>8 DEF StartTurn
  <2>2. j \in Jobs /\ jobs[j].status # "absent" /\ Swept[j].status = "queued"
    BY <2>1, StartedJobs DEF BaseOK, Leasable
  <2>3. jobs[j].room \in Rooms
    BY <2>2 DEF BaseOK, JobsOK
  <2>4. handedOff' = handedOff
    BY <1>8 DEF StartTurn, history
  <2> QED
    BY <1>0, <2>1, <2>2, <2>3, <2>4, StateSetTo DEF StateSteps, Disturbed
<1>9. ASSUME NEW t \in Turns, EndTurn(t) PROVE StateSteps(q)
  BY <1>9, EndTurnStates
<1>10. ASSUME NEW t \in Turns, ConcludeTorn(t) \/ FailTorn(t) PROVE StateSteps(q)
  <2>1. RoomOf(t) \in Rooms /\ ~ Free(t) /\ handedOff' = handedOff /\ May("torn_write")
    BY <1>10, LostTurn, TurnFacts DEF history
  <2>2. CASE rooms' = rooms
    BY <2>1, <2>2 DEF StateSteps
  <2>3. CASE SetState(RoomOf(t), "replying")
    BY <1>0, <2>1, <2>3, StateSetTo DEF StateSteps, Disturbed
  <2>4. CASE rooms' = [rooms EXCEPT ![RoomOf(t)] = Answered(t)]
    <3>1. Answered(t).state = "done"
      BY <2>1, TurnFacts, AnsweredTyped
    <3> QED
      BY <2>1, <2>4, <3>1, StateWritten DEF StateSteps, Disturbed
  <2>5. CASE rooms' = [rooms EXCEPT ![RoomOf(t)] = [turns[t].room EXCEPT !.state = "failed"]]
    <3>1. PICK row : row = [turns[t].room EXCEPT !.state = "failed"]
      OBVIOUS
    <3>2. row.state = "failed"
      BY <1>0, <2>1, <3>1, TurnFacts, StateTyped
    <3> QED
      BY <2>1, <2>5, <3>1, <3>2, StateWritten DEF StateSteps, Disturbed
  <2>6. ConcludeTorn(t) \/ rooms' = rooms
          \/ rooms' = [rooms EXCEPT ![RoomOf(t)] = [turns[t].room EXCEPT !.state = "failed"]]
    BY <1>10 DEF FailTorn
  <2> QED
    BY <2>2, <2>3, <2>4, <2>5, <2>6, ConcludeTornCases
<1>11. ASSUME NEW j \in Jobs, RetryRoomJob(j) PROVE StateSteps(q)
  <2>1. jobs[j].room \in Rooms /\ jobs[j].status = "failed"
    BY <1>11 DEF BaseOK, JobsOK, RetryRoomJob, Retryable
  <2>2. SetState(jobs[j].room, "queued") /\ handedOff' = handedOff
    BY <1>11 DEF RetryRoomJob, history
  <2> QED
    BY <1>0, <2>1, <2>2, StateSetTo DEF StateSteps, Disturbed
<1>12. ASSUME NEW j \in Jobs, LeaseLapses(j) PROVE StateSteps(q)
  BY <1>12 DEF LeaseLapses, StateSteps, history
<1>13. ASSUME JobsTorn \/ Recover \/ Crash \/ FollowStep \/ UNCHANGED vars
       PROVE  StateSteps(q)
  BY <1>13, FollowStepRest DEF JobsTorn, Recover, Crash, vars, StateSteps, history
<1>14. ASSUME NEW r \in Rooms, IngestUncounted(r) PROVE StateSteps(q)
  BY <1>14 DEF IngestUncounted, StateSteps
<1> QED
  BY <1>1, <1>2, <1>3, <1>4, <1>5, <1>6, <1>7, <1>8, <1>9, <1>10, <1>11, <1>12, <1>13, <1>14,
     StepCases

\* A room is in the state handoff only while the operator has it.
HandoffIsRequested == \A r \in Rooms : rooms[r].state = "handoff" => handedOff[r]

\* No room is in handoff unless the operator asked for it: no turn that read the
\* row earlier writes the state back.
THEOREM NoUnrequestedHandoff == Spec => []HandoffIsRequested
<1>1. Init => HandoffIsRequested
  BY DEF Init, NoRoomRow, HandoffIsRequested
<1>2. BaseOK /\ HandoffIsRequested /\ [Next]_vars => HandoffIsRequested'
  BY NextStates DEF StateSteps, HandoffIsRequested
<1> QED
  BY <1>1, <1>2, TablesFit, PTL DEF Spec

-----------------------------------------------------------------------------
(* Every room has a row, where no new message is torn *)

RowsWritten == \A r \in Rooms : arrived[r] > 0 => Exists(r)

\* Who writes the history of arrivals: they are counted in the room, or torn.
LEMMA ArrivalCases ==
  ASSUME BaseOK, [Next]_vars
  PROVE  \/ arrived' = arrived
         \/ \E r \in Rooms :
              /\ Arrives(r)
              /\ \/ IngestUncounted(r)
                 \/ \E state \in RoomStates \ {"none"} :
                      rooms' = [rooms EXCEPT ![r] = Bumped(r, state)]
<1>0. {"handoff", "queued", "failed"} \subseteq RoomStates \ {"none"}
  BY DEF RoomStates
<1>1. ASSUME NEW r \in Rooms, NEW j \in Jobs, Accepted(r, j)
      PROVE  Arrives(r) /\ rooms' = [rooms EXCEPT ![r] = Bumped(r, "queued")]
  BY <1>1, AcceptedFacts
<1>2. ASSUME NEW r \in Rooms, IngestHeld(r)
      PROVE  Arrives(r) /\ rooms' = [rooms EXCEPT ![r] = Bumped(r, "handoff")]
  BY <1>2 DEF IngestHeld
<1>3. ASSUME NEW r \in Rooms, IngestBlocked(r)
      PROVE  Arrives(r) /\ rooms' = [rooms EXCEPT ![r] = Bumped(r, "failed")]
  BY <1>3 DEF IngestBlocked
<1>4. ASSUME NEW r \in Rooms, IngestTorn(r)
      PROVE  /\ Arrives(r)
             /\ \E state \in RoomStates \ {"none"} :
                  rooms' = [rooms EXCEPT ![r] = Bumped(r, state)]
  <2>1. PICK state \in RoomStates \ {"none"} :
          state = IF rooms[r].state = "handoff" THEN "handoff" ELSE "queued"
    BY <1>0
  <2> QED
    BY <1>4, <2>1, Types DEF BaseOK, IngestTorn
<1>5. ASSUME NEW r \in Rooms, IngestUncounted(r) PROVE Arrives(r)
  BY <1>5 DEF IngestUncounted
<1>6. ASSUME NEW r \in Rooms, IngestDuplicate(r) \/ RequestHandoff(r) \/ ReleaseHandoff(r)
      PROVE  arrived' = arrived
  BY <1>6 DEF IngestDuplicate, RequestHandoff, ReleaseHandoff, history
<1>7. ASSUME NEW t \in Turns, StartTurn(t) \/ EndTurn(t) \/ ConcludeTorn(t) \/ FailTorn(t)
      PROVE  arrived' = arrived
  BY <1>7, EndTurnAlike, LostTurn DEF StartTurn, history
<1>8. ASSUME \/ \E j \in Jobs : RetryRoomJob(j) \/ LeaseLapses(j)
             \/ JobsTorn \/ Recover \/ Crash \/ FollowStep \/ UNCHANGED vars
      PROVE  arrived' = arrived
  BY <1>8, FollowStepRest DEF RetryRoomJob, LeaseLapses, JobsTorn, Recover, Crash, vars, history
<1> QED
  BY <1>0, <1>1, <1>2, <1>3, <1>4, <1>5, <1>6, <1>7, <1>8, StepCases

\* No step takes the row of a room.
LEMMA RowsStay ==
  ASSUME BaseOK, [Next]_vars, NEW r \in Rooms, Exists(r)
  PROVE  Exists(r)'
BY NextStates DEF StateSteps, Exists

\* A message in a room writes its row.
LEMMA RowsNext ==
  ASSUME BaseOK, RowsWritten, Without({"torn_insert"}), [Next]_vars
  PROVE  RowsWritten'
<1> SUFFICES ASSUME NEW q \in Rooms, arrived'[q] > 0 PROVE Exists(q)'
  BY DEF RowsWritten
<1>1. CASE arrived'[q] = arrived[q]
  BY <1>1, RowsStay DEF RowsWritten
<1>2. CASE arrived'[q] # arrived[q]
  <2>1. PICK r \in Rooms : /\ Arrives(r)
                          /\ \/ IngestUncounted(r)
                             \/ \E state \in RoomStates \ {"none"} :
                                  rooms' = [rooms EXCEPT ![r] = Bumped(r, state)]
    BY <1>2, ArrivalCases
  <2>2. ~ IngestUncounted(r)
    BY DEF IngestUncounted, May, Without
  <2>3. PICK state \in RoomStates \ {"none"} : rooms' = [rooms EXCEPT ![r] = Bumped(r, state)]
    BY <2>1, <2>2
  <2>4. q = r
    BY <1>2, <2>1, ArrivalTyped, Types DEF BaseOK
  <2>5. rooms'[q].state = state
    BY <2>3, <2>4, StateBumped
  <2> QED
    BY <2>5 DEF Exists
<1> QED
  BY <1>1, <1>2

\* The scenario is fixed.
LEMMA ScenarioStays == ASSUME [Next]_vars, BaseOK PROVE scenario' = scenario
<1>1. ASSUME NEW r \in Rooms, NEW j \in Jobs, Accepted(r, j) PROVE scenario' = scenario
  BY <1>1, AcceptedFacts
<1>2. ASSUME NEW r \in Rooms, NEW j \in Jobs, Inserts(r, j) PROVE scenario' = scenario
  BY <1>2 DEF Inserts, ReleaseHandoff, JobsTorn
<1>3. ASSUME NEW t \in Turns, StartTurn(t) PROVE scenario' = scenario
  BY <1>3 DEF StartTurn
<1> QED
  BY <1>1, <1>2, <1>3, ProceedsAlike, Kinds

\* Where no new message is torn, a room has a row as soon as it has a message.
THEOREM RowsAreWritten == Spec => [](Without({"torn_insert"}) => RowsWritten)
<1>1. Init => RowsWritten
  BY DEF Init, RowsWritten
<1>2. /\ BaseOK /\ (Without({"torn_insert"}) => RowsWritten) /\ [Next]_vars
      => (Without({"torn_insert"}) => RowsWritten)'
  <2>1. BaseOK /\ [Next]_vars /\ Without({"torn_insert"})' => Without({"torn_insert"})
    BY ScenarioStays DEF Without
  <2> QED
    BY <2>1, RowsNext
<1> QED
  BY <1>1, <1>2, TablesFit, PTL DEF Spec

-----------------------------------------------------------------------------
(* Counting messages, where no turn has a prelude and none is torn *)

RoomCounts == \A r \in Rooms : rooms[r].revision = arrived[r] /\ rooms[r].inSeq = arrived[r]

\* The number of a job is that of its message.
JobCounts ==
  \A j \in Jobs : jobs[j].status # "absent" =>
    jobs[j].revision = inbound[j] /\ jobs[j].seq = inbound[j]

\* The row a turn has read is as old as its job at most.
TurnCounts ==
  \A t \in Turns : turns[t] # NoTurn =>
    /\ turns[t].at # "prelude"
    /\ turns[t].room.inSeq = turns[t].room.revision
    /\ RevisionOf(t) <= turns[t].room.revision
    /\ turns[t].room.revision <= arrived[RoomOf(t)]

\* A job handles the newest message at its making, unless a release made it.
SubjectCounts ==
  \A j \in Jobs : jobs[j].status # "absent" /\ j \notin released => subject[j] = inbound[j]

CountsOK ==
  RoomCounts /\ JobCounts /\ TurnCounts /\ SubjectCounts /\ RowsWritten /\ NoSupersededReply

\* Only a release, cut short or not, adds to the released jobs.
LEMMA ReleasedCases ==
  ASSUME BaseOK, [Next]_vars
  PROVE  released' = released \/ \E r \in Rooms, j \in Jobs : Inserts(r, j)
<1>1. ASSUME NEW r \in Rooms, NEW j \in Jobs, Accepted(r, j) PROVE released' = released
  BY <1>1, AcceptedFacts
<1>2. ASSUME NEW r \in Rooms, \/ IngestHeld(r) \/ IngestBlocked(r) \/ IngestDuplicate(r)
                            \/ IngestTorn(r) \/ IngestUncounted(r) \/ RequestHandoff(r)
      PROVE  released' = released
  BY <1>2 DEF IngestHeld, IngestBlocked, IngestDuplicate, IngestTorn, IngestUncounted,
              RequestHandoff
<1>3. ASSUME NEW t \in Turns, StartTurn(t) \/ EndTurn(t) \/ ConcludeTorn(t) \/ FailTorn(t)
      PROVE  released' = released
  BY <1>3, EndTurnAlike, LostTurn DEF StartTurn
<1>4. ASSUME \/ \E j \in Jobs : RetryRoomJob(j) \/ LeaseLapses(j)
             \/ JobsCut \/ Recover \/ Crash \/ FollowStep \/ UNCHANGED vars
      PROVE  released' = released
  BY <1>4, FollowStepRest DEF RetryRoomJob, LeaseLapses, JobsCut, Recover, Crash, vars
<1>5. Proceeds => released' = released
  BY <1>2, <1>3, <1>4 DEF Proceeds
<1> QED
  BY <1>1, <1>3, <1>5, Kinds

\* Every job keeps to what it handles.
LEMMA SubjectsNext ==
  ASSUME BaseOK, SubjectCounts, [Next]_vars
  PROVE  SubjectCounts'
<1>0. released \subseteq released'
  BY ReleasedCases DEF ReleaseInserts, Inserts
<1>1. CASE Proceeds
  BY <1>0, <1>1, ProceedsAlike DEF SubjectCounts, JobsAlike
<1>2. ASSUME NEW r \in Rooms, NEW j \in Jobs, Accepted(r, j) PROVE SubjectCounts'
  <2>1. \A i \in Jobs \ {j} : jobs'[i].status = "absent" <=> jobs[i].status = "absent"
    BY <1>2, AcceptedJobs DEF SameJob
  <2>2. subject' = [subject EXCEPT ![j] = arrived'[r]] /\ inbound' = [inbound EXCEPT ![j] = arrived'[r]]
    BY <1>2, AcceptedFacts
  <2>3. subject \in [Jobs -> Nat] /\ inbound \in [Jobs -> Nat]
    BY Types DEF BaseOK
  <2> QED
    BY <1>0, <2>1, <2>2, <2>3 DEF SubjectCounts
<1>3. ASSUME NEW r \in Rooms, NEW j \in Jobs, Inserts(r, j) PROVE SubjectCounts'
  <2>1. /\ j \in released'
        /\ \A i \in Jobs \ {j} : /\ jobs'[i] = jobs[i] /\ inbound'[i] = inbound[i]
                                 /\ subject'[i] = subject[i]
    BY <1>3 DEF Inserts, ReleaseInserts
  <2> QED
    BY <1>0, <2>1 DEF SubjectCounts
<1>4. ASSUME NEW t \in Turns, StartTurn(t) PROVE SubjectCounts'
  <2>1. PICK i \in NextCandidates(Swept, Now, NoneServed) : jobs' = LeaseJob(Swept, i, 0, Now)
    BY <1>4 DEF StartTurn
  <2>2. \A k \in Jobs : jobs'[k].status # "absent" => jobs[k].status # "absent"
    BY <2>1, StartedJobs, SweptJobs DEF BaseOK
  <2>3. subject' = subject /\ inbound' = inbound
    BY <1>4 DEF StartTurn
  <2> QED
    BY <1>0, <2>2, <2>3 DEF SubjectCounts
<1> QED
  BY <1>1, <1>2, <1>3, <1>4, Kinds

\* Those steps keep jobs and turns within the rooms' counts.
LEMMA ProceedsCounts ==
  ASSUME BaseOK, JobCounts, TurnCounts, Proceeds
  PROVE  JobCounts' /\ TurnCounts'
<1>1. JobsAlike /\ TurnsAlike /\ ArrivedGrows /\ inbound' = inbound
  BY ProceedsAlike
<1>2. JobCounts'
  BY <1>1 DEF JobCounts, JobsAlike, SameJob
<1>3. TurnCounts'
  <2> SUFFICES ASSUME NEW t \in Turns, turns'[t] # NoTurn
               PROVE  /\ turns'[t].at # "prelude"
                      /\ turns'[t].room.inSeq = turns'[t].room.revision
                      /\ RevisionOf(t)' <= turns'[t].room.revision
                      /\ turns'[t].room.revision <= arrived'[RoomOf(t)']
    BY DEF TurnCounts, RoomOf
  <2>1. /\ turns[t] # NoTurn /\ turns'[t].job = turns[t].job /\ turns'[t].room = turns[t].room
        /\ turns[t].at # "prelude" => turns'[t].at # "prelude"
    BY <1>1 DEF TurnsAlike
  <2>2. /\ turns[t].at # "prelude" /\ turns[t].room.inSeq = turns[t].room.revision
        /\ RevisionOf(t) <= turns[t].room.revision
        /\ turns[t].room.revision <= arrived[RoomOf(t)]
    BY <2>1 DEF TurnCounts
  <2>3. turns[t].job \in Jobs /\ RoomOf(t) \in Rooms /\ turns[t].room \in RoomRow
    BY <2>1, TurnFacts DEF Free
  <2>4. RevisionOf(t)' = RevisionOf(t) /\ RoomOf(t)' = RoomOf(t)
    BY <1>1, <2>1, <2>3 DEF JobsAlike, SameJob, RevisionOf, RoomOf
  <2>5. arrived[RoomOf(t)] <= arrived'[RoomOf(t)] /\ arrived'[RoomOf(t)] \in Nat
    BY <1>1, <2>3 DEF ArrivedGrows
  <2>6. arrived[RoomOf(t)] \in Nat /\ turns[t].room.revision \in Nat
    BY <2>3 DEF BaseOK, TypeOK, RoomRow
  <2> QED
    BY <2>1, <2>2, <2>4, <2>5, <2>6
<1> QED
  BY <1>2, <1>3

\* A turn that is not superseded writes the row of its own message's time.
LEMMA CurrentTurn ==
  ASSUME BaseOK, CountsOK, NEW t \in Turns, ~ Free(t), ~ Superseded(t)
  PROVE  /\ turns[t].room.revision = arrived[RoomOf(t)]
         /\ turns[t].room.inSeq = arrived[RoomOf(t)]
         /\ inbound[turns[t].job] = arrived[RoomOf(t)]
         /\ RevisionOf(t) = arrived[RoomOf(t)]
<1>1. PICK r \in Rooms : r = RoomOf(t)
  BY TurnFacts
<1>2. PICK row \in RoomRow : row = turns[t].room
  BY TurnFacts
<1>3. PICK j \in Jobs : j = turns[t].job /\ jobs[j].status # "absent"
  BY TurnFacts
<1>4. jobs[j].revision = inbound[j] /\ RevisionOf(t) = jobs[j].revision
  BY <1>3 DEF CountsOK, JobCounts, RevisionOf
<1>5. /\ row.inSeq = row.revision /\ RevisionOf(t) <= row.revision /\ row.revision <= arrived[r]
  BY <1>1, <1>2 DEF CountsOK, TurnCounts, Free
<1>6. rooms[r].revision = arrived[r]
  BY DEF CountsOK, RoomCounts
<1>7. /\ arrived[r] \in Nat /\ row.revision \in Nat /\ RevisionOf(t) \in Nat
  BY <1>1, <1>2, TurnFacts DEF RoomRow
<1>8. ~ (arrived[r] > RevisionOf(t))
  BY <1>1, <1>6 DEF Superseded
<1> QED
  BY <1>1, <1>2, <1>3, <1>4, <1>5, <1>7, <1>8

\* A step that writes only states keeps the rooms' counts.
LEMMA StatesOnlyCounts ==
  ASSUME RoomCounts, StatesOnly, arrived' = arrived
  PROVE  RoomCounts'
BY DEF RoomCounts, StatesOnly

\* A bumped row counts the message that arrives with it.
LEMMA BumpedCounts ==
  ASSUME BaseOK, RoomCounts, NEW r \in Rooms, NEW state \in RoomStates,
         rooms' = [rooms EXCEPT ![r] = Bumped(r, state)], Arrives(r)
  PROVE  RoomCounts'
<1>1. PICK row : row = Bumped(r, state)
  OBVIOUS
<1>2. row.revision = rooms[r].revision + 1 /\ row.inSeq = rooms[r].inSeq + 1
  BY <1>1, BumpedTyped DEF BaseOK
<1>3. rooms' = [rooms EXCEPT ![r] = row]
  BY <1>1
<1> QED
  BY <1>2, <1>3, ArrivalTyped DEF BaseOK, TypeOK, RoomCounts

\* Setting a state writes only states.
LEMMA SetStateOnly ==
  ASSUME BaseOK, NEW r \in Rooms, NEW state \in RoomStates, SetState(r, state)
  PROVE  StatesOnly
<1>1. PICK row : row = [rooms[r] EXCEPT !.state = state]
  OBVIOUS
<1>2. /\ row.revision = rooms[r].revision /\ row.inSeq = rooms[r].inSeq
      /\ row.outSeq = rooms[r].outSeq
  BY <1>1, StateTyped DEF BaseOK, TypeOK
<1>3. rooms' = [rooms EXCEPT ![r] = row]
  BY <1>1 DEF SetState
<1> QED
  BY <1>2, <1>3 DEF BaseOK, TypeOK, StatesOnly

\* Unchanged rooms write only states.
LEMMA RoomsUnchanged == ASSUME rooms' = rooms PROVE StatesOnly
BY DEF StatesOnly

\* Steps that are neither arrivals nor the ends of turns.
LEMMA QuietRooms ==
  ASSUME BaseOK,
         \/ \E r \in Rooms : \/ Exists(r) /\ IngestDuplicate(r)
                             \/ RequestHandoff(r) \/ ReleaseHandoff(r)
         \/ \E t \in Turns : StartTurn(t)
         \/ \E j \in Jobs : RetryRoomJob(j) \/ LeaseLapses(j)
         \/ JobsTorn \/ JobsCut \/ Recover \/ Crash \/ FollowStep \/ UNCHANGED vars
  PROVE  StatesOnly /\ arrived' = arrived
<1>0. {"handoff", "queued", "waiting_workers", "running", "replying"} \subseteq RoomStates
  BY DEF RoomStates
<1>1. ASSUME NEW r \in Rooms, Exists(r), IngestDuplicate(r)
      PROVE  StatesOnly /\ arrived' = arrived
  <2>1. PICK row : row = DuplicateRow(r)
    OBVIOUS
  <2>2. rooms' = [rooms EXCEPT ![r] = row] /\ arrived' = arrived
    BY <1>1, <2>1 DEF IngestDuplicate, history
  <2>3. /\ row.revision = rooms[r].revision /\ row.inSeq = rooms[r].inSeq
        /\ row.outSeq = rooms[r].outSeq
    BY <1>1, <2>1, DuplicateRowTyped DEF BaseOK
  <2> QED
    BY <2>2, <2>3, Types DEF BaseOK, StatesOnly
<1>2. ASSUME NEW r \in Rooms, RequestHandoff(r) PROVE StatesOnly /\ arrived' = arrived
  BY <1>0, <1>2, SetStateOnly DEF RequestHandoff
<1>3. ASSUME NEW r \in Rooms, ReleaseHandoff(r) PROVE StatesOnly /\ arrived' = arrived
  BY <1>0, <1>3, SetStateOnly DEF ReleaseHandoff
<1>4. ASSUME NEW t \in Turns, StartTurn(t) PROVE StatesOnly /\ arrived' = arrived
  <2>1. PICK j \in NextCandidates(Swept, Now, NoneServed), prelude \in BOOLEAN :
          /\ jobs' = LeaseJob(Swept, j, 0, Now)
          /\ SetState(jobs[j].room, IF prelude THEN "waiting_workers" ELSE "running")
    BY <1>4 DEF StartTurn
  <2>2. j \in Jobs /\ jobs[j].status # "absent"
    BY <2>1, StartedJobs DEF BaseOK
  <2>3. jobs[j].room \in Rooms
    BY <2>2 DEF BaseOK, JobsOK
  <2>4. StatesOnly
    BY <1>0, <2>1, <2>3, SetStateOnly
  <2> QED
    BY <1>4, <2>4 DEF StartTurn, history
<1>6. ASSUME NEW j \in Jobs, RetryRoomJob(j) PROVE StatesOnly /\ arrived' = arrived
  <2>1. jobs[j].room \in Rooms
    BY <1>6 DEF BaseOK, JobsOK, RetryRoomJob, Retryable
  <2> QED
    BY <1>0, <1>6, <2>1, SetStateOnly DEF RetryRoomJob, history
<1>7. ASSUME NEW j \in Jobs, LeaseLapses(j) PROVE StatesOnly /\ arrived' = arrived
  BY <1>7, RoomsUnchanged DEF LeaseLapses, history
<1>8. ASSUME JobsTorn \/ JobsCut \/ Recover \/ Crash \/ FollowStep \/ UNCHANGED vars
      PROVE  StatesOnly /\ arrived' = arrived
  BY <1>8, RoomsUnchanged, FollowStepRest DEF JobsTorn, JobsCut, Recover, Crash, vars, history
<1> QED
  BY <1>1, <1>2, <1>3, <1>4, <1>6, <1>7, <1>8

\* The row a turn writes back still counts every arrival.
LEMMA RowCounts ==
  ASSUME BaseOK, CountsOK, NEW t \in Turns, ~ Free(t), arrived' = arrived,
         NEW state \in RoomStates,
         \/ rooms' = [rooms EXCEPT ![RoomOf(t)] = [rooms[RoomOf(t)] EXCEPT !.state = state]]
         \/ ~ Superseded(t) /\ rooms' = [rooms EXCEPT ![RoomOf(t)] = Answered(t)]
         \/ /\ ~ Superseded(t)
            /\ rooms' = [rooms EXCEPT ![RoomOf(t)] = [turns[t].room EXCEPT !.state = state]]
  PROVE  RoomCounts'
<1>1. PICK r \in Rooms : r = RoomOf(t)
  BY TurnFacts
<1>2. ASSUME NEW row, rooms' = [rooms EXCEPT ![r] = row],
             row.revision = arrived[r], row.inSeq = arrived[r]
      PROVE  RoomCounts'
  BY <1>2 DEF RoomCounts, CountsOK, BaseOK, TypeOK
<1>3. turns[t].room \in RoomRow /\ rooms[r] \in RoomRow
  BY <1>1, TurnFacts
<1>4. CASE rooms' = [rooms EXCEPT ![r] = [rooms[r] EXCEPT !.state = state]]
  <2>1. PICK row : row = [rooms[r] EXCEPT !.state = state]
    OBVIOUS
  <2>2. row.revision = arrived[r] /\ row.inSeq = arrived[r]
    BY <1>3, <2>1, StateTyped DEF CountsOK, RoomCounts
  <2> QED
    BY <1>2, <1>4, <2>1, <2>2
<1>5. CASE ~ Superseded(t) /\ rooms' = [rooms EXCEPT ![r] = Answered(t)]
  <2>1. PICK row : row = Answered(t)
    OBVIOUS
  <2>2. row.revision = arrived[r] /\ row.inSeq = arrived[r]
    BY <1>1, <1>3, <1>5, <2>1, AnsweredTyped, CurrentTurn
  <2> QED
    BY <1>2, <1>5, <2>1, <2>2
<1>6. CASE /\ ~ Superseded(t)
           /\ rooms' = [rooms EXCEPT ![r] = [turns[t].room EXCEPT !.state = state]]
  <2>1. PICK row : row = [turns[t].room EXCEPT !.state = state]
    OBVIOUS
  <2>2. row.revision = arrived[r] /\ row.inSeq = arrived[r]
    BY <1>1, <1>3, <1>6, <2>1, StateTyped, CurrentTurn
  <2> QED
    BY <1>2, <1>6, <2>1, <2>2
<1> QED
  BY <1>1, <1>4, <1>5, <1>6

\* At the end of a turn,
LEMMA EndTurnCounts ==
  ASSUME BaseOK, CountsOK, NEW t \in Turns, EndTurn(t)
  PROVE  RoomCounts'
<1>1. ~ Free(t) /\ arrived' = arrived
  BY EndCases, EndTurnAlike
<1>2. RoomOf(t) \in Rooms
  BY <1>1, TurnFacts
<1>3. "failed" \in RoomStates /\ "waiting_workers" \in RoomStates
  BY DEF RoomStates
<1>4. CASE PreludeEnds(t)
  BY <1>4 DEF PreludeEnds, At, CountsOK, TurnCounts, Free
<1>5. CASE PreludeFails(t)
  BY <1>1, <1>5 DEF PreludeFails, RoomCounts, CountsOK
<1>6. CASE PostRunStarts(t)
  BY <1>1, <1>2, <1>3, <1>6, SetStateOnly, StatesOnlyCounts DEF PostRunStarts, CountsOK
<1>7. ASSUME NEW state \in RoomStates, Concludes(t, state) PROVE RoomCounts'
  BY <1>1, <1>7, RowCounts DEF Concludes, Conclude, Emits
<1>8. ASSUME NEW state \in RoomStates, Fails(t, state) PROVE RoomCounts'
  <2>1. CASE Superseded(t)
    BY <1>1, <1>8, <2>1, RowCounts DEF Fails, Failed
  <2>2. CASE ~ Superseded(t)
    BY <1>1, <1>3, <1>8, <2>2, RowCounts DEF Fails, Failed
  <2> QED
    BY <2>1, <2>2
<1> QED
  BY <1>4, <1>5, <1>6, <1>7, <1>8, EndCases

\* and where a crash cuts it short.
LEMMA LostCounts ==
  ASSUME BaseOK, CountsOK, NEW t \in Turns, ConcludeTorn(t) \/ FailTorn(t)
  PROVE  RoomCounts'
<1>1. ~ Free(t) /\ arrived' = arrived
  BY LostTurn DEF history
<1>2. RoomOf(t) \in Rooms
  BY <1>1, TurnFacts
<1>3. "failed" \in RoomStates /\ "replying" \in RoomStates
  BY DEF RoomStates
<1>4. CASE rooms' = rooms
  BY <1>1, <1>4 DEF RoomCounts, CountsOK
<1>5. CASE SetState(RoomOf(t), "replying")
  BY <1>1, <1>2, <1>3, <1>5, SetStateOnly, StatesOnlyCounts DEF CountsOK
<1>6. CASE rooms' = [rooms EXCEPT ![RoomOf(t)] = Answered(t)] /\ Answers(t)
  <2>1. ~ Superseded(t)
    BY <1>6 DEF Answers, Emits
  <2> QED
    BY <1>1, <1>3, <1>6, <2>1, RowCounts
<1>7. CASE FailTorn(t) /\ rooms' # rooms
  BY <1>1, <1>3, <1>7, RowCounts DEF FailTorn
<1> QED
  BY <1>4, <1>5, <1>6, <1>7, ConcludeTornCases

\* The steps that neither insert nor start keep the rooms' counts.
LEMMA ProceedsRooms ==
  ASSUME BaseOK, CountsOK, Without({"torn_insert"}), [Next]_vars, Proceeds
  PROVE  RoomCounts'
<1>1. CASE arrived' # arrived
  <2>1. PICK r \in Rooms : /\ Arrives(r)
                          /\ \/ IngestUncounted(r)
                             \/ \E state \in RoomStates \ {"none"} :
                                  rooms' = [rooms EXCEPT ![r] = Bumped(r, state)]
    BY <1>1, ArrivalCases
  <2>2. ~ IngestUncounted(r)
    BY DEF IngestUncounted, May, Without
  <2> QED
    BY <2>1, <2>2, BumpedCounts DEF CountsOK
<1>2. CASE arrived' = arrived
  <2>1. \A r \in Rooms : ~ Arrives(r)
    <3> SUFFICES ASSUME NEW r \in Rooms, Arrives(r) PROVE FALSE
      OBVIOUS
    <3>1. arrived'[r] = arrived[r] + 1 /\ arrived[r] \in Nat
      BY ArrivalTyped, Types DEF BaseOK
    <3> QED
      BY <1>2, <3>1
  <2>2. ASSUME NEW r \in Rooms, IngestDuplicate(r) PROVE Exists(r)
    BY <2>2 DEF IngestDuplicate, CountsOK, RowsWritten
  <2>3. ASSUME NEW t \in Turns, EndTurn(t) \/ ConcludeTorn(t) \/ FailTorn(t)
        PROVE  RoomCounts'
    BY <2>3, EndTurnCounts, LostCounts
  <2>4. ASSUME NEW r \in Rooms, \/ IngestHeld(r) \/ IngestBlocked(r) \/ IngestTorn(r)
                              \/ IngestUncounted(r)
        PROVE  FALSE
    BY <2>1, <2>4 DEF IngestHeld, IngestBlocked, IngestTorn, IngestUncounted
  <2> QED
    BY <2>2, <2>3, <2>4, QuietRooms, StatesOnlyCounts DEF Proceeds, CountsOK
<1> QED
  BY <1>1, <1>2

\* An accepted message is counted in its room and in its job.
LEMMA AcceptedCounts ==
  ASSUME BaseOK, CountsOK, NEW r \in Rooms, NEW j \in Jobs, Accepted(r, j)
  PROVE  RoomCounts' /\ JobCounts' /\ TurnCounts'
<1>1. RoomCounts'
  BY BumpedCounts, AcceptedFacts DEF RoomStates, CountsOK
<1>2. /\ jobs[j].status = "absent" /\ jobs'[j].status = "queued" /\ jobs'[j].room = r
      /\ jobs'[j].revision = rooms[r].revision + 1 /\ jobs'[j].seq = rooms[r].inSeq + 1
      /\ \A i \in Jobs \ {j} : /\ SameJob(jobs'[i], jobs[i])
                               /\ (jobs'[i].status = "absent") <=> (jobs[i].status = "absent")
  BY AcceptedJobs DEF SameJob
<1>3. /\ arrived' = [arrived EXCEPT ![r] = arrived[r] + 1]
      /\ inbound' = [inbound EXCEPT ![j] = arrived'[r]]
      /\ turns' = turns \/ turns' = [t \in Turns |-> NoTurn]
  BY AcceptedFacts, ArrivalTyped
<1>4. JobCounts'
  BY <1>2, <1>3 DEF CountsOK, RoomCounts, JobCounts, BaseOK, TypeOK, SameJob
<1>5. TurnCounts'
  <2>0. CASE turns' = [t \in Turns |-> NoTurn]
    BY <2>0, AllFree DEF TurnCounts
  <2> SUFFICES ASSUME turns' = turns, NEW t \in Turns, turns[t] # NoTurn
               PROVE  /\ turns[t].at # "prelude"
                      /\ turns[t].room.inSeq = turns[t].room.revision
                      /\ RevisionOf(t)' <= turns[t].room.revision
                      /\ turns[t].room.revision <= arrived'[RoomOf(t)']
    BY <1>3, <2>0 DEF TurnCounts, RoomOf
  <2>1. turns[t].job \in Jobs \ {j} /\ RoomOf(t) \in Rooms /\ turns[t].room \in RoomRow
    BY <1>2, TurnFacts DEF Free
  <2>2. RevisionOf(t)' = RevisionOf(t) /\ RoomOf(t)' = RoomOf(t)
    BY <1>2, <1>3, <2>1 DEF RevisionOf, RoomOf, SameJob
  <2>3. arrived[RoomOf(t)] <= arrived'[RoomOf(t)]
    BY <1>3, <2>1 DEF BaseOK, TypeOK
  <2>4. /\ arrived[RoomOf(t)] \in Nat /\ arrived'[RoomOf(t)] \in Nat
        /\ turns[t].room.revision \in Nat
    <3>1. arrived \in [Rooms -> Nat]
      BY Types DEF BaseOK
    <3>2. turns[t].room.revision \in Nat
      BY <2>1 DEF RoomRow
    <3> QED
      BY <1>3, <2>1, <3>1, <3>2
  <2> QED
    BY <2>2, <2>3, <2>4 DEF CountsOK, TurnCounts
<1> QED
  BY <1>1, <1>4, <1>5

\* The job of a release bears the room's current counts.
LEMMA ReleaseCounts ==
  ASSUME BaseOK, CountsOK, NEW r \in Rooms, NEW j \in Jobs, Inserts(r, j)
  PROVE  RoomCounts' /\ JobCounts' /\ TurnCounts'
<1>1. RoomCounts'
  BY QuietRooms, StatesOnlyCounts DEF CountsOK, Inserts
<1>2. arrived' = arrived /\ (turns' = turns \/ turns' = [t \in Turns |-> NoTurn])
  BY DEF Inserts, ReleaseHandoff, JobsTorn, history
<1>0. /\ jobs[j].status = "absent"
      /\ jobs'[j].revision = rooms[r].revision /\ jobs'[j].seq = rooms[r].inSeq
      /\ inbound'[j] = arrived[r]
      /\ \A i \in Jobs \ {j} : jobs'[i] = jobs[i] /\ inbound'[i] = inbound[i]
  BY DEF Inserts, ReleaseInserts
<1>3. JobCounts'
  BY <1>0 DEF CountsOK, RoomCounts, JobCounts
<1>4. TurnCounts'
  <2>0. CASE turns' = [t \in Turns |-> NoTurn]
    BY <2>0, AllFree DEF TurnCounts
  <2> SUFFICES ASSUME turns' = turns, NEW t \in Turns, turns[t] # NoTurn
               PROVE  RevisionOf(t)' = RevisionOf(t) /\ RoomOf(t)' = RoomOf(t)
    BY <1>2, <2>0 DEF TurnCounts, CountsOK
  <2>1. turns[t].job \in Jobs \ {j}
    BY <1>0, TurnFacts DEF Free
  <2>2. jobs'[turns[t].job] = jobs[turns[t].job]
    BY <1>0, <2>1
  <2> QED
    BY <2>2 DEF RevisionOf, RoomOf
<1> QED
  BY <1>1, <1>3, <1>4

\* A turn starts from a row that counts every arrival.
LEMMA StartCounts ==
  ASSUME BaseOK, NoPrelude, CountsOK, NEW t \in Turns, StartTurn(t)
  PROVE  RoomCounts' /\ JobCounts' /\ TurnCounts'
<1>1. RoomCounts'
  BY QuietRooms, StatesOnlyCounts DEF CountsOK
<1>2. PICK j \in NextCandidates(Swept, Now, NoneServed) :
        /\ jobs' = LeaseJob(Swept, j, 0, Now)
        /\ turns' = [turns EXCEPT ![t] =
               [at |-> "executing", job |-> j, room |-> rooms[jobs[j].room], results |-> FALSE]]
  BY DEF StartTurn, NoPrelude, MayHave
<1>3. /\ j \in Jobs /\ jobs[j].status # "absent"
      /\ jobs'[j].status = "leased" /\ SameJob(jobs'[j], jobs[j])
      /\ \A i \in Jobs \ {j} : jobs'[i] = Swept[i] /\ SameJob(jobs'[i], jobs[i])
  BY <1>2, StartedJobs DEF BaseOK
<1>4. JobsAlike
  BY <1>3, SweptJobs DEF BaseOK, JobsAlike
<1>5. inbound' = inbound /\ arrived' = arrived
  BY DEF StartTurn, history
<1>6. JobCounts'
  BY <1>4, <1>5 DEF CountsOK, JobCounts, JobsAlike, SameJob
<1>7. PICK r \in Rooms : r = jobs[j].room /\ inbound[j] \in 1 .. arrived[r]
  BY <1>3 DEF BaseOK, JobsOK
<1>8. PICK new : /\ new.at = "executing" /\ new.job = j /\ new.room = rooms[r]
                 /\ turns' = [turns EXCEPT ![t] = new]
  BY <1>2, <1>7
<1>9. TurnCounts'
  <2> SUFFICES ASSUME NEW u \in Turns, turns'[u] # NoTurn
               PROVE  /\ turns'[u].at # "prelude"
                      /\ turns'[u].room.inSeq = turns'[u].room.revision
                      /\ RevisionOf(u)' <= turns'[u].room.revision
                      /\ turns'[u].room.revision <= arrived[RoomOf(u)']
    BY <1>5 DEF TurnCounts, RoomOf
  <2>1. turns'[u] = turns[u] \/ turns'[u] = new
    BY <1>8 DEF BaseOK, TypeOK
  <2>2. CASE turns'[u] = turns[u]
    <3>1. turns[u].job \in Jobs
      BY <2>2, TurnFacts DEF Free
    <3>2. RevisionOf(u)' = RevisionOf(u) /\ RoomOf(u)' = RoomOf(u)
      BY <1>4, <2>2, <3>1 DEF RevisionOf, RoomOf, JobsAlike, SameJob
    <3> QED
      BY <2>2, <3>2 DEF CountsOK, TurnCounts
  <2>3. CASE turns'[u] = new
    <3>1. RevisionOf(u)' = inbound[j] /\ RoomOf(u)' = r
      BY <1>3, <1>7, <1>8, <2>3 DEF RevisionOf, RoomOf, SameJob, CountsOK, JobCounts
    <3>2. rooms[r].revision = arrived[r] /\ rooms[r].inSeq = arrived[r] /\ arrived[r] \in Nat
      BY DEF CountsOK, RoomCounts, BaseOK, TypeOK
    <3> QED
      BY <1>7, <1>8, <2>3, <3>1, <3>2
  <2> QED
    BY <2>1, <2>2, <2>3
<1> QED
  BY <1>1, <1>6, <1>9

\* No step replies for a job that a newer message has overtaken.
LEMMA RepliesCurrent ==
  ASSUME BaseOK, CountsOK, [Next]_vars
  PROVE  NoSupersededReply'
<1>0. released \subseteq released'
  BY ReleasedCases DEF ReleaseInserts, Inserts
<1>1. CASE outbox' = outbox
  BY <1>0, <1>1 DEF CountsOK, NoSupersededReply, Replies
<1>2. ASSUME NEW t \in Turns, Emitted(t) PROVE NoSupersededReply'
  <2>1. Reply(t).asked = Reply(t).newest
    BY <1>2, CurrentTurn DEF Emitted, Reply
  <2>2. Reply(t).job \notin released => Reply(t).to = Reply(t).newest
    <3>1. turns[t].job \in Jobs /\ jobs[turns[t].job].status # "absent"
      BY <1>2, TurnFacts DEF Emitted
    <3> QED
      BY <1>2, <3>1, CurrentTurn DEF Emitted, Reply, CountsOK, SubjectCounts, MailOf
  <2>3. /\ Len(outbox) \in Nat /\ Len(outbox') = Len(outbox) + 1
        /\ outbox'[Len(outbox) + 1] = Reply(t)
        /\ \A n \in Replies : outbox'[n] = outbox[n]
    BY <1>2, AppendReply
  <2> SUFFICES ASSUME NEW n \in Replies'
               PROVE  /\ outbox'[n].asked = outbox'[n].newest
                      /\ outbox'[n].job \notin released' => outbox'[n].to = outbox'[n].newest
    BY DEF NoSupersededReply
  <2>4. n \in Replies \/ n = Len(outbox) + 1
    BY <2>3 DEF Replies
  <2> QED
    BY <1>0, <2>1, <2>2, <2>3, <2>4 DEF CountsOK, NoSupersededReply
<1> QED
  BY <1>1, <1>2, OutboxCases

\* Without preludes and torn messages all counts keep up with the messages.
LEMMA NextCounts ==
  ASSUME BaseOK, Counted, CountsOK, [Next]_vars
  PROVE  CountsOK'
<1>0. SubjectCounts' /\ RowsWritten' /\ NoSupersededReply'
  BY SubjectsNext, RowsNext, RepliesCurrent DEF CountsOK, Counted
<1>1. CASE Proceeds
  BY <1>0, <1>1, ProceedsCounts, ProceedsRooms DEF CountsOK, Counted
<1>2. ASSUME NEW r \in Rooms, NEW j \in Jobs, Accepted(r, j) PROVE CountsOK'
  BY <1>0, <1>2, AcceptedCounts DEF CountsOK
<1>3. ASSUME NEW r \in Rooms, NEW j \in Jobs, Inserts(r, j) PROVE CountsOK'
  BY <1>0, <1>3, ReleaseCounts DEF CountsOK
<1>4. ASSUME NEW t \in Turns, StartTurn(t) PROVE CountsOK'
  BY <1>0, <1>4, StartCounts DEF CountsOK, Counted
<1> QED
  BY <1>1, <1>2, <1>3, <1>4, Kinds

\* All counts agree at first.
LEMMA InitCounts == Init => CountsOK
BY DEF Init, NoRow, NoRoomRow, CountsOK, RoomCounts, JobCounts, TurnCounts, SubjectCounts,
       RowsWritten, NoSupersededReply, Replies

\* Where no turn has a prelude and no new message is torn, the counters of rooms,
\* jobs and turns agree with the messages that arrived.
THEOREM CountsAgree == Spec => [](Counted => CountsOK)
<1>1. BaseOK /\ (Counted => CountsOK) /\ [Next]_vars => (Counted => CountsOK)'
  <2> SUFFICES ASSUME BaseOK, Counted => CountsOK, [Next]_vars, Counted' PROVE CountsOK'
    OBVIOUS
  <2>1. Counted
    BY ScenarioStays DEF Counted, NoPrelude, Without
  <2> QED
    BY <2>1, NextCounts
<1> QED
  BY InitCounts, <1>1, TablesFit, PTL DEF Spec

\* No write-back of an old row loses a message that the room has counted: revision
\* and last_inbound_seq count the messages, unless the process dies with a new one
\* stored and its room not written.
THEOREM ArrivalsCounted == Spec => []RevisionCountsArrivals
<1>1. (Counted => CountsOK) => RevisionCountsArrivals
  BY DEF CountsOK, RoomCounts, RevisionCountsArrivals
<1> QED
  BY CountsAgree, <1>1, PTL

\* A reply is never emitted by a job older than the newest message, and only the
\* job of a release replies to anything else, where every message is counted.
THEOREM NoStaleReply == Spec => []RepliesAreCurrent
<1>1. (Counted => CountsOK) => RepliesAreCurrent
  BY DEF CountsOK, RepliesAreCurrent
<1> QED
  BY CountsAgree, <1>1, PTL

-----------------------------------------------------------------------------
(* What becomes of the newest message *)

\* A job that was inserted stays for its message, whatever happens.
LEMMA JobStays ==
  ASSUME BaseOK, [Next]_vars, NEW j \in Jobs, jobs[j].status # "absent"
  PROVE  /\ SameJob(jobs'[j], jobs[j]) /\ jobs'[j].status # "absent"
         /\ inbound'[j] = inbound[j] /\ subject'[j] = subject[j]
<1>1. CASE Proceeds
  BY <1>1, ProceedsAlike DEF JobsAlike
<1>2. ASSUME NEW r \in Rooms, NEW i \in Jobs, Accepted(r, i)
      PROVE  /\ SameJob(jobs'[j], jobs[j]) /\ jobs'[j].status # "absent"
             /\ inbound'[j] = inbound[j] /\ subject'[j] = subject[j]
  <2>1. i # j /\ SameJob(jobs'[j], jobs[j]) /\ jobs'[j].status # "absent"
    BY <1>2, AcceptedJobs
  <2>2. inbound'[j] = inbound[j] /\ subject'[j] = subject[j]
    BY <1>2, <2>1, AcceptedFacts, Types DEF BaseOK
  <2> QED
    BY <2>1, <2>2
<1>3. ASSUME NEW r \in Rooms, NEW i \in Jobs, Inserts(r, i)
      PROVE  /\ SameJob(jobs'[j], jobs[j]) /\ jobs'[j].status # "absent"
             /\ inbound'[j] = inbound[j] /\ subject'[j] = subject[j]
  <2>1. jobs'[j] = jobs[j] /\ inbound'[j] = inbound[j] /\ subject'[j] = subject[j]
    BY <1>3 DEF Inserts, ReleaseInserts
  <2> QED
    BY <2>1 DEF SameJob
<1>4. ASSUME NEW t \in Turns, StartTurn(t)
      PROVE  /\ SameJob(jobs'[j], jobs[j]) /\ jobs'[j].status # "absent"
             /\ inbound'[j] = inbound[j] /\ subject'[j] = subject[j]
  <2>1. PICK i \in NextCandidates(Swept, Now, NoneServed) : jobs' = LeaseJob(Swept, i, 0, Now)
    BY <1>4 DEF StartTurn
  <2>2. SameJob(jobs'[j], jobs[j]) /\ jobs'[j].status # "absent"
    BY <2>1, StartedJobs, SweptJobs DEF BaseOK
  <2> QED
    BY <1>4, <2>2 DEF StartTurn
<1> QED
  BY <1>1, <1>2, <1>3, <1>4, Kinds

Open(row) == row.status \in Active \union {"failed"}

\* A job is settled by a newer message, by the operator, by its turn or by a crash.
LEMMA JobFate ==
  ASSUME BaseOK, [Next]_vars, NEW j \in Jobs, Open(jobs[j])
  PROVE  \/ Open(jobs'[j])
         \/ \E i \in Jobs : Accepted(jobs[j].room, i)
         \/ RequestHandoff(jobs[j].room)
         \/ May("torn_write")
         \/ \E t \in Turns, state \in RoomStates :
              ~ Free(t) /\ turns[t].job = j /\ Concludes(t, state)
<1>0. /\ Open(jobs[j]) <=> jobs[j].status \in {"queued", "leased", "failed"}
      /\ Open(jobs'[j]) <=> jobs'[j].status \in {"queued", "leased", "failed"}
      /\ jobs[j].status # "absent"
  BY DEF Open, Active
<1>1. ASSUME NEW r \in Rooms, NEW i \in Jobs, Accepted(r, i)
      PROVE  Open(jobs'[j]) \/ Accepted(jobs[j].room, i)
  <2>1. i # j
    BY <1>0, <1>1, AcceptedJobs
  <2>2. jobs'[j] = jobs[j] \/ jobs[j].room = r
    BY <1>1, <2>1, AcceptedJobs
  <2> QED
    BY <1>1, <2>2
<1>2. ASSUME jobs' = jobs PROVE Open(jobs'[j])
  BY <1>2
<1>3. ASSUME NEW r \in Rooms, IngestHeld(r) \/ IngestBlocked(r) \/ IngestDuplicate(r)
                             \/ IngestTorn(r) \/ IngestUncounted(r)
      PROVE  jobs' = jobs
  BY <1>3 DEF IngestHeld, IngestBlocked, IngestDuplicate, IngestTorn, IngestUncounted
<1>4. ASSUME NEW r \in Rooms, RequestHandoff(r)
      PROVE  Open(jobs'[j]) \/ RequestHandoff(jobs[j].room)
  <2>1. jobs'[j] = jobs[j] \/ jobs[j].room = r
    BY <1>4, HandoffJobs
  <2> QED
    BY <1>4, <2>1
<1>5. ASSUME NEW r \in Rooms, ReleaseHandoff(r) PROVE Open(jobs'[j])
  <2>1. ASSUME NEW i \in Jobs, ReleaseInserts(r, i) PROVE jobs'[j] = jobs[j]
    <3>1. jobs[i].status = "absent" /\ \A k \in Jobs \ {i} : jobs'[k] = jobs[k]
      BY <2>1 DEF ReleaseInserts
    <3> QED
      BY <1>0, <3>1
  <2> QED
    BY <1>2, <1>5, <2>1, ReleaseJobs
<1>6. ASSUME NEW t \in Turns, StartTurn(t) PROVE Open(jobs'[j])
  <2>1. PICK i \in NextCandidates(Swept, Now, NoneServed) : jobs' = LeaseJob(Swept, i, 0, Now)
    BY <1>6 DEF StartTurn
  <2>2. jobs'[i].status = "leased" /\ \A k \in Jobs \ {i} : jobs'[k] = Swept[k]
    BY <2>1, StartedJobs DEF BaseOK
  <2>3. Swept[j] = jobs[j] \/ Swept[j].status = "queued"
    BY SweptJobs DEF BaseOK
  <2> QED
    BY <1>0, <2>2, <2>3
<1>7. ASSUME NEW t \in Turns, EndTurn(t)
      PROVE  \/ Open(jobs'[j])
             \/ \E state \in RoomStates :
                  ~ Free(t) /\ turns[t].job = j /\ Concludes(t, state)
  <2>0. ~ Free(t)
    BY <1>7, EndCases
  <2>1. ASSUME NEW state \in RoomStates, Concludes(t, state)
        PROVE  Open(jobs'[j]) \/ turns[t].job = j
    <3>1. PICK status \in Terminal : jobs' = SettleJob(jobs, turns[t].job, status) /\ Leave(t)
      BY <2>1 DEF Concludes, Conclude, Terminal
    <3>2. j # turns[t].job => jobs'[j] = jobs[j]
      BY <2>0, <3>1, SettledTurn
    <3> QED
      BY <3>2
  <2>2. ASSUME NEW state \in RoomStates, Fails(t, state) PROVE Open(jobs'[j])
    <3>1. jobs' = SettleJob(jobs, turns[t].job, "failed") /\ Leave(t) /\ "failed" \in Terminal
      BY <2>2 DEF Fails, Failed, Terminal
    <3>2. \/ j # turns[t].job /\ jobs'[j] = jobs[j]
          \/ jobs'[j].status = "failed"
      BY <2>0, <3>1, SettledTurn
    <3> QED
      BY <1>0, <3>2
  <2>3. ASSUME PreludeEnds(t) \/ PreludeFails(t) \/ PostRunStarts(t) PROVE jobs' = jobs
    BY <2>3 DEF PreludeEnds, PreludeFails, PostRunStarts
  <2> QED
    BY <1>2, <1>7, <2>0, <2>1, <2>2, <2>3, EndCases
<1>9. ASSUME NEW i \in Jobs, RetryRoomJob(i) PROVE Open(jobs'[j])
  <2>1. jobs'[i].status = "queued" /\ \A k \in Jobs \ {i} : jobs'[k] = jobs[k]
    BY <1>9, RetriedJobs DEF RetryRoomJob
  <2> QED
    BY <1>0, <2>1
<1>10. ASSUME NEW i \in Jobs, LeaseLapses(i) PROVE Open(jobs'[j])
  BY <1>0, <1>10, LapsedJobs
<1>11. ASSUME Recover PROVE Open(jobs'[j])
  <2>1. Swept[j] = jobs[j] \/ Swept[j].status = "queued"
    BY SweptJobs DEF BaseOK
  <2> QED
    BY <1>0, <1>11, <2>1 DEF Recover
<1>12. ASSUME Crash \/ FollowStep \/ UNCHANGED vars PROVE jobs' = jobs
  BY <1>12, FollowStepRest DEF Crash, vars
<1>13. ASSUME NEW r \in Rooms, IngestHeld(r) \/ IngestBlocked(r) \/ IngestDuplicate(r)
                              \/ IngestTorn(r) \/ IngestUncounted(r)
       PROVE  Open(jobs'[j])
  BY <1>2, <1>3, <1>13
<1>14. ASSUME JobsTorn \/ \E t \in Turns : ConcludeTorn(t) \/ FailTorn(t)
       PROVE  May("torn_write")
  BY <1>14, LostTurn DEF JobsTorn
<1>15. ASSUME Crash \/ FollowStep \/ UNCHANGED vars PROVE Open(jobs'[j])
  BY <1>2, <1>12, <1>15
<1> QED
  BY <1>1, <1>4, <1>5, <1>6, <1>7, <1>9, <1>10, <1>11, <1>13, <1>14, <1>15, StepCases

Replied(r) == \E n \in Replies : outbox[n].room = r /\ outbox[n].to = arrived[r]
Attended(r) == \E j \in Jobs : jobs[j].room = r /\ subject[j] = arrived[r] /\ Open(jobs[j])
Accounted(r) ==
  \/ arrived[r] = 0 \/ <<r, arrived[r]>> \in blocked
  \/ handedOff[r]
  \/ Replied(r) \/ Attended(r)

\* The jobs made since the newest message handle it, unless it was replied to;
SubjectsAgree(r) ==
  \A j \in Jobs :
    jobs[j].status # "absent" /\ jobs[j].room = r /\ inbound[j] = arrived[r]
      => subject[j] = arrived[r] \/ Replied(r)

\* so would the job of a release.
LatestAgrees(r) == May("release") => lastMail[r] = arrived[r] \/ Replied(r)

NewestOK(r) == Accounted(r) /\ SubjectsAgree(r) /\ LatestAgrees(r)

\* A message that was replied to stays so.
LEMMA RepliedStays ==
  ASSUME BaseOK, [Next]_vars, NEW r \in Rooms, arrived'[r] = arrived[r], Replied(r)
  PROVE  Replied(r)'
<1>1. PICK n \in Replies : outbox[n].room = r /\ outbox[n].to = arrived[r]
  BY DEF Replied
<1>2. CASE outbox' = outbox
  BY <1>1, <1>2 DEF Replied, Replies
<1>3. ASSUME NEW t \in Turns, Emitted(t) PROVE Replied(r)'
  <2>1. /\ Len(outbox) \in Nat /\ Len(outbox') = Len(outbox) + 1 /\ outbox'[n] = outbox[n]
    BY <1>1, <1>3, AppendReply
  <2>2. n \in Replies'
    BY <1>1, <2>1 DEF Replies
  <2> QED
    BY <1>1, <2>1, <2>2 DEF Replied
<1> QED
  BY <1>2, <1>3, OutboxCases

\* A reply answers the newest message, or that was answered already.
LEMMA EmittedReplies ==
  ASSUME BaseOK, CountsOK, NEW t \in Turns, Emitted(t), NEW r \in Rooms, r = RoomOf(t),
         SubjectsAgree(r), arrived' = arrived
  PROVE  Replied(r)'
<1>1. PICK j \in Jobs : j = turns[t].job /\ jobs[j].room = r
  BY TurnFacts DEF Emitted, RoomOf
<1>2. inbound[j] = arrived[r] /\ jobs[j].status # "absent"
  BY <1>1, CurrentTurn, TurnFacts DEF Emitted
<1>3. /\ Len(outbox) \in Nat /\ Len(outbox') = Len(outbox) + 1
      /\ outbox'[Len(outbox) + 1] = Reply(t)
      /\ \A n \in Replies : outbox'[n] = outbox[n]
  BY AppendReply
<1>4. CASE subject[j] = arrived[r]
  <2>1. Reply(t).room = r /\ Reply(t).to = arrived[r]
    BY <1>1, <1>4 DEF Reply, MailOf
  <2>2. Len(outbox) + 1 \in 1 .. Len(outbox')
    BY <1>3
  <2> QED
    BY <1>1, <1>3, <2>1, <2>2 DEF Replied, Replies
<1>5. CASE Replied(r)
  <2>1. PICK n \in Replies : outbox[n].room = r /\ outbox[n].to = arrived[r]
    BY <1>5 DEF Replied
  <2>2. n \in Replies'
    BY <1>3 DEF Replies
  <2> QED
    BY <1>1, <1>3, <2>1, <2>2 DEF Replied
<1> QED
  BY <1>1, <1>2, <1>4, <1>5 DEF SubjectsAgree

\* A turn that concludes on the newest message has answered it, or the operator
\* has the room.
LEMMA ConcludesAccounted ==
  ASSUME BaseOK, CountsOK, HandoffIsRequested, NEW t \in Turns, ~ Free(t), NEW state,
         Concludes(t, state), NEW r \in Rooms, r = RoomOf(t),
         inbound[turns[t].job] = arrived[r], SubjectsAgree(r)
  PROVE  Replied(r)' \/ handedOff'[r]
<1>2. arrived' = arrived /\ handedOff' = handedOff
  BY DEF Concludes, TurnRest, history
<1>3. ~ Superseded(t)
  <2>1. PICK j \in Jobs : j = turns[t].job /\ jobs[j].status # "absent"
    BY TurnFacts
  <2>2. RevisionOf(t) = inbound[j]
    BY <2>1 DEF CountsOK, JobCounts, RevisionOf
  <2>3. rooms[r].revision = arrived[r] /\ arrived[r] \in Nat
    BY Types DEF CountsOK, RoomCounts, BaseOK
  <2>4. PICK n \in Nat : n = arrived[r] /\ n = RevisionOf(t) /\ n = rooms[RoomOf(t)].revision
    BY <2>1, <2>2, <2>3
  <2> QED
    BY <2>4 DEF Superseded
<1>4. CASE Emits(t, state)
  <2>1. Emitted(t)
    BY <1>4 DEF Concludes, Conclude, Sends, Emits, Emitted, At
  <2> QED
    BY <1>2, <2>1, EmittedReplies
<1>5. CASE ~ Emits(t, state)
  <2>1. rooms[r].state = "handoff"
    BY <1>3, <1>5 DEF Emits, Concludes
  <2> QED
    BY <1>2, <2>1 DEF HandoffIsRequested
<1> QED
  BY <1>4, <1>5

\* Who writes the histories, where nothing is torn.
LEMMA HistoryCases ==
  ASSUME BaseOK, [Next]_vars, ~ May("torn_write"), ~ May("torn_insert"), NEW q \in Rooms
  PROVE  /\ \/ arrived'[q] = arrived[q]
            \/ \E j \in Jobs : Accepted(q, j)
            \/ IngestHeld(q) \/ IngestBlocked(q)
         /\ blocked \subseteq blocked'
         /\ handedOff'[q] = handedOff[q] \/ RequestHandoff(q) \/ ReleaseHandoff(q)
<1>0. arrived \in [Rooms -> Nat] /\ handedOff \in [Rooms -> BOOLEAN]
  BY DEF BaseOK, TypeOK
<1>1. ASSUME NEW r \in Rooms, Arrives(r), q # r PROVE arrived'[q] = arrived[q]
  BY <1>0, <1>1 DEF Arrives
<1>2. ASSUME NEW r \in Rooms, NEW j \in Jobs, Accepted(r, j)
      PROVE  /\ arrived'[q] = arrived[q] \/ Accepted(q, j)
             /\ blocked \subseteq blocked' /\ handedOff' = handedOff
  BY <1>1, <1>2, AcceptedFacts
<1>3. ASSUME NEW r \in Rooms, IngestHeld(r)
      PROVE  /\ arrived'[q] = arrived[q] \/ IngestHeld(q)
             /\ blocked \subseteq blocked' /\ handedOff' = handedOff
  BY <1>1, <1>3 DEF IngestHeld
<1>4. ASSUME NEW r \in Rooms, IngestBlocked(r)
      PROVE  /\ arrived'[q] = arrived[q] \/ IngestBlocked(q)
             /\ blocked \subseteq blocked' /\ handedOff' = handedOff
  BY <1>1, <1>4 DEF IngestBlocked
<1>5. ASSUME NEW r \in Rooms, RequestHandoff(r)
      PROVE  /\ arrived' = arrived /\ blocked \subseteq blocked'
             /\ handedOff'[q] = handedOff[q] \/ RequestHandoff(q)
  BY <1>0, <1>5 DEF RequestHandoff
<1>6. ASSUME NEW r \in Rooms, ReleaseHandoff(r)
      PROVE  /\ arrived' = arrived /\ blocked \subseteq blocked'
             /\ handedOff'[q] = handedOff[q] \/ ReleaseHandoff(q)
  BY <1>0, <1>6 DEF ReleaseHandoff
<1>7. ASSUME \/ \E r \in Rooms : IngestDuplicate(r)
             \/ \E t \in Turns : StartTurn(t) \/ EndTurn(t)
             \/ \E j \in Jobs : RetryRoomJob(j) \/ LeaseLapses(j)
             \/ Recover \/ Crash \/ FollowStep \/ UNCHANGED vars
      PROVE  UNCHANGED <<arrived, blocked, handedOff>>
  BY <1>7, FollowStepRest, EndTurnAlike DEF IngestDuplicate, StartTurn, RetryRoomJob,
     LeaseLapses, Recover, Crash, vars, history
<1>8. /\ \A r \in Rooms : ~ IngestTorn(r) /\ ~ IngestUncounted(r)
      /\ \A t \in Turns : ~ ConcludeTorn(t) /\ ~ FailTorn(t)
      /\ ~ JobsTorn
  BY DEF IngestTorn, IngestUncounted, ConcludeTorn, FailTorn, JobsTorn
<1> QED
  BY <1>2, <1>3, <1>4, <1>5, <1>6, <1>7, <1>8, StepCases

\* Who writes the latest mail of a thread: its messages, replies and follow-ups.
LEMMA LatestCases ==
  ASSUME BaseOK, [Next]_vars, ~ May("torn_write"), ~ May("torn_insert"), NEW q \in Rooms
  PROVE  \/ lastMail'[q] = lastMail[q]
         \/ Arrives(q)
         \/ \E t \in Turns : Emitted(t) /\ RoomOf(t) = q /\ arrived' = arrived
         \/ FollowStep
<1>0. lastMail \in [Rooms -> Nat]
  BY Types DEF BaseOK
<1>1. ASSUME NEW r \in Rooms, NEW mail, Filed(r, mail), q # r PROVE lastMail'[q] = lastMail[q]
  BY <1>0, <1>1 DEF Filed
<1>2. ASSUME NEW r \in Rooms, Arrives(r) PROVE lastMail'[q] = lastMail[q] \/ Arrives(q)
  BY <1>1, <1>2 DEF Arrives
<1>3. ASSUME NEW t \in Turns, EndTurn(t)
      PROVE  \/ lastMail'[q] = lastMail[q]
             \/ Emitted(t) /\ RoomOf(t) = q /\ arrived' = arrived
  <2>1. ~ Free(t) /\ arrived' = arrived /\ RoomOf(t) \in Rooms
    BY <1>3, EndCases, EndTurnAlike, TurnFacts
  <2>2. ASSUME Sends(t) PROVE lastMail'[q] = lastMail[q] \/ RoomOf(t) = q
    BY <1>1, <2>1, <2>2 DEF Sends
  <2>3. ASSUME NEW state, Concludes(t, state)
        PROVE  lastMail' = lastMail \/ (Emitted(t) /\ Sends(t))
    BY <2>1, <2>3 DEF Concludes, Conclude, Sends, Emits, Emitted, At
  <2>4. ASSUME NEW state, Fails(t, state)
        PROVE  lastMail' = lastMail \/ (Emitted(t) /\ Sends(t))
    BY <2>4, AnswersEmit DEF Fails, Sends
  <2>5. PreludeEnds(t) \/ PreludeFails(t) \/ PostRunStarts(t) => lastMail' = lastMail
    BY DEF PreludeEnds, PreludeFails, PostRunStarts
  <2> QED
    BY <1>3, <2>1, <2>2, <2>3, <2>4, <2>5, EndCases
<1>4. ASSUME NEW r \in Rooms, IngestHeld(r) \/ IngestBlocked(r) PROVE Arrives(r)
  BY <1>4 DEF IngestHeld, IngestBlocked
<1>5. ASSUME \/ \E r \in Rooms : \/ IngestDuplicate(r) \/ RequestHandoff(r)
                                 \/ ReleaseHandoff(r)
             \/ \E t \in Turns : StartTurn(t)
             \/ \E j \in Jobs : RetryRoomJob(j) \/ LeaseLapses(j)
             \/ Recover \/ Crash \/ UNCHANGED vars
      PROVE  lastMail' = lastMail
  BY <1>5 DEF IngestDuplicate, RequestHandoff, ReleaseHandoff, StartTurn, RetryRoomJob,
              LeaseLapses, Recover, Crash, vars
<1>6. /\ \A r \in Rooms : ~ IngestTorn(r) /\ ~ IngestUncounted(r)
      /\ \A t \in Turns : ~ ConcludeTorn(t) /\ ~ FailTorn(t)
      /\ ~ JobsTorn
  BY DEF IngestTorn, IngestUncounted, ConcludeTorn, FailTorn, JobsTorn
<1> QED
  BY <1>2, <1>3, <1>4, <1>5, <1>6, AcceptedFacts, StepCases

\* What the newest message needs of a behaviour.
NothingTorn ==
  /\ ~ May("torn_write") /\ ~ May("torn_insert") /\ ~ May("misdated")
  /\ May("release") => ~ May("follow_ups") /\ ~ May("torn_run")

\* The latest mail stays the newest message, or answers it.
LEMMA LatestNext ==
  ASSUME BaseOK, CountsOK, NothingTorn, [Next]_vars,
         NEW q \in Rooms, SubjectsAgree(q), LatestAgrees(q)
  PROVE  LatestAgrees(q)'
<1> SUFFICES ASSUME May("release")' PROVE (lastMail[q] = arrived[q] \/ Replied(q))'
  BY DEF LatestAgrees
<1>0. May("release") /\ lastMail \in [Rooms -> Nat]
  BY ScenarioStays, Types DEF May, BaseOK
<1>1. CASE Arrives(q)
  <2>1. lastMail' = [lastMail EXCEPT ![q] = arrived'[q]]
    BY <1>1 DEF Arrives, Filed, NothingTorn
  <2> QED
    BY <1>0, <2>1
<1>2. ASSUME NEW t \in Turns, Emitted(t), RoomOf(t) = q, arrived' = arrived PROVE Replied(q)'
  BY <1>2, EmittedReplies
<1>3. ~ FollowStep
  BY <1>0, FollowStepRest DEF NothingTorn
<1>4. CASE lastMail'[q] = lastMail[q] /\ ~ Arrives(q)
  <2>1. arrived'[q] = arrived[q]
    <3>1. ~ IngestHeld(q) /\ ~ IngestBlocked(q)
      BY <1>4 DEF IngestHeld, IngestBlocked
    <3> QED
      BY <1>4, <3>1, HistoryCases, AcceptedFacts DEF NothingTorn
  <2> QED
    BY <1>0, <1>4, <2>1, RepliedStays DEF LatestAgrees
<1> QED
  BY <1>1, <1>2, <1>3, <1>4, LatestCases DEF NothingTorn

\* The jobs made since the newest message keep to it.
LEMMA AgreementNext ==
  ASSUME BaseOK, NothingTorn, [Next]_vars, NEW q \in Rooms, SubjectsAgree(q), LatestAgrees(q)
  PROVE  SubjectsAgree(q)'
<1> SUFFICES ASSUME NEW j \in Jobs, jobs'[j].status # "absent", jobs'[j].room = q,
                    inbound'[j] = arrived'[q]
             PROVE  subject'[j] = arrived'[q] \/ Replied(q)'
  BY DEF SubjectsAgree
<1>0. arrived[q] \in Nat /\ arrived'[q] \in Nat /\ arrived[q] <= arrived'[q]
  <2>1. CASE \E r \in Rooms : Arrives(r)
    BY <2>1, ArrivalTyped, Types DEF BaseOK
  <2>2. CASE arrived' = arrived
    BY <2>2, Types DEF BaseOK
  <2> QED
    BY <2>1, <2>2, ArrivalCases
<1>1. CASE jobs[j].status # "absent"
  <2>1. /\ jobs[j].room = q /\ inbound'[j] = inbound[j] /\ subject'[j] = subject[j]
        /\ inbound[j] \in 1 .. arrived[q]
    BY <1>1, JobStays DEF SameJob, BaseOK, JobsOK
  <2>2. arrived'[q] = arrived[q]
    BY <1>0, <2>1
  <2> QED
    BY <1>1, <2>1, <2>2, RepliedStays DEF SubjectsAgree
<1>2. CASE jobs[j].status = "absent"
  <2>1. CASE Proceeds
    BY <1>2, <2>1, ProceedsAlike DEF JobsAlike
  <2>2. ASSUME NEW r \in Rooms, NEW i \in Jobs, Accepted(r, i)
        PROVE  subject'[j] = arrived'[q]
    <3>1. jobs'[i].room = r /\ i = j
      BY <1>2, <2>2, AcceptedJobs DEF SameJob, BaseOK, JobsOK, FollowUpsAssumption
    <3> QED
      BY <2>2, <3>1, AcceptedFacts, Types DEF BaseOK
  <2>3. ASSUME NEW r \in Rooms, NEW i \in Jobs, Inserts(r, i)
        PROVE  subject'[j] = arrived'[q] \/ Replied(q)'
    <3>1. i = j /\ jobs'[i].room = r /\ subject'[i] = lastMail[r]
      BY <1>2, <2>3 DEF Inserts, ReleaseInserts
    <3>2. ReleaseHandoff(r) /\ May("release") /\ arrived' = arrived
      BY <2>3 DEF Inserts, JobsTorn, ReleaseHandoff, NothingTorn
    <3> QED
      BY <3>1, <3>2, RepliedStays DEF LatestAgrees
  <2>4. ASSUME NEW t \in Turns, StartTurn(t) PROVE FALSE
    <3>1. PICK i \in NextCandidates(Swept, Now, NoneServed) : jobs' = LeaseJob(Swept, i, 0, Now)
      BY <2>4 DEF StartTurn
    <3> QED
      BY <1>2, <3>1, StartedJobs, SweptJobs DEF BaseOK
  <2> QED
    BY <2>1, <2>2, <2>3, <2>4, Kinds
<1> QED
  BY <1>1, <1>2

\* No step loses the account of a room's newest message.
LEMMA NextAccounted ==
  ASSUME BaseOK, CountsOK, HandoffIsRequested, NothingTorn, [Next]_vars,
         NEW q \in Rooms, Accounted(q), SubjectsAgree(q), LatestAgrees(q)
  PROVE  Accounted(q)'
<1>1. ASSUME NEW j \in Jobs, Accepted(q, j) PROVE Accounted(q)'
  <2>1. jobs'[j].room = q /\ jobs'[j].status = "queued"
    BY <1>1, AcceptedJobs
  <2>2. subject'[j] = arrived'[q]
    BY <1>1, AcceptedFacts, Types DEF BaseOK
  <2>3. Attended(q)'
    BY <2>1, <2>2 DEF Attended, Open, Active
  <2> QED
    BY <2>3 DEF Accounted
<1>2. ASSUME IngestHeld(q) PROVE Accounted(q)'
  BY <1>2 DEF IngestHeld, HandoffIsRequested, Accounted
<1>3. ASSUME IngestBlocked(q) PROVE Accounted(q)'
  BY <1>3 DEF IngestBlocked, Accounted
<1>5. ASSUME RequestHandoff(q) PROVE Accounted(q)'
  BY <1>5 DEF RequestHandoff, Accounted, BaseOK, TypeOK
<1>6. ASSUME ReleaseHandoff(q) PROVE Accounted(q)'
  <2>1. arrived' = arrived /\ May("release")
    BY <1>6 DEF ReleaseHandoff
  <2>2. ASSUME Resumable(q) # {}, UNCHANGED <<jobs, subject, inbound, released>>
        PROVE  Attended(q)' \/ Replied(q)
    <3>1. PICK j \in Jobs : /\ jobs[j].room = q /\ jobs[j].status \in Active
                            /\ jobs[j].revision = rooms[q].revision
      BY <2>2 DEF Resumable
    <3>2. inbound[j] = arrived[q] /\ jobs[j].status # "absent"
      BY <3>1 DEF Active, CountsOK, JobCounts, RoomCounts
    <3>3. subject[j] = arrived[q] \/ Replied(q)
      BY <3>1, <3>2 DEF SubjectsAgree
    <3> QED
      BY <2>1, <2>2, <3>1, <3>3 DEF Attended, Open
  <2>3. ASSUME NEW j \in Jobs, ReleaseInserts(q, j) PROVE Attended(q)' \/ Replied(q)
    <3>1. jobs'[j].status = "queued" /\ jobs'[j].room = q /\ subject'[j] = lastMail[q]
      BY <2>3 DEF ReleaseInserts
    <3>2. lastMail[q] = arrived[q] \/ Replied(q)
      BY <2>1 DEF LatestAgrees
    <3> QED
      BY <2>1, <3>1, <3>2 DEF Attended, Open, Active
  <2>4. Attended(q)' \/ Replied(q)
    BY <1>6, <2>2, <2>3, ReleaseJobs
  <2> QED
    BY <2>1, <2>4, RepliedStays DEF Accounted
<1>7. ASSUME arrived'[q] = arrived[q], handedOff'[q] = handedOff[q], blocked \subseteq blocked',
             ~ RequestHandoff(q), \A j \in Jobs : ~ Accepted(q, j)
      PROVE  Accounted(q)'
  <2>1. CASE arrived[q] = 0 \/ <<q, arrived[q]>> \in blocked \/ handedOff[q]
    BY <1>7, <2>1 DEF Accounted
  <2>2. CASE Replied(q)
    BY <1>7, <2>2, RepliedStays DEF Accounted
  <2>3. CASE Attended(q) /\ arrived[q] # 0
    <3>1. PICK j \in Jobs : jobs[j].room = q /\ subject[j] = arrived[q] /\ Open(jobs[j])
      BY <2>3 DEF Attended
    <3>2. jobs[j].status # "absent"
      BY <3>1 DEF Open, Active
    <3>3. CASE Open(jobs'[j])
      <4>1. jobs'[j].room = jobs[j].room /\ subject'[j] = subject[j]
        BY <3>2, JobStays DEF SameJob
      <4>2. Attended(q)'
        BY <1>7, <3>1, <3>3, <4>1 DEF Attended
      <4> QED
        BY <4>2 DEF Accounted
    <3>4. ASSUME NEW t \in Turns, NEW state, ~ Free(t), turns[t].job = j, Concludes(t, state)
          PROVE  Accounted(q)'
      <4>1. q = RoomOf(t)
        BY <3>1, <3>4 DEF RoomOf
      <4>2. arrived' = arrived /\ handedOff' = handedOff
        BY <3>4 DEF Concludes, TurnRest, history
      <4>3. CASE inbound[j] = arrived[q]
        <5>1. Replied(q)' \/ handedOff'[q]
          BY <3>4, <4>1, <4>3, ConcludesAccounted
        <5> QED
          BY <5>1 DEF Accounted
      <4>4. inbound[j] = arrived[q]
        <5>1. inbound[j] \in 1 .. arrived[q] /\ subject[j] \in 0 .. inbound[j] /\ arrived[q] \in Nat
          BY <3>1, <3>2, Types DEF BaseOK, JobsOK
        <5> QED
          BY <3>1, <5>1
      <4> QED
        BY <4>3, <4>4
    <3> QED
      BY <1>7, <3>1, <3>3, <3>4, JobFate DEF NothingTorn
  <2> QED
    BY <2>1, <2>2, <2>3 DEF Accounted
<1> QED
  BY <1>1, <1>2, <1>3, <1>5, <1>6, <1>7, HistoryCases DEF NothingTorn

\* Nothing is dropped on the way, where dates follow the arrivals and no follow-up
\* comes between a message and a release.
THEOREM NothingDropped == Spec => []NewestMessageAccountedFor
<1> DEFINE Inv == Counted /\ NothingTorn => \A r \in Rooms : NewestOK(r)
<1>1. Init => Inv
  BY DEF Init, NewestOK, Accounted, SubjectsAgree, LatestAgrees, NoRow, Own
<1>2. /\ BaseOK /\ (Counted => CountsOK) /\ HandoffIsRequested /\ Inv /\ [Next]_vars
      => Inv'
  <2> SUFFICES ASSUME BaseOK, Counted => CountsOK, HandoffIsRequested, Inv, [Next]_vars,
                      Counted', NothingTorn', NEW r \in Rooms
               PROVE  NewestOK(r)'
    OBVIOUS
  <2>1. Counted /\ NothingTorn
    BY ScenarioStays DEF Counted, NoPrelude, Without, NothingTorn, May
  <2> QED
    BY <2>1, NextAccounted, AgreementNext, LatestNext DEF NewestOK
<1>3. Inv => NewestMessageAccountedFor
  <2>1. Counted /\ LatestIsNewest /\ Without({"torn_write"}) => NothingTorn
    BY DEF Counted, LatestIsNewest, Without, NothingTorn, May
  <2> QED
    BY <2>1 DEF NewestMessageAccountedFor, NewestOK, Accounted, Replied, Attended, Open
<1> HIDE DEF Inv
<1> QED
  BY <1>1, <1>2, <1>3, TablesFit, CountsAgree, NoUnrequestedHandoff, PTL DEF Spec

-----------------------------------------------------------------------------
(* The room in the hands of the operator *)

TurnsPlain == \A t \in Turns : turns[t] # NoTurn => turns[t].at = "executing" /\ ~ turns[t].results
NoneFailed == \A j \in Jobs : jobs[j].status # "failed"
LeasesRun ==
  \A j \in Jobs : jobs[j].status = "leased" => Runs(j) /\ jobs[j].leaseExpiresAt > Now
HeldRoomsRest ==
  \A r \in Rooms : handedOff[r] =>
    /\ rooms[r].state = "handoff"
    /\ \A j \in Jobs : jobs[j].room = r => jobs[j].status # "queued"

\* While nothing disturbs the handoff, every lease is held by a turn, so that no
\* job of the room comes to be queued again.
HandedOK == TurnsPlain /\ NoneFailed /\ LeasesRun /\ HeldRoomsRest /\ NoReplyWhileHandedOff

\* What an undisturbed handoff excludes, event by event.
LEMMA Undisturbed ==
  ASSUME HandoffUndisturbed
  PROVE  /\ ~ May("turn_fails") /\ ~ May("slow_turn") /\ ~ May("policy_block") /\ ~ May("crash")
         /\ ~ May("torn_write") /\ ~ May("torn_insert") /\ ~ May("disk_fails")
         /\ ~ May("torn_run")
         /\ scenario.workers = {} /\ \A stage : ~ MayHave(stage)
BY DEF HandoffUndisturbed, Without, May, MayHave

\* There is nothing to sweep then.
LEMMA NothingSwept ==
  ASSUME BaseOK, LeasesRun
  PROVE  \A j \in Jobs : Swept[j] = jobs[j]
<1> SUFFICES ASSUME NEW j \in Jobs PROVE Swept[j] = jobs[j]
  OBVIOUS
<1>1. jobs[j].leaseExpiresAt \in Nat
  BY DEF BaseOK, TypeOK, JobRow
<1> QED
  BY <1>1, SweptJobs DEF BaseOK, LeasesRun, Now

\* The rows of two tables in which no job starts, and no lease moves.
LEMMA HandedJobs ==
  ASSUME HandedOK,
         \A j \in Jobs : \/ jobs'[j] = jobs[j]
                         \/ jobs'[j].status \in {"completed", "cancelled"} /\ jobs'[j].room = jobs[j].room,
         \A j \in Jobs : jobs'[j].status = "leased" /\ Runs(j) => Runs(j)'
  PROVE  /\ NoneFailed' /\ LeasesRun'
         /\ \A r \in Rooms : handedOff[r] =>
              \A j \in Jobs : jobs'[j].room = r => jobs'[j].status # "queued"
BY DEF HandedOK, NoneFailed, LeasesRun, HeldRoomsRest

\* No step replies in a room that the operator holds.
LEMMA RepliesUnheld ==
  ASSUME BaseOK, HandedOK, [Next]_vars
  PROVE  NoReplyWhileHandedOff'
<1>1. CASE outbox' = outbox
  BY <1>1 DEF HandedOK, NoReplyWhileHandedOff, Replies
<1>2. ASSUME NEW t \in Turns, Emitted(t) PROVE NoReplyWhileHandedOff'
  <2>1. RoomOf(t) \in Rooms /\ rooms[RoomOf(t)].state # "handoff"
    BY <1>2, TurnFacts DEF Emitted, HandedOK, TurnsPlain, Free
  <2>2. ~ Reply(t).held
    BY <2>1 DEF Reply, HandedOK, HeldRoomsRest
  <2>3. /\ Len(outbox) \in Nat /\ Len(outbox') = Len(outbox) + 1
        /\ outbox'[Len(outbox) + 1] = Reply(t)
        /\ \A n \in Replies : outbox'[n] = outbox[n]
    BY <1>2, AppendReply
  <2> SUFFICES ASSUME NEW n \in Replies' PROVE ~ outbox'[n].held
    BY DEF NoReplyWhileHandedOff
  <2>4. n \in Replies \/ n = Len(outbox) + 1
    BY <2>3 DEF Replies
  <2> QED
    BY <2>2, <2>3, <2>4 DEF HandedOK, NoReplyWhileHandedOff
<1> QED
  BY <1>1, <1>2, OutboxCases

\* The part of the step that concerns jobs and turns.
HandedStep ==
  /\ TurnsPlain' /\ NoneFailed' /\ LeasesRun'
  /\ \A r \in Rooms : handedOff'[r] =>
       \A j \in Jobs : jobs'[j].room = r => jobs'[j].status # "queued"

\* The end of a turn keeps a handed-off room handed off.
LEMMA HandedEnds ==
  ASSUME BaseOK, HandoffUndisturbed, HandedOK, NEW t \in Turns, EndTurn(t)
  PROVE  HandedStep
<1>1. ~ Free(t) /\ handedOff' = handedOff
  BY EndCases, EndTurnAlike
<1>2. turns[t].at = "executing" /\ ~ turns[t].results
  BY <1>1 DEF HandedOK, TurnsPlain, Free
<1>3. PICK state \in RoomStates : Concludes(t, state)
  <2>1. ~ PreludeEnds(t) /\ ~ PreludeFails(t)
    BY <1>2 DEF PreludeEnds, PreludeFails, At
  <2>2. ~ PostRunStarts(t)
    BY Undisturbed DEF PostRunStarts
  <2>3. \A state : ~ Fails(t, state)
    BY <1>2, Undisturbed DEF Fails
  <2> QED
    BY <2>1, <2>2, <2>3, EndCases
<1>4. PICK status \in {"cancelled", "completed"} :
        jobs' = SettleJob(jobs, turns[t].job, status) /\ Leave(t)
  BY <1>3 DEF Concludes, Conclude
<1>5. /\ jobs'[turns[t].job].status = status
      /\ SameJob(jobs'[turns[t].job], jobs[turns[t].job])
      /\ \A i \in Jobs \ {turns[t].job} : jobs'[i] = jobs[i]
      /\ turns'[t] = NoTurn
      /\ \A u \in Turns \ {t} : turns'[u] = turns[u]
  BY <1>1, <1>4, SettledTurn DEF Terminal
<1>6. \A j \in Jobs : \/ jobs'[j] = jobs[j]
                      \/ jobs'[j].status \in {"completed", "cancelled"} /\ jobs'[j].room = jobs[j].room
  BY <1>5 DEF SameJob
<1>7. \A j \in Jobs : jobs'[j].status = "leased" /\ Runs(j) => Runs(j)'
  BY <1>5 DEF Runs
<1>8. TurnsPlain'
  BY <1>5 DEF HandedOK, TurnsPlain
<1> QED
  BY <1>1, <1>6, <1>7, <1>8, HandedJobs DEF HandedStep

\* The start of a turn does, or finds no job to start there.
LEMMA HandedStarts ==
  ASSUME BaseOK, HandoffUndisturbed, HandedOK, NEW t \in Turns, StartTurn(t)
  PROVE  HandedStep
<1>1. PICK j \in NextCandidates(Swept, Now, NoneServed) :
        /\ jobs' = LeaseJob(Swept, j, 0, Now)
        /\ turns' = [turns EXCEPT ![t] =
               [at |-> "executing", job |-> j, room |-> rooms[jobs[j].room], results |-> FALSE]]
  BY Undisturbed DEF StartTurn
<1>2. /\ j \in Jobs /\ jobs'[j].status = "leased" /\ jobs'[j].leaseExpiresAt > Now
      /\ \A i \in Jobs \ {j} : jobs'[i] = jobs[i]
  BY <1>1, StartedJobs, NothingSwept DEF BaseOK, HandedOK
<1>3. turns'[t] # NoTurn /\ turns'[t].job = j /\ turns'[t].at = "executing" /\ ~ turns'[t].results
      /\ \A u \in Turns \ {t} : turns'[u] = turns[u]
  <2>1. rooms[jobs[j].room] \in RoomRow
    BY <1>2, StartedJobs, <1>1 DEF BaseOK, TypeOK, JobsOK
  <2>2. PICK new : new = [at |-> "executing", job |-> j, room |-> rooms[jobs[j].room],
                          results |-> FALSE]
    OBVIOUS
  <2>3. new \in Turn /\ new.job = j /\ new.at = "executing" /\ ~ new.results
    BY <1>2, <2>1, <2>2 DEF Turn
  <2>4. turns' = [turns EXCEPT ![t] = new]
    BY <1>1, <2>2
  <2> QED
    BY <2>3, <2>4, NoTurnAssumption DEF BaseOK, TypeOK
<1>4. turns[t] = NoTurn /\ handedOff' = handedOff
  BY DEF StartTurn, Free, history
<1>5. TurnsPlain'
  BY <1>3 DEF HandedOK, TurnsPlain
<1>6. NoneFailed'
  BY <1>2 DEF HandedOK, NoneFailed
<1>7. LeasesRun'
  <2> SUFFICES ASSUME NEW i \in Jobs, jobs'[i].status = "leased"
               PROVE  Runs(i)' /\ jobs'[i].leaseExpiresAt > Now
    BY DEF LeasesRun, Now
  <2>1. CASE i = j
    BY <1>2, <1>3, <2>1 DEF Runs
  <2>2. CASE i # j
    <3>1. Runs(i) /\ jobs'[i].leaseExpiresAt > Now
      BY <1>2, <2>2 DEF HandedOK, LeasesRun
    <3> QED
      BY <1>3, <1>4, <3>1 DEF Runs
  <2> QED
    BY <2>1, <2>2
<1>8. \A r \in Rooms : handedOff'[r] =>
        \A i \in Jobs : jobs'[i].room = r => jobs'[i].status # "queued"
  BY <1>2, <1>4 DEF HandedOK, HeldRoomsRest
<1> QED
  BY <1>5, <1>6, <1>7, <1>8 DEF HandedStep

\* Steps that leave the jobs, the turns and the operator's requests alone.
LEMMA HandedStill ==
  ASSUME HandedOK, UNCHANGED <<jobs, turns, handedOff>>
  PROVE  HandedStep
BY DEF HandedOK, HandedStep, TurnsPlain, NoneFailed, LeasesRun, HeldRoomsRest, Runs, Now

\* A job is inserted for a room the operator does not have.
LEMMA HandedInserts ==
  ASSUME HandedOK, NEW j \in Jobs, jobs'[j].status = "queued", turns' = turns,
         NEW r \in Rooms, jobs'[j].room = r, ~ handedOff'[r],
         \A q \in Rooms : handedOff'[q] => handedOff[q],
         \A i \in Jobs \ {j} : \/ jobs'[i] = jobs[i]
                               \/ /\ jobs'[i].status \in {"completed", "cancelled"}
                                  /\ jobs'[i].room = jobs[i].room
  PROVE  HandedStep
<1>1. TurnsPlain' /\ NoneFailed'
  BY DEF HandedOK, TurnsPlain, NoneFailed
<1>2. LeasesRun'
  BY DEF HandedOK, LeasesRun, Runs, Now
<1> QED
  BY <1>1, <1>2 DEF HandedOK, HandedStep, HeldRoomsRest

\* So does every step.
LEMMA HandedNext ==
  ASSUME BaseOK, HandoffUndisturbed, HandedOK, [Next]_vars
  PROVE  HandedStep
<1>1. ASSUME NEW r \in Rooms, NEW j \in Jobs, Accepted(r, j) PROVE HandedStep
  <2>1. /\ jobs'[j].status = "queued" /\ jobs'[j].room = r
        /\ \A i \in Jobs \ {j} : \/ jobs'[i] = jobs[i]
                                 \/ /\ jobs'[i].status \in {"completed", "cancelled"}
                                    /\ jobs'[i].room = jobs[i].room
    BY <1>1, AcceptedJobs DEF SameJob
  <2>2. turns' = turns /\ handedOff' = handedOff /\ ~ handedOff[r]
    BY <1>1, Undisturbed DEF Accepted, IngestAccepted, IngestCut, Accepts, HandedOK,
                             HeldRoomsRest
  <2> QED
    BY <2>1, <2>2, HandedInserts
<1>2. ASSUME NEW r \in Rooms, IngestHeld(r) \/ IngestDuplicate(r) PROVE HandedStep
  BY <1>2, HandedStill DEF IngestHeld, IngestDuplicate, history
<1>3. ASSUME NEW r \in Rooms, IngestBlocked(r) \/ IngestTorn(r) \/ IngestUncounted(r)
      PROVE  HandedStep
  BY <1>3, Undisturbed DEF IngestBlocked, IngestTorn, IngestUncounted
<1>4. ASSUME NEW r \in Rooms, RequestHandoff(r) PROVE HandedStep
  <2>1. \A j \in Jobs : \/ jobs'[j] = jobs[j]
                        \/ jobs'[j].status \in {"completed", "cancelled"} /\ jobs'[j].room = jobs[j].room
    BY <1>4, HandoffJobs DEF SameJob
  <2>2. turns' = turns
    BY <1>4 DEF RequestHandoff
  <2>3. /\ NoneFailed' /\ LeasesRun'
        /\ \A q \in Rooms : handedOff[q] =>
             \A j \in Jobs : jobs'[j].room = q => jobs'[j].status # "queued"
    BY <2>1, <2>2, HandedJobs DEF Runs
  <2>4. \A j \in Jobs : jobs'[j].room = r => jobs'[j].status # "queued"
    BY <1>4, HandoffJobs DEF SameJob
  <2>5. \A q \in Rooms : handedOff'[q] => q = r \/ handedOff[q]
    BY <1>4 DEF RequestHandoff, BaseOK, TypeOK
  <2>6. TurnsPlain'
    BY <2>2 DEF HandedOK, TurnsPlain
  <2> QED
    BY <2>3, <2>4, <2>5, <2>6 DEF HandedStep
<1>5. ASSUME NEW r \in Rooms, ReleaseHandoff(r) PROVE HandedStep
  <2>1. /\ turns' = turns /\ ~ handedOff'[r]
        /\ \A q \in Rooms : handedOff'[q] => handedOff[q]
    BY <1>5 DEF ReleaseHandoff, BaseOK, TypeOK
  <2>2. CASE jobs' = jobs
    BY <2>1, <2>2 DEF HandedOK, HandedStep, TurnsPlain, NoneFailed, LeasesRun, HeldRoomsRest, Runs,
       Now
  <2>3. ASSUME NEW j \in Jobs, ReleaseInserts(r, j) PROVE HandedStep
    BY <2>1, <2>3, HandedInserts DEF ReleaseInserts
  <2> QED
    BY <1>5, <2>2, <2>3, ReleaseJobs
<1>6. ASSUME NEW j \in Jobs, RetryRoomJob(j) PROVE HandedStep
  BY <1>6 DEF RetryRoomJob, Retryable, HandedOK, NoneFailed
<1>7. ASSUME NEW j \in Jobs, LeaseLapses(j) PROVE HandedStep
  BY <1>7, Undisturbed DEF LeaseLapses, HandedOK, LeasesRun
<1>8. ASSUME Recover PROVE HandedStep
  <2>1. jobs' = Swept /\ turns' = turns /\ handedOff' = handedOff
    BY <1>8 DEF Recover, history
  <2>2. \A j \in Jobs : jobs'[j] = jobs[j]
    BY <2>1, NothingSwept DEF HandedOK
  <2> QED
    BY <2>1, <2>2 DEF HandedOK, HandedStep, TurnsPlain, NoneFailed, LeasesRun, HeldRoomsRest, Runs, Now
<1>9. ASSUME Crash PROVE HandedStep
  BY <1>9, Undisturbed DEF Crash
<1>10. ASSUME FollowStep PROVE HandedStep
  BY <1>10, FollowStepRest, Undisturbed, HandedStill DEF history
<1>11. ASSUME JobsTorn \/ \E t \in Turns : ConcludeTorn(t) \/ FailTorn(t) PROVE HandedStep
  BY <1>11, Undisturbed, LostTurn DEF JobsTorn
<1>12. ASSUME UNCHANGED vars PROVE HandedStep
  BY <1>12, HandedStill DEF vars, history
<1> QED
  BY <1>1, <1>2, <1>3, <1>4, <1>5, <1>6, <1>7, <1>8, <1>9, <1>10, <1>11, <1>12,
     HandedEnds, HandedStarts, StepCases

\* Every step keeps handed-off rooms at rest.
LEMMA NextHanded ==
  ASSUME BaseOK, HandoffUndisturbed, HandedOK, [Next]_vars
  PROVE  HandedOK'
<1>1. HandedStep /\ NoReplyWhileHandedOff'
  BY HandedNext, RepliesUnheld
<1>2. ASSUME NEW q \in Rooms, handedOff'[q] PROVE rooms'[q].state = "handoff"
  <2>1. handedOff[q] => ~ Disturbed(q)
    <3>1. handedOff[q] => rooms[q].state = "handoff"
      BY DEF HandedOK, HeldRoomsRest
    <3>2. \A t \in Turns : ~ Free(t) => turns[t].at = "executing" /\ ~ turns[t].results
      BY DEF HandedOK, TurnsPlain, Free
    <3>3. handedOff[q] => \A j \in Jobs : jobs[j].room = q =>
                            jobs[j].status # "failed" /\ Swept[j].status # "queued"
      BY NothingSwept DEF HandedOK, NoneFailed, HeldRoomsRest
    <3> QED
      BY <3>1, <3>2, <3>3, Undisturbed DEF Disturbed
  <2>2. handedOff[q] => rooms[q].state = "handoff"
    BY DEF HandedOK, HeldRoomsRest
  <2> QED
    BY <1>2, <2>1, <2>2, NextStates DEF StateSteps
<1> QED
  BY <1>1, <1>2 DEF HandedOK, HandedStep, HeldRoomsRest

\* As long as nothing disturbs the handoff, the room is at rest in it.
THEOREM HandoffRests == Spec => [](HandoffUndisturbed => HandedOK)
<1>1. Init => HandedOK
  BY DEF Init, HandedOK, TurnsPlain, NoneFailed, LeasesRun, HeldRoomsRest, NoReplyWhileHandedOff,
     Replies, NoRow
<1>2. /\ BaseOK /\ (HandoffUndisturbed => HandedOK) /\ [Next]_vars
      => (HandoffUndisturbed => HandedOK)'
  <2>1. BaseOK /\ [Next]_vars /\ HandoffUndisturbed' => HandoffUndisturbed
    BY ScenarioStays DEF HandoffUndisturbed, Without
  <2> QED
    BY <2>1, NextHanded
<1> QED
  BY <1>1, <1>2, TablesFit, PTL DEF Spec

\* A room does not leave the state handoff behind the operator's back.
THEOREM HandoffKept == Spec => []HandoffHolds
<1>1. (HandoffUndisturbed => HandedOK) => HandoffHolds
  BY DEF HandoffHolds, HandedOK, HeldRoomsRest
<1> QED
  BY <1>1, HandoffRests, PTL

\* No reply is emitted between the operator's request and the release.
THEOREM SilentUnderHandoff == Spec => []HandoffSuppressesReplies
<1>1. (HandoffUndisturbed => HandedOK) => HandoffSuppressesReplies
  BY DEF HandoffSuppressesReplies, HandedOK
<1> QED
  BY <1>1, HandoffRests, PTL

-----------------------------------------------------------------------------
(* The follow-up of a room *)

ArrivalStep(r) ==
  \/ \E j \in Jobs : Accepted(r, j)
  \/ IngestHeld(r) \/ IngestBlocked(r) \/ IngestTorn(r) \/ IngestUncounted(r)

\* A message of a room handles the room's follow-up, unless the process dies.
LEMMA ArrivalSchedules ==
  ASSUME BaseOK, NEW r \in Rooms, ArrivalStep(r)
  PROVE  /\ \/ Schedule(r) /\ Exists(r)'
            \/ UNCHANGED scheduleVars /\ (May("torn_write") \/ May("torn_insert"))
         /\ day' = day
         /\ arrived' = [arrived EXCEPT ![r] = @ + 1]
         /\ arrived[r] < Len(scenario.mail[r])
<1>1. ASSUME NEW j \in Jobs, Accepted(r, j)
      PROVE  Schedule(r) /\ Exists(r)' /\ day' = day /\ Arrives(r)
  <2>1. rooms'[r].state = "queued"
    BY <1>1, AcceptedFacts, StateBumped DEF RoomStates
  <2> QED
    BY <1>1, <2>1, AcceptedFacts DEF Arranged, Exists
<1>2. ASSUME IngestHeld(r) PROVE Schedule(r) /\ Exists(r)' /\ day' = day /\ Arrives(r)
  <2>1. rooms'[r].state = "handoff"
    BY <1>2, StateBumped DEF IngestHeld, RoomStates
  <2> QED
    BY <1>2, <2>1 DEF IngestHeld, Arranged, Exists
<1>3. ASSUME IngestBlocked(r) PROVE Schedule(r) /\ Exists(r)' /\ day' = day /\ Arrives(r)
  <2>1. rooms'[r].state = "failed"
    BY <1>3, StateBumped DEF IngestBlocked, RoomStates
  <2> QED
    BY <1>3, <2>1 DEF IngestBlocked, Arranged, Exists
<1>4. ASSUME IngestTorn(r)
      PROVE  /\ \/ Schedule(r) /\ Exists(r)'
                \/ UNCHANGED scheduleVars /\ May("torn_write")
             /\ day' = day /\ Arrives(r)
  <2>1. PICK state \in {"handoff", "queued"} : rooms' = [rooms EXCEPT ![r] = Bumped(r, state)]
    BY <1>4, Types DEF BaseOK, IngestTorn
  <2>2. rooms'[r].state = state
    BY <2>1, StateBumped DEF RoomStates
  <2> QED
    BY <1>4, <2>2 DEF IngestTorn, Exists
<1>5. ASSUME IngestUncounted(r)
      PROVE  UNCHANGED scheduleVars /\ May("torn_insert") /\ day' = day /\ Arrives(r)
  BY <1>5 DEF IngestUncounted, followVars
<1> QED
  BY <1>1, <1>2, <1>3, <1>4, <1>5 DEF ArrivalStep, Arrives

\* What each step does to the follow-ups.
LEMMA ScheduleCases ==
  ASSUME BaseOK, [Next]_vars
  PROVE  \/ \E r \in Rooms : ArrivalStep(r)
         \/ FollowStep /\ arrived' = arrived
         \/ UNCHANGED scheduleVars /\ day' = day /\ arrived' = arrived
<1>1. ASSUME NEW r \in Rooms, IngestDuplicate(r) \/ RequestHandoff(r) \/ ReleaseHandoff(r)
      PROVE  UNCHANGED scheduleVars /\ day' = day /\ arrived' = arrived
  BY <1>1 DEF IngestDuplicate, RequestHandoff, ReleaseHandoff, history, followVars
<1>2. ASSUME NEW t \in Turns, StartTurn(t)
      PROVE  UNCHANGED scheduleVars /\ day' = day /\ arrived' = arrived
  BY <1>2 DEF StartTurn, history, followVars
<1>3. ASSUME NEW t \in Turns, EndTurn(t)
      PROVE  UNCHANGED scheduleVars /\ day' = day /\ arrived' = arrived
  BY <1>3 DEF EndTurn, PreludeEnds, PreludeFails, ExecutionEnds, PostRunEnds, ExecutionFails,
              ReplyFails, history, followVars
<1>4. ASSUME NEW t \in Turns, ConcludeTorn(t) \/ FailTorn(t)
      PROVE  UNCHANGED scheduleVars /\ day' = day /\ arrived' = arrived
  BY <1>4, LostTurn DEF history, followVars
<1>5. ASSUME NEW j \in Jobs, RetryRoomJob(j) \/ LeaseLapses(j)
      PROVE  UNCHANGED scheduleVars /\ day' = day /\ arrived' = arrived
  BY <1>5 DEF RetryRoomJob, LeaseLapses, history, followVars
<1>6. ASSUME JobsTorn \/ Recover \/ Crash \/ UNCHANGED vars
      PROVE  UNCHANGED scheduleVars /\ day' = day /\ arrived' = arrived
  BY <1>6 DEF JobsTorn, Recover, Crash, vars, history, followVars
<1>7. FollowStep => arrived' = arrived
  BY FollowStepRest DEF history
<1> QED
  BY <1>1, <1>2, <1>3, <1>4, <1>5, <1>6, <1>7, StepCases DEF ArrivalStep

FirstPlans == \A r \in Rooms : ~ Exists(r) => ~ Planned(r)

\* Only the first message of a room can plan its follow-up.
LEMMA ScheduleFirst ==
  ASSUME FirstPlans, NEW r \in Rooms, Schedule(r)
  PROVE  \/ Exists(r) /\ Stop(r)
         \/ /\ ~ Exists(r) /\ ~ Planned(r)
            /\ \E kind \in {"run_at", "cron_like"} : Plan(r, kind)
         \/ ~ Exists(r) /\ UNCHANGED scheduleVars
BY DEF Schedule, FirstPlans

\* No step breaks the account of a room's first plan.
LEMMA FirstPlansNext == ASSUME BaseOK, FirstPlans, [Next]_vars PROVE FirstPlans'
<1> SUFFICES ASSUME NEW q \in Rooms, ~ Exists(q)' PROVE ~ Planned(q)'
  BY DEF FirstPlans
<1>0. FollowTypeOK
  BY DEF BaseOK, TypeOK
<1>2. ~ Exists(q) /\ ~ Planned(q) /\ followUps[q] = NoFollowUp
  BY RowsStay DEF FirstPlans, Planned
<1>1. ASSUME NEW r \in Rooms, ArrivalStep(r) PROVE ~ Planned(q)'
  <2>1. UNCHANGED scheduleVars \/ (Schedule(r) /\ q # r)
    BY <1>1, ArrivalSchedules
  <2>2. followUps'[q] = followUps[q]
    BY <1>0, <2>1, ScheduleFirst, OthersSame DEF scheduleVars
  <2> QED
    BY <1>2, <2>2 DEF Planned
<1>3. ASSUME FollowStep PROVE ~ Planned(q)'
  <2>1. followUps'[q] = followUps[q]
    <3>1. ~ Planned(q) /\ followUps[q] = NoFollowUp
      BY <1>2
    <3>2. ASSUME NEW r \in Rooms, Pause(r) \/ Resume(r) \/ Cancel(r) \/ RunNow(r)
          PROVE  followUps'[q] = followUps[q]
      <4>1. q # r
        BY <3>1, <3>2 DEF Pause, Resume, Cancel, RunNow, IsActive
      <4> QED
        BY <1>0, <3>2, <4>1, OthersSame
    <3>3. ASSUME RunDue \/ (\E r \in DueNow : RunTorn(r)) PROVE followUps'[q] = followUps[q]
      BY <3>1, <3>3 DEF RunDue, RunTorn, Run, DueNow, IsActive
    <3>4. NextDay => followUps'[q] = followUps[q]
      BY DEF NextDay, scheduleVars
    <3> QED
      BY <1>3, <3>2, <3>3, <3>4 DEF FollowStep, FollowUpTorn
  <2> QED
    BY <1>2, <1>3, <2>1 DEF Planned
<1>4. ASSUME UNCHANGED scheduleVars PROVE ~ Planned(q)'
  BY <1>2, <1>4 DEF scheduleVars, Planned
<1> QED
  BY <1>1, <1>3, <1>4, ScheduleCases

\* The follow-ups were sent as often as they may be, whoever handled them.
LEMMA NextSent ==
  ASSUME BaseOK, FirstPlans, NEW q \in Rooms, SentOK(q), Without({"torn_run"}), [Next]_vars
  PROVE  SentOK(q)'
<1>0. FollowTypeOK
  BY DEF BaseOK, TypeOK
<1>1. UNCHANGED scheduleVars /\ day' = day => SentOK(q)'
  BY SentSame DEF scheduleVars
<1>2. ASSUME NEW r \in Rooms, ArrivalStep(r) PROVE SentOK(q)'
  <2>1. day' = day /\ (Schedule(r) \/ UNCHANGED scheduleVars)
    BY <1>2, ArrivalSchedules
  <2>2. CASE \/ Stop(r)
             \/ \E kind \in {"run_at", "cron_like"} : Plan(r, kind) /\ ~ Planned(r)
    <3>1. CASE q # r
      BY <1>0, <2>1, <2>2, <3>1, OthersSame, SentSame
    <3>2. CASE q = r
      BY <1>0, <2>1, <2>2, <3>2, SentStopped, SentPlanned
    <3> QED
      BY <3>1, <3>2
  <2> QED
    BY <1>1, <2>1, <2>2, ScheduleFirst
<1>3. ASSUME FollowStep PROVE SentOK(q)'
  <2>1. ~ FollowUpTorn
    BY DEF FollowUpTorn, May, Without
  <2> QED
    BY <1>0, <1>3, <2>1, SentRun, SentNextDay, SentOperated, SentRunNow DEF FollowStep
<1> QED
  BY <1>1, <1>2, <1>3, ScheduleCases

\* A reminder is sent once and a recurring one once a day, whatever the operator
\* pauses, resumes or cancels; what the operator runs is sent besides.
THEOREM SentOnce == Spec => []FollowUpSentOnce
<1> DEFINE Inv == Without({"torn_run"}) => \A q \in Rooms : SentOK(q)
<1>1. Init => FirstPlans /\ Inv
  BY DEF Init, FollowInit, FirstPlans, Planned, SentOK, AccountOK
<1>2. BaseOK /\ FirstPlans /\ [Next]_vars => FirstPlans'
  BY FirstPlansNext
<1>3. BaseOK /\ FirstPlans /\ Inv /\ [Next]_vars => Inv'
  <2>1. BaseOK /\ [Next]_vars /\ Without({"torn_run"})' => Without({"torn_run"})
    BY ScenarioStays DEF Without
  <2> QED
    BY <2>1, NextSent
<1>4. BaseOK /\ Inv => FollowUpSentOnce
  <2> SUFFICES ASSUME BaseOK, NEW q \in Rooms, SentOK(q), Planned(q)
               PROVE  sent[q] <= byHand[q] + (IF followUps[q].kind = "run_at" THEN 1
                                              ELSE day - followUps[q].born)
    BY DEF FollowUpSentOnce
  <2>1. PICK f \in FollowUp, s \in Nat, b \in Nat, d \in 0 .. MaxDay :
          /\ f = followUps[q] /\ s = sent[q] /\ b = byHand[q] /\ d = day
          /\ f # NoFollowUp
          /\ AccountOK(f, s, b, d)
    BY PlannedCounts DEF BaseOK, TypeOK
  <2>2. /\ f.kind \in {"run_at", "cron_like"} /\ f.born \in Nat
        /\ f.born <= d
        /\ f.kind = "run_at" => s <= b + 1
        /\ f.kind = "cron_like" => s + f.born <= b + d
    BY <2>1 DEF AccountOK, FollowUp
  <2>3. s <= b + (IF f.kind = "run_at" THEN 1 ELSE d - f.born)
    BY <2>2
  <2> QED
    BY <2>1, <2>3
<1> HIDE DEF Inv
<1> QED
  BY <1>1, <1>2, <1>3, <1>4, TablesFit, PTL DEF Spec

EndedOK == \A q \in Rooms : RowOK(q) /\ (arrived[q] > 1 => Resting(q))

\* No step revives a follow-up that a reply has ended.
LEMMA NextEnded ==
  ASSUME BaseOK, RowsWritten, FirstPlans, EndedOK,
         Without({"torn_write", "torn_insert"}), [Next]_vars
  PROVE  EndedOK'
<1> SUFFICES ASSUME NEW q \in Rooms PROVE RowOK(q)' /\ (arrived'[q] > 1 => Resting(q)')
  BY DEF EndedOK
<1>0. FollowTypeOK /\ arrived \in [Rooms -> Nat] /\ RowOK(q) /\ (arrived[q] > 1 => Resting(q))
  BY DEF BaseOK, TypeOK, EndedOK
<1>1. UNCHANGED scheduleVars => RowOK(q)' /\ (Resting(q) => Resting(q)')
  BY <1>0, RestSame DEF scheduleVars
<1>2. ASSUME NEW r \in Rooms, ArrivalStep(r)
      PROVE  RowOK(q)' /\ (arrived'[q] > 1 => Resting(q)')
  <2>1. Schedule(r) /\ arrived' = [arrived EXCEPT ![r] = @ + 1]
    BY <1>2, ArrivalSchedules DEF May, Without
  <2>2. CASE q # r
    <3>1. arrived'[q] = arrived[q]
      BY <2>1, <2>2, <1>0
    <3>2. \/ Stop(r)
          \/ \E kind \in {"run_at", "cron_like"} : Plan(r, kind)
          \/ UNCHANGED scheduleVars
      BY <2>1, ScheduleFirst
    <3>3. UNCHANGED scheduleVars => RowOK(q)' /\ (arrived'[q] > 1 => Resting(q)')
      BY <1>0, <1>1, <3>1
    <3> QED
      BY <1>0, <2>2, <3>1, <3>2, <3>3, OthersSame, RestSame
  <2>3. CASE q = r /\ Exists(r)
    <3>1. Stop(q)
      BY <2>1, <2>3, ScheduleFirst
    <3> QED
      BY <1>0, <3>1, StoppedRests
  <2>4. CASE q = r /\ ~ Exists(r)
    <3>1. ~ (arrived'[q] > 1)
      BY <1>0, <2>1, <2>4 DEF RowsWritten
    <3>2. RowOK(q)'
      BY <1>0, <1>1, <2>1, <2>4, ScheduleFirst, PlannedRests
    <3> QED
      BY <3>1, <3>2
  <2> QED
    BY <1>0, <2>2, <2>3, <2>4
<1>3. ASSUME FollowStep, arrived' = arrived
      PROVE  RowOK(q)' /\ (Resting(q) => Resting(q)')
  <2>1. ASSUME NEW r \in Rooms, Pause(r) \/ Resume(r) \/ Cancel(r) \/ RunNow(r)
        PROVE  RowOK(q)' /\ (Resting(q) => Resting(q)')
    <3>1. CASE q # r
      BY <1>0, <2>1, <3>1, OthersSame, RestSame
    <3>2. CASE q = r
      BY <1>0, <2>1, <3>2, OperatedRests, RunRests
    <3> QED
      BY <3>1, <3>2
  <2>2. NextDay => RowOK(q)' /\ (Resting(q) => Resting(q)')
    BY <1>1 DEF NextDay
  <2> QED
    BY <1>0, <1>3, <2>1, <2>2, RunRests DEF FollowStep, FollowUpTorn
<1> QED
  BY <1>0, <1>1, <1>2, <1>3, ScheduleCases

\* After another message no follow-up of its room comes due by itself.
THEOREM RepliesEndFollowUps == Spec => []ReplyEndsFollowUps
<1> DEFINE Inv == Without({"torn_write", "torn_insert"}) => EndedOK
<1> DEFINE Rows == Without({"torn_insert"}) => RowsWritten
<1>1. Init => FirstPlans /\ Inv
  BY DEF Init, FollowInit, FirstPlans, Planned, EndedOK, RowOK, Resting
<1>2. BaseOK /\ FirstPlans /\ [Next]_vars => FirstPlans'
  BY FirstPlansNext
<1>3. BaseOK /\ FirstPlans /\ Rows /\ Inv /\ [Next]_vars => Inv'
  <2>1. ASSUME BaseOK, [Next]_vars, Without({"torn_write", "torn_insert"})'
        PROVE  Without({"torn_write", "torn_insert"}) /\ Without({"torn_insert"})
    BY <2>1, ScenarioStays DEF Without
  <2> QED
    BY <2>1, NextEnded
<1>4. BaseOK /\ Inv => ReplyEndsFollowUps
  <2> SUFFICES ASSUME BaseOK, EndedOK, NEW q \in DueNow, arrived[q] > 1
               PROVE  followUps[q].kind = "cron_like" /\ operated[q] = "resumed"
    BY DEF ReplyEndsFollowUps
  <2>1. q \in Rooms /\ Planned(q) /\ followUps[q].status = "active" /\ followUps[q].due <= day
    BY DEF DueNow, IsActive
  <2>2. Resting(q) /\ day \in Nat /\ day < Never /\ Never \in Nat
    BY <2>1, FollowUpsAssumption DEF EndedOK, BaseOK, TypeOK, FollowTypeOK, Never
  <2>3. followUps[q].due # Never
    BY <2>1, <2>2
  <2> QED
    BY <2>1, <2>2, <2>3 DEF Resting
<1>5. Spec => []Rows
  BY RowsAreWritten
<1> HIDE DEF Inv, Rows
<1> QED
  BY <1>1, <1>2, <1>3, <1>4, <1>5, TablesFit, PTL DEF Spec
=============================================================================
