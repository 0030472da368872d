----------------------- MODULE MailRoomTurns_proofs -----------------------
(***************************************************************************)
(* Proofs about the turns of MailRoom: that they are serial in each room,  *)
(* that their replies are counted, and that they answer no message twice.  *)
(***************************************************************************)
EXTENDS MailRoom_proofs

-----------------------------------------------------------------------------
(* A turn keeps its lease *)

Running(t) == turns[t] # NoTurn
Inserted(j) == jobs[j].status # "absent"

\* The job of a running turn is leased, until a moment still to come.
LeasesKept ==
  \A t \in Turns : Running(t) =>
    jobs[turns[t].job].status = "leased" /\ jobs[turns[t].job].leaseExpiresAt > Now

\* No two turns run the same job.
OwnJobs ==
  \A t, u \in Turns : t # u /\ Running(t) /\ Running(u) => turns[t].job # turns[u].job

LeaseOK == LeasesKept /\ OwnJobs

\* What StartTurn writes, if the turn goes on.
LEMMA StartedTurn ==
  ASSUME BaseOK, NEW t \in Turns, StartTurn(t)
  PROVE  \E j \in NextCandidates(Swept, Now, NoneServed) :
           /\ jobs' = LeaseJob(Swept, j, 0, Now)
           /\ \/ turns' = turns
              \/ /\ turns'[t] # NoTurn /\ turns'[t].job = j
                 /\ turns'[t].room = rooms[jobs[j].room]
           /\ \A u \in Turns \ {t} : turns'[u] = turns[u]
<1>1. PICK j \in NextCandidates(Swept, Now, NoneServed), prelude \in BOOLEAN :
        /\ jobs' = LeaseJob(Swept, j, 0, Now)
        /\ \/ turns' = turns
           \/ turns' = [turns EXCEPT ![t] =
                 [at |-> IF prelude THEN "prelude" ELSE "executing",
                  job |-> j, room |-> rooms[jobs[j].room], results |-> FALSE]]
  BY DEF StartTurn
<1>2. j \in Jobs /\ jobs[j].status # "absent"
  BY <1>1, StartedJobs DEF BaseOK
<1>3. rooms[jobs[j].room] \in RoomRow
  BY <1>2 DEF BaseOK, TypeOK, JobsOK
<1>4. PICK new : new = [at |-> IF prelude THEN "prelude" ELSE "executing",
                        job |-> j, room |-> rooms[jobs[j].room], results |-> FALSE]
  OBVIOUS
<1>5. new \in Turn /\ new.job = j /\ new.room = rooms[jobs[j].room]
  BY <1>2, <1>3, <1>4 DEF Turn
<1>6. turns' = turns \/ turns' = [turns EXCEPT ![t] = new]
  BY <1>1, <1>4
<1>7. /\ turns' = turns \/ (turns'[t] # NoTurn /\ turns'[t].job = j /\ turns'[t].room = rooms[jobs[j].room])
      /\ \A u \in Turns \ {t} : turns'[u] = turns[u]
  BY <1>5, <1>6, NoTurnAssumption DEF BaseOK, TypeOK
<1> QED
  BY <1>1, <1>7

\* A turn that runs after a step ran before, or was started in it.
LEMMA TurnMoves ==
  ASSUME BaseOK, [Next]_vars, NEW t \in Turns, Running(t)'
  PROVE  \/ Running(t) /\ turns'[t].job = turns[t].job /\ turns'[t].room = turns[t].room
         \/ ~ Running(t) /\ StartTurn(t)
<1>1. CASE Proceeds
  BY <1>1, ProceedsAlike DEF TurnsAlike, Running
<1>2. ASSUME turns' = turns \/ turns' = [u \in Turns |-> NoTurn]
      PROVE  Running(t) /\ turns'[t].job = turns[t].job /\ turns'[t].room = turns[t].room
  BY <1>2 DEF Running
<1>3. ASSUME NEW u \in Turns, StartTurn(u)
      PROVE  \/ Running(t) /\ turns'[t].job = turns[t].job /\ turns'[t].room = turns[t].room
             \/ ~ Running(t) /\ StartTurn(t)
  <2>1. turns[u] = NoTurn
    BY <1>3 DEF StartTurn, Free
  <2>2. \A v \in Turns \ {u} : turns'[v] = turns[v]
    BY <1>3, StartedTurn
  <2> QED
    BY <1>3, <2>1, <2>2 DEF Running
<1>4. ASSUME NEW r \in Rooms, NEW j \in Jobs, Accepted(r, j)
      PROVE  turns' = turns \/ turns' = [u \in Turns |-> NoTurn]
  BY <1>4, AcceptedFacts
<1>5. ASSUME NEW r \in Rooms, NEW j \in Jobs, Inserts(r, j)
      PROVE  turns' = turns \/ turns' = [u \in Turns |-> NoTurn]
  BY <1>5 DEF Inserts, ReleaseHandoff, JobsTorn
<1> QED
  BY <1>1, <1>2, <1>3, <1>4, <1>5, Kinds

\* The jobs an ended turn leaves alone.
LEMMA EndTurnJobs ==
  ASSUME BaseOK, NEW t \in Turns, EndTurn(t), NEW j \in Jobs
  PROVE  \/ jobs'[j] = jobs[j]
         \/ ~ Free(t) /\ turns[t].job = j /\ turns'[t] = NoTurn /\ jobs'[j].status \in Terminal
<1>0. ~ Free(t)
  BY EndCases
<1>1. ASSUME NEW status \in Terminal, jobs' = SettleJob(jobs, turns[t].job, status), Leave(t)
      PROVE  \/ jobs'[j] = jobs[j]
             \/ ~ Free(t) /\ turns[t].job = j /\ turns'[t] = NoTurn /\ jobs'[j].status \in Terminal
  BY <1>0, <1>1, SettledTurn
<1>2. CASE PreludeEnds(t) \/ PreludeFails(t) \/ PostRunStarts(t)
  BY <1>2 DEF PreludeEnds, PreludeFails, PostRunStarts
<1>3. ASSUME NEW state, Concludes(t, state)
      PROVE  \E status \in Terminal : jobs' = SettleJob(jobs, turns[t].job, status) /\ Leave(t)
  BY <1>3 DEF Concludes, Conclude, Terminal
<1>4. ASSUME NEW state, Fails(t, state)
      PROVE  \E status \in Terminal : jobs' = SettleJob(jobs, turns[t].job, status) /\ Leave(t)
  BY <1>4 DEF Fails, Failed, Terminal
<1> QED
  BY <1>1, <1>2, <1>3, <1>4, EndCases

\* Nobody else moves the job of a turn.
LEMMA LeaseStays ==
  ASSUME BaseOK, LeaseOK, Without({"slow_turn"}), [Next]_vars, NEW t \in Turns,
         Running(t), Running(t)', turns'[t].job = turns[t].job
  PROVE  jobs'[turns[t].job] = jobs[turns[t].job]
<1>1. PICK j \in Jobs : j = turns[t].job
  BY TurnFacts DEF Running, Free
<1>2. jobs[j].status = "leased" /\ jobs[j].leaseExpiresAt > Now /\ Runs(j)
  BY <1>1 DEF LeaseOK, LeasesKept, Runs, Running
<1>3. Swept[j] = jobs[j]
  <2>1. jobs[j].leaseExpiresAt \in Nat
    BY DEF BaseOK, TypeOK, JobRow
  <2> QED
    BY <1>2, <2>1, SweptJobs DEF BaseOK, Now
<1>4. ASSUME NEW r \in Rooms, NEW i \in Jobs, Accepted(r, i) PROVE jobs'[j] = jobs[j]
  BY <1>2, <1>4, AcceptedJobs
<1>5. ASSUME NEW r \in Rooms, \/ IngestHeld(r) \/ IngestBlocked(r) \/ IngestDuplicate(r)
                            \/ IngestTorn(r) \/ IngestUncounted(r)
      PROVE  jobs'[j] = jobs[j]
  BY <1>5 DEF IngestHeld, IngestBlocked, IngestDuplicate, IngestTorn, IngestUncounted
<1>6. ASSUME NEW r \in Rooms, RequestHandoff(r) PROVE jobs'[j] = jobs[j]
  BY <1>2, <1>6, HandoffJobs
<1>7. ASSUME NEW r \in Rooms, ReleaseHandoff(r) PROVE jobs'[j] = jobs[j]
  BY <1>2, <1>7, ReleaseJobs DEF ReleaseInserts
<1>8. ASSUME NEW u \in Turns, StartTurn(u) PROVE jobs'[j] = jobs[j]
  <2>1. PICK i \in NextCandidates(Swept, Now, NoneServed) : jobs' = LeaseJob(Swept, i, 0, Now)
    BY <1>8 DEF StartTurn
  <2>2. Swept[i].status = "queued" /\ \A k \in Jobs \ {i} : jobs'[k] = Swept[k]
    BY <2>1, StartedJobs DEF BaseOK, Leasable
  <2> QED
    BY <1>2, <1>3, <2>2
<1>9. ASSUME NEW u \in Turns, EndTurn(u) PROVE jobs'[j] = jobs[j]
  <2>1. u # t /\ ~ Free(u) => turns[u].job # j
    BY <1>1 DEF LeaseOK, OwnJobs, Running, Free
  <2> QED
    BY <1>9, <2>1, EndTurnJobs DEF Running
<1>10. ASSUME JobsTorn \/ \E u \in Turns : ConcludeTorn(u) \/ FailTorn(u) PROVE FALSE
  BY <1>10, LostTurn DEF JobsTorn, Running
<1>11. ASSUME NEW i \in Jobs, RetryRoomJob(i) PROVE jobs'[j] = jobs[j]
  BY <1>2, <1>11, RetriedJobs DEF RetryRoomJob
<1>12. ASSUME NEW i \in Jobs, LeaseLapses(i) PROVE jobs'[j] = jobs[j]
  <2>1. i # j
    BY <1>2, <1>12 DEF LeaseLapses, May, Without
  <2> QED
    BY <1>12, <2>1, LapsedJobs
<1>13. ASSUME Recover PROVE jobs'[j] = jobs[j]
  BY <1>3, <1>13 DEF Recover
<1>14. ASSUME Crash \/ FollowStep \/ UNCHANGED vars PROVE jobs'[j] = jobs[j]
  BY <1>14, FollowStepRest DEF Crash, vars
<1> QED
  BY <1>1, <1>4, <1>5, <1>6, <1>7, <1>8, <1>9, <1>10, <1>11, <1>12, <1>13, <1>14, StepCases

\* A turn starts with a lease nobody has.
LEMMA StartLeases ==
  ASSUME BaseOK, LeaseOK, NEW t \in Turns, StartTurn(t), Running(t)'
  PROVE  /\ turns'[t].job \in Jobs
         /\ jobs'[turns'[t].job].status = "leased" /\ jobs'[turns'[t].job].leaseExpiresAt > Now
         /\ \A u \in Turns : Running(u) => turns[u].job # turns'[t].job
<1>1. PICK j \in NextCandidates(Swept, Now, NoneServed) :
        jobs' = LeaseJob(Swept, j, 0, Now) /\ (turns' = turns \/ turns'[t].job = j)
  BY StartedTurn
<1>2. turns'[t].job = j
  BY <1>1 DEF StartTurn, Free, Running
<1>3. /\ j \in Jobs /\ jobs'[j].status = "leased" /\ jobs'[j].leaseExpiresAt > Now
      /\ Swept[j].status = "queued"
  BY <1>1, StartedJobs DEF BaseOK, Leasable
<1>4. ASSUME NEW u \in Turns, Running(u) PROVE turns[u].job # j
  <2>1. PICK i \in Jobs : i = turns[u].job
    BY <1>4, TurnFacts DEF Running, Free
  <2>2. jobs[i].status = "leased" /\ jobs[i].leaseExpiresAt > Now /\ jobs[i].leaseExpiresAt \in Nat
    BY <1>4, <2>1 DEF LeaseOK, LeasesKept, BaseOK, TypeOK, JobRow
  <2>3. Swept[i].status # "queued"
    BY <2>2, SweptJobs DEF BaseOK, Now
  <2> QED
    BY <1>3, <2>1, <2>3
<1> QED
  BY <1>2, <1>3, <1>4

\* While turns keep their time, every step leaves each turn with its lease.
LEMMA NextLeases ==
  ASSUME BaseOK, LeaseOK, Without({"slow_turn"}), [Next]_vars
  PROVE  LeaseOK'
<1>1. LeasesKept'
  <2> SUFFICES ASSUME NEW t \in Turns, Running(t)'
               PROVE  /\ jobs'[turns'[t].job].status = "leased"
                      /\ jobs'[turns'[t].job].leaseExpiresAt > Now
    BY DEF LeasesKept, Now
  <2>1. CASE Running(t) /\ turns'[t].job = turns[t].job
    BY <2>1, LeaseStays DEF LeaseOK, LeasesKept
  <2>2. CASE StartTurn(t)
    BY <2>2, StartLeases
  <2> QED
    BY <2>1, <2>2, TurnMoves
<1>2. OwnJobs'
  <2> SUFFICES ASSUME NEW t \in Turns, NEW u \in Turns, t # u, Running(t)', Running(u)'
               PROVE  turns'[t].job # turns'[u].job
    BY DEF OwnJobs
  <2>1. ASSUME NEW v \in Turns, NEW w \in Turns, v # w, StartTurn(v), Running(v)', Running(w)'
        PROVE  turns'[v].job # turns'[w].job
    <3>1. turns'[w] = turns[w] /\ Running(w)
      BY <2>1, StartedTurn DEF Running
    <3> QED
      BY <2>1, <3>1, StartLeases
  <2>2. CASE /\ Running(t) /\ turns'[t].job = turns[t].job
             /\ Running(u) /\ turns'[u].job = turns[u].job
    BY <2>2 DEF LeaseOK, OwnJobs
  <2> QED
    BY <2>1, <2>2, TurnMoves
<1> QED
  BY <1>1, <1>2 DEF LeaseOK

\* Where no lease expires under its turn, every turn holds the lease of its job.
THEOREM TurnsHoldLeases == Spec => [](Without({"slow_turn"}) => LeaseOK)
<1>1. Init => LeaseOK
  BY DEF Init, LeaseOK, LeasesKept, OwnJobs, Running
<1>2. /\ BaseOK /\ (Without({"slow_turn"}) => LeaseOK) /\ [Next]_vars
      => (Without({"slow_turn"}) => LeaseOK)'
  <2>1. BaseOK /\ [Next]_vars /\ Without({"slow_turn"})' => Without({"slow_turn"})
    BY ScenarioStays DEF Without
  <2> QED
    BY <2>1, NextLeases
<1> QED
  BY <1>1, <1>2, TablesFit, PTL DEF Spec

-----------------------------------------------------------------------------
(* The turns of a room are serial *)

\* A lease makes no job active, and changes only active ones.
LEMMA LeasedJobs ==
  ASSUME BaseOK, NEW i \in NextCandidates(Swept, Now, NoneServed),
         jobs' = LeaseJob(Swept, i, 0, Now), NEW j \in Jobs
  PROVE  /\ jobs'[j].status \in Active => jobs[j].status \in Active
         /\ jobs[j].status \notin Active => jobs'[j] = jobs[j]
<1>1. Swept[i].status = "queued" /\ i \in Jobs /\ \A k \in Jobs \ {i} : jobs'[k] = Swept[k]
  BY StartedJobs DEF BaseOK, Leasable
<1>2. \A k \in Jobs : Swept[k] = jobs[k] \/ jobs[k].status = "leased"
  BY SweptJobs DEF BaseOK
<1>3. jobs[i].status \in Active
  BY <1>1, <1>2 DEF Active
<1>4. CASE i = j
  BY <1>3, <1>4
<1>5. CASE i # j
  <2>1. jobs'[j] = jobs[j] \/ jobs[j].status \in Active
    BY <1>1, <1>2, <1>5 DEF Active
  <2> QED
    BY <2>1
<1> QED
  BY <1>4, <1>5

\* A failed job is queued again, whether the room's row is written or not.
Retries(j) == Retryable(j) /\ jobs' = RetryFailedJob(jobs, j, Now)

\* A job becomes active when it is inserted or retried.
LEMMA JobActivates ==
  ASSUME BaseOK, [Next]_vars, NEW j \in Jobs, jobs'[j].status \in Active
  PROVE  \/ jobs[j].status \in Active
         \/ \E r \in Rooms : Accepted(r, j)
         \/ \E r \in Rooms : Inserts(r, j)
         \/ Retries(j)
<1>0. \A s : s \in Active <=> s \in {"queued", "leased"}
  BY DEF Active
<1>1. ASSUME NEW r \in Rooms, NEW i \in Jobs, Accepted(r, i)
      PROVE  jobs[j].status \in Active \/ Accepted(r, j)
  BY <1>0, <1>1, AcceptedJobs
<1>2. ASSUME NEW r \in Rooms, NEW i \in Jobs, Inserts(r, i)
      PROVE  jobs[j].status \in Active \/ Inserts(r, j)
  <2>1. i = j \/ jobs'[j] = jobs[j]
    BY <1>2 DEF Inserts, ReleaseInserts
  <2> QED
    BY <1>2, <2>1
<1>3. ASSUME jobs' = jobs PROVE jobs[j].status \in Active
  BY <1>3
<1>4. ASSUME NEW r \in Rooms, \/ IngestHeld(r) \/ IngestBlocked(r) \/ IngestDuplicate(r)
                            \/ IngestTorn(r) \/ IngestUncounted(r)
      PROVE  jobs[j].status \in Active
  BY <1>3, <1>4 DEF IngestHeld, IngestBlocked, IngestDuplicate, IngestTorn, IngestUncounted
<1>5. ASSUME NEW r \in Rooms, NEW queued \in SUBSET QueuedIn(r), jobs' = Cancelling(queued)
      PROVE  jobs[j].status \in Active
  BY <1>0, <1>5, CancellingJobs
<1>6. ASSUME NEW r \in Rooms, RequestHandoff(r) PROVE jobs[j].status \in Active
  BY <1>0, <1>6, HandoffJobs
<1>7. ASSUME NEW r \in Rooms, ReleaseHandoff(r)
      PROVE  jobs[j].status \in Active \/ Inserts(r, j)
  <2>1. Exists(r)
    BY <1>7 DEF ReleaseHandoff
  <2> QED
    BY <1>2, <1>7, <2>1, ReleaseJobs DEF Inserts
<1>8. ASSUME NEW i \in NextCandidates(Swept, Now, NoneServed), jobs' = LeaseJob(Swept, i, 0, Now)
      PROVE  jobs[j].status \in Active
  BY <1>8, LeasedJobs
<1>9. ASSUME NEW t \in Turns, StartTurn(t) PROVE jobs[j].status \in Active
  BY <1>8, <1>9 DEF StartTurn
<1>10. ASSUME NEW t \in Turns, EndTurn(t) PROVE jobs[j].status \in Active
  <2>1. \A s \in Terminal : s \notin Active
    BY DEF Active, Terminal
  <2> QED
    BY <1>10, <2>1, EndTurnJobs
<1>11. ASSUME NEW t \in Turns, ConcludeTorn(t) \/ FailTorn(t) PROVE jobs[j].status \in Active
  <2>1. turns[t].job \in Jobs
    BY <1>11, LostTurn, TurnFacts
  <2> QED
    BY <1>0, <1>11, <2>1, LostTurn
<1>12. ASSUME NEW i \in Jobs, Retries(i) PROVE jobs[j].status \in Active \/ Retries(j)
  <2>1. i = j \/ jobs'[j] = jobs[j]
    BY <1>12, RetriedJobs DEF Retries
  <2> QED
    BY <1>12, <2>1
<1>13. ASSUME NEW i \in Jobs, RetryRoomJob(i) PROVE jobs[j].status \in Active \/ Retries(j)
  BY <1>12, <1>13 DEF RetryRoomJob, Retries
<1>14. ASSUME NEW i \in Jobs, LeaseLapses(i) PROVE jobs[j].status \in Active
  BY <1>14, LapsedJobs
<1>15. ASSUME Recover PROVE jobs[j].status \in Active
  <2>1. Swept[j] = jobs[j] \/ jobs[j].status = "leased"
    BY SweptJobs DEF BaseOK
  <2> QED
    BY <1>0, <1>15, <2>1 DEF Recover
<1>16. ASSUME Crash \/ FollowStep \/ UNCHANGED vars PROVE jobs[j].status \in Active
  BY <1>3, <1>16, FollowStepRest DEF Crash, vars
<1>17. ASSUME JobsTorn
       PROVE  jobs[j].status \in Active \/ (\E r \in Rooms : Inserts(r, j)) \/ Retries(j)
  BY <1>2, <1>5, <1>8, <1>12, <1>17, JobsTornCases DEF Inserts, Retries
<1> QED
  BY <1>1, <1>4, <1>6, <1>7, <1>9, <1>10, <1>11, <1>13, <1>14, <1>15, <1>16, <1>17, StepCases

\* Only where the operator may release rooms does a release make a job.
LEMMA InsertsReleases ==
  ASSUME BaseOK, NEW r \in Rooms, NEW j \in Jobs, Inserts(r, j)
  PROVE  May("release")
<1>1. jobs'[j].status = "queued" /\ jobs[j].status = "absent" /\ ReleaseInserts(r, j)
  BY DEF Inserts, ReleaseInserts
<1>2. CASE ReleaseHandoff(r)
  BY <1>2 DEF ReleaseHandoff
<1>3. ASSUME NEW i \in NextCandidates(Swept, Now, NoneServed), jobs' = LeaseJob(Swept, i, 0, Now)
      PROVE  FALSE
  BY <1>1, <1>3, LeasedJobs DEF Active
<1>4. ASSUME NEW q \in Rooms, NEW queued \in SUBSET QueuedIn(q), jobs' = Cancelling(queued)
      PROVE  FALSE
  <2>1. jobs'[j] = jobs[j] \/ jobs'[j].status = "cancelled"
    BY <1>4, CancellingJobs
  <2> QED
    BY <1>1, <2>1
<1>5. ASSUME NEW i \in Jobs, Retryable(i), jobs' = RetryFailedJob(jobs, i, Now)
      PROVE  FALSE
  <2>1. jobs[i].status = "failed" /\ \A k \in Jobs \ {i} : jobs'[k] = jobs[k]
    BY <1>5, RetriedJobs
  <2>2. i # j
    BY <1>1, <2>1
  <2> QED
    BY <1>1, <2>1, <2>2
<1>6. CASE JobsTorn
  BY <1>3, <1>4, <1>5, <1>6, JobsTornCases
<1> QED
  BY <1>2, <1>6 DEF Inserts

\* A job comes into being with its message, or with a release.
LEMMA JobAppears ==
  ASSUME BaseOK, [Next]_vars, NEW j \in Jobs, ~ Inserted(j), Inserted(j)'
  PROVE  \/ \E r \in Rooms : Accepted(r, j)
         \/ \E r \in Rooms : Inserts(r, j)
<1>1. CASE Proceeds
  BY <1>1, ProceedsAlike DEF JobsAlike, Inserted
<1>2. ASSUME NEW r \in Rooms, NEW i \in Jobs, Accepted(r, i) PROVE Accepted(r, j)
  <2>1. i # j => (jobs'[j] = jobs[j] \/ jobs[j].status = "queued")
    BY <1>2, AcceptedJobs
  <2> QED
    BY <1>2, <2>1 DEF Inserted
<1>3. ASSUME NEW r \in Rooms, NEW i \in Jobs, Inserts(r, i) PROVE Inserts(r, j)
  <2>1. i # j => jobs'[j] = jobs[j]
    BY <1>3 DEF Inserts, ReleaseInserts
  <2> QED
    BY <1>3, <2>1 DEF Inserted
<1>4. ASSUME NEW t \in Turns, StartTurn(t) PROVE FALSE
  <2>1. PICK i \in NextCandidates(Swept, Now, NoneServed) : jobs' = LeaseJob(Swept, i, 0, Now)
    BY <1>4 DEF StartTurn
  <2>2. jobs[j].status = "absent" => jobs'[j] = jobs[j]
    BY <2>1, LeasedJobs DEF Active
  <2> QED
    BY <2>2 DEF Inserted
<1> QED
  BY <1>1, <1>2, <1>3, <1>4, Kinds

\* No two jobs of a room have the same number, or no two active ones where the
\* operator may release the room.
NumbersApart ==
  \A i, j \in Jobs :
    /\ i # j /\ jobs[i].room = jobs[j].room /\ Inserted(i) /\ Inserted(j)
    /\ Without({"release"}) \/ (jobs[i].status \in Active /\ jobs[j].status \in Active)
    => jobs[i].seq # jobs[j].seq

\* A running job is the first of the active ones of its room.
RunsFirst ==
  \A t \in Turns, j \in Jobs :
    /\ Running(t) /\ j # turns[t].job
    /\ jobs[j].status \in Active /\ jobs[j].room = RoomOf(t)
    => jobs[j].seq > jobs[turns[t].job].seq

SerialOK == NumbersApart /\ RunsFirst

\* A new job has a greater number than those it must not meet.
LEMMA InsertedLast ==
  ASSUME BaseOK, CountsOK, [Next]_vars, NEW j \in Jobs, ~ Inserted(j), Inserted(j)',
         NEW i \in Jobs, Inserted(i), jobs'[i].room = jobs'[j].room,
         Without({"release"}) \/ jobs[i].status \in Active
  PROVE  jobs'[j].seq > jobs'[i].seq
<1>1. /\ jobs'[i].seq = jobs[i].seq /\ jobs'[i].room = jobs[i].room
  BY JobStays DEF Inserted, SameJob
<1>2. PICK r \in Rooms : r = jobs[i].room /\ inbound[i] \in 1 .. arrived[r]
  BY DEF BaseOK, JobsOK, Inserted
<1>3. PICK n \in Nat : n = arrived[r]
  BY DEF BaseOK, TypeOK
<1>4. PICK m \in 1 .. n : m = inbound[i]
  BY <1>2, <1>3
<1>5. jobs[i].seq = m /\ jobs[i].revision = m /\ rooms[r].inSeq = n /\ rooms[r].revision = n
  BY <1>2, <1>3, <1>4 DEF CountsOK, JobCounts, RoomCounts, Inserted
<1>6. ASSUME NEW q \in Rooms, Accepted(q, j) PROVE jobs'[j].seq > jobs'[i].seq
  <2>1. jobs'[j].room = q /\ jobs'[j].seq = rooms[q].inSeq + 1
    BY <1>6, AcceptedJobs
  <2>2. q = r
    BY <1>1, <1>2, <2>1
  <2> QED
    BY <1>1, <1>5, <2>1, <2>2
<1>7. ASSUME NEW q \in Rooms, Inserts(q, j) PROVE jobs'[j].seq > jobs'[i].seq
  <2>1. jobs'[j].room = q /\ jobs'[j].seq = rooms[q].inSeq /\ Resumable(q) = {}
    BY <1>7 DEF Inserts, ReleaseInserts
  <2>2. q = r
    BY <1>1, <1>2, <2>1
  <2>3. jobs[i].status \in Active
    BY <1>7, InsertsReleases DEF May, Without
  <2>4. jobs[i].revision # rooms[r].revision
    BY <1>2, <2>1, <2>2, <2>3 DEF Resumable
  <2>5. m # n
    BY <1>5, <2>4
  <2> QED
    BY <1>1, <1>5, <2>1, <2>2, <2>5
<1> QED
  BY <1>6, <1>7, JobAppears

\* Only one job appears in a step.
LEMMA OneAppears ==
  ASSUME BaseOK, [Next]_vars, NEW i \in Jobs, NEW j \in Jobs, ~ Inserted(i), Inserted(i)',
         ~ Inserted(j), Inserted(j)'
  PROVE  i = j
<1>1. ASSUME NEW r \in Rooms, Accepted(r, j) PROVE i = j
  BY <1>1, AcceptedJobs DEF Inserted
<1>2. ASSUME NEW r \in Rooms, Inserts(r, j) PROVE i = j
  <2>1. i # j => jobs'[i] = jobs[i]
    BY <1>2 DEF Inserts, ReleaseInserts
  <2> QED
    BY <2>1 DEF Inserted
<1> QED
  BY <1>1, <1>2, JobAppears

\* No step gives two open jobs of a room one number.
LEMMA NumbersStayApart ==
  ASSUME BaseOK, CountsOK, ReleasesApart, NumbersApart, [Next]_vars
  PROVE  NumbersApart'
<1> SUFFICES ASSUME NEW i \in Jobs, NEW j \in Jobs, i # j, jobs'[i].room = jobs'[j].room,
                    Inserted(i)', Inserted(j)',
                    Without({"release"})' \/ (jobs'[i].status \in Active /\ jobs'[j].status \in Active)
             PROVE  jobs'[i].seq # jobs'[j].seq
  BY DEF NumbersApart
<1>0. Without({"release"})' <=> Without({"release"})
  BY ScenarioStays DEF Without
<1>1. ASSUME NEW k \in Jobs, Inserted(k)
      PROVE  SameJob(jobs'[k], jobs[k])
  BY <1>1, JobStays DEF Inserted
<1>2. ASSUME NEW k \in Jobs, Inserted(k), jobs'[k].status \in Active, ~ Without({"release"})
      PROVE  jobs[k].status \in Active
  <2>1. \A r \in Rooms : ~ Accepted(r, k) /\ ~ Inserts(r, k)
    BY <1>2, AcceptedJobs DEF Inserts, ReleaseInserts, Inserted
  <2>2. ~ Retries(k)
    BY <1>2 DEF ReleasesApart, Retries, Retryable, May, Without
  <2> QED
    BY <1>2, <2>1, <2>2, JobActivates
<1>3. CASE Inserted(i) /\ Inserted(j)
  BY <1>0, <1>1, <1>2, <1>3 DEF NumbersApart, SameJob
<1>4. ASSUME NEW k \in Jobs, NEW l \in Jobs, ~ Inserted(k), Inserted(k)', Inserted(l), Inserted(l)',
             jobs'[k].room = jobs'[l].room, Without({"release"}) \/ jobs'[l].status \in Active
      PROVE  jobs'[k].seq # jobs'[l].seq
  <2>1. Without({"release"}) \/ jobs[l].status \in Active
    BY <1>2, <1>4
  <2>2. jobs'[k].seq > jobs'[l].seq
    BY <1>4, <2>1, InsertedLast
  <2>3. jobs'[k].seq \in Nat /\ jobs'[l].seq \in Nat
    BY NextBase DEF BaseOK, TypeOK, JobRow
  <2> QED
    BY <2>2, <2>3
<1> QED
  BY <1>0, <1>3, <1>4, OneAppears

\* No step lets a job run while an older one of the room is open.
LEMMA RunsStayFirst ==
  ASSUME BaseOK, CountsOK, LeaseOK, ReleasesApart, Without({"slow_turn"}), SerialOK, [Next]_vars
  PROVE  RunsFirst'
<1> SUFFICES ASSUME NEW t \in Turns, Running(t)', NEW j \in Jobs, j # turns'[t].job,
                    jobs'[j].status \in Active, jobs'[j].room = RoomOf(t)'
             PROVE  jobs'[j].seq > jobs'[turns'[t].job].seq
  BY DEF RunsFirst
<1>0. LeaseOK' /\ Inserted(j)'
  BY NextLeases DEF Inserted, Active
<1>1. PICK i \in Jobs : i = turns'[t].job
  BY NextBase DEF BaseOK, TypeOK, Running, Turn
<1>2. jobs'[j].room = jobs'[i].room
  BY <1>1 DEF RoomOf
<1>3. ASSUME Running(t), turns[t].job = i PROVE jobs'[j].seq > jobs'[i].seq
  <2>1. jobs[i].status = "leased" /\ Inserted(i) /\ Inserted(i)' /\ jobs[i].status \in Active
    BY <1>0, <1>1, <1>3 DEF LeaseOK, LeasesKept, Inserted, Active
  <2>2. SameJob(jobs'[i], jobs[i])
    BY <2>1, JobStays DEF Inserted
  <2>3. CASE ~ Inserted(j)
    BY <1>0, <1>2, <2>1, <2>3, InsertedLast
  <2>4. CASE Inserted(j)
    <3>1. SameJob(jobs'[j], jobs[j])
      BY <2>4, JobStays DEF Inserted
    <3>2. jobs[j].room = jobs[i].room
      BY <1>2, <2>2, <3>1 DEF SameJob
    <3>3. CASE jobs[j].status \in Active
      <4>1. jobs[j].seq > jobs[i].seq
        BY <1>1, <1>3, <3>2, <3>3 DEF SerialOK, RunsFirst, RoomOf
      <4> QED
        BY <2>2, <3>1, <4>1 DEF SameJob
    <3>4. CASE Retries(j)
      <4>1. Without({"release"})
        BY <3>4 DEF ReleasesApart, Retries, Retryable, May, Without
      <4>2. jobs[i].seq # jobs[j].seq
        BY <1>1, <2>1, <2>4, <3>2, <4>1 DEF SerialOK, NumbersApart
      <4>3. PICK r \in Rooms : r = jobs[i].room /\ inbound[i] \in 1 .. arrived[r]
        BY <2>1 DEF BaseOK, JobsOK, Inserted
      <4>4. inbound[j] \in 1 .. arrived[r]
        BY <2>4, <3>2, <4>3 DEF BaseOK, JobsOK, Inserted
      <4>5. rooms[r].revision <= jobs[j].revision
        BY <3>2, <3>4, <4>3 DEF Retries, Retryable
      <4>6. PICK n \in Nat : n = arrived[r]
        BY DEF BaseOK, TypeOK
      <4>7. PICK m \in 1 .. n, k \in 1 .. n : m = inbound[i] /\ k = inbound[j]
        BY <4>3, <4>4, <4>6
      <4>8. jobs[i].seq = m /\ jobs[j].seq = k /\ jobs[j].revision = k /\ rooms[r].revision = n
        BY <2>1, <2>4, <4>6, <4>7 DEF CountsOK, JobCounts, RoomCounts, Inserted
      <4>9. k > m
        BY <4>2, <4>5, <4>8
      <4> QED
        BY <2>2, <3>1, <4>8, <4>9 DEF SameJob
    <3>5. \A r \in Rooms : ~ Accepted(r, j) /\ ~ Inserts(r, j)
      BY <2>4, AcceptedJobs DEF Inserts, ReleaseInserts, Inserted
    <3> QED
      BY <3>3, <3>4, <3>5, JobActivates
  <2> QED
    BY <2>3, <2>4
<1>4. ASSUME ~ Running(t), StartTurn(t) PROVE jobs'[j].seq > jobs'[i].seq
  <2>1. PICK k \in NextCandidates(Swept, Now, NoneServed) :
          jobs' = LeaseJob(Swept, k, 0, Now) /\ (turns' = turns \/ turns'[t].job = k)
    BY <1>4, StartedTurn
  <2>2. k = i
    BY <1>1, <1>4, <2>1 DEF Running
  <2>3. /\ jobs[i].status # "absent" /\ SameJob(jobs'[i], jobs[i])
        /\ jobs'[j] = Swept[j] /\ SameJob(jobs'[j], jobs[j])
        /\ Swept[i].status = "queued"
    BY <1>1, <2>1, <2>2, StartedJobs DEF BaseOK, Leasable
  <2>4. PICK q : q = Swept
    OBVIOUS
  <2>5. q \in [Jobs -> JobRow(Rooms)] /\ SameJob(q[i], jobs[i]) /\ SameJob(q[j], jobs[j])
    BY <2>4, SweptJobs DEF BaseOK
  <2>6. \A l \in Jobs : q[l].room = q[i].room /\ q[l].status \in Active => q[l].seq >= q[i].seq
    BY <2>1, <2>2, <2>4, <2>5, CandidateIsFirst DEF Now
  <2>7. jobs[j].seq >= jobs[i].seq
    BY <1>2, <2>3, <2>4, <2>5, <2>6 DEF SameJob
  <2>8. jobs[i].status \in Active /\ jobs[j].status \in Active
    <3>1. \A l \in Jobs : Swept[l] = jobs[l] \/ jobs[l].status = "leased"
      BY SweptJobs DEF BaseOK
    <3> QED
      BY <2>3, <3>1 DEF Active
  <2>9. jobs[j].seq # jobs[i].seq
    BY <1>1, <1>2, <2>3, <2>8 DEF SerialOK, NumbersApart, Inserted, SameJob, Active
  <2>10. jobs[i].seq \in Nat /\ jobs[j].seq \in Nat
    BY DEF BaseOK, TypeOK, JobRow
  <2>11. jobs[j].seq > jobs[i].seq
    BY <2>7, <2>9, <2>10
  <2> QED
    BY <2>3, <2>11 DEF SameJob
<1>5. \/ Running(t) /\ turns[t].job = i
      \/ ~ Running(t) /\ StartTurn(t)
  BY <1>1, TurnMoves
<1> QED
  BY <1>1, <1>3, <1>4, <1>5

SerialCase == Counted /\ ReleasesApart /\ Without({"slow_turn"})

\* Where turns keep their leases and rooms count their messages, numbers stay
\* apart and turns come in their order.
THEOREM TurnsInOrder == Spec => [](SerialCase => SerialOK)
<1>1. Init => SerialOK
  BY DEF Init, SerialOK, NumbersApart, RunsFirst, Running, Inserted, NoRow
<1>2. /\ BaseOK /\ (Counted => CountsOK) /\ (Without({"slow_turn"}) => LeaseOK)
      /\ (SerialCase => SerialOK) /\ [Next]_vars
      => (SerialCase => SerialOK)'
  <2>1. BaseOK /\ [Next]_vars /\ SerialCase' => SerialCase
    BY ScenarioStays DEF SerialCase, ReleasesApart, Counted, NoPrelude, Without
  <2>2. ASSUME BaseOK, CountsOK, LeaseOK, SerialCase, SerialOK, [Next]_vars PROVE SerialOK'
    BY <2>2, NumbersStayApart, RunsStayFirst DEF SerialCase, SerialOK
  <2> QED
    BY <2>1, <2>2 DEF SerialCase
<1> QED
  BY <1>1, <1>2, TablesFit, CountsAgree, TurnsHoldLeases, PTL DEF Spec

\* Serial jobs leave each room one turn.
LEMMA OneEach ==
  ASSUME BaseOK, LeaseOK, SerialOK
  PROVE  OneTurnPerRoom
<1> SUFFICES ASSUME NEW t \in Turns, NEW u \in Turns, t # u, ~ Free(t), ~ Free(u),
                    RoomOf(t) = RoomOf(u)
             PROVE  FALSE
  BY DEF OneTurnPerRoom
<1>1. PICK i \in Jobs, j \in Jobs : i = turns[t].job /\ j = turns[u].job
  BY TurnFacts
<1>2. i # j /\ jobs[i].status \in Active /\ jobs[j].status \in Active
  BY <1>1 DEF LeaseOK, OwnJobs, LeasesKept, Running, Free, Active
<1>3. jobs[i].seq > jobs[j].seq /\ jobs[j].seq > jobs[i].seq
  BY <1>1, <1>2 DEF SerialOK, RunsFirst, RoomOf, Running, Free
<1>4. jobs[i].seq \in Nat /\ jobs[j].seq \in Nat
  BY DEF BaseOK, TypeOK, JobRow
<1> QED
  BY <1>3, <1>4

\* The turns of a room are serial, whatever fails, crashes or is handed off.
THEOREM SerialTurns == Spec => []RoomsAreSerial
<1>1. /\ BaseOK /\ (Without({"slow_turn"}) => LeaseOK) /\ (SerialCase => SerialOK)
      => RoomsAreSerial
  BY OneEach DEF RoomsAreSerial, SerialCase
<1> QED
  BY <1>1, TablesFit, TurnsHoldLeases, TurnsInOrder, PTL

-----------------------------------------------------------------------------
(* The replies are counted *)

OutCounts == \A r \in Rooms : rooms[r].outSeq = Cardinality(RepliesIn(r))

\* Nobody has replied in the room of a turn since the turn read its row.
TurnOut ==
  \A t \in Turns : Running(t) => turns[t].room.outSeq = rooms[RoomOf(t)].outSeq

\* A turn that replies writes its room's row and settles its job.
Replying(t) ==
  /\ ~ Free(t) /\ Emitted(t)
  /\ rooms'[RoomOf(t)].outSeq = turns[t].room.outSeq + 1
  /\ \A q \in Rooms \ {RoomOf(t)} : rooms'[q].outSeq = rooms[q].outSeq
  /\ turns'[t] = NoTurn
  /\ jobs'[turns[t].job].status = "completed"

\* Any other step leaves the replies and their number alone.
Silent == outbox' = outbox /\ \A q \in Rooms : rooms'[q].outSeq = rooms[q].outSeq

\* Writing a row leaves the other rooms' reply numbers alone.
LEMMA OutSeqWritten ==
  ASSUME BaseOK, NEW r \in Rooms, NEW row, rooms' = [rooms EXCEPT ![r] = row]
  PROVE  rooms'[r].outSeq = row.outSeq /\ \A q \in Rooms \ {r} : rooms'[q].outSeq = rooms[q].outSeq
BY DEF BaseOK, TypeOK

\* A turn ends by its reply, or silently; it writes the number it read.
LEMMA EndTurnOut ==
  ASSUME BaseOK, TurnOut, ~ May("disk_fails"), NEW t \in Turns, EndTurn(t)
  PROVE  Silent \/ Replying(t)
<1>0. ~ Free(t)
  BY EndCases
<1>1. PICK r \in Rooms : r = RoomOf(t)
  BY <1>0, TurnFacts
<1>2. turns[t].room \in RoomRow /\ rooms[r] \in RoomRow
  BY <1>0, <1>1, TurnFacts
<1>3. turns[t].room.outSeq = rooms[r].outSeq
  BY <1>0, <1>1 DEF TurnOut, Running, Free
<1>4. ASSUME NEW row, rooms' = [rooms EXCEPT ![r] = row], row.outSeq = rooms[r].outSeq,
             outbox' = outbox
      PROVE  Silent
  BY <1>4, OutSeqWritten DEF Silent
<1>5. ASSUME NEW state \in RoomStates, outbox' = outbox,
             \/ rooms' = [rooms EXCEPT ![r] = [rooms[r] EXCEPT !.state = state]]
             \/ rooms' = [rooms EXCEPT ![r] = [turns[t].room EXCEPT !.state = state]]
      PROVE  Silent
  <2>1. PICK a, b : /\ a = [rooms[r] EXCEPT !.state = state]
                    /\ b = [turns[t].room EXCEPT !.state = state]
    OBVIOUS
  <2>2. a.outSeq = rooms[r].outSeq /\ b.outSeq = rooms[r].outSeq
    BY <1>2, <1>3, <2>1, StateTyped
  <2> QED
    BY <1>4, <1>5, <2>1, <2>2
<1>6. CASE PreludeEnds(t)
  BY <1>1, <1>5, <1>6 DEF PreludeEnds, RoomStates
<1>7. CASE PreludeFails(t)
  BY <1>7 DEF PreludeFails, Silent
<1>8. CASE PostRunStarts(t)
  BY <1>1, <1>5, <1>8 DEF PostRunStarts, SetState, RoomStates
<1>9. ASSUME NEW state \in RoomStates, Concludes(t, state)
      PROVE  Silent \/ Replying(t)
  <2>1. CASE ~ Emits(t, state)
    BY <1>1, <1>5, <1>9, <2>1 DEF Concludes, Conclude
  <2>2. CASE Emits(t, state)
    <3>1. /\ rooms' = [rooms EXCEPT ![r] = Answered(t)] /\ Leave(t)
          /\ jobs' = SettleJob(jobs, turns[t].job, "completed")
          /\ outbox' = Append(outbox, Reply(t))
      BY <1>1, <1>9, <2>2 DEF Concludes, Conclude, Emits, Sends
    <3>2. Emitted(t)
      BY <1>9, <2>2, <3>1 DEF Concludes, Emits, Emitted, At
    <3>3. PICK row : row = Answered(t)
      OBVIOUS
    <3>4. row.outSeq = turns[t].room.outSeq + 1
      BY <1>2, <3>3, AnsweredTyped
    <3>5. /\ rooms'[r].outSeq = row.outSeq
          /\ \A q \in Rooms \ {r} : rooms'[q].outSeq = rooms[q].outSeq
      <4>1. rooms' = [rooms EXCEPT ![r] = row]
        BY <3>1, <3>3
      <4> QED
        BY <4>1, OutSeqWritten
    <3>6. turns'[t] = NoTurn /\ jobs'[turns[t].job].status = "completed"
      BY <1>0, <3>1, SettledTurn DEF Terminal
    <3> QED
      BY <1>0, <1>1, <3>2, <3>4, <3>5, <3>6 DEF Replying
  <2> QED
    BY <2>1, <2>2
<1>10. ASSUME NEW state \in RoomStates, Fails(t, state) PROVE Silent
  <2>1. "failed" \in RoomStates /\ outbox' = outbox
    BY <1>10 DEF Fails, RoomStates
  <2>2. \/ rooms' = [rooms EXCEPT ![r] = [rooms[r] EXCEPT !.state = state]]
        \/ rooms' = [rooms EXCEPT ![r] = [turns[t].room EXCEPT !.state = "failed"]]
    BY <1>1, <1>10 DEF Fails, Failed
  <2> QED
    BY <1>5, <2>1, <2>2
<1> QED
  BY <1>6, <1>7, <1>8, <1>9, <1>10, EndCases

\* A step either sends nothing or is the end of a turn that replies.
LEMMA NextOut ==
  ASSUME BaseOK, RowsWritten, TurnOut, Without({"torn_write", "disk_fails"}), [Next]_vars
  PROVE  Silent \/ \E t \in Turns : EndTurn(t) /\ Replying(t)
<1>0. ~ May("torn_write") /\ ~ May("disk_fails")
  BY DEF May, Without
<1>1. ASSUME NEW r \in Rooms, NEW state \in RoomStates,
             rooms' = [rooms EXCEPT ![r] = Bumped(r, state)], outbox' = outbox
      PROVE  Silent
  <2>1. PICK row : row = Bumped(r, state)
    OBVIOUS
  <2>2. row.outSeq = rooms[r].outSeq
    BY <2>1, BumpedTyped DEF BaseOK
  <2> QED
    BY <1>1, <2>1, <2>2, OutSeqWritten DEF Silent
<1>2. ASSUME NEW r \in Rooms, NEW j \in Jobs, Accepted(r, j) PROVE Silent
  BY <1>1, <1>2, AcceptedFacts DEF RoomStates
<1>3. ASSUME NEW r \in Rooms, IngestHeld(r) \/ IngestBlocked(r) PROVE Silent
  BY <1>1, <1>3 DEF IngestHeld, IngestBlocked, RoomStates
<1>4. ASSUME NEW r \in Rooms, IngestDuplicate(r) \/ RequestHandoff(r) \/ ReleaseHandoff(r)
      PROVE  Silent
  <2>1. outbox' = outbox /\ (IngestDuplicate(r) => Exists(r))
    BY <1>4 DEF IngestDuplicate, RequestHandoff, ReleaseHandoff, RowsWritten
  <2> QED
    BY <1>4, <2>1, QuietRooms DEF Silent, StatesOnly
<1>5. ASSUME NEW r \in Rooms, IngestTorn(r) \/ IngestUncounted(r) PROVE Silent
  BY <1>0, <1>5 DEF IngestTorn, IngestUncounted, Silent
<1>6. ASSUME NEW t \in Turns, StartTurn(t) PROVE Silent
  <2>1. outbox' = outbox
    BY <1>6 DEF StartTurn
  <2> QED
    BY <1>6, <2>1, QuietRooms DEF Silent, StatesOnly
<1>7. ASSUME NEW t \in Turns, EndTurn(t) PROVE Silent \/ Replying(t)
  BY <1>0, <1>7, EndTurnOut
<1>8. ASSUME JobsTorn \/ \E t \in Turns : ConcludeTorn(t) \/ FailTorn(t) PROVE FALSE
  BY <1>0, <1>8, LostTurn DEF JobsTorn
<1>9. ASSUME NEW j \in Jobs, RetryRoomJob(j) \/ LeaseLapses(j) PROVE Silent
  <2>1. outbox' = outbox
    BY <1>9 DEF RetryRoomJob, LeaseLapses
  <2> QED
    BY <1>9, <2>1, QuietRooms DEF Silent, StatesOnly
<1>10. ASSUME Recover \/ Crash \/ FollowStep \/ UNCHANGED vars PROVE Silent
  <2>1. outbox' = outbox
    BY <1>10, FollowStepRest DEF Recover, Crash, vars
  <2> QED
    BY <1>10, <2>1, QuietRooms DEF Silent, StatesOnly
<1> QED
  BY <1>2, <1>3, <1>4, <1>5, <1>6, <1>7, <1>8, <1>9, <1>10, StepCases

\* A running turn keeps the reply number that its room has.
LEMMA TurnOutStays ==
  ASSUME BaseOK, RowsWritten, OneTurnPerRoom, TurnOut,
         Without({"torn_write", "disk_fails"}), [Next]_vars
  PROVE  TurnOut'
<1> SUFFICES ASSUME NEW t \in Turns, Running(t)'
             PROVE  turns'[t].room.outSeq = rooms'[RoomOf(t)'].outSeq
  BY DEF TurnOut
<1>1. ASSUME Running(t), turns'[t].job = turns[t].job, turns'[t].room = turns[t].room
      PROVE  turns'[t].room.outSeq = rooms'[RoomOf(t)'].outSeq
  <2>1. PICK j \in Jobs : j = turns[t].job /\ Inserted(j) /\ RoomOf(t) = jobs[j].room
    BY <1>1, TurnFacts DEF Running, Free, Inserted, RoomOf
  <2>2. RoomOf(t)' = RoomOf(t)
    BY <1>1, <2>1, JobStays DEF RoomOf, SameJob, Inserted
  <2>3. RoomOf(t) \in Rooms /\ turns[t].room.outSeq = rooms[RoomOf(t)].outSeq
    BY <1>1, TurnFacts DEF TurnOut, Running, Free
  <2>4. CASE Silent
    BY <1>1, <2>2, <2>3, <2>4 DEF Silent
  <2>5. ASSUME NEW u \in Turns, Replying(u)
        PROVE  rooms'[RoomOf(t)].outSeq = rooms[RoomOf(t)].outSeq
    <3>1. u # t
      BY <2>5 DEF Replying, Running
    <3>2. RoomOf(u) # RoomOf(t)
      BY <1>1, <2>5, <3>1 DEF OneTurnPerRoom, Replying, Running, Free
    <3> QED
      BY <2>3, <2>5, <3>2 DEF Replying
  <2> QED
    BY <1>1, <2>2, <2>3, <2>4, <2>5, NextOut
<1>2. ASSUME ~ Running(t), StartTurn(t)
      PROVE  turns'[t].room.outSeq = rooms'[RoomOf(t)'].outSeq
  <2>1. PICK j \in NextCandidates(Swept, Now, NoneServed) :
          /\ jobs' = LeaseJob(Swept, j, 0, Now)
          /\ \/ turns' = turns
             \/ turns'[t].job = j /\ turns'[t].room = rooms[jobs[j].room]
    BY <1>2, StartedTurn
  <2>2. turns'[t].job = j /\ turns'[t].room = rooms[jobs[j].room]
    BY <1>2, <2>1 DEF Running
  <2>3. j \in Jobs /\ jobs[j].status # "absent" /\ jobs'[j].room = jobs[j].room
    BY <2>1, StartedJobs DEF BaseOK, SameJob
  <2>4. jobs[j].room \in Rooms
    BY <2>3 DEF BaseOK, JobsOK
  <2>5. rooms'[jobs[j].room].outSeq = rooms[jobs[j].room].outSeq
    BY <1>2, <2>4, QuietRooms DEF StatesOnly
  <2> QED
    BY <2>2, <2>3, <2>5 DEF RoomOf
<1> QED
  BY <1>1, <1>2, TurnMoves

\* A reply is one more of its room's, and no other room's.
LEMMA RepliesGrow ==
  ASSUME BaseOK, NEW t \in Turns, Emitted(t), NEW q \in Rooms
  PROVE  /\ IsFiniteSet(RepliesIn(q)) /\ Cardinality(RepliesIn(q)) \in Nat
         /\ Cardinality(RepliesIn(q)') = IF q = RoomOf(t) THEN Cardinality(RepliesIn(q)) + 1
                                         ELSE Cardinality(RepliesIn(q))
<1>1. /\ Len(outbox) \in Nat /\ Len(outbox') = Len(outbox) + 1
      /\ outbox'[Len(outbox) + 1] = Reply(t)
      /\ \A n \in Replies : outbox'[n] = outbox[n]
  BY AppendReply
<1>2. PICK k \in Nat : k = Len(outbox)
  BY <1>1
<1>3. Replies = 1 .. k /\ Replies' = 1 .. k + 1
  BY <1>1, <1>2 DEF Replies
<1>4. IsFiniteSet(RepliesIn(q)) /\ Cardinality(RepliesIn(q)) \in Nat
  <2>1. IsFiniteSet(1 .. k) /\ RepliesIn(q) \subseteq 1 .. k
    BY <1>3, FS_Interval DEF RepliesIn
  <2> QED
    BY <2>1, FS_Subset, FS_CardinalityType
<1>5. Reply(t).room = RoomOf(t)
  BY DEF Reply
<1>6. RepliesIn(q)' = IF q = RoomOf(t) THEN RepliesIn(q) \union {k + 1} ELSE RepliesIn(q)
  <2>1. RepliesIn(q)' = {n \in 1 .. k + 1 : outbox'[n].room = q}
    BY <1>3 DEF RepliesIn
  <2>2. RepliesIn(q) = {n \in 1 .. k : outbox[n].room = q}
    BY <1>3 DEF RepliesIn
  <2>3. \A n \in 1 .. k : outbox'[n].room = outbox[n].room
    BY <1>1, <1>3
  <2>4. outbox'[k + 1].room = RoomOf(t)
    BY <1>1, <1>2, <1>5
  <2> QED
    BY <2>1, <2>2, <2>3, <2>4
<1>7. k + 1 \notin RepliesIn(q)
  BY <1>3 DEF RepliesIn
<1>8. Cardinality(RepliesIn(q) \union {k + 1}) = Cardinality(RepliesIn(q)) + 1
  BY <1>4, <1>7, FS_AddElement
<1> QED
  BY <1>4, <1>6, <1>8

\* Every step keeps the rooms' reply numbers true to the outbox.
LEMMA OutCountsStay ==
  ASSUME BaseOK, RowsWritten, TurnOut, OutCounts,
         Without({"torn_write", "disk_fails"}), [Next]_vars
  PROVE  OutCounts'
<1>1. CASE Silent
  BY <1>1 DEF Silent, OutCounts, RepliesIn, Replies
<1>2. ASSUME NEW t \in Turns, Replying(t), NEW q \in Rooms
      PROVE  rooms'[q].outSeq = Cardinality(RepliesIn(q)')
  <2>1. rooms[q].outSeq = Cardinality(RepliesIn(q))
    BY DEF OutCounts
  <2>2. q = RoomOf(t) => rooms'[q].outSeq = rooms[q].outSeq + 1
    BY <1>2 DEF Replying, TurnOut, Running, Free
  <2>3. q # RoomOf(t) => rooms'[q].outSeq = rooms[q].outSeq
    BY <1>2 DEF Replying
  <2>4. Cardinality(RepliesIn(q)') = IF q = RoomOf(t) THEN Cardinality(RepliesIn(q)) + 1
                                     ELSE Cardinality(RepliesIn(q))
    BY <1>2, RepliesGrow DEF Replying
  <2> QED
    BY <2>1, <2>2, <2>3, <2>4
<1> QED
  BY <1>1, <1>2, NextOut DEF OutCounts

CountCase == SerialCase /\ Without({"torn_write", "disk_fails"})

\* last_outbound_seq counts the replies of the room.
THEOREM RepliesCounted == Spec => []OutboundSeqCountsReplies
<1> DEFINE Inv == CountCase => TurnOut /\ OutCounts
<1>1. Init => Inv
  <2> SUFFICES ASSUME Init, NEW r \in Rooms PROVE rooms[r].outSeq = Cardinality(RepliesIn(r))
    BY DEF Init, TurnOut, OutCounts, Running
  <2>1. RepliesIn(r) = {}
    BY DEF Init, RepliesIn, Replies
  <2> QED
    BY <2>1, FS_EmptySet DEF Init, NoRoomRow
<1>2. /\ BaseOK /\ RoomsAreSerial /\ (Counted => CountsOK) /\ Inv /\ [Next]_vars => Inv'
  <2>1. BaseOK /\ [Next]_vars /\ CountCase' => CountCase
    BY ScenarioStays DEF CountCase, SerialCase, ReleasesApart, Counted, NoPrelude, Without
  <2>2. /\ CountCase /\ RoomsAreSerial => OneTurnPerRoom
        /\ CountCase => Counted /\ Without({"torn_write", "disk_fails"})
    BY DEF CountCase, SerialCase, RoomsAreSerial
  <2>3. ASSUME BaseOK, RoomsAreSerial, CountsOK, CountCase, TurnOut, OutCounts, [Next]_vars
        PROVE  TurnOut' /\ OutCounts'
    BY <2>2, <2>3, TurnOutStays, OutCountsStay DEF CountsOK
  <2> QED
    BY <2>1, <2>2, <2>3
<1>3. Inv => OutboundSeqCountsReplies
  BY DEF OutboundSeqCountsReplies, CountCase, SerialCase, Without, OutCounts
<1> HIDE DEF Inv
<1> QED
  BY <1>1, <1>2, <1>3, TablesFit, CountsAgree, SerialTurns, PTL DEF Spec

-----------------------------------------------------------------------------
(* No message is answered twice *)

\* A job that is completed or cancelled stays so.
LEMMA ClosedStays ==
  ASSUME BaseOK, LeaseOK, [Next]_vars, NEW j \in Jobs,
         jobs[j].status \in {"completed", "cancelled"}
  PROVE  jobs'[j] = jobs[j]
<1>0. Swept[j] = jobs[j] /\ jobs[j].status \notin Active
  BY SweptJobs DEF BaseOK, Active
<1>1. ASSUME NEW r \in Rooms, NEW i \in Jobs, Accepted(r, i) PROVE jobs'[j] = jobs[j]
  BY <1>1, AcceptedJobs
<1>2. ASSUME NEW r \in Rooms, \/ IngestHeld(r) \/ IngestBlocked(r) \/ IngestDuplicate(r)
                            \/ IngestTorn(r) \/ IngestUncounted(r)
      PROVE  jobs'[j] = jobs[j]
  BY <1>2 DEF IngestHeld, IngestBlocked, IngestDuplicate, IngestTorn, IngestUncounted
<1>3. ASSUME NEW r \in Rooms, RequestHandoff(r) PROVE jobs'[j] = jobs[j]
  BY <1>3, HandoffJobs
<1>4. ASSUME NEW r \in Rooms, ReleaseHandoff(r) PROVE jobs'[j] = jobs[j]
  BY <1>4, ReleaseJobs DEF ReleaseInserts
<1>5. ASSUME NEW t \in Turns, StartTurn(t) PROVE jobs'[j] = jobs[j]
  BY <1>0, <1>5, LeasedJobs DEF StartTurn
<1>6. \A t \in Turns : ~ Free(t) => jobs[turns[t].job].status = "leased"
  BY DEF LeaseOK, LeasesKept, Running, Free
<1>7. ASSUME NEW t \in Turns, EndTurn(t) PROVE jobs'[j] = jobs[j]
  BY <1>6, <1>7, EndTurnJobs
<1>8. ASSUME NEW t \in Turns, ConcludeTorn(t) \/ FailTorn(t) PROVE jobs'[j] = jobs[j]
  BY <1>6, <1>8, LostTurn
<1>9. ASSUME NEW i \in Jobs, RetryRoomJob(i) PROVE jobs'[j] = jobs[j]
  BY <1>9, RetriedJobs DEF RetryRoomJob
<1>10. ASSUME NEW i \in Jobs, LeaseLapses(i) PROVE jobs'[j] = jobs[j]
  <2>1. i # j
    BY <1>10 DEF LeaseLapses
  <2> QED
    BY <1>10, <2>1, LapsedJobs
<1>11. ASSUME Recover PROVE jobs'[j] = jobs[j]
  BY <1>0, <1>11 DEF Recover
<1>12. ASSUME Crash \/ FollowStep \/ UNCHANGED vars PROVE jobs'[j] = jobs[j]
  BY <1>12, FollowStepRest DEF Crash, vars
<1>13. ASSUME JobsTorn PROVE jobs'[j] = jobs[j]
  BY <1>0, <1>13, JobsTornCases, LeasedJobs, CancellingJobs, RetriedJobs DEF ReleaseInserts
<1> QED
  BY <1>1, <1>2, <1>3, <1>4, <1>5, <1>7, <1>8, <1>9, <1>10, <1>11, <1>12, <1>13, StepCases

\* The job of every reply is completed.
RepliesSettled ==
  \A n \in Replies :
    /\ jobs[outbox[n].job].status = "completed"
    /\ jobs[outbox[n].job].room = outbox[n].room
    /\ inbound[outbox[n].job] = outbox[n].asked

\* Ingestion makes one job for a message.
OwnMessages ==
  \A i, j \in Jobs \ released :
    i # j /\ Inserted(i) /\ Inserted(j) /\ jobs[i].room = jobs[j].room => inbound[i] # inbound[j]

\* A release makes its job when the message's first one is no longer active.
ReleasedAfter ==
  /\ \A j \in released : Inserted(j)
  /\ Without({"release"}) => released = {}
  /\ ~ Without({"release"}) =>
       \A i \in Jobs \ released, j \in released :
         jobs[i].room = jobs[j].room /\ inbound[i] = inbound[j] => jobs[i].status \notin Active

SecondsReleased ==
  \A m, n \in Replies :
    m < n /\ outbox[m].room = outbox[n].room /\ outbox[m].asked = outbox[n].asked
      => outbox[n].job \in released \ {outbox[m].job}

OnceOK == RepliesSettled /\ OwnMessages /\ ReleasedAfter /\ SecondsReleased

\* A turn that replies completes its job.
LEMMA EmitSettles ==
  ASSUME BaseOK, Without({"torn_write", "disk_fails"}), [Next]_vars
  PROVE  \/ outbox' = outbox
         \/ \E t \in Turns : Emitted(t) /\ jobs'[turns[t].job].status = "completed"
<1>0. ~ May("torn_write") /\ ~ May("disk_fails")
  BY DEF May, Without
<1>1. ASSUME NEW t \in Turns, ConcludeTorn(t) PROVE FALSE
  BY <1>0, <1>1, ConcludeTornCases
<1>2. ASSUME NEW t \in Turns, Emitted(t), EndTurn(t)
      PROVE  outbox' = outbox \/ jobs'[turns[t].job].status = "completed"
  <2>0. ~ Free(t)
    BY <1>2, EndCases
  <2>1. CASE PreludeEnds(t) \/ PreludeFails(t) \/ PostRunStarts(t)
    BY <2>1 DEF PreludeEnds, PreludeFails, PostRunStarts
  <2>2. ASSUME NEW state, Fails(t, state) PROVE outbox' = outbox
    BY <1>0, <2>2 DEF Fails
  <2>3. ASSUME NEW state, Concludes(t, state)
        PROVE  jobs'[turns[t].job].status = "completed"
    <3>1. jobs' = SettleJob(jobs, turns[t].job, "completed") /\ Leave(t)
      BY <1>2, <2>3 DEF Concludes, Conclude, Emitted
    <3> QED
      BY <2>0, <3>1, SettledTurn DEF Terminal
  <2> QED
    BY <1>2, <2>1, <2>2, <2>3, EndCases
<1> QED
  BY <1>1, <1>2, OutboxCases

\* Every step leaves the jobs that replied settled.
LEMMA SettledNext ==
  ASSUME BaseOK, LeaseOK, RepliesSettled, Without({"torn_write", "disk_fails"}), [Next]_vars
  PROVE  RepliesSettled'
<1>1. ASSUME NEW n \in Replies, outbox'[n] = outbox[n]
      PROVE  /\ jobs'[outbox'[n].job].status = "completed"
             /\ jobs'[outbox'[n].job].room = outbox'[n].room
             /\ inbound'[outbox'[n].job] = outbox'[n].asked
  <2>1. outbox[n] \in OutboxEntry
    BY DEF BaseOK, TypeOK, Replies
  <2>2. PICK j \in Jobs : j = outbox[n].job
    BY <2>1 DEF OutboxEntry
  <2>3. /\ jobs[j].status = "completed" /\ jobs[j].room = outbox[n].room
        /\ inbound[j] = outbox[n].asked
    BY <2>2 DEF RepliesSettled
  <2>4. jobs'[j].status = "completed"
    BY <2>3, ClosedStays
  <2>5. jobs'[j].room = jobs[j].room /\ inbound'[j] = inbound[j]
    BY <2>3, JobStays DEF SameJob
  <2> QED
    BY <1>1, <2>2, <2>3, <2>4, <2>5
<1>2. CASE outbox' = outbox
  BY <1>1, <1>2 DEF RepliesSettled, Replies
<1>3. ASSUME NEW t \in Turns, Emitted(t), jobs'[turns[t].job].status = "completed"
      PROVE  RepliesSettled'
  <2>1. /\ Len(outbox) \in Nat /\ Len(outbox') = Len(outbox) + 1
        /\ outbox'[Len(outbox) + 1] = Reply(t)
        /\ \A n \in Replies : outbox'[n] = outbox[n]
    BY <1>3, AppendReply
  <2>2. PICK j \in Jobs : j = turns[t].job /\ Inserted(j)
    BY <1>3, TurnFacts DEF Emitted, Inserted
  <2>3. Reply(t).job = j /\ Reply(t).room = jobs[j].room /\ Reply(t).asked = inbound[j]
    BY <2>2 DEF Reply, RoomOf
  <2>4. jobs'[j].room = jobs[j].room /\ inbound'[j] = inbound[j]
    BY <2>2, JobStays DEF SameJob, Inserted
  <2>5. \A n \in Replies' : n \in Replies \/ n = Len(outbox) + 1
    BY <2>1 DEF Replies
  <2> QED
    BY <1>1, <1>3, <2>1, <2>2, <2>3, <2>4, <2>5 DEF RepliesSettled
<1> QED
  BY <1>2, <1>3, EmitSettles

\* Every step keeps jobs of one message apart, but for those released.
LEMMA OwnMessagesNext ==
  ASSUME BaseOK, OwnMessages, ReleasedAfter, [Next]_vars
  PROVE  OwnMessages'
<1> SUFFICES ASSUME NEW i \in Jobs \ released', NEW j \in Jobs \ released', i # j,
                    Inserted(i)', Inserted(j)', jobs'[i].room = jobs'[j].room
             PROVE  inbound'[i] # inbound'[j]
  BY DEF OwnMessages
<1>0. released \subseteq released'
  BY ReleasedCases DEF Inserts, ReleaseInserts
<1>1. ASSUME NEW k \in Jobs, Inserted(k)
      PROVE  jobs'[k].room = jobs[k].room /\ inbound'[k] = inbound[k]
  BY <1>1, JobStays DEF Inserted, SameJob
<1>2. CASE Inserted(i) /\ Inserted(j)
  BY <1>0, <1>1, <1>2 DEF OwnMessages
<1>3. ASSUME NEW k \in Jobs \ released', ~ Inserted(k), Inserted(k)',
             NEW l \in Jobs, Inserted(l), jobs'[k].room = jobs'[l].room
      PROVE  inbound'[k] # inbound'[l]
  <2>1. PICK r \in Rooms : Accepted(r, k)
    BY <1>3, JobAppears DEF Inserts, ReleaseInserts
  <2>2. jobs'[k].room = r
    BY <2>1, AcceptedJobs
  <2>3. inbound[l] \in 1 .. arrived[r]
    BY <1>1, <1>3, <2>2 DEF BaseOK, JobsOK, Inserted
  <2>4. inbound'[k] = arrived[r] + 1 /\ arrived[r] \in Nat
    BY <2>1, AcceptedFacts DEF Arrives, BaseOK, TypeOK
  <2> QED
    BY <1>1, <1>3, <2>3, <2>4
<1> QED
  BY <1>2, <1>3, OneAppears

\* Every step keeps released jobs later than the message's own.
LEMMA ReleasedAfterNext ==
  ASSUME BaseOK, Counted => CountsOK, ReleasesApart, ReleasedAfter, [Next]_vars
  PROVE  ReleasedAfter'
<1>0. Without({"release"})' <=> Without({"release"})
  BY ScenarioStays DEF Without
<1>1. ASSUME NEW k \in Jobs, Inserted(k)
      PROVE  jobs'[k].room = jobs[k].room /\ inbound'[k] = inbound[k] /\ Inserted(k)'
  BY <1>1, JobStays DEF Inserted, SameJob
<1>2. \A j \in released' : j \in released \/ \E r \in Rooms : Inserts(r, j)
  BY ReleasedCases DEF Inserts, ReleaseInserts
<1>3. released \subseteq released' /\ released \subseteq Jobs /\ released' \subseteq Jobs
  BY ReleasedCases DEF Inserts, ReleaseInserts, BaseOK, TypeOK
<1>4. \A j \in released' : Inserted(j)'
  BY <1>1, <1>2, <1>3 DEF ReleasedAfter, Inserts, ReleaseInserts, Inserted
<1>5. Without({"release"}) => released' = {}
  <2>1. \A r \in Rooms, j \in Jobs : Inserts(r, j) => May("release")
    BY InsertsReleases
  <2> QED
    BY <1>2, <1>3, <2>1 DEF ReleasedAfter, May, Without
<1>6. ASSUME ~ Without({"release"}), NEW i \in Jobs \ released', NEW j \in released',
             jobs'[i].room = jobs'[j].room, inbound'[i] = inbound'[j],
             jobs'[i].status \in Active
      PROVE  FALSE
  <2>0. CountsOK /\ ~ Retries(i)
    BY <1>6 DEF ReleasesApart, Retries, Retryable, May, Without
  <2>1. j \in Jobs
    BY <1>3
  <2>2. ASSUME NEW r \in Rooms, Accepted(r, i) PROVE FALSE
    <3>1. jobs'[i].room = r
      BY <2>2, AcceptedJobs
    <3>2. inbound'[i] = arrived[r] + 1 /\ arrived[r] \in Nat /\ released' = released
      BY <2>2, AcceptedFacts DEF Arrives, BaseOK, TypeOK
    <3>3. Inserted(j)
      BY <3>2 DEF ReleasedAfter
    <3>4. inbound[j] \in 1 .. arrived[r]
      BY <1>1, <1>6, <2>1, <3>1, <3>3 DEF BaseOK, JobsOK, Inserted
    <3>5. inbound'[j] = inbound[j]
      BY <1>1, <2>1, <3>3
    <3>6. PICK n \in Nat : n = arrived[r]
      BY <3>2
    <3>7. inbound[j] # n + 1
      BY <3>4, <3>6
    <3> QED
      BY <1>6, <3>2, <3>5, <3>6, <3>7
  <2>3. CASE jobs[i].status \in Active
    <3>1. Inserted(i)
      BY <2>3 DEF Inserted, Active
    <3>2. CASE j \in released
      <4>1. Inserted(j)
        BY <3>2 DEF ReleasedAfter
      <4>2. jobs[i].room = jobs[j].room /\ inbound[i] = inbound[j] /\ i \notin released
        BY <1>1, <1>3, <1>6, <2>1, <3>1, <4>1
      <4> QED
        BY <1>6, <2>3, <3>2, <4>2 DEF ReleasedAfter
    <3>3. ASSUME NEW r \in Rooms, Inserts(r, j) PROVE FALSE
      <4>1. jobs'[j].room = r /\ inbound'[j] = arrived[r] /\ Resumable(r) = {}
        BY <3>3 DEF Inserts, ReleaseInserts
      <4>2. jobs[i].room = r /\ inbound[i] = arrived[r]
        BY <1>1, <1>6, <3>1, <4>1
      <4>3. jobs[i].revision = rooms[r].revision
        BY <2>0, <3>1, <4>2 DEF CountsOK, JobCounts, RoomCounts, Inserted
      <4> QED
        BY <2>3, <4>1, <4>2, <4>3 DEF Resumable
    <3> QED
      BY <1>2, <3>2, <3>3
  <2>4. \A r \in Rooms : ~ Inserts(r, i)
    BY <1>6 DEF Inserts, ReleaseInserts
  <2> QED
    BY <1>6, <2>0, <2>2, <2>3, <2>4, JobActivates
<1> QED
  BY <1>0, <1>4, <1>5, <1>6 DEF ReleasedAfter

\* A second reply to a message comes from a released job.
LEMMA SecondsNext ==
  ASSUME BaseOK, LeaseOK, OnceOK, [Next]_vars
  PROVE  SecondsReleased'
<1>0. released \subseteq released'
  BY ReleasedCases DEF Inserts, ReleaseInserts
<1>1. CASE outbox' = outbox
  BY <1>0, <1>1 DEF OnceOK, SecondsReleased, Replies
<1>2. ASSUME NEW t \in Turns, Emitted(t) PROVE SecondsReleased'
  <2>1. /\ Len(outbox) \in Nat /\ Len(outbox') = Len(outbox) + 1
        /\ outbox'[Len(outbox) + 1] = Reply(t)
        /\ \A n \in Replies : outbox'[n] = outbox[n]
    BY <1>2, AppendReply
  <2>2. PICK i \in Jobs : i = turns[t].job /\ Inserted(i) /\ jobs[i].status \in Active
    BY <1>2, TurnFacts DEF Emitted, Inserted, LeaseOK, LeasesKept, Running, Free, Active
  <2>3. Reply(t).job = i /\ Reply(t).room = jobs[i].room /\ Reply(t).asked = inbound[i]
    BY <2>2 DEF Reply, RoomOf
  <2>4. ASSUME NEW m \in Replies, outbox[m].room = jobs[i].room, outbox[m].asked = inbound[i]
        PROVE  i \in released \ {outbox[m].job}
    <3>1. outbox[m] \in OutboxEntry
      BY DEF BaseOK, TypeOK, Replies
    <3>2. PICK j \in Jobs : j = outbox[m].job
      BY <3>1 DEF OutboxEntry
    <3>3. jobs[j].status = "completed" /\ jobs[j].room = jobs[i].room /\ inbound[j] = inbound[i]
      BY <2>4, <3>2 DEF OnceOK, RepliesSettled
    <3>4. i # j /\ Inserted(j)
      BY <2>2, <3>3 DEF Active, Inserted
    <3>5. CASE i \notin released /\ j \notin released
      BY <2>2, <3>3, <3>4, <3>5 DEF OnceOK, OwnMessages
    <3>6. CASE i \notin released /\ j \in released
      BY <2>2, <3>3, <3>6 DEF OnceOK, ReleasedAfter
    <3> QED
      BY <3>2, <3>4, <3>5, <3>6
  <2> SUFFICES ASSUME NEW m \in Replies', NEW n \in Replies', m < n,
                      outbox'[m].room = outbox'[n].room, outbox'[m].asked = outbox'[n].asked
               PROVE  outbox'[n].job \in released' \ {outbox'[m].job}
    BY DEF SecondsReleased
  <2>5. m \in Replies /\ (n \in Replies \/ n = Len(outbox) + 1)
    BY <2>1 DEF Replies
  <2>6. CASE n \in Replies
    BY <1>0, <2>1, <2>5, <2>6 DEF OnceOK, SecondsReleased
  <2>7. CASE n = Len(outbox) + 1
    BY <1>0, <2>1, <2>3, <2>4, <2>5, <2>7
  <2> QED
    BY <2>5, <2>6, <2>7
<1> QED
  BY <1>1, <1>2, OutboxCases

OnceCase == ReleasesApart /\ Without({"slow_turn", "torn_write", "disk_fails"})

\* Turns that are lost, failed and started again do not answer a message twice.
THEOREM AnsweredOnce == Spec => []SecondReplyIsReleased
<1> DEFINE Inv == OnceCase => OnceOK
<1>1. Init => Inv
  BY DEF Init, OnceOK, RepliesSettled, OwnMessages, ReleasedAfter, SecondsReleased, Replies,
     Inserted, NoRow
<1>2. /\ BaseOK /\ (Counted => CountsOK) /\ (Without({"slow_turn"}) => LeaseOK)
      /\ Inv /\ [Next]_vars
      => Inv'
  <2>1. BaseOK /\ [Next]_vars /\ OnceCase' => OnceCase
    BY ScenarioStays DEF OnceCase, ReleasesApart, Counted, NoPrelude, Without
  <2>2. /\ OnceCase => Without({"slow_turn"}) /\ ReleasesApart
        /\ OnceCase => Without({"torn_write", "disk_fails"})
    BY DEF OnceCase, Without
  <2>3. ASSUME BaseOK, Counted => CountsOK, LeaseOK, OnceCase, OnceOK, [Next]_vars PROVE OnceOK'
    BY <2>2, <2>3, SettledNext, OwnMessagesNext, ReleasedAfterNext, SecondsNext DEF OnceOK
  <2> QED
    BY <2>1, <2>2, <2>3
<1>3. Inv => SecondReplyIsReleased
  BY DEF SecondReplyIsReleased, OnceCase, OnceOK, SecondsReleased
<1> HIDE DEF Inv
<1> QED
  BY <1>1, <1>2, <1>3, TablesFit, CountsAgree, TurnsHoldLeases, PTL DEF Spec

-----------------------------------------------------------------------------
(* The room keeps its promise *)

\* Job ids are given out up to the scenario's bound, so that what is due can be
\* counted.
JobsBounded == \A j \in Jobs : Inserted(j) => j <= scenario.maxJobs

\* Every step keeps the ids within the bound.
LEMMA JobsStayBounded == ASSUME BaseOK, JobsBounded, [Next]_vars PROVE JobsBounded'
<1> SUFFICES ASSUME NEW j \in Jobs, Inserted(j)' PROVE j <= scenario'.maxJobs
  BY DEF JobsBounded
<1>1. CASE Inserted(j)
  BY <1>1, ScenarioStays DEF JobsBounded
<1>2. CASE ~ Inserted(j)
  <2>1. j <= scenario.maxJobs
    BY <1>2, JobAppears, AcceptedFacts DEF Inserts, ReleaseInserts, NextJob
  <2> QED
    BY <2>1, ScenarioStays
<1> QED
  BY <1>1, <1>2

\* What is due and what was replied are finite.
LEMMA DueFinite ==
  ASSUME BaseOK, JobsBounded, NEW q \in Rooms
  PROVE  /\ IsFiniteSet(Due(q)) /\ Cardinality(Due(q)) \in Nat
         /\ Cardinality(RepliesIn(q)) \in Nat
<1>1. PICK n \in Nat : n = scenario.maxJobs
  BY ScenarioFacts DEF BaseOK
<1>2. Due(q) \subseteq 1 .. n
  <2> SUFFICES ASSUME NEW j \in Due(q) PROVE j \in 1 .. n
    OBVIOUS
  <2>1. j \in Jobs /\ Inserted(j)
    BY DEF Due, Inserted, Active
  <2> QED
    BY <1>1, <2>1, MailRoomAssumption DEF JobsBounded
<1>3. PICK k \in Nat : k = Len(outbox)
  BY DEF BaseOK, TypeOK
<1>4. RepliesIn(q) \subseteq 1 .. k
  BY <1>3 DEF RepliesIn, Replies
<1>5. IsFiniteSet(1 .. n) /\ IsFiniteSet(1 .. k)
  BY FS_Interval
<1> QED
  BY <1>2, <1>4, <1>5, FS_Subset, FS_CardinalityType

\* A job becomes due with its message, or with a release.
LEMMA JobOpens ==
  ASSUME BaseOK, LeaseOK, [Next]_vars, NEW j \in Jobs, Open(jobs'[j])
  PROVE  \/ Open(jobs[j])
         \/ \E r \in Rooms : Accepted(r, j)
         \/ \E r \in Rooms : Inserts(r, j)
<1>1. jobs[j].status \in {"absent", "queued", "leased", "completed", "failed", "cancelled"}
  BY DEF BaseOK, TypeOK, JobRow, JobStatus, Active, Terminal
<1>2. CASE jobs[j].status = "absent"
  <2>1. ~ Inserted(j) /\ Inserted(j)'
    BY <1>2 DEF Inserted, Open, Active
  <2> QED
    BY <2>1, JobAppears
<1>3. CASE jobs[j].status \in {"completed", "cancelled"}
  BY <1>3, ClosedStays
<1> QED
  BY <1>1, <1>2, <1>3 DEF Open, Active

\* What is due are the open jobs of the newest message.
LEMMA DueIsOpen ==
  \A q : Due(q) = {j \in Jobs : jobs[j].room = q /\ inbound[j] = arrived[q] /\ Open(jobs[j])}
BY DEF Due, Open

\* The steps after which no more is due in a room than before.
LEMMA DueShrinks ==
  ASSUME BaseOK, LeaseOK, [Next]_vars, NEW q \in Rooms, arrived'[q] = arrived[q],
         \A j \in Jobs : ~ Inserts(q, j)
  PROVE  Due(q)' \subseteq Due(q)
<1> SUFFICES ASSUME NEW j \in Jobs, jobs'[j].room = q, inbound'[j] = arrived'[q], Open(jobs'[j])
             PROVE  jobs[j].room = q /\ inbound[j] = arrived[q] /\ Open(jobs[j])
  BY DEF Due, Open
<1>1. ASSUME NEW r \in Rooms, Accepted(r, j) PROVE FALSE
  <2>1. r = q
    BY <1>1, AcceptedJobs
  <2> QED
    BY <1>1, <2>1, AcceptedFacts DEF Arrives, BaseOK, TypeOK
<1>2. ASSUME NEW r \in Rooms, Inserts(r, j) PROVE FALSE
  <2>1. r = q
    BY <1>2 DEF Inserts, ReleaseInserts
  <2> QED
    BY <1>2, <2>1
<1>3. Open(jobs[j]) /\ jobs[j].status # "absent"
  BY <1>1, <1>2, JobOpens DEF Open, Active
<1> QED
  BY <1>3, JobStays DEF SameJob

\* The job of a turn that concludes is due no longer, the others stay.
LEMMA DueStays ==
  ASSUME BaseOK, [Next]_vars, NEW q \in Rooms, NEW j \in Due(q), arrived'[q] = arrived[q],
         ~ May("torn_write"), ~ RequestHandoff(q),
         \A t \in Turns, state \in RoomStates :
           ~ Free(t) /\ Concludes(t, state) => turns[t].job # j
  PROVE  j \in Due(q)'
<1>1. j \in Jobs /\ jobs[j].room = q /\ inbound[j] = arrived[q] /\ Open(jobs[j])
  BY DEF Due, Open
<1>2. \A i \in Jobs : ~ Accepted(q, i)
  BY AcceptedFacts DEF Arrives, BaseOK, TypeOK
<1>3. Open(jobs'[j])
  BY <1>1, <1>2, JobFate
<1>4. jobs'[j].room = q /\ inbound'[j] = inbound[j]
  BY <1>1, JobStays DEF SameJob, Open, Active
<1> QED
  BY <1>1, <1>3, <1>4 DEF Due, Open

\* The steps that leave alone what is due in a room.
LEMMA DueSame ==
  ASSUME BaseOK, LeaseOK, [Next]_vars, NEW q \in Rooms, arrived'[q] = arrived[q],
         ~ May("torn_write"), ~ RequestHandoff(q), \A j \in Jobs : ~ Inserts(q, j),
         \A t \in Turns, state \in RoomStates :
           ~ Free(t) /\ Concludes(t, state) => RoomOf(t) # q
  PROVE  Due(q)' = Due(q)
<1> SUFFICES ASSUME NEW j \in Due(q) PROVE j \in Due(q)'
  BY DueShrinks
<1>1. \A t \in Turns, state \in RoomStates :
        ~ Free(t) /\ Concludes(t, state) => turns[t].job # j
  BY DEF Due, RoomOf
<1> QED
  BY <1>1, DueStays

\* A step that is no business of a room.
Quiet(q) ==
  /\ arrived'[q] = arrived[q] /\ handedOff'[q] = handedOff[q]
  /\ Cardinality(Due(q)') = Cardinality(Due(q))
  /\ Cardinality(RepliesIn(q)') = Cardinality(RepliesIn(q))

\* What the steps that are do, in the words of RoomPromise.
Arriving(r) ==
  /\ arrived'[r] = arrived[r] + 1 /\ handedOff'[r] = handedOff[r]
  /\ Cardinality(Due(r)') \in {0, 1}
  /\ Cardinality(RepliesIn(r)') = Cardinality(RepliesIn(r))

Answering(r) ==
  /\ arrived'[r] = arrived[r] /\ handedOff'[r] = handedOff[r]
  /\ HandoffUndisturbed => ~ handedOff[r]
  /\ Cardinality(Due(r)) > 0 /\ Cardinality(Due(r)') = Cardinality(Due(r)) - 1
  /\ Cardinality(RepliesIn(r)') = Cardinality(RepliesIn(r)) + 1

Lapsing(r) ==
  /\ arrived'[r] = arrived[r] /\ handedOff'[r] = handedOff[r]
  /\ Cardinality(Due(r)') \in 0 .. Cardinality(Due(r))
  /\ Cardinality(RepliesIn(r)') = Cardinality(RepliesIn(r))

Holding(r) ==
  /\ arrived'[r] = arrived[r] /\ handedOff'[r]
  /\ Cardinality(Due(r)') \in 0 .. Cardinality(Due(r))
  /\ Cardinality(RepliesIn(r)') = Cardinality(RepliesIn(r))

Releasing(r) ==
  /\ arrived'[r] = arrived[r] /\ ~ handedOff'[r]
  /\ Cardinality(Due(r)') \in {Cardinality(Due(r)), Cardinality(Due(r)) + 1}
  /\ Cardinality(RepliesIn(r)') = Cardinality(RepliesIn(r))

\* The step of one room.
RoomMoves(r) ==
  /\ Arriving(r) \/ Answering(r) \/ Lapsing(r) \/ Holding(r) \/ Releasing(r)
  /\ \A q \in Rooms \ {r} : Quiet(q)

RepliesSame == \A q \in Rooms : Cardinality(RepliesIn(q)') = Cardinality(RepliesIn(q))

\* An outbox that stays holds the same replies.
LEMMA NoReplies == ASSUME outbox' = outbox PROVE RepliesSame
BY DEF RepliesSame, RepliesIn, Replies

\* Fewer are due.
LEMMA FewerDue ==
  ASSUME BaseOK, JobsBounded, NEW q \in Rooms, Due(q)' \subseteq Due(q)
  PROVE  Cardinality(Due(q)') \in 0 .. Cardinality(Due(q))
<1>1. PICK S, T : S = Due(q) /\ T = Due(q)'
  OBVIOUS
<1>2. IsFiniteSet(S) /\ T \subseteq S
  BY <1>1, DueFinite
<1>3. Cardinality(T) \in Nat /\ Cardinality(S) \in Nat /\ Cardinality(T) <= Cardinality(S)
  BY <1>2, FS_Subset, FS_CardinalityType
<1> QED
  BY <1>1, <1>3

\* A message that arrives, with a job or without.
LEMMA ArrivalMoves ==
  ASSUME BaseOK, JobsBounded, LeaseOK, ~ May("torn_write"), ~ May("torn_insert"),
         [Next]_vars, NEW r \in Rooms, ArrivalStep(r)
  PROVE  RoomMoves(r)
<1>1. /\ arrived' = [arrived EXCEPT ![r] = @ + 1] /\ arrived \in [Rooms -> Nat]
      /\ handedOff' = handedOff /\ outbox' = outbox /\ turns' = turns
  BY ArrivalSchedules DEF ArrivalStep, Accepted, IngestAccepted, IngestCut, Accepts, IngestHeld,
     IngestBlocked, IngestTorn, IngestUncounted, BaseOK, TypeOK
<1>2. PICK n \in Nat : n = arrived[r] /\ arrived'[r] = n + 1
  BY <1>1
<1>3. RepliesSame
  BY <1>1, NoReplies
<1>4. ASSUME NEW j \in Due(r)' PROVE Accepted(r, j)
  <2>1. j \in Jobs /\ jobs'[j].room = r /\ inbound'[j] = n + 1 /\ jobs'[j].status # "absent"
    BY <1>2 DEF Due, Active
  <2>2. CASE Inserted(j)
    <3>1. inbound[j] = n + 1 /\ jobs[j].room = r
      BY <2>1, <2>2, JobStays DEF SameJob, Inserted
    <3>2. inbound[j] \in 1 .. n
      BY <1>2, <2>1, <2>2, <3>1 DEF BaseOK, JobsOK, Inserted
    <3> QED
      BY <3>1, <3>2
  <2>3. CASE ~ Inserted(j)
    <3>1. handedOff' = handedOff /\ arrived' # arrived
      BY <1>1, <1>2
    <3>2. \E q \in Rooms : Accepted(q, j)
      BY <2>1, <2>3, <3>1, JobAppears DEF Inserted, Inserts, ReleaseHandoff, JobsTorn, history
    <3> QED
      BY <2>1, <3>2, AcceptedJobs
  <2> QED
    BY <2>2, <2>3
<1>5. Cardinality(Due(r)') \in {0, 1}
  <2>1. CASE Due(r)' = {}
    BY <2>1, FS_EmptySet
  <2>2. ASSUME NEW j \in Due(r)' PROVE Due(r)' = {j}
    <3>1. \A i \in Due(r)' : i = j
      BY <1>4, <2>2, AcceptedJobs DEF Due
    <3> QED
      BY <2>2, <3>1
  <2> QED
    BY <2>1, <2>2, FS_Singleton
<1>6. ASSUME NEW q \in Rooms \ {r} PROVE Quiet(q)
  <2>1. arrived'[q] = arrived[q]
    BY <1>1
  <2>2. /\ ~ RequestHandoff(q) /\ \A j \in Jobs : ~ Inserts(q, j)
        /\ \A t \in Turns, state \in RoomStates : ~ Concludes(t, state)
    <3>1. arrived' # arrived
      BY <1>1, <1>2
    <3> QED
      BY <3>1 DEF Inserts, ReleaseHandoff, JobsTorn, RequestHandoff, Concludes, TurnRest, history
  <2>3. Due(q)' = Due(q)
    BY <2>1, <2>2, DueSame
  <2> QED
    BY <1>1, <1>3, <2>1, <2>3 DEF Quiet, RepliesSame
<1>7. Arriving(r)
  BY <1>1, <1>3, <1>5 DEF Arriving, RepliesSame
<1> QED
  BY <1>6, <1>7 DEF RoomMoves

\* The operator's request.
LEMMA HandoffMoves ==
  ASSUME BaseOK, JobsBounded, LeaseOK, [Next]_vars, NEW r \in Rooms, RequestHandoff(r)
  PROVE  RoomMoves(r)
<1>1. /\ arrived' = arrived /\ inbound' = inbound /\ turns' = turns /\ outbox' = outbox
      /\ handedOff' = [handedOff EXCEPT ![r] = TRUE] /\ handedOff \in [Rooms -> BOOLEAN]
  BY DEF RequestHandoff, BaseOK, TypeOK
<1>2. RepliesSame
  BY <1>1, NoReplies
<1>3. \A j \in Jobs : /\ jobs'[j].room = jobs[j].room
                      /\ jobs'[j] = jobs[j] \/ (jobs[j].room = r /\ jobs'[j].status = "cancelled")
  BY HandoffJobs DEF SameJob
<1>4. Due(r)' \subseteq Due(r)
  BY <1>1, <1>3 DEF Due, Active
<1>5. Cardinality(Due(r)') \in 0 .. Cardinality(Due(r))
  BY <1>4, FewerDue
<1>6. ASSUME NEW q \in Rooms \ {r} PROVE Quiet(q)
  <2>1. Due(q)' = Due(q)
    BY <1>1, <1>3 DEF Due
  <2> QED
    BY <1>1, <1>2, <2>1 DEF Quiet, RepliesSame
<1>7. Holding(r)
  BY <1>1, <1>2, <1>5 DEF Holding, RepliesSame
<1> QED
  BY <1>6, <1>7 DEF RoomMoves

\* The operator's release.
LEMMA ReleaseMoves ==
  ASSUME BaseOK, JobsBounded, LeaseOK, [Next]_vars, NEW r \in Rooms, ReleaseHandoff(r)
  PROVE  RoomMoves(r)
<1>1. /\ arrived' = arrived /\ turns' = turns /\ outbox' = outbox
      /\ handedOff' = [handedOff EXCEPT ![r] = FALSE] /\ handedOff \in [Rooms -> BOOLEAN]
  BY DEF ReleaseHandoff, BaseOK, TypeOK
<1>2. RepliesSame
  BY <1>1, NoReplies
<1>3. ASSUME jobs' = jobs, inbound' = inbound PROVE \A q \in Rooms : Due(q)' = Due(q)
  BY <1>1, <1>3 DEF Due
<1>4. ASSUME NEW j \in Jobs, ReleaseInserts(r, j), NEW q \in Rooms
      PROVE  Due(q)' = IF q = r THEN Due(q) \union {j} ELSE Due(q)
  <2>1. /\ jobs'[j].status = "queued" /\ jobs'[j].room = r /\ inbound'[j] = arrived[r]
        /\ \A i \in Jobs \ {j} : jobs'[i] = jobs[i] /\ inbound'[i] = inbound[i]
        /\ jobs[j].status = "absent"
    BY <1>4 DEF ReleaseInserts
  <2>2. j \notin Due(q)
    BY <2>1 DEF Due, Active
  <2>3. j \in Due(q)' <=> q = r
    BY <1>1, <2>1 DEF Due, Active
  <2>4. \A i \in Jobs \ {j} : i \in Due(q)' <=> i \in Due(q)
    BY <1>1, <2>1 DEF Due
  <2>5. Due(q) \subseteq Jobs /\ Due(q)' \subseteq Jobs
    BY DEF Due
  <2> QED
    BY <2>2, <2>3, <2>4, <2>5
<1>5. ASSUME NEW j \in Jobs, ReleaseInserts(r, j) PROVE j \notin Due(r)
  BY <1>5 DEF ReleaseInserts, Due, Active
<1>6. Cardinality(Due(r)') \in {Cardinality(Due(r)), Cardinality(Due(r)) + 1}
  <2>1. ASSUME NEW j \in Jobs, ReleaseInserts(r, j)
        PROVE  Cardinality(Due(r)') = Cardinality(Due(r)) + 1
    <3>1. PICK S : S = Due(r)
      OBVIOUS
    <3>2. IsFiniteSet(S) /\ j \notin S
      BY <1>5, <2>1, <3>1, DueFinite
    <3>3. Cardinality(S \union {j}) = Cardinality(S) + 1
      BY <3>2, FS_AddElement
    <3>4. Due(r)' = S \union {j}
      BY <1>4, <2>1, <3>1
    <3> QED
      BY <3>1, <3>3, <3>4
  <2> QED
    BY <1>3, <2>1, ReleaseJobs
<1>7. ASSUME NEW q \in Rooms \ {r} PROVE Quiet(q)
  <2>1. Due(q)' = Due(q)
    BY <1>3, <1>4, ReleaseJobs
  <2> QED
    BY <1>1, <1>2, <2>1 DEF Quiet, RepliesSame
<1>8. Releasing(r)
  BY <1>1, <1>2, <1>6 DEF Releasing, RepliesSame
<1> QED
  BY <1>7, <1>8 DEF RoomMoves

\* A turn that concludes: it answers its room, or its job lapses.
LEMMA ConcludeMoves ==
  ASSUME BaseOK, JobsBounded, CountsOK, LeaseOK, HandoffUndisturbed => HandedOK,
         NEW t \in Turns, ~ Free(t), NEW state, Concludes(t, state)
  PROVE  RoomMoves(RoomOf(t))
<1>1. PICK r \in Rooms, j \in Jobs : r = RoomOf(t) /\ j = turns[t].job
  BY TurnFacts
<1>2. /\ jobs[j].status = "leased" /\ jobs[j].room = r /\ inbound[j] \in 1 .. arrived[r]
      /\ RevisionOf(t) = inbound[j] /\ rooms[r].revision = arrived[r]
  BY <1>1, TurnFacts DEF LeaseOK, LeasesKept, Running, Free, RoomOf, RevisionOf, CountsOK,
     JobCounts, RoomCounts
<1>3. PICK status \in {"cancelled", "completed"} :
        jobs' = SettleJob(jobs, turns[t].job, status) /\ Leave(t)
  BY DEF Concludes, Conclude
<1>4. /\ jobs'[j].status = status /\ jobs'[j].room = jobs[j].room
      /\ \A i \in Jobs \ {j} : jobs'[i] = jobs[i]
  BY <1>1, <1>3, SettledTurn DEF Terminal, SameJob
<1>5. UNCHANGED <<inbound, arrived, handedOff>>
  BY DEF Concludes, TurnRest, history
<1>6. ASSUME NEW q \in Rooms PROVE Due(q)' = Due(q) \ {j}
  BY <1>4, <1>5 DEF Due, Active
<1>7. ASSUME NEW q \in Rooms \ {r} PROVE Due(q)' = Due(q)
  BY <1>2, <1>6, <1>7 DEF Due
<1>8. CASE Emits(t, state)
  <2>1. Emitted(t) /\ ~ Superseded(t)
    BY <1>8 DEF Concludes, Conclude, Emits, Sends, Emitted, At
  <2>2. PICK n \in Nat, m \in Nat : n = arrived[r] /\ m = inbound[j] /\ m <= n
    BY <1>2 DEF BaseOK, TypeOK
  <2>3. inbound[j] = arrived[r]
    BY <1>1, <1>2, <2>1, <2>2 DEF Superseded
  <2>4. j \in Due(r)
    BY <1>2, <2>3 DEF Due, Active
  <2>5. Cardinality(Due(r)) > 0 /\ Cardinality(Due(r)') = Cardinality(Due(r)) - 1
    <3>1. PICK S : S = Due(r)
      OBVIOUS
    <3>2. IsFiniteSet(S) /\ j \in S
      BY <2>4, <3>1, DueFinite
    <3>3. IsFiniteSet(S \ {j}) /\ Cardinality(S \ {j}) = Cardinality(S) - 1
      BY <3>2, FS_RemoveElement
    <3>4. Cardinality(S) \in Nat /\ Cardinality(S \ {j}) \in Nat
      BY <3>2, <3>3, FS_CardinalityType
    <3>5. Due(r)' = S \ {j}
      BY <1>6, <3>1
    <3> QED
      BY <3>1, <3>3, <3>4, <3>5
  <2>6. \A q \in Rooms : Cardinality(RepliesIn(q)') = IF q = r THEN Cardinality(RepliesIn(q)) + 1
                                                      ELSE Cardinality(RepliesIn(q))
    BY <1>1, <2>1, RepliesGrow
  <2>7. HandoffUndisturbed => ~ handedOff[r]
    BY <1>1, <2>1 DEF HandedOK, TurnsPlain, HeldRoomsRest, Free, Emitted
  <2>8. Answering(r)
    BY <1>5, <2>5, <2>6, <2>7 DEF Answering
  <2>9. \A q \in Rooms \ {r} : Quiet(q)
    BY <1>5, <1>7, <2>6 DEF Quiet
  <2> QED
    BY <1>1, <2>8, <2>9 DEF RoomMoves
<1>9. CASE ~ Emits(t, state)
  <2>1. RepliesSame
    BY <1>9, NoReplies DEF Concludes, Conclude
  <2>2. Cardinality(Due(r)') \in 0 .. Cardinality(Due(r))
    BY <1>6, FewerDue
  <2>3. Lapsing(r)
    BY <1>5, <2>1, <2>2 DEF Lapsing, RepliesSame
  <2>4. \A q \in Rooms \ {r} : Quiet(q)
    BY <1>5, <1>7, <2>1 DEF Quiet, RepliesSame
  <2> QED
    BY <1>1, <2>3, <2>4 DEF RoomMoves
<1> QED
  BY <1>8, <1>9

\* Whatever else happens, no room gets a reply.
LEMMA OthersSilent ==
  ASSUME BaseOK, ~ May("torn_write"), ~ May("disk_fails"), [Next]_vars,
         \A t \in Turns, state \in RoomStates : ~ Free(t) => ~ Concludes(t, state)
  PROVE  outbox' = outbox
<1>1. ASSUME NEW t \in Turns, EndTurn(t) PROVE outbox' = outbox
  <2>1. \/ PreludeEnds(t) \/ PreludeFails(t) \/ PostRunStarts(t)
        \/ \E state \in RoomStates : Fails(t, state)
    BY <1>1, EndCases
  <2> QED
    BY <2>1 DEF PreludeEnds, PreludeFails, PostRunStarts, Fails
<1>2. ASSUME NEW t \in Turns, ConcludeTorn(t) PROVE FALSE
  BY <1>2, ConcludeTornCases
<1> QED
  BY <1>1, <1>2, OutboxCases

\* Every step is one room's, or nobody's.
LEMMA NextMoves ==
  ASSUME BaseOK, JobsBounded, CountsOK, LeaseOK, HandoffUndisturbed => HandedOK,
         Without({"torn_write", "torn_insert", "disk_fails"}), [Next]_vars
  PROVE  \/ \A q \in Rooms : Quiet(q)
         \/ \E r \in Rooms : RoomMoves(r)
<1>0. ~ May("torn_write") /\ ~ May("torn_insert") /\ ~ May("disk_fails")
  BY DEF May, Without
<1>1. CASE \E r \in Rooms : ArrivalStep(r) \/ RequestHandoff(r) \/ ReleaseHandoff(r)
  BY <1>0, <1>1, ArrivalMoves, HandoffMoves, ReleaseMoves
<1>2. ASSUME NEW t \in Turns, NEW state \in RoomStates, ~ Free(t), Concludes(t, state)
      PROVE  \E r \in Rooms : RoomMoves(r)
  BY <1>2, ConcludeMoves, TurnFacts
<1>3. ASSUME \A r \in Rooms : ~ ArrivalStep(r) /\ ~ RequestHandoff(r) /\ ~ ReleaseHandoff(r),
             \A t \in Turns, state \in RoomStates : ~ Free(t) => ~ Concludes(t, state),
             NEW q \in Rooms
      PROVE  Quiet(q)
  <2>1. arrived'[q] = arrived[q] /\ handedOff'[q] = handedOff[q]
    BY <1>0, <1>3, HistoryCases DEF ArrivalStep
  <2>2. RepliesSame
    BY <1>0, <1>3, OthersSilent, NoReplies
  <2>3. \A j \in Jobs : ~ Inserts(q, j)
    BY <1>0, <1>3 DEF Inserts, JobsTorn
  <2>4. Due(q)' = Due(q)
    BY <1>0, <1>3, <2>1, <2>3, DueSame
  <2> QED
    BY <2>1, <2>2, <2>4 DEF Quiet, RepliesSame
<1> QED
  BY <1>1, <1>2, <1>3

\* The room as its promise sees it.
promised ==
  <<[r \in Rooms |-> IF Promised THEN arrived[r] ELSE 0],
    [r \in Rooms |-> IF Promised THEN Cardinality(Due(r)) ELSE 0],
    [r \in Rooms |-> IF Promised THEN Cardinality(RepliesIn(r)) ELSE 0],
    [r \in Rooms |-> Promised /\ HandoffUndisturbed /\ handedOff[r]]>>

\* A step that is no business of any room is a stutter of the promise.
LEMMA QuietKeeps ==
  ASSUME Promised' = Promised, HandoffUndisturbed' = HandoffUndisturbed,
         Promised => \A q \in Rooms : Quiet(q)
  PROVE  UNCHANGED promised
BY DEF promised, Quiet

\* The step of one room is a step of RoomPromise.
LEMMA MovesKeep ==
  ASSUME BaseOK, JobsBounded, Promised, Promised', HandoffUndisturbed' = HandoffUndisturbed,
         NEW r \in Rooms, RoomMoves(r)
  PROVE  Promise!Next
<1>1. PICK a, d, p, h :
        /\ a = [q \in Rooms |-> IF Promised THEN arrived[q] ELSE 0]
        /\ d = [q \in Rooms |-> IF Promised THEN Cardinality(Due(q)) ELSE 0]
        /\ p = [q \in Rooms |-> IF Promised THEN Cardinality(RepliesIn(q)) ELSE 0]
        /\ h = [q \in Rooms |-> Promised /\ HandoffUndisturbed /\ handedOff[q]]
  OBVIOUS
<1>2. PICK b, e, s, g :
        /\ b = [q \in Rooms |-> IF Promised THEN arrived[q] ELSE 0]'
        /\ e = [q \in Rooms |-> IF Promised THEN Cardinality(Due(q)) ELSE 0]'
        /\ s = [q \in Rooms |-> IF Promised THEN Cardinality(RepliesIn(q)) ELSE 0]'
        /\ g = [q \in Rooms |-> Promised /\ HandoffUndisturbed /\ handedOff[q]]'
  OBVIOUS
<1>3. /\ a = [q \in Rooms |-> arrived[q]] /\ b = [q \in Rooms |-> arrived'[q]]
      /\ d = [q \in Rooms |-> Cardinality(Due(q))] /\ e = [q \in Rooms |-> Cardinality(Due(q)')]
      /\ p = [q \in Rooms |-> Cardinality(RepliesIn(q))]
      /\ s = [q \in Rooms |-> Cardinality(RepliesIn(q)')]
      /\ h = [q \in Rooms |-> HandoffUndisturbed /\ handedOff[q]]
      /\ g = [q \in Rooms |-> HandoffUndisturbed /\ handedOff'[q]]
  BY <1>1, <1>2
<1>4. \A q \in Rooms \ {r} : b[q] = a[q] /\ e[q] = d[q] /\ s[q] = p[q] /\ g[q] = h[q]
  BY <1>3 DEF RoomMoves, Quiet
<1>5. d[r] \in Nat /\ p[r] \in Nat /\ h[r] \in BOOLEAN /\ g[r] \in BOOLEAN
  BY <1>3, DueFinite
<1>6. CASE Arriving(r)
  <2>1. b[r] = a[r] + 1 /\ e[r] \in {0, 1} /\ s[r] = p[r] /\ g[r] = h[r]
    BY <1>3, <1>6 DEF Arriving
  <2>2. b = [a EXCEPT ![r] = @ + 1] /\ e \in {[d EXCEPT ![r] = n] : n \in {0, 1}} /\ s = p /\ g = h
    BY <1>3, <1>4, <2>1
  <2>3. Promise!Arrive(r)
    BY <1>1, <1>2, <2>2, Zenon DEF Promise!Arrive
  <2> QED
    BY <2>3 DEF Promise!Next
<1>7. CASE Answering(r)
  <2>1. /\ b[r] = a[r] /\ d[r] > 0 /\ e[r] = d[r] - 1 /\ s[r] = p[r] + 1 /\ g[r] = h[r] /\ ~ h[r]
    BY <1>3, <1>7 DEF Answering
  <2>2. b = a /\ e = [d EXCEPT ![r] = @ - 1] /\ s = [p EXCEPT ![r] = @ + 1] /\ g = h
    BY <1>3, <1>4, <2>1
  <2>3. [q \in Rooms |-> IF Promised THEN Cardinality(Due(q)) ELSE 0][r] > 0
    BY <1>1, <2>1
  <2>4. ~ [q \in Rooms |-> Promised /\ HandoffUndisturbed /\ handedOff[q]][r]
    BY <1>1, <2>1
  <2>5. Promise!Answer(r)
    BY <1>1, <1>2, <2>2, <2>3, <2>4, Zenon DEF Promise!Answer
  <2> QED
    BY <2>5 DEF Promise!Next
<1>8. CASE Lapsing(r)
  <2>1. /\ b[r] = a[r] /\ e[r] \in 0 .. d[r] /\ s[r] = p[r] /\ g[r] = h[r]
    BY <1>3, <1>8 DEF Lapsing
  <2>2. b = a /\ e \in {[d EXCEPT ![r] = n] : n \in 0 .. d[r]} /\ s = p /\ g = h
    BY <1>3, <1>4, <2>1
  <2> QED
    BY <1>1, <1>2, <2>2 DEF Promise!Next, Promise!Lapse
<1>9. CASE Holding(r)
  <2>1. /\ b[r] = a[r] /\ e[r] \in 0 .. d[r] /\ s[r] = p[r]
        /\ g[r] = TRUE \/ g[r] = h[r]
    BY <1>3, <1>5, <1>9 DEF Holding
  <2>2. /\ b = a /\ e \in {[d EXCEPT ![r] = n] : n \in 0 .. d[r]} /\ s = p
        /\ g = [h EXCEPT ![r] = TRUE] \/ g = h
    BY <1>3, <1>4, <2>1
  <2> QED
    BY <1>1, <1>2, <2>2 DEF Promise!Next, Promise!Hold, Promise!Lapse
<1>10. CASE Releasing(r)
  <2>1. /\ b[r] = a[r] /\ e[r] \in {d[r], d[r] + 1} /\ s[r] = p[r] /\ g[r] = FALSE
    BY <1>3, <1>10 DEF Releasing
  <2>2. /\ b = a /\ e \in {d, [d EXCEPT ![r] = @ + 1]} /\ s = p
        /\ g = [h EXCEPT ![r] = FALSE]
    BY <1>3, <1>4, <2>1
  <2> QED
    BY <1>1, <1>2, <2>2 DEF Promise!Next, Promise!Release
<1> QED
  BY <1>6, <1>7, <1>8, <1>9, <1>10 DEF RoomMoves

\* A room answers its newest message once per request and keeps silent under
\* handoff: the tables, jobs, turns and leases implement the promise.
THEOREM Implements == Spec => PromiseKept
<1> DEFINE H == HandoffUndisturbed => HandedOK
           C == Counted => CountsOK
           L == Without({"slow_turn"}) => LeaseOK
<1>1. Init => Promise!Init /\ JobsBounded
  <2> SUFFICES ASSUME Init PROVE Promise!Init /\ JobsBounded
    OBVIOUS
  <2>1. \A r \in Rooms : Due(r) = {} /\ RepliesIn(r) = {}
    BY DEF Init, Due, NoRow, Active, RepliesIn, Replies
  <2>2. \A r \in Rooms : Cardinality(Due(r)) = 0 /\ Cardinality(RepliesIn(r)) = 0
    BY <2>1, FS_EmptySet
  <2> QED
    BY <2>2 DEF Init, JobsBounded, Inserted, NoRow, Promise!Init
<1>2. BaseOK /\ JobsBounded /\ [Next]_vars => JobsBounded'
  BY JobsStayBounded
<1>3. BaseOK /\ JobsBounded /\ H /\ C /\ L /\ [Next]_vars => [Promise!Next]_promised
  <2> SUFFICES ASSUME BaseOK, JobsBounded, H, C, L, [Next]_vars
               PROVE  Promise!Next \/ UNCHANGED promised
    OBVIOUS
  <2>1. Promised' = Promised /\ HandoffUndisturbed' = HandoffUndisturbed
    BY ScenarioStays DEF Promised, HandoffUndisturbed, Counted, NoPrelude, Without
  <2>2. CASE ~ Promised
    BY <2>1, <2>2, QuietKeeps
  <2>3. CASE Promised
    <3>1. CountsOK /\ LeaseOK /\ Without({"torn_write", "torn_insert", "disk_fails"})
      BY <2>3 DEF Promised, Counted, Without
    <3>2. \/ \A q \in Rooms : Quiet(q)
          \/ \E r \in Rooms : RoomMoves(r)
      BY <3>1, NextMoves
    <3>3. Promised'
      BY <2>1, <2>3
    <3> QED
      BY <2>1, <2>3, <3>2, <3>3, QuietKeeps, MovesKeep
  <2> QED
    BY <2>2, <2>3
<1>4. [Promise!Next]_promised => [Promise!Next]_(Promise!vars)
  BY DEF promised, Promise!vars
<1> HIDE DEF H, C, L
<1>5. Spec => []H /\ []C /\ []L
  BY HandoffRests, CountsAgree, TurnsHoldLeases, PTL DEF H, C, L
<1> QED
  BY <1>1, <1>2, <1>3, <1>4, <1>5, TablesFit, PTL DEF Spec, PromiseKept, Promise!Spec
=============================================================================
