---------------------------- MODULE MCMailRoom ----------------------------
(* Small instances of MailRoom: one room or two, two turns at a time. *)
EXTENDS MailRoom, TLC

OneRoom == {"r1"}
TwoRooms == {"r1", "r2"}
OneProject == {"p1"}
FourJobs == 1 .. 4
Symmetry == Permutations(Turns)

Says(kind, project) == [kind |-> kind, project |-> project]
Plain == Says("reply_now", NoProject)

Scenario(events, workers, mail, maxJobs, maxRetries, maxTornReplies) ==
  [events |-> events, workers |-> workers, mail |-> mail, maxJobs |-> maxJobs,
   maxRetries |-> maxRetries, maxTornReplies |-> maxTornReplies]

\* Up to n messages for the first room, none for the other.
Only(messages) == [r \in Rooms |-> IF r = "r1" THEN messages ELSE <<>>]
Plainly(n) == Only([i \in 1 .. n |-> Plain])
Both(messages) == [r \in Rooms |-> messages]

\* Everything that fails without handoff, with three messages and with workers;
\* handoffs and failures; handoffs and releases; worker stages and failures;
\* retries; replies that fail halfway; releases beside retries.
Failures ==
  {"duplicate", "turn_fails", "slow_turn", "crash", "torn_write", "retry"}
RoomScenarios ==
  {Scenario(Failures, {}, Plainly(3), 3, 1, 1),
   Scenario(Failures \union {"policy_block"}, {"postrun"}, Plainly(2), 2, 1, 1),
   Scenario({"duplicate", "policy_block", "turn_fails", "crash", "handoff", "release"},
            {}, Plainly(2), 3, 0, 0),
   Scenario({"duplicate", "handoff", "release"}, {}, Plainly(3), 4, 0, 0),
   Scenario({"turn_fails", "crash", "retry"}, {"prelude", "postrun"}, Plainly(3),
            3, 1, 0),
   Scenario({"duplicate", "turn_fails", "crash", "handoff", "retry"}, {"postrun"},
            Plainly(2), 2, 1, 0),
   Scenario({"disk_fails", "slow_turn", "crash", "retry"}, {"postrun"}, Plainly(2),
            2, 1, 0),
   Scenario({"turn_fails", "handoff", "release", "retry"}, {}, Plainly(2), 3, 1, 0)}

\* Handoffs and releases with torn writes; with mail that is not dated in order;
\* messages that are stored and never counted.
MailScenarios ==
  {Scenario({"duplicate", "torn_write", "handoff", "release"}, {}, Plainly(2), 3, 0, 1),
   Scenario({"misdated", "crash", "handoff", "release"}, {}, Plainly(2), 3, 0, 0),
   Scenario({"torn_insert", "duplicate", "policy_block", "turn_fails", "handoff",
             "release"}, {"postrun"}, Plainly(2), 3, 0, 0)}

\* A follow-up in a room that is answered, taken over or blocked; torn writes;
\* torn runs over two rooms; a room that shares its project with another.
FollowUpScenarios ==
  {Scenario({"follow_ups", "turn_fails", "handoff", "policy_block"}, {},
            Only(<<Says(kind, "p1"), Says("project_work", "p1")>>), 2, 0, 0) :
     kind \in {"run_at", "cron_like"}}
  \union
  {Scenario({"follow_ups", "duplicate", "torn_write"}, {},
            Only(<<Says("run_at", "p1"), Says("project_work", "p1")>>), 2, 0, 0),
   Scenario({"follow_ups", "policy_block", "torn_run"}, {},
            Both(<<Says("run_at", "p1")>>), 0, 0, 0),
   Scenario({"follow_ups"}, {},
            [r \in Rooms |-> IF r = "r1" THEN <<Says("run_at", "p1"), Plain>>
                                         ELSE <<Says("project_work", "p1")>>], 3, 0, 0)}

SafetyScenarios == RoomScenarios \union MailScenarios \union FollowUpScenarios

LiveScenario ==
  {Scenario({"turn_fails", "crash", "retry"}, {}, Both(<<Plain, Plain>>), 3, 1, 0)}
OverlapScenario ==
  {Scenario({"turn_fails", "handoff", "release", "retry"}, {}, Plainly(1), 2, 1, 0)}
PreludeScenario == {Scenario({}, {"prelude"}, Plainly(2), 2, 0, 0)}
HandoffScenario == {Scenario({"handoff", "turn_fails"}, {}, Plainly(2), 2, 0, 0)}
ReminderScenario ==
  {Scenario({"follow_ups"}, {}, Only(<<Says("run_at", "p1")>>), 1, 0, 0)}
=============================================================================
