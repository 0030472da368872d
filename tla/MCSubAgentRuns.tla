--------------------------- MODULE MCSubAgentRuns ---------------------------
(* Small instances of SubAgentRuns: a bound agent, a bursting one, a worker. *)
EXTENDS SubAgentRuns

AllModes == [bound |-> "bound", burst |-> "burst", role |-> "worker"]
AllMailboxes == {"desk"} \union DOMAIN AllModes
OneOrTwo == {<<"role">>, <<"bound">>, <<"burst", "bound">>}
SixMessages == 1 .. 6

Scenario(events, maxTurns, maxTasks) ==
  [events |-> events, maxTurns |-> maxTurns, maxTasks |-> maxTasks]

\* What fails while one turn runs at a time; turns that overlap; the API.
SomeScenarios ==
  {Scenario({"run_fails", "crash", "torn_write", "rebuild", "disk_fails"}, 2, 2),
   Scenario({"slow_turn", "put_back"}, 2, 2),
   Scenario({"slow_turn", "rebuild"}, 2, 3),
   Scenario({"slow_turn", "run_fails"}, 2, 2),
   Scenario({"torn_rebuild"}, 2, 2),
   Scenario({"api", "rebuild", "crash"}, 1, 2),
   Scenario({"api"}, 0, 3)}
=============================================================================
