\* Turns and the API delegate to a bound agent, a bursting one and a worker.
SPECIFICATION Spec
CONSTANTS
  Calls = {c1, c2}
  NoCall = NoCall
  Messages <- SixMessages
  Mailboxes <- AllMailboxes
  Desk = "desk"
  Mode <- AllModes
  MaxActive = 1
  Plans <- OneOrTwo
  Scenarios <- SomeScenarios
  MaxRevision = 2
INVARIANTS
  TypeOK
  TaskRunsOnce
  RebuildTakesNothingBack
  LimitCountsLiveRuns
  UsedReportIsCurrent
  ReportsObtainable
  TasksAreAttended
CHECK_DEADLOCK FALSE
