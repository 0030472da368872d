\* Turns end within their lease and no lane runs inside another's lease call; a
\* drain has two slots, of which a room may take one.
SPECIFICATION Spec
CONSTANTS
  NoRoom = NoRoom
  Rooms = {r1, r2}
  Jobs <- ThreeJobs
  Drains = {d1}
  Server = srv
  LeaseMs = 2
  AgingMs = 1
  AgingStep = 25
  PenaltyStep = 30
  MaxConcurrentRooms = 2
  MaxGlobalWorkers = 2
  MaxWorkersPerRoom = 1
  MaxRuns = 3
  AtomicLease = TRUE
  TimelyTurns = TRUE
  MaxClock = 2
  MaxCrashes = 1
  MaxRetries = 1
INVARIANTS
  TypeOK
  OneTurnPerRoom
  QueuedJobIsCurrent
PROPERTIES
  SettledForGood
  AgingBoundsBypass
  PoolNeverRefuses
SYMMETRY RoomSymmetry
CHECK_DEADLOCK FALSE
