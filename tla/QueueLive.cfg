\* Interleaved leases; fair commands, turns and time.
SPECIFICATION FairSpec
CONSTANTS
  NoRoom = NoRoom
  Rooms = {r1, r2}
  Jobs <- TwoJobs
  Drains = {d1}
  Server = srv
  LeaseMs = 1
  AgingMs = 1
  AgingStep = 25
  PenaltyStep = 100
  MaxConcurrentRooms = 1
  MaxGlobalWorkers = 1
  MaxWorkersPerRoom = 2
  MaxRuns = 2
  AtomicLease = FALSE
  TimelyTurns = TRUE
  MaxClock = 2
  MaxCrashes = 1
  MaxRetries = 0
INVARIANTS
  PoolCountsTurns
PROPERTIES
  EveryJobSettles
CHECK_DEADLOCK FALSE
