\* Two turns of one room, after a release beside a failed job.
SPECIFICATION Spec
CONSTANTS
  NoRoom = NoRoom
  NoTurn = NoTurn
  NoProject = NoProject
  NoFollowUp = NoFollowUp
  Rooms <- OneRoom
  Projects <- OneProject
  Jobs <- FourJobs
  Turns = {t1, t2}
  LeaseMs = 60
  AgingMs = 60
  AgingStep = 25
  PenaltyStep = 100
  MaxDay = 0
  Scenarios <- OverlapScenario
INVARIANTS
  OneTurnPerRoom
SYMMETRY Symmetry
CHECK_DEADLOCK FALSE
