\* A handoff while a turn fails.
SPECIFICATION Spec
CONSTANTS
  NoRoom = NoRoom
  NoTurn = NoTurn
  NoProject = NoProject
  NoFollowUp = NoFollowUp
  Rooms <- OneRoom
  Projects <- OneProject
  Jobs <- FourJobs
  Turns = {t1, t2}
  LeaseMs = 60
  AgingMs = 60
  AgingStep = 25
  PenaltyStep = 100
  MaxDay = 0
  Scenarios <- HandoffScenario
INVARIANTS
  NoReplyWhileHandedOff
SYMMETRY Symmetry
CHECK_DEADLOCK FALSE
