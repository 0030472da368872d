\* A reminder in a room whose turn completes before the day comes.
SPECIFICATION Spec
CONSTANTS
  NoRoom = NoRoom
  NoTurn = NoTurn
  NoProject = NoProject
  NoFollowUp = NoFollowUp
  Rooms <- OneRoom
  Projects <- OneProject
  Jobs <- FourJobs
  Turns = {t1, t2}
  LeaseMs = 60
  AgingMs = 60
  AgingStep = 25
  PenaltyStep = 100
  MaxDay = 1
  Scenarios <- ReminderScenario
INVARIANTS
  FollowUpNotDropped
SYMMETRY Symmetry
CHECK_DEADLOCK FALSE
