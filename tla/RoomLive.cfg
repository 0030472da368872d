\* Two rooms without workers, fair turns and time.
SPECIFICATION FairSpec
CONSTANTS
  NoRoom = NoRoom
  NoTurn = NoTurn
  NoProject = NoProject
  NoFollowUp = NoFollowUp
  Rooms <- TwoRooms
  Projects <- OneProject
  Jobs <- FourJobs
  Turns = {t1, t2}
  LeaseMs = 60
  AgingMs = 60
  AgingStep = 25
  PenaltyStep = 100
  MaxDay = 0
  Scenarios <- LiveScenario
PROPERTIES
  JobsSettle
  RoomComesToRest
CHECK_DEADLOCK FALSE
