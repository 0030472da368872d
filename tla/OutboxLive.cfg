\* Fair delivery, no crash; one of two mails may need an approval.
SPECIFICATION FairSpec
CONSTANTS
  Intents = {i1, i2}
  Gateable = {i1}
  r1 = r1
  Rooms <- OneRoom
  RoomOf <- AllInOneRoom
  Passes = {p1, p2}
  NoIntent = NoIntent
  MaxReleases = 2
  MaxCrashes = 0
  MaxHandoffs = 1
PROPERTIES
  QueuedMailIsTakenUp
  SendingConcludes
CHECK_DEADLOCK FALSE
