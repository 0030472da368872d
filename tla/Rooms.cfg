\* Mail, failing turns, handoffs, worker stages and follow-ups.
SPECIFICATION Spec
CONSTANTS
  NoRoom = NoRoom
  NoTurn = NoTurn
  NoProject = NoProject
  NoFollowUp = NoFollowUp
  Rooms <- TwoRooms
  Projects <- OneProject
  Jobs <- FourJobs
  Turns = {t1, t2}
  LeaseMs = 60
  AgingMs = 60
  AgingStep = 25
  PenaltyStep = 100
  MaxDay = 2
  Scenarios <- SafetyScenarios
INVARIANTS
  TypeOK
  RepliesAreCurrent
  RevisionCountsArrivals
  RoomsAreSerial
  OutboundSeqCountsReplies
  HandoffSuppressesReplies
  SecondReplyIsReleased
  NewestMessageAccountedFor
  FollowUpSentOnce
  ReplyEndsFollowUps
PROPERTIES
  PromiseKept
SYMMETRY Symmetry
CHECK_DEADLOCK FALSE
