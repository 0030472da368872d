\* Overlapping polls of an IMAP and a Gmail mailbox.
SPECIFICATION Spec
CONSTANTS
  p1 = p1
  p2 = p2
  Polls <- Slots
  Idle = Idle
  NoCursor <- None
  MaxMail = 3
  MaxValidity = 2
  BackfillMax = 1
  Scenarios <- SomeScenarios
SYMMETRY Symmetric
INVARIANTS
  TypeOK
  CursorCoversMail
  AnsweredIsIngested
  EntersOnce
CHECK_DEADLOCK FALSE
