\* Overlapping passes, a crash, a handoff, resends; and the promise they keep.
SPECIFICATION Spec
CONSTANTS
  Intents = {i1, i2}
  Gateable = {i1, i2}
  r1 = r1
  Rooms <- OneRoom
  RoomOf <- AllInOneRoom
  Passes = {p1, p2}
  NoIntent = NoIntent
  MaxReleases = 2
  MaxCrashes = 1
  MaxHandoffs = 1
INVARIANTS
  TypeOK
  OneDeliveryPerIntent
  AcceptedOncePerRelease
  GatedMailWaits
  SentIsAccepted
PROPERTIES
  PromiseKept
SYMMETRY Symmetry
CHECK_DEADLOCK FALSE
