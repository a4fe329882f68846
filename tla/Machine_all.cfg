CONSTANTS
  Running <- BuiltIn
  Own = {mine}
  Other = {theirs}
  Words <- Commands
  Pins = {p1, p2}
  MaxStarted = 2
  MaxForeign = 1
  MaxQueue = 3
SPECIFICATION Spec
SYMMETRY PinSymmetry
INVARIANTS TypeOK IssuedToReader SpeaksOfAccepted FormatsOwnSession PanicNeedsTwoProofs
PROPERTY ReadyWhenIssued
CHECK_DEADLOCK FALSE
