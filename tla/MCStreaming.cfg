CONSTANTS
  Client = {c1, c2}
  Request = {r1, r2}
  Scheduler = Scheduler
  Packet = {p1, p2}
  NoPacket = NoPacket
SPECIFICATION Spec
SYMMETRY Symmetry
INVARIANTS StreamingTypeOK GlassesAgree GlassesFollow ShownIsLatest
PROPERTIES PacketsInTurn CommandsInTurn
