CONSTANTS
  Client = {c1, c2}
  Request = {r1}
  Scheduler = Scheduler
  Packet = {p1}
  NoPacket = NoPacket
SPECIFICATION Spec
SYMMETRY Symmetry
PROPERTY LoopingIsSafe
