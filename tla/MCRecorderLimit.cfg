CONSTANTS
  Session = {s1}
  Task = {t1, t2, t3}
  NoTask = NoTask
  MaxFrames = 3
  StitchDelay = 1
  IdleStitch = 1
  NameLimit = 1
  StartRange = 1
SPECIFICATION Spec
SYMMETRY Symmetry
INVARIANTS TypeOK NoQuietLoss
PROPERTIES ResetMeansSaved StitchTakesTheStart
