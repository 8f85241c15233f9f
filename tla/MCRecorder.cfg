CONSTANTS
  Session = {s1, s2}
  Task = {t1, t2, t3}
  NoTask = NoTask
  MaxFrames = 3
  StitchDelay = 1
  IdleStitch = 2
  NameLimit = 5
  StartRange = 1
SPECIFICATION Spec
SYMMETRY Symmetry
CONSTRAINT UpToWriteFailure
INVARIANTS NoQuietLoss VideoComplete NothingStranded
PROPERTIES ResetMeansSaved ImplementsSessionRecorder
