CONSTANTS
  Session = {s1}
  Task = {t1, t2}
  NoTask = NoTask
  MaxFrames = 2
  StitchDelay = 1
  IdleStitch = 1
  NameLimit = 5
  StartRange = 2
SPECIFICATION PipelineSpec
SYMMETRY Symmetry
CONSTRAINT UpToWriteFailure
INVARIANTS DetectorTypeOK NothingStranded LossNeedsSlip VideoCompleteWithoutSlip VideoOfOneSession BothFoldersFresh
PROPERTIES PairImplementsSessionRecorder ResetMeansSavedWithoutSlip
