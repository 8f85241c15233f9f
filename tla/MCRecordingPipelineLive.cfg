CONSTANTS
  Session = {s1, s2}
  Task = {t1, t2}
  NoTask = NoTask
  MaxFrames = 2
  StitchDelay = 1
  IdleStitch = 1
  NameLimit = 5
  StartRange = 1
SPECIFICATION PipelineFairSpec
CONSTRAINT Combined
PROPERTY EventuallyStitchedWithDetector
