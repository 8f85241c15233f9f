CONSTANTS
  Session = {s1}
  Task = {t1, t2}
  NoTask = NoTask
  MaxFrames = 3
  StitchDelay = 1
  IdleStitch = 1
  NameLimit = 5
  StartRange = 1
SPECIFICATION PipelineFairSpec
CONSTRAINT AtMostLagged
PROPERTY IdleSessionStitched
