CONSTANTS
  Save = {r1, r2}
  Value = {odd, even}
  Even = {even}
  Default = odd
  Blank = Blank
SPECIFICATION FairSpec
INVARIANTS SettingsTypeOK SoloSaveWins
PROPERTIES SettingsReachDetector DetectorTakesOneSave
