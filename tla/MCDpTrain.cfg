\* Trainings with a sink that fails at will, but asks for no less swing.
SPECIFICATION FairSpec
CONSTANTS
  Records <- Table
  Scans <- TableScans
  Rates = {6, 10, 20}
  Lanes = {4}
  SourceLanes = 2
  SourceFast = TRUE
  CrTries = 5
  EqTries = 6
  MaxDefers = 2
  Steady = TRUE
INVARIANTS SidesAgree LevelInTable
PROPERTIES TrainingEnds
CHECK_DEADLOCK FALSE
