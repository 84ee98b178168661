SPECIFICATION Spec
CONSTANTS
  NumCores = 3
  NumSmall = 2
  NumBig = 1
  CreateMayFail = FALSE
  Programs <- MCPrograms
  MaxPrograms = 2
INVARIANTS
  NothingDestroyedInUse
  TerminatedMeansEnded
  FindsItself
  ProgramsApart
PROPERTIES
  ProgramsEnd
CHECK_DEADLOCK FALSE
