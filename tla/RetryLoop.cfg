CONSTANTS
  Wrappers <- MC_Wrappers
  NumFiles = 3
  MaxRetries = 1
  ExceptionOnFailModes <- MC_ExceptionOnFail
SPECIFICATION Spec
\* ProcessFiles returns: the ended states have no successor.
CHECK_DEADLOCK FALSE
INVARIANTS
  TypeOK
  ExitClean
  NoFailedCommit
  AbortRecorded
PROPERTIES
  SkipToAllHonoured
