CONSTANTS
  Wrappers <- MC_LoopOnly
  NumFiles = 3
  MaxRetries = 1
  ExceptionOnFailModes <- MC_ExceptionOnFail
SPECIFICATION Spec
\* ProcessFiles returns: the ended states have no successor.
CHECK_DEADLOCK FALSE
INVARIANT NoSilentAbort
