\* Three confirmations per operation, over every flag combination,
\* target details and answer; operations follow each other.
SPECIFICATION Spec
CONSTANTS
  NumFiles = 3
  ParamsModes <- MC_ParamsModes
  Times <- MC_Times
  Precisions <- MC_Precisions
INVARIANTS TypeOK
PROPERTIES OlderRule BatchHonoured NeverAskHonoured
