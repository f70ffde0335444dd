\* Collect, apply (each bulk operation possibly cancelled), and collect again.
CONSTANTS
  Names <- MC_Names
  Paths <- MC_Paths
  Sizes <- MC_Sizes
  Times <- MC_Times
  RemoteFmts <- MC_RemoteFmts
  VariedParams <- MC_ApplyVariedParams
  FixedParams <- MC_FixedParams
  Excluded <- MC_Excluded
  Filter <- MC_Filter
  ListingOutcomes <- MC_ListingOk
  PreserveTime = FALSE
  ApplyOutcomes <- MC_ApplyCancel
SPECIFICATION ApplySpec
\* SynchronizeApply returns and the second collect ends: final states.
CHECK_DEADLOCK FALSE
INVARIANTS
  ApplyTypeOK
  Idempotent
PROPERTY
  SourceUntouched
