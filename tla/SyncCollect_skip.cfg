CONSTANTS
  Names <- MC_Names
  Paths <- MC_Paths
  Sizes <- MC_Sizes
  Times <- MC_Times
  RemoteFmts <- MC_RemoteFmts
  VariedParams <- MC_VariedParams
  FixedParams <- MC_FixedParams
  Excluded <- MC_Excluded
  Filter <- MC_Filter
  ListingOutcomes <- MC_ListingSkip
SPECIFICATION Spec
\* SynchronizeCollect returns once the checklist is sorted: a final state.
CHECK_DEADLOCK FALSE
INVARIANT
  DeleteOnlyOrphans
