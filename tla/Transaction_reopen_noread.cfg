\* Reopen with and without ropNoReadDirectory, directory caching off.
CONSTANTS
  Commands <- MC_Commands
  MaxDepth = 3
  AutoReadDirectoryAfterOp = TRUE
  CacheDirectories = FALSE
  ReopenParams <- MC_ReopenAll
SPECIFICATION Spec
INVARIANT ListingFresh
