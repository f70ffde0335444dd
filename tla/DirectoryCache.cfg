\* Without directory-listing caching, with the directory-change cache.
CONSTANTS
  Commands <- MC_Commands
  MaxDepth = 2
  AutoReadDirectoryAfterOp = TRUE
  CacheDirectories = FALSE
  ReopenParams <- MC_ReopenPlain
  Names <- MC_Names
  CacheDirectoryChanges = TRUE
SPECIFICATION ComposedSpec
INVARIANTS TypeOK CwdFresh ListingFresh CommandDepthMatches CommandClosedWithMain ChangeCacheCoherent
PROPERTIES NoReloadInTransaction
