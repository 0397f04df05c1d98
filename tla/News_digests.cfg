SPECIFICATION Spec
CONSTANTS
  Url <- MCUrl
  UrlReplacements <- MCReplacements
  DisableUrls <- MCDisable
  SupplementalFeeds <- MCSupplemental
  Digests <- MCDigests
  FeedsIn <- MCFeedsIn
  InitialFiles <- MCFiles
  MaxItems = 1
  Missing = Missing
  Corrupt = Corrupt
  MaxRefreshes = 2
  MaxEvents = 2
CHECK_DEADLOCK FALSE
INVARIANTS
  UserIntentKept
  LockNeverStranded
PROPERTIES
  DigestNeverGoesBack
  DiskNeverGoesBack
