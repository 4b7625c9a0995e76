SPECIFICATION FairSpec
CONSTANTS
  a = a
  b = b
  NoDoc = NoDoc
  Proc <- MCTwo
  Expiry = 2
  MaxHold = 2
  Fallbacks <- MCMixtures
  MaxCrashes = 2
  Etag <- MCEtag
PROPERTIES NativePromise HolderKeepsDocument OrphanDocumentCleaned
