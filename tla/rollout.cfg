CONSTANTS
  Revisions = 4
  Edits <- BrokenEdit
  Editable <- BootSecond
  Broken <- BrokenSecondAndEdit
  Rejected <- RejectedThird
  WithLists <- Lists14
  HasBlobs = TRUE
  MaxTroubles = 2
  Deletable <- FirstOnly
SPECIFICATION FairSpec
INVARIANTS ServedLoadable LastGoodKept
PROPERTIES LatestApplied RevisionNeverGoesBack
