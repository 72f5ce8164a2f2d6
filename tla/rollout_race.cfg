CONSTANTS
  Revisions = 2
  Edits <- None
  Editable <- BootSecond
  Broken <- None
  Rejected <- None
  WithLists <- None
  HasBlobs = TRUE
  MaxTroubles = 0
  Deletable <- None
SPECIFICATION Spec
INVARIANT SettledServesDisk
