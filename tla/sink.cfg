CONSTANTS
  sa = sa
  sb = sb
  Subjects <- TwoSubjects
  maxItems = 2
  maxPending = 3
  MaxEvents = 5
SPECIFICATION FairSpec
INVARIANTS TypeOK EventsAccounted SubjectOrder ClosedFlushed
PROPERTY EventPublished
