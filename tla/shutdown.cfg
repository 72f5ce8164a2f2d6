CONSTANTS
  t1 = t1
  t2 = t2
  w1 = w1
  s1 = s1
  sw = sw
  nil = nil
  Task <- Tasks2
  Submitters <- OneSubmitter
  Workers <- OneWorker
  Sweeper = sw
  NoTask = nil
  Depth = 1
  Full = "wait"
  Reserve = 1
  MinBudget = 1
  Deadlines <- ShortDeadlines
  maxItems = 1
  maxPending = 2
SPECIFICATION FairSpecRun
INVARIANTS AcceptedReplied RepliesAudited
PROPERTIES OneReplyOnTheBus StopEnds
