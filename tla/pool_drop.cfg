CONSTANTS
  t1 = t1
  t2 = t2
  t3 = t3
  w1 = w1
  w2 = w2
  s1 = s1
  sw = sw
  nil = nil
  Task <- Tasks3
  Submitters <- OneSubmitter
  Workers <- TwoWorkers
  Sweeper = sw
  NoTask = nil
  Depth = 2
  Full = "drop"
  Reserve = 1
  MinBudget = 1
  Deadlines <- ShortAndLong
SPECIFICATION Spec
SYMMETRY Symmetry
INVARIANTS TypeOK AnsweredOnce SoleHolder Fifo Accounting ClosedDrained
PROPERTY Implements
