CONSTANTS
  a = a
  b = b
  c = c
  v1 = v1
  v2 = v2
  NoCond = NoCond
  Cond <- Conds
  Value <- Vals
  Text <- FirstValue
  StaticList <- JustV1
  Profile <- MCProfile
  Content <- MCContent
  MaxChanges = 1
SPECIFICATION FairSpec
INVARIANTS LazyIsExact OneValuePerCondition DoneOnce
PROPERTY Terminates
