CONSTANTS
  v1 = v1
  v2 = v2
  Width4 = 2
  Width6 = 3
  MappedAt = 4
  Published <- NestedPrefixes
  Values <- TwoValues
  Expiries <- NeverOrSoon
  Lines <- AllLines
  MaxRecords = 4
  MaxTime = 2
SPECIFICATION Spec
INVARIANTS LookupExact HashAndCountersExact StaticExact
CHECK_DEADLOCK FALSE
