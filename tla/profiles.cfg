CONSTANTS
  Name <- Names
  NoRef = "none"
  MaxClauses = 2
  Plain <- PlainA
  MaxFields = 3
SPECIFICATION SpecProfile
INVARIANTS AcceptsWellFormed EntriesFollowGrammar
