SPECIFICATION QuerySpec

CONSTANTS
  Fields <- MCFields
  Operators <- MCOperators
  Values <- MCValues
  MaxFilters = 3
  NaN = 9
  Blank = 8

INVARIANTS
  
  FiltersAreJoinedWithAnd
  AlternativesStayTogether
