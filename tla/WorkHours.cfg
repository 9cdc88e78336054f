\* Three months of a senior's year, printed and recorded in any order.
SPECIFICATION Spec
CONSTANTS
  Plans <- MCPlans
  SessionLengths = {3, 4}
  Allocations = {100, 330}
  Hours = {0, 305, 420}
  Months = {7, 8, 11}
  SessionMaxs = {3, 4, 8}
  WorkingDays = {1, 10, 100}
  NoSheet = NoSheet
INVARIANTS
  OvershootIsLessThanASession
  YearIsFilled
  RowsRiseByOne
  SuggestionsReachTheTarget
