SPECIFICATION Spec
CONSTANTS
  Content = {c}
  Hybrid = {c}
  Races = {"remove"}
  MaxRequests = 4
INVARIANT StoredIsFound
\* When all the requests are answered nothing is left to do.
CHECK_DEADLOCK FALSE
