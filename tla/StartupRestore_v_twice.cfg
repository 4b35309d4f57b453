SPECIFICATION StartupSpec
CONSTANTS
  Content = {a, b}
  a = a
  b = b
  Hybrid = {a}
  MaxProcessing = 2
  Incidents = {"leftover"}
  MaxStarts = 1
CHECK_DEADLOCK FALSE
INVARIANT RestoredOnce
