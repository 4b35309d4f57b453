SPECIFICATION StartupFairSpec
CONSTANTS
  Content = {a, b}
  a = a
  b = b
  Hybrid = {a}
  MaxProcessing = 2
  Incidents = {"reject"}
  MaxStarts = 1
CHECK_DEADLOCK FALSE
PROPERTY StartupEnds
