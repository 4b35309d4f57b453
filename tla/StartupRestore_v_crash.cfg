SPECIFICATION StartupSpec
CONSTANTS
  Content = {a, b}
  a = a
  b = b
  Hybrid = {a}
  MaxProcessing = 2
  Incidents = {"crash"}
  MaxStarts = 2
CHECK_DEADLOCK FALSE
INVARIANT CrashKeepsTorrents
