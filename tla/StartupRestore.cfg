SPECIFICATION StartupFairSpec
CONSTANTS
  Content = {a, b}
  a = a
  b = b
  Hybrid = {a}
  MaxProcessing = 2
  Incidents = {"crash", "reject"}
  MaxStarts = 2
CHECK_DEADLOCK FALSE
INVARIANTS
  StartupTypeOK
  ProcessingIsOutstanding
  ContextOutlivesCalls
  AllRestored
  RestoredOnce
  StoredIsKept
PROPERTY
  StartupEndsUndisturbed
