SPECIFICATION Spec
CONSTANTS
  Content = {c}
  Hybrid = {c}
  Races = {"share"}
  MaxRequests = 3
INVARIANT TorrentHasNative
\* When all the requests are answered nothing is left to do.
CHECK_DEADLOCK FALSE
