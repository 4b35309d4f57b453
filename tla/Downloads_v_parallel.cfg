SPECIFICATION DownloadSpec
CONSTANTS
  Download = {d1, d2, d3}
  Service = {s1, s2}
  NoService = NoService
  MaxRedirections = 1
  MaxTimers = 1
INVARIANT OneAtATime
CHECK_DEADLOCK FALSE
