SPECIFICATION FairSpec
CONSTANTS
  Content = {c}
  Hybrid = {c}
  Races = {}
  MaxRequests = 4
INVARIANTS TypeOK HandlersMatchAlerts IndexIsExact TorrentHasNative StoredIsFound
PROPERTY MetadataIsLoaded
\* When all the requests are answered nothing is left to do.
CHECK_DEADLOCK FALSE
