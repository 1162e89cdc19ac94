\* Unboundedly many requests, fair tasks.
CONSTANTS
  MaxId = 2
  Absent = Absent
  Client = {c1, c2}
  NoClient = NoClient
  Requests <- MCReads
  InitialDbs <- MCOneStory
  ChanBuf = 1
  Window = 1
  MaxAdds = 0
  DiskFails = TRUE
SPECIFICATION FairSpec
PROPERTIES FinishedClientReaped EveryRequestAnswered NoTaskLeaks
CHECK_DEADLOCK FALSE
