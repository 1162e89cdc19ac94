\* The option -c 0.
CONSTANTS
  MaxId = 2
  Absent = Absent
  Client = {c1, c2}
  NoClient = NoClient
  Requests <- MCReads
  InitialDbs <- MCOneStory
  ChanBuf = 0
  Window = 1
  MaxAdds = 0
  DiskFails = FALSE
SPECIFICATION FairSpec
PROPERTY FinishedClientReaped
CHECK_DEADLOCK FALSE
