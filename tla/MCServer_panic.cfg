\* A client leaves with a request in the broker's channel.
CONSTANTS
  MaxId = 2
  Absent = Absent
  Client = {c1, c2}
  NoClient = NoClient
  Requests <- MCReads
  InitialDbs <- MCOneStory
  ChanBuf = 1
  Window = 1
  MaxAdds = 0
  DiskFails = FALSE
SPECIFICATION Spec
INVARIANT ClientShouldExist
CHECK_DEADLOCK FALSE
