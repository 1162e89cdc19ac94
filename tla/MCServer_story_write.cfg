\* A story whose epic cannot be written to disk.
CONSTANTS
  MaxId = 3
  Absent = Absent
  Client = {c1, c2}
  NoClient = NoClient
  Requests <- MCOperations
  InitialDbs <- MCOneStory
  ChanBuf = 1
  Window = 1
  MaxAdds = 1
  DiskFails = TRUE
SPECIFICATION Spec
INVARIANT MissingEpicIsMissing
CHECK_DEADLOCK FALSE
