\* Three clients: two readers parked at once, writes to disk that fail.
CONSTANTS
  MaxId = 3
  Absent = Absent
  Client = {c1, c2, c3}
  NoClient = NoClient
  Requests <- MCOrdered
  InitialDbs <- MCOneStory
  ChanBuf = 1
  Window = 1
  MaxAdds = 1
  DiskFails = TRUE
SYMMETRY Symmetry
SPECIFICATION Spec
INVARIANTS ClientsMatchWriters BacklogBounded OneReplyPerRequest NeverHeldUp
CHECK_DEADLOCK FALSE
