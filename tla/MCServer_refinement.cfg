\* Clients that do not wait for a reply, with channels too small for them, on
\* a database that grows from nothing.
CONSTANTS
  MaxId = 3
  Absent = Absent
  Client = {c1, c2}
  NoClient = NoClient
  Requests <- MCGrowing
  InitialDbs <- MCEmpty
  ChanBuf = 1
  Window = 2
  MaxAdds = 2
  DiskFails = FALSE
SYMMETRY Symmetry
SPECIFICATION Spec
INVARIANT OneReplyPerRequest
PROPERTY ImplementsService IdsStayUnique
CHECK_DEADLOCK FALSE
