\* Two clients, a channel of one, every operation, on an epic and a story that
\* both clients may delete, deaths of the broker, ids that wrap.
CONSTANTS
  MaxId = 3
  Absent = Absent
  Client = {c1, c2}
  NoClient = NoClient
  Requests <- MCOperations
  InitialDbs <- MCLastId
  ChanBuf = 1
  Window = 1
  MaxAdds = 1
  DiskFails = FALSE
SYMMETRY Symmetry
SPECIFICATION Spec
INVARIANTS
  TypeOK
  ClientsMatchWriters
  FailsOnlyForDisk
  UnknownClientHasLeft
  OneReplyPerRequest
  NeverHeldUp
  BacklogBounded
PROPERTY ImplementsService
CHECK_DEADLOCK FALSE
