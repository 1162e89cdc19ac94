\* A crash between the reply and the write.
CONSTANTS
  MaxId = 2
  Absent = Absent
  Torn = Torn
  Requests <- MCWrites
  DiskFails = FALSE
SPECIFICATION Spec
PROPERTIES ToldIsKept
CHECK_DEADLOCK FALSE
