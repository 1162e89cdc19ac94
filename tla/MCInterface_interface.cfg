\* Two users with every option of every page.
CONSTANTS
  MaxId = 2
  MaxAdds = 1
  Absent = Absent
  Client = {c1, c2}
  Requests <- MCOptions
  InitialDbs <- MCOneStory
SPECIFICATION FairInterfaceSpec
INVARIANTS TypeOK NoAssertionFails PagesNest ShowsTheTruth
PROPERTIES LandsOnWay UserIsAsked
CHECK_DEADLOCK FALSE
