\* Every kind of request and of response, one connection at a time.
CONSTANTS
  Requests <- MCRequests
  SavedEpics <- MCSavedEpics
  OtherEpics <- MCOtherEpics
  Ids <- MCIds
SPECIFICATION FairSpec
INVARIANTS TypeOK HeardIsAsked InSync ShownIsAnswered
PROPERTIES LoadsWhatIsLeft IsAnswered
CHECK_DEADLOCK FALSE
