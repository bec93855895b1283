\* Two workers, three requests of every route, two accept errors, fair threads.
SPECIFICATION FairSpec
CONSTANTS
  Workers = 2
  Handlers = 2
  Stats = 2
  Nobody = Nobody  NoReq = NoReq
  MaxElapse = 1
  MaxErrors = 2
  MaxRequests = 3
INVARIANTS TypeOK AcceptExclusive ReportCovers CountExact ReturnsAlone
PROPERTIES KeepsService EveryRequestTaken
CHECK_DEADLOCK FALSE
