\* Two threads on one page, two requests: every interleaving, crash, second and failing call.
SPECIFICATION Spec
CONSTANTS
  t1 = t1  t2 = t2  p1 = p1  p2 = p2
  Thread = {t1, t2}
  Page = {p1}
  LibPage = {}
  Content = {original, edited}
  Original = original
  Empty = Empty  Torn = Torn  NoFile = NoFile  NoFd = NoFd  Orphan = Orphan
  NoMeta = NoMeta  NoReq = NoReq
  MaxTime = 2
  MaxFailures = 1
  MaxRequests = 2
CONSTRAINT OneEvent
SYMMETRY Threads
INVARIANTS TypeOK ArchivedAck SoloThrowsWithoutFolder SoloSave PreviousKept SoloLoad
PROPERTIES KeepsPromise OnlyFailureBlanks
