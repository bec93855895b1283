\* Violated: a save after a killed one replaces the good attic copy.
SPECIFICATION Spec
CONSTANTS
  t1 = t1  t2 = t2  p1 = p1  p2 = p2
  Thread = {t1}
  Page = {p1}
  LibPage = {}
  Content = {original, edited}
  Original = original
  Empty = Empty  Torn = Torn  NoFile = NoFile  NoFd = NoFd  Orphan = Orphan
  NoMeta = NoMeta  NoReq = NoReq
  MaxTime = 2
  MaxFailures = 0
  MaxRequests = 3
PROPERTY HistoryKept
