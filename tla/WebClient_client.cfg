\* Three pages in two directories, three moves of the user, one failure.
SPECIFICATION Spec
CONSTANTS
  main = main  file = file  sub = sub  root = root  below = below
  Page = {main, file, sub}
  Html = {main, sub}
  MainPage = main
  DirOf <- DirOfPage
  NoPage = NoPage
  FirstStored = {main}
  FirstAddress <- SomeAddresses
  MaxMoves = 3
  MaxFailures = 1
INVARIANTS ClientTypeOK PageSettles
CHECK_DEADLOCK FALSE
