\* Names of up to three pieces, redirects, listings and another user's saves.
SPECIFICATION FairSpec
CONSTANTS
  Octet <- OctetOf
  WbRoot <- Root
  MainPage <- Main
  NoFile = NoFile
  NoIndex = NoIndex
  Configs <- SomeConfigs
  Placeholders = {NoIndex, 1, 2, 3}
  Icons <- SomeIcons
  Typed <- TypedNames
  Queries <- SomeQueries
  LibFile <- Lib
  HostDirs <- Host
  StoredType <- Stored
  FirstData <- FirstTrees
  NewFiles <- Saved
  MaxSaves = 1
INVARIANTS SiteTypeOK AnswersWhatWasAsked StartSound
PROPERTY RedirectsSettle
CHECK_DEADLOCK FALSE
