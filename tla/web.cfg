CONSTANTS
  Tab = {t1, t2}
  ServiceToken = TRUE
  MaxKeys = 2
  MaxPress = 3
  MaxCalls = 1
  MaxMishaps = 1
  FormId = {"i1", "i2"}
  New = New
  Kind = {"shell", "node"}
  Script <- MCScript
  Text <- MCText
  List <- MCList
  Plugin = {"p", "q"}
  Offered <- MCOffered
  Variable = {"A", "B"}
  Value = {"", "v"}
  Empty = ""
  NotSet = NotSet
  Gone = Gone
  Blank <- MCBlank
  MaxActs = 5
  Run = {r1, r2}
  NoRun = NoRun
  MaxPresses = 4
  Id = {1, 2, 3}
  Name = {"a", "b"}
  Cron <- MCCron
  MinutesPerDay = 3
  HorizonDays = 2
  MaxRunsPerDay = 3
  MaxOccurrences = 3
  RunsContinuous = 2
  Unshown = Unshown
SPECIFICATION MCSpec
CHECK_DEADLOCK FALSE
INVARIANTS
  TypesOK
  RemovedIsRefused
  HandedOutWorks
  CollisionsAreReal
  CollisionsAreFound
PROPERTIES
  SavesOnlyTouched
  RunButtonReturns
  RunButtonWaits
