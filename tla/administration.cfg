CONSTANTS
  Tab = {t1, t2}
  Password = {pwA, pwB}
  Settings = {"timezone"}
  Fields = {"token"}
  Secret = {"token"}
  Required = {"token"}
  Choice <- MCChoice
  Default <- MCDefault
  InUse <- MCInUse
  Mask = "masked"
  Absent = Absent
  MaxCrashes = 1
  MaxActs = 4
  Client = {"r1", "r2", "page"}
  Task = {"t1", "t2"}
  TaskOf <- MCTaskOf
  Uses <- MCUses
  Nothing = Nothing
  List = List
  Huge = Huge
  MaxCalls = 3
  MaxMishaps = 1
SPECIFICATION FairSystem
CHECK_DEADLOCK FALSE
INVARIANTS
  TypesOK
  MemoryIsFile
  NothingLost
  SessionsSurvive
  MergesKept
  AnswersAreTrue
PROPERTIES
  SecretsAreTyped
  TabsSettle
  OthersUntouched
