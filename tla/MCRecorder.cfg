SPECIFICATION Spec
CONSTANTS
  Users <- MCUsers
  Names <- MCNames
  FileNames = {report}
  RecordName <- MCRecordName
  Budgets <- MCBudgets
  MaxAuto = 2
  Guids = {g1, g2}
  None = None
  NTabs = 2
  Capacity = 1
  Script = script
  Callback = callback
  Main = main
  rec1 = rec1
  rec2 = rec2
  report = report
INVARIANTS TypeOK NothingLost RecordingsAreKept  ListIsTrue
PROPERTIES SavedIsFinal SendersGoOn 
CHECK_DEADLOCK FALSE
