CONSTANTS
  PMRange = 4
  Width = 12000
  Gaps <- SomeGaps
  Ms = 10
  TargetTicks = 6
  Fallback = 100000
  SleepTicks = 2
  PollLimit = 2
  Machines <- SomeMachines
  NULL = NULL
SPECIFICATION FairSpec
INVARIANTS TypeOK NothingEarly Acknowledged
PROPERTIES PeriodNotShort ScancodesRead KmainStarts
