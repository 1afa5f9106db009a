CONSTANTS
  Exprs <- AllExprs
  Zones = {0, 1, 2}
  Starts <- AllStarts
  MinutesPerHour = 2
  HoursPerDay = 3
  DaysPerWeek = 3
  DaysBefore <- TwoMonths
  LongestMonth = 3
  SearchDays = 20
  MaxDelay = 1
  MaxPasses = 2
SPECIFICATION FairSpec
INVARIANTS TypeOK OnSchedule
PROPERTY SearchEnds
CHECK_DEADLOCK FALSE
