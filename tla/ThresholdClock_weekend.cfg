\* Three weeks around a 25-hour Sunday, then a 23-hour one.
SPECIFICATION ClockSpec
CONSTANTS
  ShortDays = {20}
  LongDays = {6}
  FirstHour = 96
  LastHour = 560
  MaxDays = 6
  EndHours = {15, 24}
INVARIANTS
  EndsThatManyWorkingDaysBack
PROPERTY ThresholdNeverRetreats
CHECK_DEADLOCK FALSE
