\* One host in Los Angeles, with the default hours of the configuration.
SPECIFICATION Spec
CONSTANTS
  Host = {h1}
  Group = {g}
  Offset <- Pacific
  StartHour = 9
  EndHour = 11
  CronHour = {}
  Stops <- DefaultMonday
  Fetching = TRUE
  MaxFailures = 0
PROPERTY AllThatIsDueTodayIsFetched
CHECK_DEADLOCK FALSE
