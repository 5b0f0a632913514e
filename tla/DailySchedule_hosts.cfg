\* Two hosts on two days and the day a week after the first; a command or a host
\* fails once.
SPECIFICATION Spec
CONSTANTS
  Host = {h1, h2}
  Group = {g}
  Offset <- Pacific
  StartHour = 15
  EndHour = 17
  CronHour = {}
  Stops <- MondayAndAWeekLater
  Fetching = TRUE
  MaxFailures = 1
SYMMETRY Symmetry
INVARIANTS
  TypeOK
  CrontabsArePublished
  HostsAgree
PROPERTIES
  ArmedHostsLaunch
  ArmedHostsAreOnTime
  AllThatIsDueTodayIsFetched
CHECK_DEADLOCK FALSE
