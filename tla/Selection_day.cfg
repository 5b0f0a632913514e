\* Two stacks, two accounts, two regions, a push and a canary; one change during the day.
SPECIFICATION Spec
CONSTANTS
  ServerGroups <- WithCanary
  AppName = "foo"
  Status = {"up"}
  Groupings = {"app", "stack", "cluster"}
  Exceptions <- StandingException
  MaxChanges = 1
  MaxRuns = 2
INVARIANTS
  TypeOK
  NobodyIsForgotten
  SchedulesMatchChecks
  GroupsAreDisjoint
  VictimsAreFairGame
CHECK_DEADLOCK FALSE
