\* Two runs over two days; operators change a switch twice, commits fail, and
\* midnight falls anywhere.
SPECIFICATION Spec
CONSTANTS
  Proc = {p1, p2}
  Group = {g}
  Instance = {i1, i2}
  GroupOf <- OneGroup
  Excepted = {}
  MinDays = 1
  Trackers = 2
  LastDay = 1
  MaxFlips = 2
SYMMETRY Symmetry
INVARIANTS
  TypeOK
  KillsAreRecorded
  KillsKeepApart
  KillsNeedEverySwitch
  DryRunsStayDry
  KillsAreTracked
