\* Two calls about the same or neighbouring groups, at many times and settings.
SPECIFICATION Spec
CONSTANTS
  Proc = {p1, p2}
  Requests <- Neighbours
  NoRequest = NoRequest
  Threshold <- MCThreshold
  EndHour = 15
  ShortDays = {}
  LongDays = {}
  Faults = {}
INVARIANTS
  TypeOK
  MinTimeRespected
  NilMeansRecorded
  RefusalHasACause
  AtMostOneKillADay
PROPERTY ImplementsGuard
