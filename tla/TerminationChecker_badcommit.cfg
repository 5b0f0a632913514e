\* The server may fail to commit.
SPECIFICATION Spec
CONSTANTS
  Proc = {p1, p2}
  Requests <- SameInstant
  NoRequest = NoRequest
  Threshold <- MCThreshold
  EndHour = 15
  ShortDays = {}
  LongDays = {}
  Faults = {"commit"}
INVARIANT NilMeansRecorded
