\* Three calls; a server that may fail to commit or cut a result short.
SPECIFICATION FairSpec
CONSTANTS
  Proc = {p1, p2, p3}
  Requests <- Rivals
  NoRequest = NoRequest
  Threshold <- MCThreshold
  EndHour = 15
  ShortDays = {}
  LongDays = {}
  Faults = {"read", "commit"}
INVARIANT SomebodyWins
PROPERTY CheckReturns
