\* Publishing in the evening in Los Angeles, the next date in UTC.
SPECIFICATION Spec
CONSTANTS
  Proc = {p1, p2}
  Offset <- Pacific
  Instants = {25}
  Schedules = {{"a", "b"}, {"c"}}
  Faults = {}
SYMMETRY Symmetry
INVARIANTS
  OnePublisherPerDate
