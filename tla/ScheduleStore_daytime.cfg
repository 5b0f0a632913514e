\* Three publishers over two dates, at hours of one date in Los Angeles and in UTC;
\* the result of the COUNT query may end with an error.
SPECIFICATION Spec
CONSTANTS
  Proc = {p1, p2, p3}
  Offset <- Pacific
  Instants = {36, 61}
  Schedules = {{"a", "b"}, {"c"}}
  Faults = {"read"}
SYMMETRY Symmetry
INVARIANTS
  TypeOK
  OnePublisherPerDate
  SomebodyPublishes
PROPERTY ImplementsStore
