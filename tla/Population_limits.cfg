\* Three applications, and fewer, as many and more than the limit admits.
SPECIFICATION Spec
CONSTANTS
  Applications = {"foo", "bar", "baz"}
  Places <- SmallCloud
  Situations <- ManySituations
  Lists <- TwoLists
  Limits = {0, 1, 2, 3}
INVARIANTS
  TypeOK
  OwnersGetTheirSchedule
PROPERTIES
  DeathsHaveACause
  CommandEnds
