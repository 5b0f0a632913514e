------------------------ MODULE MCTerminationChecker ------------------------
(***************************************************************************)
(* Instances of DailyKills for TLC, on a calendar without clock changes.   *)
(***************************************************************************)
EXTENDS DailyKills, TLC

MCThreshold(days, now) == NoKillsSince(days, now, EndHour)

Symmetry == Permutations(Proc)

MondayTen    == 10
MondayNoon   == 12
TuesdayTen   == 34
NextMonday   == 178

Ask(cluster, region, at, leashed, grouping, independent, days) ==
  [app |-> "a", account |-> "prod", stack |-> "s", cluster |-> cluster,
   region |-> region, killedAt |-> at, leashed |-> leashed,
   grouping |-> grouping, regionsAreIndependent |-> independent, minDays |-> days]

\* One group asked for on two days, leashed and not, days including the illegal -1
\* and the 0 that permits a kill whenever the day's end is ahead.
OneGroup ==
  {Ask("c1", "east", at, leashed, "cluster", FALSE, days) :
     at \in {MondayTen, TuesdayTen}, leashed \in BOOLEAN, days \in {0, 2}}
  \cup {Ask("c1", "east", MondayTen, FALSE, "cluster", FALSE, -1)}

\* Two clusters of one stack in two regions, under every way of grouping them.
ManyGroups ==
  {Ask(cluster, region, MondayNoon, FALSE, grouping, independent, 1) :
     cluster \in {"c1", "c2"}, region \in {"east", "west"},
     grouping \in Grouping, independent \in BOOLEAN}

Neighbours == OneGroup \cup ManyGroups

\* Overlapping and disjoint scans, so that chains and cycles of waiting transactions
\* of every shape occur.
Rivals ==
  {Ask("c1", "east", MondayTen,  FALSE, "cluster", FALSE, 1),
   Ask("c1", "east", TuesdayTen, FALSE, "app", FALSE, 2),
   Ask("c1", "east", NextMonday, FALSE, "app", FALSE, 1)}

\* All stand in one another's way.
SameInstant ==
  {Ask("c1", "east", at, FALSE, "cluster", FALSE, 1) : at \in {MondayTen, MondayNoon}}

=============================================================================
