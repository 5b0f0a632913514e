-------------------------- MODULE MCDailySchedule --------------------------
(* Instances of DailySchedule for TLC. *)
EXTENDS DailySchedule, TLC

Pacific == -8

\* Monday, when at 13 a schedule is made for 23 or 24, which is still Monday in
\* Pacific but Tuesday in UTC; Tuesday at 23; and the Monday after, up to 23.
MondayAndAWeekLater == {13, 23, 24} \cup {47} \cup {181, 191}

\* Monday, with the hour that calculateDefaultCronRunHour gives for nine o'clock.
DefaultMonday == {7, 17, 18}

Symmetry == Permutations(Host)
=============================================================================
