--------------------------- MODULE ThresholdClock ---------------------------
(***************************************************************************)
(* A clock that runs hour by hour over a calendar while one minimum-time   *)
(* setting is in force: the threshold noKillsSince returns is looked at    *)
(* at every instant, working hours, nights and weekends included.          *)
(***************************************************************************)
EXTENDS WorkCalendar

CONSTANTS FirstHour, LastHour,   \* the stretch of time that is looked at
          MaxDays,               \* bound on the minimum-time setting
          EndHours               \* the ends of the working day tried

ASSUME ClockAssumption == FirstHour \in Int /\ MaxDays \in Nat /\ EndHours \subseteq Int

VARIABLES now, days, endHour

clockVars == <<now, days, endHour>>

ClockInit == /\ now = FirstHour
             /\ days \in 0 .. MaxDays
             /\ endHour \in EndHours

Tick == /\ now < LastHour
        /\ now' = now + 1
        /\ UNCHANGED <<days, endHour>>

\* The operator changes the setting in the properties of the application.
Reconfigure == /\ days' \in 0 .. MaxDays
               /\ UNCHANGED <<now, endHour>>

ClockNext == Tick \/ Reconfigure

ClockSpec == ClockInit /\ [][ClockNext]_clockVars

Since == NoKillsSince(days, now, endHour)

\* The working days that have begun by now, later than day d.
WorkingDaysAfter(d) == {w \in d + 1 .. DayOf(now) : IsWorkingDay(w)}

(***************************************************************************)
(* The doc comment of noKillsSince: kills are allowed again at the end of  *)
(* the working day that lies "days" working days back, weekends not        *)
(* counted, whatever the clocks did in between.                            *)
(***************************************************************************)
EndsThatManyWorkingDaysBack ==
  \E d \in DayOf(now) - 2 * MaxDays - 3 .. DayOf(now) :
     /\ IsWorkingDay(d)
     /\ Cardinality(WorkingDaysAfter(d)) = days
     /\ Since = AtHour(d, endHour)

(***************************************************************************)
(* While the setting stays the same the threshold of noKillsSince never    *)
(* moves backwards: a recorded kill that no longer forbids another one     *)
(* does not start forbidding it again later, over weekends and clock       *)
(* changes included.                                                       *)
(***************************************************************************)
ThresholdNeverRetreats == [][days' = days => Since' >= Since]_clockVars
=============================================================================
