---------------------------- MODULE WorkCalendar ----------------------------
(***************************************************************************)
(* The working-day arithmetic of Chaos Monkey: cal.IsWorkday and           *)
(* mysql.noKillsSince, the function that turns "minimum time between kills *)
(* in work days" into the instant at or after which a recorded kill        *)
(* forbids another one.                                                    *)
(*                                                                         *)
(* An instant is a whole number of hours; instant 0 is a midnight that     *)
(* starts a Monday in the configured location.  A local day is 24 hours    *)
(* long unless the clocks change during it: the days of ShortDays last 23  *)
(* hours and those of LongDays 25.  The clocks change in the small hours,  *)
(* before the hour at which any working day ends.                          *)
(***************************************************************************)
EXTENDS Integers, FiniteSets

CONSTANTS ShortDays, LongDays

ASSUME ClockChanges == /\ ShortDays \subseteq Nat /\ IsFiniteSet(ShortDays)
                       /\ LongDays \subseteq Nat /\ IsFiniteSet(LongDays)
                       /\ ShortDays \cap LongDays = {}
                       /\ Cardinality(ShortDays) + Cardinality(LongDays) <= 8

OneDay == 24

DayStart(d) == OneDay * d + Cardinality({l \in LongDays : l < d})
                          - Cardinality({s \in ShortDays : s < d})

\* The local year-month-day of an instant.
DayOf(t) == CHOOSE d \in (t \div OneDay) - 1 .. (t \div OneDay) + 1 :
               DayStart(d) <= t /\ t < DayStart(d + 1)

\* time.Date(y, m, d, hour, 0, 0, 0, loc), for an hour after the clock change.
AtHour(d, hour) == DayStart(d + 1) - (OneDay - hour)

IsWorkingDay(d) == d % 7 \in 0 .. 4

\* A mistake: the weekday is read in UTC, eight hours ahead of the location.
WorkdayInUTC(t) == IsWorkingDay(DayOf(t + 8))

IsWorkday(t) == IsWorkingDay(DayOf(t))

\* A mistake: the recursion stops one working day early.
OneDayShort(days, now, endHour) ==
  LET helper[call \in Nat \X Int] ==
        LET n == call[1]
            t == call[2]
        IN  IF ~IsWorkday(t) THEN helper[<<n, t - OneDay>>]
            ELSE IF n <= 1   THEN AtHour(DayOf(t), endHour)
            ELSE helper[<<n - 1, t - OneDay>>]
  IN  helper[<<days, now>>]

\* The recursion subtracts 24 hours, which is not always one local day.
NoKillsSince(days, now, endHour) ==
  LET helper[call \in Nat \X Int] ==
        LET n == call[1]
            t == call[2]
        IN  IF ~IsWorkday(t) THEN helper[<<n, t - OneDay>>]
            ELSE IF n = 0    THEN AtHour(DayOf(t), endHour)
            ELSE helper[<<n - 1, t - OneDay>>]
  IN  helper[<<days, now>>]
=============================================================================
