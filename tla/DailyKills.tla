----------------------------- MODULE DailyKills -----------------------------
(***************************************************************************)
(* The checker on the calendar: Check with the threshold that noKillsSince *)
(* computes from the local time of the configured location.                *)
(***************************************************************************)
EXTENDS TerminationChecker, WorkCalendar

CONSTANT EndHour      \* end_hour of the configuration

ASSUME CheckUsesTheCalendar ==
  /\ EndHour \in 0 .. 24
  /\ \A q \in Requests : q.minDays >= 0 =>
        Threshold(q.minDays, q.killedAt) = NoKillsSince(q.minDays, q.killedAt, EndHour)

SameDay(r, q) == DayOf(r.killedAt) = DayOf(q.killedAt)

\* The group that the settings of q put the instance of r in.
GroupOf(r, q) ==
  [app |-> r.app, account |-> r.account,
   part |-> CASE q.grouping = "app"     -> Blank
              [] q.grouping = "stack"   -> r.stack
              [] q.grouping = "cluster" -> r.cluster,
   region |-> IF q.regionsAreIndependent THEN r.region ELSE Blank]

(***************************************************************************)
(* docs/Configuring-behavior-via-Spinnaker.md: a group loses at most one   *)
(* instance a day, however many processes ask, as long as the minimum is   *)
(* at least one day.  Stated on the local calendar and on the groups       *)
(* themselves, with no mention of thresholds or queries: two real          *)
(* terminations of one day are in different groups.                        *)
(***************************************************************************)
AtMostOneKillADay ==
  \A i, j \in DOMAIN rows :
    LET r == rows[i].req
        q == rows[j].req
    IN  i < j /\ q.minDays >= 1 /\ ~r.leashed /\ ~q.leashed /\ SameDay(r, q)
          => GroupOf(r, q) # GroupOf(q, q)
=============================================================================
