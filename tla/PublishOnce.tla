---------------------------- MODULE PublishOnce ----------------------------
(***************************************************************************)
(* What schedstore.SchedStore promises: publishing is one indivisible step *)
(* that either finds a schedule of the date, and refuses, or finds none,   *)
(* and adds its own, all of it.  ScheduleStore implements it, and          *)
(* DailySchedule is built upon it.                                         *)
(*                                                                         *)
(* A call is for one date, but the date it looks for and the one it stores *)
(* are computed in two ways, see ScheduleStore, so both are given here.  A *)
(* call that has lost its count is blind to what is there already.         *)
(***************************************************************************)
CONSTANTS Proc,   \* the calls of Publish, each by its own process
          Call    \* what they may ask for: the two dates, and the schedule

VARIABLES call,   \* what each call asks for
          table,  \* the entries published, each with its date
          answer, \* what each call has been told
          blind   \* the calls that have lost their count

vars == <<call, table, answer, blind>>

Init == /\ call \in [Proc -> Call]
        /\ table = {}
        /\ answer = [p \in Proc |-> "none"]
        /\ blind = {}

Retrieve(date) == {r.entry : r \in {x \in table : x.date = date}}

LoseCount(p) ==
  /\ answer[p] = "none"
  /\ blind' = blind \cup {p}
  /\ UNCHANGED <<table, answer>>

\* The answer may be lost with the process that asked, or on its way from MySQL.
Publish(p, c) ==
  /\ answer[p] = "none"
  /\ Retrieve(c.asked) = {} \/ p \in blind
  /\ table' = table \cup {[date |-> c.stored, entry |-> e] : e \in c.schedule}
  /\ answer' \in {answer} \cup {[answer EXCEPT ![p] = a] : a \in {"nil", "error"}}
  /\ UNCHANGED blind

Refuse(p, c) ==
  /\ answer[p] = "none"
  /\ Retrieve(c.asked) # {}
  /\ answer' = [answer EXCEPT ![p] = "ErrAlreadyExists"]
  /\ UNCHANGED <<table, blind>>

Fail(p) ==
  /\ answer[p] = "none"
  /\ \E a \in {"deadlock", "error"} : answer' = [answer EXCEPT ![p] = a]
  /\ UNCHANGED <<table, blind>>

Next == /\ \E p \in Proc : LoseCount(p) \/ Fail(p) \/ Publish(p, call[p]) \/ Refuse(p, call[p])
        /\ UNCHANGED call

Spec == Init /\ [][Next]_vars
=============================================================================
