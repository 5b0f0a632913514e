----------------------------- MODULE Terminate -----------------------------
(***************************************************************************)
(* The command "chaosmonkey terminate": term.Terminate, doTerminate and    *)
(* the Spinnaker terminator it calls, run by several processes at once, on *)
(* one host or on several deployments that share a database.               *)
(*                                                                         *)
(* A run reads one switch after the other from the configuration and from  *)
(* Spinnaker, each read being a call of its own, while operators change    *)
(* them; picks an instance; asks the Checker; tells every tracker; and     *)
(* posts the termination.  The Checker is MinTimeGuard, the atomic         *)
(* test-and-set that TerminationChecker implements, but for the commit     *)
(* error it swallows (see there): a run is then let through though nothing *)
(* was recorded.  Midnight may fall between any two of a run's calls.      *)
(***************************************************************************)
EXTENDS Integers, Sequences, FiniteSets

CONSTANTS
  Proc,         \* the runs of "chaosmonkey terminate"
  Group,        \* instance groups, as the schedule names them
  Instance,
  GroupOf,      \* the group of each instance
  Excepted,     \* the instances the exceptions of the application protect
  MinDays,      \* minimum time between kills
  Trackers,     \* the number of configured trackers
  LastDay,      \* bound on the clock
  MaxFlips      \* bound on the changes operators make

ASSUME TerminateAssumption ==
  /\ GroupOf \in [Instance -> Group]
  /\ Excepted \subseteq Instance
  /\ MinDays \in Nat /\ Trackers \in Nat /\ LastDay \in Nat /\ MaxFlips \in Nat

(***************************************************************************)
(* What must hold for a real termination: the monkey is enabled, there is  *)
(* no outage, the account is enabled, the monkey is not leashed, the       *)
(* application is enabled, and it has no whitelist.                        *)
(***************************************************************************)
Switch == {"enabled", "calm", "account", "unleashed", "app", "nowhitelist"}

VARIABLES
  today,     \* the day, for deps.Clock and for the time of a kill
  on,        \* the switches in the position that permits terminations
  inTest,    \* deps.Env.InTest, fixed for the deployment
  flips,     \* how often operators have changed a switch
  live,      \* the running instances
  pc,        \* the call each run makes next, or how it ended
  target,    \* the group on its command line
  leashed,   \* what it read from MonkeyConfig.Leashed
  trm,       \* the chaosmonkey.Termination it has made
  tracked,   \* how many trackers it has told
  record,    \* the terminations table
  answer,    \* what the Checker told it; "unrecorded" is "permitted", wrongly
  kills,     \* the terminations Spinnaker has carried out
  seen       \* history: the switches that were on at some time during the run

switches == <<on, inTest, flips>>
vars == <<today, on, inTest, flips, live, pc, target, leashed, trm, tracked,
          record, answer, kills, seen>>

NoTermination == [instance |-> "none", group |-> "none", day |-> 0, leashed |-> TRUE]

Termination == [instance: Instance, group: Group, day: 0 .. LastDay, leashed: BOOLEAN]

Ended == {"done", "failed", "crashed"}

\* The order of the calls.
Calls == {"enabled", "calm", "account", "leash", "app", "pick", "check", "track", "execute"}

Running(p) == pc[p] \in Calls

TypeOK ==
  /\ today \in 0 .. LastDay
  /\ on \subseteq Switch
  /\ inTest \in BOOLEAN
  /\ flips \in 0 .. MaxFlips
  /\ live \subseteq Instance
  /\ pc \in [Proc -> {"idle"} \cup Calls \cup Ended]
  /\ target \in [Proc -> Group \cup {"none"}]
  /\ leashed \in [Proc -> BOOLEAN]
  /\ trm \in [Proc -> Termination \cup {NoTermination}]
  /\ tracked \in [Proc -> 0 .. Trackers]
  /\ record \in Seq([by: Proc, req: Termination])
  /\ answer \in [Proc -> {"none", "permitted", "unrecorded", "refused", "failed"}]
  /\ kills \subseteq [by: Proc, instance: Instance, day: 0 .. LastDay]
  /\ seen \in [Proc -> SUBSET Switch]

Init ==
  /\ today = 0
  /\ on \in {Switch} \cup {Switch \ {s} : s \in Switch}
  /\ inTest \in BOOLEAN
  /\ flips = 0
  /\ live = Instance
  /\ pc = [p \in Proc |-> "idle"]
  /\ target = [p \in Proc |-> "none"]
  /\ leashed = [p \in Proc |-> TRUE]
  /\ trm = [p \in Proc |-> NoTermination]
  /\ tracked = [p \in Proc |-> 0]
  /\ record = << >>
  /\ answer = [p \in Proc |-> "none"]
  /\ kills = {}
  /\ seen = [p \in Proc |-> {}]

---------------------------------------------------------------------------
(* The Checker. *)

\* A mistake: the minimum time ends a day too early.
ForbidsADayLess(r, q) ==
  /\ r.group = q.group
  /\ r.day > q.day - MinDays + 1
  /\ q.leashed \/ ~r.leashed

Forbids(r, q) ==
  /\ r.group = q.group
  /\ r.day > q.day - MinDays
  /\ q.leashed \/ ~r.leashed

Checker == INSTANCE MinTimeGuard WITH Request <- Termination

\* What the runs should have been told.
Due == [p \in Proc |-> IF answer[p] = "unrecorded" THEN "failed" ELSE answer[p]]

\* The Checker as the table knows it.
Ledger == INSTANCE MinTimeGuard WITH Request <- Termination, answer <- Due

---------------------------------------------------------------------------
(* The surroundings of a run. *)

Flip(s) ==
  /\ flips < MaxFlips
  /\ flips' = flips + 1
  /\ on' = IF s \in on THEN on \ {s} ELSE on \cup {s}
  /\ seen' = [p \in Proc |-> IF Running(p) THEN seen[p] \cup on' ELSE seen[p]]
  /\ UNCHANGED <<today, inTest, live, pc, target, leashed, trm, tracked, record, answer, kills>>

\* Midnight may come while a run waits for a reply.  By the morning any of the
\* instances may be gone, or back.
NextDay ==
  /\ today < LastDay
  /\ today' = today + 1
  /\ live' \in SUBSET Instance
  /\ UNCHANGED <<on, inTest, flips, pc, target, leashed, trm, tracked, record, answer, kills, seen>>

\* cron or an operator starts a run for a group.
Start(p, g) ==
  /\ pc[p] = "idle"
  /\ pc' = [pc EXCEPT ![p] = "enabled"]
  /\ target' = [target EXCEPT ![p] = g]
  /\ seen' = [seen EXCEPT ![p] = on]
  /\ UNCHANGED <<today, on, inTest, flips, live, leashed, trm, tracked, record, answer, kills>>

---------------------------------------------------------------------------
(* The calls of a run. *)

Goto(p, where) ==
  /\ pc' = [pc EXCEPT ![p] = where]
  /\ UNCHANGED <<today, on, inTest, flips, live, target, seen>>

Ask(p, switch, next) ==
  /\ pc[p] = switch
  /\ Goto(p, IF switch \in on THEN next ELSE "done")
  /\ UNCHANGED <<leashed, trm, tracked, record, answer, kills>>

ReadEnabled(p) == Ask(p, "enabled", "calm")

\* A mistake: the answer of the outage checker is the wrong way round.
CheckOutageInverted(p) ==
  /\ pc[p] = "calm"
  /\ Goto(p, IF "calm" \in on THEN "done" ELSE "account")
  /\ UNCHANGED <<leashed, trm, tracked, record, answer, kills>>

CheckOutage(p) == Ask(p, "calm", "account")

ReadAccountEnabled(p) == Ask(p, "account", "leash")

\* A mistake: the test environment is not looked at.
ReadLeashedEverywhere(p) ==
  /\ pc[p] = "leash"
  /\ leashed' = [leashed EXCEPT ![p] = "unleashed" \notin on]
  /\ Goto(p, "app")
  /\ UNCHANGED <<trm, tracked, record, answer, kills>>

\* Unleashed in the test environment is an error.
ReadLeashed(p) ==
  /\ pc[p] = "leash"
  /\ leashed' = [leashed EXCEPT ![p] = "unleashed" \notin on]
  /\ Goto(p, IF inTest /\ "unleashed" \in on THEN "failed" ELSE "app")
  /\ UNCHANGED <<trm, tracked, record, answer, kills>>

GetAppConfig(p) ==
  /\ pc[p] = "app"
  /\ Goto(p, IF {"app", "nowhitelist"} \subseteq on THEN "pick" ELSE "done")
  /\ UNCHANGED <<leashed, trm, tracked, record, answer, kills>>

Eligible(g) == {i \in live \ Excepted : GroupOf[i] = g}

\* The termination carries the leash and the time read here.
PickInstance(p) ==
  /\ pc[p] = "pick"
  /\ \E i \in Eligible(target[p]) :
       trm' = [trm EXCEPT ![p] = [instance |-> i, group |-> target[p],
                                  day |-> today, leashed |-> leashed[p]]]
  /\ Goto(p, "check")
  /\ UNCHANGED <<leashed, tracked, record, answer, kills>>

NothingEligible(p) ==
  /\ pc[p] = "pick"
  /\ Eligible(target[p]) = {}
  /\ Goto(p, "done")
  /\ UNCHANGED <<leashed, trm, tracked, record, answer, kills>>

\* A mistake: the termination goes to the Checker as a leashed one.
PermittedAsLeashed(p) ==
  /\ pc[p] = "check"
  /\ Checker!Permit(p, [trm[p] EXCEPT !.leashed = TRUE])
  /\ answer'[p] = "permitted"
  /\ Goto(p, "track")
  /\ UNCHANGED <<leashed, trm, tracked, kills>>

Permitted(p) ==
  /\ pc[p] = "check"
  /\ Checker!Permit(p, trm[p])
  /\ answer'[p] = "permitted"
  /\ Goto(p, "track")
  /\ UNCHANGED <<leashed, trm, tracked, kills>>

Refused(p) ==
  /\ pc[p] = "check"
  /\ Checker!Refuse(p, trm[p]) \/ Checker!Fail(p)
  /\ Goto(p, "failed")
  /\ UNCHANGED <<leashed, trm, tracked, kills>>

\* COMMIT fails, and the run is permitted though nothing was recorded.
PermittedUnrecorded(p) ==
  /\ pc[p] = "check"
  /\ answer' = [answer EXCEPT ![p] = "unrecorded"]
  /\ Goto(p, "track")
  /\ UNCHANGED <<leashed, trm, tracked, record, kills>>

\* A mistake: one tracker is enough.
TellFirst(p) ==
  /\ pc[p] = "track"
  /\ tracked[p] < Trackers
  /\ tracked' = [tracked EXCEPT ![p] = @ + 1]
  /\ Goto(p, "execute")
  /\ UNCHANGED <<leashed, trm, record, answer, kills>>

\* A mistake: one tracker too many is told.
TellOneMore(p) ==
  /\ pc[p] = "track"
  /\ tracked[p] <= Trackers
  /\ tracked' = [tracked EXCEPT ![p] = @ + 1]
  /\ Goto(p, "track")
  /\ UNCHANGED <<leashed, trm, record, answer, kills>>

Track(p) ==
  /\ pc[p] = "track"
  /\ tracked[p] < Trackers
  /\ tracked' = [tracked EXCEPT ![p] = @ + 1]
  /\ Goto(p, "track")
  /\ UNCHANGED <<leashed, trm, record, answer, kills>>

TrackingDone(p) ==
  /\ pc[p] = "track"
  /\ tracked[p] = Trackers
  /\ Goto(p, "execute")
  /\ UNCHANGED <<leashed, trm, tracked, record, answer, kills>>

\* leashedKiller logs and kills nothing.
ExecuteLeashed(p) ==
  /\ pc[p] = "execute"
  /\ leashed[p]
  /\ Goto(p, "done")
  /\ UNCHANGED <<leashed, trm, tracked, record, answer, kills>>

\* A mistake: the leash is read again when the killer is called.
ExecuteByCurrentLeash(p) ==
  /\ pc[p] = "execute"
  /\ "unleashed" \in on
  /\ kills' = kills \cup {[by |-> p, instance |-> trm[p].instance, day |-> today]}
  /\ live' = live \ {trm[p].instance}
  /\ pc' = [pc EXCEPT ![p] = "done"]
  /\ UNCHANGED <<today, on, inTest, flips, target, seen, leashed, trm, tracked, record, answer>>

\* Spinnaker carries the termination out; the reply may be an error or be lost.
Execute(p) ==
  /\ pc[p] = "execute"
  /\ ~leashed[p]
  /\ kills' = kills \cup {[by |-> p, instance |-> trm[p].instance, day |-> today]}
  /\ live' = live \ {trm[p].instance}
  /\ \E end \in {"done", "failed"} : pc' = [pc EXCEPT ![p] = end]
  /\ UNCHANGED <<today, on, inTest, flips, target, seen, leashed, trm, tracked, record, answer>>

\* Any call may return an error, which ends the run; a refused POST is one.
\* An error of the deployment is no error of the run: nothing is eligible.
CallFails(p) ==
  /\ Running(p) /\ pc[p] # "check"
  /\ pc[p] = "track" => tracked[p] < Trackers
  /\ pc[p] = "execute" => ~leashed[p]
  /\ Goto(p, "failed") \/ (pc[p] = "pick" /\ Goto(p, "done"))
  /\ UNCHANGED <<leashed, trm, tracked, record, answer, kills>>

\* The process is killed; its termination may have been recorded by then.
Crash(p) ==
  /\ Running(p)
  /\ Goto(p, "crashed")
  /\ UNCHANGED <<leashed, trm, tracked, record, answer, kills>>

CrashInCheck(p) ==
  /\ pc[p] = "check"
  /\ Checker!Permit(p, trm[p])
  /\ answer' = answer
  /\ Goto(p, "crashed")
  /\ UNCHANGED <<leashed, trm, tracked, kills>>

Advance(p) ==
  \/ ReadEnabled(p) \/ CheckOutage(p) \/ ReadAccountEnabled(p) \/ ReadLeashed(p)
  \/ GetAppConfig(p) \/ PickInstance(p) \/ NothingEligible(p)
  \/ Permitted(p) \/ Refused(p)
  \/ Track(p) \/ TrackingDone(p) \/ ExecuteLeashed(p) \/ Execute(p)

Trouble(p) == PermittedUnrecorded(p) \/ CallFails(p) \/ Crash(p) \/ CrashInCheck(p)

Finished == (\A p \in Proc : pc[p] \in Ended) /\ UNCHANGED vars

Next ==
  \/ \E s \in Switch : Flip(s)
  \/ NextDay
  \/ \E p \in Proc : (\E g \in Group : Start(p, g)) \/ Advance(p) \/ Trouble(p)
  \/ Finished

Spec == Init /\ [][Next]_vars

---------------------------------------------------------------------------
(***************************************************************************)
(* Every real kill was recorded first, by the run that made it, as an      *)
(* unleashed termination of that very instance, unless the commit error    *)
(* hit that very run: what the next check reads is at least what has been  *)
(* killed, however late, and whether or not Spinnaker's reply arrived.     *)
(***************************************************************************)
KillsAreRecorded ==
  \A k \in kills :
     answer[k.by] # "unrecorded" =>
        \E i \in DOMAIN record : /\ record[i].by = k.by
                                 /\ record[i].req.instance = k.instance
                                 /\ ~record[i].req.leashed

(***************************************************************************)
(* A run kills only if each switch permitted it at some time while it ran: *)
(* to turn any one of them off, and leave it off, keeps every run that     *)
(* starts afterwards from killing.                                         *)
(***************************************************************************)
KillsNeedEverySwitch == \A k \in kills : seen[k.by] = Switch

(***************************************************************************)
(* A termination recorded as leashed is never carried out, even when the   *)
(* leash is taken off while the run is under way; nor is any in the test   *)
(* environment, which by the comment in doTerminate cannot do harm.        *)
(***************************************************************************)
DryRunsStayDry ==
  \A k \in kills :
     /\ ~inTest
     /\ \A i \in DOMAIN record : record[i].by = k.by => ~record[i].req.leashed

(***************************************************************************)
(* No instance is killed before every configured tracker has been told.    *)
(***************************************************************************)
KillsAreTracked == \A k \in kills : tracked[k.by] = Trackers

(***************************************************************************)
(* docs/Configuring-behavior-via-Spinnaker.md: a group loses an instance   *)
(* at most once in the minimum time, once a day when that is a day, as     *)
(* long as the deployments share a database.  Judged by the day on which   *)
(* Spinnaker killed.  A kill that came on a later day than the one in its  *)
(* record, or had no record, keeps no distance; whatever other runs do,    *)
(* the rest of the kills keep theirs.                                      *)
(***************************************************************************)
OnRecord(k) == answer[k.by] = "permitted" /\ k.day = trm[k.by].day

KillsKeepApart ==
  \A k, l \in {m \in kills : OnRecord(m)} :
     k # l /\ GroupOf[k.instance] = GroupOf[l.instance] /\ k.day <= l.day
       => l.day - k.day >= MinDays
=============================================================================
