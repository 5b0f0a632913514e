-------------------------- MODULE TerminateProofs --------------------------
(***************************************************************************)
(* Proofs about Terminate, for any number of runs, instances and trackers, *)
(* any minimum time and any number of switches flipped: its types; that    *)
(* every kill was permitted by each switch, was tracked and was not meant  *)
(* to be dry; that kills are recorded; that kills on record come no closer *)
(* together than the minimum time.  The last of these is shown with the    *)
(* abstract Checker: the runs keep to MinTimeGuard, and MinTimeGuard keeps *)
(* what it records apart.                                                  *)
(***************************************************************************)
EXTENDS Terminate, TLAPS

(***************************************************************************)
(* A record that a run adds keeps the table a sequence.                    *)
(***************************************************************************)
LEMMA AppendedRecord ==
  ASSUME NEW s \in Seq([by: Proc, req: Termination]), NEW p \in Proc, NEW q \in Termination
  PROVE  /\ Append(s, [by |-> p, req |-> q]) \in Seq([by: Proc, req: Termination])
         /\ DOMAIN Append(s, [by |-> p, req |-> q]) = 1 .. Len(s) + 1
         /\ \A i \in DOMAIN s : Append(s, [by |-> p, req |-> q])[i] = s[i]
         /\ Append(s, [by |-> p, req |-> q])[Len(s) + 1] = [by |-> p, req |-> q]
         /\ DOMAIN s = 1 .. Len(s) /\ Len(s) \in Nat
<1> DEFINE e == [by |-> p, req |-> q]
           E == [by: Proc, req: Termination]
<1>1. e \in E
  OBVIOUS
<1> HIDE DEF e, E
<1> SUFFICES /\ Append(s, e) \in Seq(E)
             /\ DOMAIN Append(s, e) = 1 .. Len(s) + 1
             /\ \A i \in DOMAIN s : Append(s, e)[i] = s[i]
             /\ Append(s, e)[Len(s) + 1] = e
             /\ DOMAIN s = 1 .. Len(s) /\ Len(s) \in Nat
  BY DEF e, E
<1>2. s \in Seq(E)
  BY DEF E
<1> QED
  BY <1>1, <1>2

(***************************************************************************)
(* The switches a run has found on before it makes a call, the leash       *)
(* apart.                                                                  *)
(***************************************************************************)
Passed(where) ==
  CASE where = "enabled" -> {}
    [] where = "calm" -> {"enabled"}
    [] where = "account" -> {"enabled", "calm"}
    [] where \in {"leash", "app"} -> {"enabled", "calm", "account"}
    [] OTHER -> Switch \ {"unleashed"}

Committed == {"check", "track", "execute"}

(***************************************************************************)
(* The termination of a run: of an instance of its group, with the leash   *)
(* the run has read.                                                       *)
(***************************************************************************)
Picked(p) ==
  /\ trm[p] \in Termination
  /\ trm[p].leashed = leashed[p]
  /\ trm[p].group = GroupOf[trm[p].instance]

(***************************************************************************)
(* A step of a run that does nothing but go on to its next call, or end.   *)
(***************************************************************************)
GoesOn(p, where) ==
  /\ Goto(p, where)
  /\ Running(p)
  /\ where \in Calls \cup Ended
  /\ where \in Calls => Passed(where) \subseteq Passed(pc[p]) \cup on
  /\ pc[p] \in Committed => where \in {"execute"} \cup Ended
  /\ where \in Committed => pc[p] \in Committed \ {"check"}
  /\ where \in Committed => where = "execute" /\ tracked[p] = Trackers
  /\ UNCHANGED <<leashed, trm, tracked, record, answer, kills>>

LEMMA PlainSteps ==
  ASSUME NEW p \in Proc,
         \/ ReadEnabled(p) \/ CheckOutage(p) \/ ReadAccountEnabled(p) \/ GetAppConfig(p)
         \/ NothingEligible(p) \/ TrackingDone(p) \/ ExecuteLeashed(p)
         \/ CallFails(p) \/ Crash(p)
  PROVE  \E where \in Calls \cup Ended : GoesOn(p, where)
<1> USE DEF GoesOn, Goto, Calls, Ended, Running, Passed, Switch, Committed
<1>1. CASE ReadEnabled(p)
  <2>1. GoesOn(p, IF "enabled" \in on THEN "calm" ELSE "done")
    BY <1>1 DEF ReadEnabled, Ask
  <2> QED
    BY <2>1
<1>2. CASE CheckOutage(p)
  <2>1. GoesOn(p, IF "calm" \in on THEN "account" ELSE "done")
    BY <1>2 DEF CheckOutage, Ask
  <2> QED
    BY <2>1
<1>3. CASE ReadAccountEnabled(p)
  <2>1. GoesOn(p, IF "account" \in on THEN "leash" ELSE "done")
    BY <1>3 DEF ReadAccountEnabled, Ask
  <2> QED
    BY <2>1
<1>4. CASE GetAppConfig(p)
  <2>1. GoesOn(p, IF {"app", "nowhitelist"} \subseteq on THEN "pick" ELSE "done")
    BY <1>4 DEF GetAppConfig
  <2> QED
    BY <2>1
<1>5. CASE NothingEligible(p)
  <2>1. GoesOn(p, "done")
    BY <1>5 DEF NothingEligible
  <2> QED
    BY <2>1
<1>6. CASE TrackingDone(p)
  <2>1. GoesOn(p, "execute")
    BY <1>6 DEF TrackingDone
  <2> QED
    BY <2>1
<1>7. CASE ExecuteLeashed(p)
  <2>1. GoesOn(p, "done")
    BY <1>7 DEF ExecuteLeashed
  <2> QED
    BY <2>1
<1>8. CASE CallFails(p)
  <2>1. GoesOn(p, "failed") \/ GoesOn(p, "done")
    BY <1>8 DEF CallFails
  <2> QED
    BY <2>1
<1>9. CASE Crash(p)
  <2>1. GoesOn(p, "crashed")
    BY <1>9 DEF Crash
  <2> QED
    BY <2>1
<1> QED
  BY <1>1, <1>2, <1>3, <1>4, <1>5, <1>6, <1>7, <1>8, <1>9

(***************************************************************************)
(* A step in which a run records its termination.                          *)
(***************************************************************************)
Records(p, where) ==
  /\ Goto(p, where)
  /\ where \in {"track", "crashed"}
  /\ pc[p] = "check" /\ answer[p] = "none"
  /\ ~ \E i \in DOMAIN record : Forbids(record[i].req, trm[p])
  /\ record' = Append(record, [by |-> p, req |-> trm[p]])
  /\ answer' = IF where = "track" THEN [answer EXCEPT ![p] = "permitted"] ELSE answer
  /\ UNCHANGED <<leashed, trm, tracked, kills>>

LEMMA RecordingSteps ==
  ASSUME NEW p \in Proc, Permitted(p) \/ CrashInCheck(p)
  PROVE  \E where \in {"track", "crashed"} : Records(p, where)
<1>1. CASE Permitted(p)
  <2>1. Records(p, "track")
    BY <1>1 DEF Permitted, Records, Checker!Permit, Checker!InTheWay
  <2> QED
    BY <2>1
<1>2. CASE CrashInCheck(p)
  <2>1. Records(p, "crashed")
    BY <1>2 DEF CrashInCheck, Records, Checker!Permit, Checker!InTheWay
  <2> QED
    BY <2>1
<1> QED
  BY <1>1, <1>2

---------------------------------------------------------------------------
(***************************************************************************)
(* A run that is under way has a group, and one that has picked an         *)
(* instance has its termination.                                           *)
(***************************************************************************)
RunsAreUnderWay ==
  \A p \in Proc : /\ Running(p) => target[p] \in Group
                  /\ pc[p] \in Committed => Picked(p)

(***************************************************************************)
(* A run has seen the switches it was let pass by, and, unless it is       *)
(* leashed, the leash off, outside the test environment.                   *)
(***************************************************************************)
SwitchesWereOn ==
  \A p \in Proc :
     /\ pc[p] = "idle" => leashed[p]
     /\ Running(p) => /\ on \cup Passed(pc[p]) \subseteq seen[p]
                      /\ ~leashed[p] => "unleashed" \in seen[p] /\ ~inTest
     /\ pc[p] = "execute" => tracked[p] = Trackers

(***************************************************************************)
(* What is in the table is the termination of a run past its check.        *)
(***************************************************************************)
RecordsAreOfRuns ==
  \A i \in DOMAIN record :
     /\ Picked(record[i].by)
     /\ record[i].req = trm[record[i].by]
     /\ pc[record[i].by] \in {"track", "execute"} \cup Ended

(***************************************************************************)
(* What has been killed was picked by a run that has ended, unleashed,     *)
(* with all switches seen on and all trackers told.                        *)
(***************************************************************************)
KillsAreOfRuns ==
  \A k \in kills :
     /\ Picked(k.by) /\ ~leashed[k.by]
     /\ k.instance = trm[k.by].instance
     /\ pc[k.by] \in Ended
     /\ seen[k.by] = Switch /\ ~inTest
     /\ tracked[k.by] = Trackers

IInv == TypeOK /\ RunsAreUnderWay /\ SwitchesWereOn /\ RecordsAreOfRuns /\ KillsAreOfRuns

LEMMA RecordTypes ==
  ASSUME TypeOK
  PROVE  /\ DOMAIN record = 1 .. Len(record) /\ Len(record) \in Nat
         /\ \A i \in DOMAIN record : record[i].by \in Proc /\ record[i].req \in Termination
<1> DEFINE E == [by: Proc, req: Termination]
<1>1. record \in Seq(E)
  BY DEF TypeOK
<1> HIDE DEF E
<1>2. /\ DOMAIN record = 1 .. Len(record) /\ Len(record) \in Nat
      /\ \A i \in DOMAIN record : record[i] \in E
  BY <1>1
<1> QED
  BY <1>2 DEF E

LEMMA GoingOn ==
  ASSUME IInv, NEW p \in Proc, NEW where \in Calls \cup Ended, GoesOn(p, where)
  PROVE  IInv'
<1> USE DEF GoesOn, Goto, IInv, Calls, Ended, Running, Committed
<1>1. TypeOK'
  BY DEF TypeOK
<1>2. RunsAreUnderWay'
  BY DEF RunsAreUnderWay, TypeOK, Picked
<1>3. SwitchesWereOn'
  BY DEF SwitchesWereOn, TypeOK
<1>4. RecordsAreOfRuns'
  BY RecordTypes DEF RecordsAreOfRuns, TypeOK, Picked
<1>5. KillsAreOfRuns'
  BY DEF KillsAreOfRuns, TypeOK, Picked
<1> QED
  BY <1>1, <1>2, <1>3, <1>4, <1>5

LEMMA Flipping ==
  ASSUME IInv, NEW s \in Switch, Flip(s)
  PROVE  IInv'
<1> USE DEF Flip, IInv, Calls, Ended, Running, Committed
<1>1. TypeOK'
  BY TerminateAssumption DEF TypeOK
<1>2. RunsAreUnderWay'
  BY DEF RunsAreUnderWay, TypeOK, Picked
<1>3. SwitchesWereOn'
  BY DEF SwitchesWereOn, TypeOK
<1>4. RecordsAreOfRuns'
  BY RecordTypes DEF RecordsAreOfRuns, TypeOK, Picked
<1>5. KillsAreOfRuns'
  BY DEF KillsAreOfRuns, TypeOK, Picked
<1> QED
  BY <1>1, <1>2, <1>3, <1>4, <1>5

LEMMA DayPassing ==
  ASSUME IInv, NextDay
  PROVE  IInv'
<1> USE DEF NextDay, IInv, Calls, Ended, Running, Committed
<1>1. TypeOK'
  BY TerminateAssumption DEF TypeOK
<1>2. RunsAreUnderWay'
  BY DEF RunsAreUnderWay, TypeOK, Picked
<1>3. SwitchesWereOn'
  BY DEF SwitchesWereOn, TypeOK
<1>4. RecordsAreOfRuns'
  BY RecordTypes DEF RecordsAreOfRuns, TypeOK, Picked
<1>5. KillsAreOfRuns'
  BY DEF KillsAreOfRuns, TypeOK, Picked
<1> QED
  BY <1>1, <1>2, <1>3, <1>4, <1>5

LEMMA Starting ==
  ASSUME IInv, NEW p \in Proc, NEW g \in Group, Start(p, g)
  PROVE  IInv'
<1> USE DEF Start, Passed, IInv, Calls, Ended, Running, Committed
<1>1. TypeOK'
  BY DEF TypeOK
<1>2. RunsAreUnderWay'
  BY DEF RunsAreUnderWay, TypeOK, Picked
<1>3. SwitchesWereOn'
  BY DEF SwitchesWereOn, TypeOK
<1>4. RecordsAreOfRuns'
  BY RecordTypes DEF RecordsAreOfRuns, TypeOK, Picked
<1>5. KillsAreOfRuns'
  BY DEF KillsAreOfRuns, TypeOK, Picked
<1> QED
  BY <1>1, <1>2, <1>3, <1>4, <1>5

LEMMA LeashReading ==
  ASSUME IInv, NEW p \in Proc, ReadLeashed(p)
  PROVE  IInv'
<1> USE DEF ReadLeashed, Goto, Passed, IInv, Calls, Ended, Running, Committed
<1>1. TypeOK'
  BY DEF TypeOK
<1>2. RunsAreUnderWay'
  BY DEF RunsAreUnderWay, TypeOK, Picked
<1>3. SwitchesWereOn'
  BY DEF SwitchesWereOn, TypeOK
<1>4. RecordsAreOfRuns'
  BY RecordTypes DEF RecordsAreOfRuns, TypeOK, Picked
<1>5. KillsAreOfRuns'
  BY DEF KillsAreOfRuns, TypeOK, Picked
<1> QED
  BY <1>1, <1>2, <1>3, <1>4, <1>5

LEMMA Picking ==
  ASSUME IInv, NEW p \in Proc, PickInstance(p)
  PROVE  IInv'
<1> USE DEF PickInstance, Goto, Passed, Eligible, Termination, IInv, Calls, Ended, Running, Committed
<1>0. PICK i \in Eligible(target[p]) :
        trm' = [trm EXCEPT ![p] = [instance |-> i, group |-> target[p],
                                   day |-> today, leashed |-> leashed[p]]]
  BY DEF PickInstance
<1>1. TypeOK'
  <2>1. [instance |-> i, group |-> target[p], day |-> today, leashed |-> leashed[p]] \in Termination
    BY DEF TypeOK, RunsAreUnderWay
  <2>2. trm' \in [Proc -> Termination \cup {NoTermination}]
    <3> HIDE DEF Termination
    <3> QED
      BY <1>0, <2>1 DEF TypeOK
  <2> QED
    BY <2>2 DEF TypeOK
<1>2. RunsAreUnderWay'
  BY DEF RunsAreUnderWay, TypeOK, Picked
<1>3. SwitchesWereOn'
  BY DEF SwitchesWereOn, TypeOK
<1>4. RecordsAreOfRuns'
  BY RecordTypes DEF RecordsAreOfRuns, TypeOK, Picked
<1>5. KillsAreOfRuns'
  BY DEF KillsAreOfRuns, TypeOK, Picked
<1> QED
  BY <1>1, <1>2, <1>3, <1>4, <1>5

LEMMA Recording ==
  ASSUME IInv, NEW p \in Proc, NEW where \in {"track", "crashed"}, Records(p, where)
  PROVE  IInv'
<1> USE DEF Records, Goto, Passed, IInv, Calls, Ended, Running, Committed
<1>0. /\ trm[p] \in Termination
      /\ record' \in Seq([by: Proc, req: Termination])
      /\ DOMAIN record' = DOMAIN record \cup {Len(record) + 1}
      /\ \A i \in DOMAIN record : record'[i] = record[i]
      /\ record'[Len(record) + 1] = [by |-> p, req |-> trm[p]]
  <2>1. trm[p] \in Termination /\ record \in Seq([by: Proc, req: Termination])
    BY DEF TypeOK, RunsAreUnderWay, Picked
  <2> QED
    BY <2>1, AppendedRecord
<1>1. TypeOK'
  BY <1>0 DEF TypeOK
<1>2. RunsAreUnderWay'
  BY DEF RunsAreUnderWay, TypeOK, Picked
<1>3. SwitchesWereOn'
  BY DEF SwitchesWereOn, TypeOK
<1>4. RecordsAreOfRuns'
  <2> SUFFICES ASSUME NEW i \in DOMAIN record'
               PROVE  (/\ Picked(record[i].by)
                       /\ record[i].req = trm[record[i].by]
                       /\ pc[record[i].by] \in {"track", "execute"} \cup Ended)'
    BY DEF RecordsAreOfRuns
  <2>1. UNCHANGED <<leashed, trm>> /\ pc' = [pc EXCEPT ![p] = where]
    OBVIOUS
  <2>2. CASE i \in DOMAIN record
    <3>1. record'[i] = record[i] /\ record[i].by \in Proc
      BY <1>0, <2>2, RecordTypes
    <3> QED
      BY <2>1, <2>2, <3>1 DEF RecordsAreOfRuns, TypeOK, Picked
  <2>3. CASE i = Len(record) + 1
    <3>1. record'[i] = [by |-> p, req |-> trm[p]]
      BY <1>0, <2>3
    <3> QED
      BY <2>1, <3>1 DEF RunsAreUnderWay, TypeOK, Picked
  <2> QED
    BY <1>0, <2>2, <2>3
<1>5. KillsAreOfRuns'
  BY DEF KillsAreOfRuns, TypeOK, Picked
<1> QED
  BY <1>1, <1>2, <1>3, <1>4, <1>5

LEMMA AnswersWithoutRecord ==
  ASSUME IInv, NEW p \in Proc, Refused(p) \/ PermittedUnrecorded(p)
  PROVE  IInv'
<1>1. \E where \in {"track", "failed"}, a \in {"unrecorded", "refused", "failed"} :
         /\ pc[p] = "check"
         /\ Goto(p, where)
         /\ answer' = [answer EXCEPT ![p] = a]
         /\ UNCHANGED <<leashed, trm, tracked, record, kills>>
  <2>1. CASE Refused(p)
    BY <2>1 DEF Refused, Checker!Refuse, Checker!Fail, Goto
  <2>2. CASE PermittedUnrecorded(p)
    BY <2>2 DEF PermittedUnrecorded, Goto
  <2> QED
    BY <2>1, <2>2
<1>2. PICK where \in {"track", "failed"}, a \in {"unrecorded", "refused", "failed"} :
         /\ pc[p] = "check"
         /\ Goto(p, where)
         /\ answer' = [answer EXCEPT ![p] = a]
         /\ UNCHANGED <<leashed, trm, tracked, record, kills>>
  BY <1>1
<1> USE <1>2 DEF Goto, Passed, IInv, Calls, Ended, Running, Committed
<1>3. TypeOK'
  BY DEF TypeOK
<1>4. RunsAreUnderWay'
  BY DEF RunsAreUnderWay, TypeOK, Picked
<1>5. SwitchesWereOn'
  BY DEF SwitchesWereOn, TypeOK
<1>6. RecordsAreOfRuns'
  BY RecordTypes DEF RecordsAreOfRuns, TypeOK, Picked
<1>7. KillsAreOfRuns'
  BY DEF KillsAreOfRuns, TypeOK, Picked
<1> QED
  BY <1>3, <1>4, <1>5, <1>6, <1>7

LEMMA Tracking ==
  ASSUME IInv, NEW p \in Proc, Track(p)
  PROVE  IInv'
<1> USE DEF Track, Goto, IInv, Calls, Ended, Running, Committed
<1>1. TypeOK'
  BY TerminateAssumption DEF TypeOK
<1>2. RunsAreUnderWay'
  BY DEF RunsAreUnderWay, TypeOK, Picked
<1>3. SwitchesWereOn'
  BY DEF SwitchesWereOn, TypeOK
<1>4. RecordsAreOfRuns'
  BY RecordTypes DEF RecordsAreOfRuns, TypeOK, Picked
<1>5. KillsAreOfRuns'
  BY DEF KillsAreOfRuns, TypeOK, Picked
<1> QED
  BY <1>1, <1>2, <1>3, <1>4, <1>5

LEMMA Killing ==
  ASSUME IInv, NEW p \in Proc, Execute(p)
  PROVE  IInv'
<1> DEFINE kill == [by |-> p, instance |-> trm[p].instance, day |-> today]
<1> USE DEF IInv, Calls, Ended, Running, Committed
<1>1. PICK end \in {"done", "failed"} :
        /\ pc[p] = "execute" /\ ~leashed[p]
        /\ pc' = [pc EXCEPT ![p] = end]
        /\ kills' = kills \cup {kill}
        /\ live' = live \ {trm[p].instance}
        /\ UNCHANGED <<today, on, inTest, flips, target, seen, leashed, trm, tracked, record, answer>>
  BY DEF Execute
<1>2. /\ Picked(p) /\ tracked[p] = Trackers /\ ~inTest
      /\ Switch \ {"unleashed"} \subseteq seen[p] /\ "unleashed" \in seen[p]
      /\ seen[p] \subseteq Switch
  BY <1>1 DEF RunsAreUnderWay, SwitchesWereOn, TypeOK, Passed
<1>3. kill \in [by: Proc, instance: Instance, day: 0 .. LastDay]
  BY <1>2 DEF Picked, TypeOK, Termination
<1>4. TypeOK'
  BY <1>1, <1>3 DEF TypeOK
<1>5. RunsAreUnderWay'
  BY <1>1 DEF RunsAreUnderWay, TypeOK, Picked
<1>6. SwitchesWereOn'
  BY <1>1 DEF SwitchesWereOn, TypeOK
<1>7. RecordsAreOfRuns'
  BY <1>1, RecordTypes DEF RecordsAreOfRuns, TypeOK, Picked
<1>8. KillsAreOfRuns'
  <2> SUFFICES ASSUME NEW k \in kills'
               PROVE  /\ Picked(k.by)' /\ ~leashed'[k.by]
                      /\ k.instance = trm'[k.by].instance
                      /\ pc'[k.by] \in Ended
                      /\ seen'[k.by] = Switch /\ ~inTest'
                      /\ tracked'[k.by] = Trackers
    BY DEF KillsAreOfRuns
  <2>1. CASE k \in kills
    BY <1>1, <2>1 DEF KillsAreOfRuns, TypeOK, Picked
  <2>2. CASE k = kill
    <3>1. k.by = p /\ k.instance = trm[p].instance
      BY <2>2
    <3>2. pc'[p] = end
      BY <1>1 DEF TypeOK
    <3>3. seen[p] = Switch
      BY <1>2
    <3> QED
      BY <1>1, <1>2, <3>1, <3>2, <3>3 DEF Picked
  <2> QED
    BY <1>1, <2>1, <2>2
<1> QED
  BY <1>4, <1>5, <1>6, <1>7, <1>8

LEMMA Inductive ==
  ASSUME IInv, [Next]_vars
  PROVE  IInv'
<1>1. ASSUME NEW s \in Switch, Flip(s)
      PROVE  IInv'
  BY <1>1, Flipping
<1>2. CASE NextDay
  BY <1>2, DayPassing
<1>3. ASSUME NEW p \in Proc, NEW g \in Group, Start(p, g)
      PROVE  IInv'
  BY <1>3, Starting
<1>4. ASSUME NEW p \in Proc,
             \/ ReadEnabled(p) \/ CheckOutage(p) \/ ReadAccountEnabled(p) \/ GetAppConfig(p)
             \/ NothingEligible(p) \/ TrackingDone(p) \/ ExecuteLeashed(p)
             \/ CallFails(p) \/ Crash(p)
      PROVE  IInv'
  BY <1>4, PlainSteps, GoingOn
<1>5. ASSUME NEW p \in Proc, Permitted(p) \/ CrashInCheck(p)
      PROVE  IInv'
  BY <1>5, RecordingSteps, Recording
<1>6. ASSUME NEW p \in Proc,
             ReadLeashed(p) \/ PickInstance(p) \/ Refused(p) \/ PermittedUnrecorded(p)
                \/ Track(p) \/ Execute(p)
      PROVE  IInv'
  BY <1>6, LeashReading, Picking, AnswersWithoutRecord, Tracking, Killing
<1>7. CASE UNCHANGED vars
  BY <1>7 DEF vars, IInv, TypeOK, RunsAreUnderWay, SwitchesWereOn, RecordsAreOfRuns,
     KillsAreOfRuns, Picked, Running
<1> QED
  BY <1>1, <1>2, <1>3, <1>4, <1>5, <1>6, <1>7 DEF Next, Advance, Trouble, Finished

LEMMA Initially == Init => IInv
<1> SUFFICES ASSUME Init
             PROVE  IInv
  OBVIOUS
<1>1. TypeOK
  BY TerminateAssumption DEF Init, TypeOK, Switch
<1>2. RunsAreUnderWay /\ SwitchesWereOn /\ RecordsAreOfRuns /\ KillsAreOfRuns
  BY DEF Init, RunsAreUnderWay, SwitchesWereOn, RecordsAreOfRuns, KillsAreOfRuns, Running,
     Calls, Committed
<1> QED
  BY <1>1, <1>2 DEF IInv

(***************************************************************************)
(* The variables of the command keep their types, and what a run records   *)
(* is always a complete termination.                                       *)
(***************************************************************************)
THEOREM TypeCorrect == Spec => []TypeOK
<1>1. IInv => TypeOK
  BY DEF IInv
<1> QED
  BY <1>1, Initially, Inductive, PTL DEF Spec

(***************************************************************************)
(* Whatever operators flip while a run is under way, however slow its      *)
(* calls are and whatever fails, it kills only if it saw every switch on.  *)
(***************************************************************************)
THEOREM SwitchesAreAsked == Spec => []KillsNeedEverySwitch
<1>1. IInv => KillsNeedEverySwitch
  BY DEF IInv, KillsAreOfRuns, KillsNeedEverySwitch
<1> QED
  BY <1>1, Initially, Inductive, PTL DEF Spec

(***************************************************************************)
(* A termination that was recorded as leashed is never carried out, and    *)
(* none is in the test environment.                                        *)
(***************************************************************************)
THEOREM LeashHolds == Spec => []DryRunsStayDry
<1>1. IInv => DryRunsStayDry
  <2> SUFFICES ASSUME IInv, NEW k \in kills, NEW i \in DOMAIN record, record[i].by = k.by
               PROVE  ~inTest /\ ~record[i].req.leashed
    BY DEF DryRunsStayDry, IInv, KillsAreOfRuns
  <2> QED
    BY DEF IInv, KillsAreOfRuns, RecordsAreOfRuns, Picked
<1> QED
  BY <1>1, Initially, Inductive, PTL DEF Spec

(***************************************************************************)
(* Spinnaker is not asked to kill before all trackers have been told.      *)
(***************************************************************************)
THEOREM TrackersComeFirst == Spec => []KillsAreTracked
<1>1. IInv => KillsAreTracked
  BY DEF IInv, KillsAreOfRuns, KillsAreTracked
<1> QED
  BY <1>1, Initially, Inductive, PTL DEF Spec

---------------------------------------------------------------------------
(***************************************************************************)
(* The table.  A run has a record if it was told so, and has been told so, *)
(* rightly or not, if it was let through; and it is told once, at its      *)
(* check.                                                                  *)
(***************************************************************************)
HasRecord(p) == \E i \in DOMAIN record : record[i].by = p

LetThrough == {"permitted", "unrecorded"}

RunsAreRecorded ==
  /\ \A p \in Proc :
        /\ answer[p] = "permitted" => HasRecord(p)
        /\ pc[p] \in {"track", "execute"} => answer[p] \in LetThrough
        /\ answer[p] # "none" => pc[p] \in {"track", "execute"} \cup Ended
  /\ \A k \in kills : answer[k.by] \in LetThrough

(***************************************************************************)
(* Steps as the table sees them: a run is told at its check that it may go *)
(* on, rightly only when its termination is appended.                      *)
(***************************************************************************)
LEMMA TableSteps ==
  ASSUME IInv, [Next]_vars
  PROVE  /\ UNCHANGED record \/ \E p \in Proc, where \in {"track", "crashed"} : Records(p, where)
         /\ \A p \in Proc :
               /\ answer'[p] = answer[p] \/ (pc[p] = "check" /\ pc'[p] \in {"track", "failed"})
               /\ answer'[p] = "permitted" => answer[p] = "permitted" \/ Records(p, "track")
               /\ pc'[p] \in {"track", "execute"} =>
                     pc[p] \in {"track", "execute"} \/ answer'[p] \in LetThrough
               /\ pc[p] \in {"track", "execute"} \cup Ended =>
                     pc'[p] \in {"track", "execute"} \cup Ended
         /\ UNCHANGED kills \/ \E p \in Proc : Execute(p)
<1> DEFINE Shape ==
      /\ UNCHANGED record \/ \E p \in Proc, where \in {"track", "crashed"} : Records(p, where)
      /\ \A p \in Proc :
            /\ answer'[p] = answer[p] \/ (pc[p] = "check" /\ pc'[p] \in {"track", "failed"})
            /\ answer'[p] = "permitted" => answer[p] = "permitted" \/ Records(p, "track")
            /\ pc'[p] \in {"track", "execute"} =>
                  pc[p] \in {"track", "execute"} \/ answer'[p] \in LetThrough
            /\ pc[p] \in {"track", "execute"} \cup Ended =>
                  pc'[p] \in {"track", "execute"} \cup Ended
      /\ UNCHANGED kills \/ \E p \in Proc : Execute(p)
<1> SUFFICES Shape
  OBVIOUS
<1> USE DEF IInv, TypeOK, Committed, Calls, Ended, Goto, LetThrough
<1>1. ASSUME NEW s \in Switch, Flip(s)
      PROVE  Shape
  BY <1>1 DEF Flip
<1>2. CASE NextDay
  BY <1>2 DEF NextDay
<1>3. ASSUME NEW p \in Proc, NEW g \in Group, Start(p, g)
      PROVE  Shape
  BY <1>3 DEF Start
<1>4. ASSUME NEW p \in Proc, NEW where \in Calls \cup Ended, GoesOn(p, where)
      PROVE  Shape
  <2>1. /\ UNCHANGED <<record, answer, kills>>
        /\ pc' = [pc EXCEPT ![p] = where]
        /\ pc[p] \notin Ended
        /\ where \in {"track", "execute"} => pc[p] \in {"track", "execute"}
        /\ pc[p] \in {"track", "execute"} => where \in {"track", "execute"} \cup Ended
    BY <1>4 DEF GoesOn, Running
  <2> QED
    BY <2>1
<1>5. ASSUME NEW p \in Proc, NEW where \in {"track", "crashed"}, Records(p, where)
      PROVE  Shape
  <2>1. /\ UNCHANGED kills
        /\ pc' = [pc EXCEPT ![p] = where]
        /\ pc[p] = "check"
        /\ answer' = IF where = "track" THEN [answer EXCEPT ![p] = "permitted"] ELSE answer
    BY <1>5 DEF Records
  <2> QED
    BY <1>5, <2>1
<1>6. ASSUME NEW p \in Proc, ReadLeashed(p) \/ Track(p)
      PROVE  Shape
  BY <1>6 DEF ReadLeashed, Track
<1>7. ASSUME NEW p \in Proc, PickInstance(p)
      PROVE  Shape
  BY <1>7 DEF PickInstance
<1>8. ASSUME NEW p \in Proc, Refused(p) \/ PermittedUnrecorded(p)
      PROVE  Shape
  BY <1>8 DEF Refused, PermittedUnrecorded, Checker!Refuse, Checker!Fail
<1>9. ASSUME NEW p \in Proc, Execute(p)
      PROVE  Shape
  <2>1. /\ UNCHANGED <<record, answer>> /\ pc[p] = "execute"
        /\ \E end \in {"done", "failed"} : pc' = [pc EXCEPT ![p] = end]
    BY <1>9 DEF Execute
  <2> QED
    BY <1>9, <2>1
<1>10. CASE UNCHANGED vars
  BY <1>10 DEF vars
<1> HIDE DEF Shape
<1>11. ASSUME NEW p \in Proc, Advance(p) \/ Trouble(p)
       PROVE  Shape
  BY <1>4, <1>5, <1>6, <1>7, <1>8, <1>9, <1>11, PlainSteps, RecordingSteps
     DEF Advance, Trouble
<1> QED
  BY <1>1, <1>2, <1>3, <1>10, <1>11 DEF Next, Finished

LEMMA RecordingInductive ==
  ASSUME IInv, RunsAreRecorded, [Next]_vars
  PROVE  RunsAreRecorded'
<1>1. \A q \in Proc : HasRecord(q) \/ Records(q, "track") => HasRecord(q)'
  <2>1. ASSUME NEW p \in Proc, NEW where \in {"track", "crashed"}, Records(p, where)
        PROVE  HasRecord(p)' /\ \A q \in Proc : HasRecord(q) => HasRecord(q)'
    <3>1. record \in Seq([by: Proc, req: Termination]) /\ trm[p] \in Termination
      BY <2>1 DEF IInv, TypeOK, RunsAreUnderWay, Committed, Picked, Records
    <3>2. /\ DOMAIN record' = 1 .. Len(record) + 1
          /\ DOMAIN record = 1 .. Len(record) /\ Len(record) \in Nat
          /\ \A i \in DOMAIN record : record'[i] = record[i]
          /\ record'[Len(record) + 1] = [by |-> p, req |-> trm[p]]
      BY <2>1, <3>1, AppendedRecord DEF Records
    <3>3. Len(record) + 1 \in DOMAIN record' /\ record'[Len(record) + 1].by = p
      BY <3>2
    <3> QED
      BY <3>2, <3>3 DEF HasRecord
  <2>2. CASE UNCHANGED record
    BY <2>1, <2>2 DEF HasRecord
  <2> QED
    BY <2>1, <2>2, TableSteps
<1>2. ASSUME NEW p \in Proc
      PROVE  /\ answer'[p] = "permitted" => HasRecord(p)'
             /\ pc'[p] \in {"track", "execute"} => answer'[p] \in LetThrough
             /\ answer'[p] # "none" => pc'[p] \in {"track", "execute"} \cup Ended
  <2>1. answer'[p] = "permitted" => HasRecord(p)'
    BY <1>1, TableSteps DEF RunsAreRecorded
  <2>2. /\ answer'[p] = answer[p] \/ (pc[p] = "check" /\ pc'[p] \in {"track", "failed"})
        /\ pc'[p] \in {"track", "execute"} =>
              pc[p] \in {"track", "execute"} \/ answer'[p] \in LetThrough
        /\ pc[p] \in {"track", "execute"} \cup Ended =>
              pc'[p] \in {"track", "execute"} \cup Ended
    BY TableSteps
  <2> QED
    BY <2>1, <2>2 DEF RunsAreRecorded, Ended
<1>3. ASSUME NEW k \in kills'
      PROVE  answer'[k.by] \in LetThrough
  <2>1. CASE k \in kills
    <3>1. answer[k.by] \in LetThrough /\ k.by \in Proc /\ pc[k.by] # "check"
      BY <2>1 DEF RunsAreRecorded, IInv, TypeOK, KillsAreOfRuns, Ended
    <3> QED
      BY <3>1, TableSteps
  <2>2. CASE k \notin kills
    <3>1. PICK p \in Proc : Execute(p)
      BY <2>2, TableSteps
    <3>2. k.by = p /\ pc[p] = "execute" /\ answer' = answer
      BY <2>2, <3>1 DEF Execute
    <3> QED
      BY <3>2 DEF RunsAreRecorded
  <2> QED
    BY <2>1, <2>2
<1> QED
  BY <1>2, <1>3 DEF RunsAreRecorded

LEMMA RecordingInitially == Init => RunsAreRecorded
  BY DEF Init, RunsAreRecorded

(***************************************************************************)
(* Every real kill, of a run whom the commit error has not hit, is in the  *)
(* table as an unleashed termination of that instance, however late it     *)
(* came and whatever happened to the other runs.                           *)
(***************************************************************************)
THEOREM KillsLeaveARecord == Spec => []KillsAreRecorded
<1>1. IInv /\ RunsAreRecorded => KillsAreRecorded
  <2> SUFFICES ASSUME IInv, RunsAreRecorded, NEW k \in kills, answer[k.by] # "unrecorded"
               PROVE  \E i \in DOMAIN record : /\ record[i].by = k.by
                                               /\ record[i].req.instance = k.instance
                                               /\ ~record[i].req.leashed
    BY DEF KillsAreRecorded
  <2>1. PICK i \in DOMAIN record : record[i].by = k.by
    BY DEF RunsAreRecorded, HasRecord, LetThrough, IInv, TypeOK
  <2>2. /\ record[i].req = trm[k.by]
        /\ trm[k.by].instance = k.instance
        /\ ~trm[k.by].leashed
    BY <2>1 DEF IInv, RecordsAreOfRuns, KillsAreOfRuns, Picked
  <2> QED
    BY <2>1, <2>2
<1>2. IInv /\ RunsAreRecorded /\ [Next]_vars => IInv' /\ RunsAreRecorded'
  BY Inductive, RecordingInductive
<1> QED
  BY <1>1, <1>2, Initially, RecordingInitially, PTL DEF Spec

---------------------------------------------------------------------------
(***************************************************************************)
(* The command keeps to the Checker's side of the bargain: all it does to  *)
(* the table and to the answers, the wrong ones corrected, is what         *)
(* MinTimeGuard allows, each run asking once, for a complete termination.  *)
(* What is proved of MinTimeGuard therefore holds of the command.          *)
(***************************************************************************)
THEOREM UsesTheChecker == Spec => Ledger!Spec
<1>1. Init => Ledger!Init
  BY DEF Init, Ledger!Init, Due
<1>2. IInv /\ RunsAreRecorded /\ [Next]_vars => [Ledger!Next]_(Ledger!vars)
  <2> SUFFICES ASSUME IInv, RunsAreRecorded, [Next]_vars
               PROVE  Ledger!Next \/ UNCHANGED <<record, Due>>
    BY DEF Ledger!vars
  <2>1. ASSUME NEW p \in Proc, pc[p] = "check"
        PROVE  /\ trm[p] \in Termination
               /\ answer[p] = "none" /\ Due[p] = "none"
               /\ answer \in [Proc -> {"none", "permitted", "unrecorded", "refused", "failed"}]
    BY <2>1 DEF RunsAreRecorded, Ended, IInv, TypeOK, RunsAreUnderWay, Picked, Committed, Due
  <2>2. ASSUME NEW p \in Proc, NEW where \in {"track", "crashed"}, Records(p, where)
        PROVE  Ledger!Next
    <3>1. ~Ledger!InTheWay(trm[p]) /\ record' = Append(record, [by |-> p, req |-> trm[p]])
      BY <2>2 DEF Records, Ledger!InTheWay
    <3>2. Due' \in {Due, [Due EXCEPT ![p] = "permitted"]}
      <4>1. answer' = [answer EXCEPT ![p] = "permitted"] \/ answer' = answer
        BY <2>2 DEF Records
      <4> QED
        BY <2>1, <2>2, <4>1 DEF Due, Records
    <3>3. Ledger!Permit(p, trm[p])
      BY <2>1, <2>2, <3>1, <3>2 DEF Ledger!Permit, Records
    <3> QED
      BY <2>1, <2>2, <3>3 DEF Ledger!Next, Records
  <2>3. ASSUME NEW p \in Proc, Refused(p)
        PROVE  Ledger!Next
    <3>1. /\ pc[p] = "check" /\ UNCHANGED record
          /\ \/ answer' = [answer EXCEPT ![p] = "refused"] /\ Ledger!InTheWay(trm[p])
             \/ answer' = [answer EXCEPT ![p] = "failed"]
      BY <2>3 DEF Refused, Checker!Refuse, Checker!Fail, Checker!InTheWay, Ledger!InTheWay
    <3>2. \/ Due' = [Due EXCEPT ![p] = "refused"] /\ Ledger!InTheWay(trm[p])
          \/ Due' = [Due EXCEPT ![p] = "failed"]
      BY <2>1, <3>1 DEF Due
    <3>3. Ledger!Refuse(p, trm[p]) \/ Ledger!Fail(p)
      BY <2>1, <3>1, <3>2 DEF Ledger!Refuse, Ledger!Fail
    <3> QED
      BY <2>1, <3>1, <3>3 DEF Ledger!Next
  <2>4. ASSUME NEW p \in Proc, PermittedUnrecorded(p)
        PROVE  Ledger!Next
    <3>1. pc[p] = "check" /\ UNCHANGED record /\ answer' = [answer EXCEPT ![p] = "unrecorded"]
      BY <2>4 DEF PermittedUnrecorded
    <3>2. Due' = [Due EXCEPT ![p] = "failed"]
      BY <2>1, <3>1 DEF Due
    <3>3. Ledger!Fail(p)
      BY <2>1, <3>1, <3>2 DEF Ledger!Fail
    <3> QED
      BY <3>3 DEF Ledger!Next
  <2>5. ASSUME UNCHANGED <<record, answer>>
        PROVE  UNCHANGED <<record, Due>>
    BY <2>5 DEF Due
  <2>6. ASSUME NEW p \in Proc,
               \/ ReadEnabled(p) \/ CheckOutage(p) \/ ReadAccountEnabled(p) \/ GetAppConfig(p)
               \/ NothingEligible(p) \/ TrackingDone(p) \/ ExecuteLeashed(p)
               \/ CallFails(p) \/ Crash(p)
        PROVE  UNCHANGED <<record, answer>>
    BY <2>6, PlainSteps DEF GoesOn
  <2>7. ASSUME NEW p \in Proc, ReadLeashed(p) \/ PickInstance(p) \/ Track(p) \/ Execute(p)
        PROVE  UNCHANGED <<record, answer>>
    BY <2>7 DEF ReadLeashed, PickInstance, Track, Execute
  <2>8. ASSUME NEW p \in Proc, NEW g \in Group, Start(p, g)
        PROVE  UNCHANGED <<record, answer>>
    BY <2>8 DEF Start
  <2>9. CASE (\E s \in Switch : Flip(s)) \/ NextDay \/ UNCHANGED vars
    BY <2>5, <2>9 DEF Flip, NextDay, vars
  <2> QED
    BY <2>2, <2>3, <2>4, <2>5, <2>6, <2>7, <2>8, <2>9, RecordingSteps
       DEF Next, Advance, Trouble, Finished
<1>3. IInv /\ RunsAreRecorded /\ [Next]_vars => IInv' /\ RunsAreRecorded'
  BY Inductive, RecordingInductive
<1> QED
  BY <1>1, <1>2, <1>3, Initially, RecordingInitially, PTL DEF Spec, Ledger!Spec

GuardInv == record \in Seq(Ledger!Entry) /\ Ledger!RecordsKeepApart

(***************************************************************************)
(* Whoever keeps to MinTimeGuard never records a termination that one      *)
(* recorded before it forbids, whatever the relation between terminations  *)
(* is (nothing is used of Forbids) and however many processes ask.         *)
(***************************************************************************)
THEOREM GuardKeepsApart == Ledger!Spec => []Ledger!RecordsKeepApart
<1>1. Ledger!Init => GuardInv
  BY DEF Ledger!Init, GuardInv, Ledger!RecordsKeepApart
<1>2. GuardInv /\ [Ledger!Next]_(Ledger!vars) => GuardInv'
  <2> SUFFICES ASSUME GuardInv, [Ledger!Next]_(Ledger!vars)
               PROVE  GuardInv'
    OBVIOUS
  <2>1. ASSUME NEW p \in Proc, NEW q \in Termination, Ledger!Permit(p, q)
        PROVE  GuardInv'
    <3> DEFINE e == [by |-> p, req |-> q]
    <3>1. e \in Ledger!Entry /\ e.req = q /\ record' = Append(record, e)
      BY <2>1 DEF Ledger!Permit, Ledger!Entry
    <3> HIDE DEF e
    <3>2. /\ record' \in Seq(Ledger!Entry)
          /\ DOMAIN record = 1 .. Len(record) /\ Len(record) \in Nat
          /\ DOMAIN record' = 1 .. Len(record) + 1
          /\ \A i \in DOMAIN record : record'[i] = record[i]
          /\ record'[Len(record) + 1] = e
      BY <3>1 DEF GuardInv
    <3>3. \A i \in DOMAIN record : ~Forbids(record[i].req, q)
      BY <2>1 DEF Ledger!Permit, Ledger!InTheWay
    <3>4. ASSUME NEW i \in DOMAIN record', NEW j \in DOMAIN record', i < j
          PROVE  ~Forbids(record'[i].req, record'[j].req)
      <4>1. CASE j \in DOMAIN record
        <5>1. i \in DOMAIN record
          BY <3>2, <3>4, <4>1
        <5> QED
          BY <5>1, <3>2, <3>4, <4>1 DEF GuardInv, Ledger!RecordsKeepApart
      <4>2. CASE j \notin DOMAIN record
        <5>1. i \in DOMAIN record /\ record'[j] = e
          BY <3>2, <3>4, <4>2
        <5> QED
          BY <5>1, <3>1, <3>2, <3>3
      <4> QED
        BY <4>1, <4>2
    <3> QED
      BY <3>2, <3>4 DEF GuardInv, Ledger!RecordsKeepApart
  <2>2. CASE UNCHANGED record
    BY <2>2 DEF GuardInv, Ledger!RecordsKeepApart
  <2> QED
    BY <2>1, <2>2 DEF Ledger!Next, Ledger!Refuse, Ledger!Fail, Ledger!vars
<1> QED
  BY <1>1, <1>2, PTL DEF Ledger!Spec, GuardInv

(***************************************************************************)
(* The refinement at work: the table of the command has no termination     *)
(* that an earlier one forbids.                                            *)
(***************************************************************************)
LEMMA TheTableKeepsApart == Spec => []Ledger!RecordsKeepApart
  BY UsesTheChecker, GuardKeepsApart, PTL

(***************************************************************************)
(* Two kills in one group, each made on the day in its record, are at      *)
(* least the minimum time apart, whatever late and unrecorded kills other  *)
(* runs make in between.                                                   *)
(***************************************************************************)
THEOREM MinimumTimeIsKept == Spec => []KillsKeepApart
<1>1. IInv /\ RunsAreRecorded /\ Ledger!RecordsKeepApart => KillsKeepApart
  <2> SUFFICES ASSUME IInv, RunsAreRecorded, Ledger!RecordsKeepApart,
                      NEW k \in kills, NEW l \in kills, OnRecord(k), OnRecord(l), k # l,
                      GroupOf[k.instance] = GroupOf[l.instance], k.day <= l.day
               PROVE  l.day - k.day >= MinDays
    BY DEF KillsKeepApart
  <2>1. /\ k \in [by: Proc, instance: Instance, day: 0 .. LastDay]
        /\ l \in [by: Proc, instance: Instance, day: 0 .. LastDay]
    BY DEF IInv, TypeOK
  <2>2. /\ k.instance = trm[k.by].instance /\ k.day = trm[k.by].day
        /\ l.instance = trm[l.by].instance /\ l.day = trm[l.by].day
    BY DEF IInv, KillsAreOfRuns, OnRecord
  <2>3. k.by # l.by
    <3> SUFFICES ASSUME k.by = l.by
                 PROVE  FALSE
      OBVIOUS
    <3>1. k.instance = l.instance /\ k.day = l.day
      BY <2>2
    <3> QED
      BY <2>1, <3>1
  <2>4. PICK i \in DOMAIN record : record[i].by = k.by
    BY <2>1 DEF RunsAreRecorded, HasRecord, OnRecord
  <2>5. PICK j \in DOMAIN record : record[j].by = l.by
    BY <2>1 DEF RunsAreRecorded, HasRecord, OnRecord
  <2>6. record[i].req = trm[k.by] /\ record[j].req = trm[l.by]
    BY <2>4, <2>5 DEF IInv, RecordsAreOfRuns
  <2>7. /\ trm[k.by].group = trm[l.by].group
        /\ ~trm[k.by].leashed /\ ~trm[l.by].leashed
    BY <2>2 DEF IInv, KillsAreOfRuns, Picked
  <2>8. i \in Nat /\ j \in Nat /\ i # j /\ k.day \in Int /\ l.day \in Int /\ MinDays \in Nat
    BY <2>1, <2>3, <2>4, <2>5, RecordTypes, TerminateAssumption DEF IInv
  <2>9. CASE i < j
    BY <2>2, <2>6, <2>7, <2>8, <2>9 DEF Ledger!RecordsKeepApart, Forbids
  <2>10. CASE j < i
    BY <2>2, <2>6, <2>7, <2>8, <2>10 DEF Ledger!RecordsKeepApart, Forbids
  <2> QED
    BY <2>8, <2>9, <2>10
<1>2. IInv /\ RunsAreRecorded /\ [Next]_vars => IInv' /\ RunsAreRecorded'
  BY Inductive, RecordingInductive
<1> QED
  BY <1>1, <1>2, Initially, RecordingInitially, TheTableKeepsApart, PTL DEF Spec
=============================================================================
