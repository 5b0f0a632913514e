---------------------- MODULE TerminationCheckerProofs ----------------------
(***************************************************************************)
(* Proofs about TerminationChecker, for any number of processes, any       *)
(* requests and any threshold function: its types; that the minimum time   *)
(* between kills is respected as long as the server does not cut the       *)
(* result of a SELECT short; and that Check then implements MinTimeGuard.  *)
(* Then about the threshold of noKillsSince: what it is at every instant,  *)
(* how it moves with the clock, and what Check promises with it.           *)
(***************************************************************************)
EXTENDS DailyKills, ThresholdClock, FiniteSetTheorems, WellFoundedInduction, TLAPS

(***************************************************************************)
(* A row that a process adds keeps the table a sequence of entries.        *)
(***************************************************************************)
LEMMA AppendedRow ==
  ASSUME NEW s \in Seq(Entry), NEW p \in Proc, NEW q \in Requests
  PROVE  /\ Append(s, [by |-> p, req |-> q]) \in Seq(Entry)
         /\ DOMAIN Append(s, [by |-> p, req |-> q]) = DOMAIN s \cup {Len(s) + 1}
         /\ \A i \in DOMAIN s : Append(s, [by |-> p, req |-> q])[i] = s[i]
         /\ Append(s, [by |-> p, req |-> q])[Len(s) + 1].req = q
         /\ Append(s, [by |-> p, req |-> q])[Len(s) + 1].by = p
         /\ DOMAIN s = 1 .. Len(s) /\ Len(s) \in Nat
<1> DEFINE e == [by |-> p, req |-> q]
<1>1. e \in Entry
  BY DEF Entry
<1>2. e.req = q /\ e.by = p
  OBVIOUS
<1> HIDE DEF e
<1> SUFFICES /\ Append(s, e) \in Seq(Entry)
             /\ DOMAIN Append(s, e) = DOMAIN s \cup {Len(s) + 1}
             /\ \A i \in DOMAIN s : Append(s, e)[i] = s[i]
             /\ Append(s, e)[Len(s) + 1].req = q
             /\ Append(s, e)[Len(s) + 1].by = p
             /\ DOMAIN s = 1 .. Len(s) /\ Len(s) \in Nat
  BY DEF e
<1> QED
  BY <1>1, <1>2

(***************************************************************************)
(* Type correctness.                                                       *)
(***************************************************************************)
THEOREM TypeCorrect == Spec => []TypeOK
<1>1. Init => TypeOK
  BY DEF Init, TypeOK
<1>2. TypeOK /\ [Next]_vars => TypeOK'
  <2> SUFFICES ASSUME TypeOK, [Next]_vars
               PROVE  TypeOK'
    OBVIOUS
  <2> USE DEF TypeOK
  <2>1. ASSUME NEW p \in Proc, NEW q \in Requests, Begin(p, q)
        PROVE  TypeOK'
    BY <2>1 DEF Begin
  <2>2. ASSUME NEW p \in Proc, IllegalMinDays(p)
        PROVE  TypeOK'
    BY <2>2 DEF IllegalMinDays
  <2>3. ASSUME NEW p \in Proc, FindsRecentKill(p)
        PROVE  TypeOK'
    BY <2>3 DEF FindsRecentKill, Select
  <2>4. ASSUME NEW p \in Proc, FindsNone(p)
        PROVE  TypeOK'
    BY <2>4 DEF FindsNone, Select
  <2>5. ASSUME NEW p \in Proc, Insert(p)
        PROVE  TypeOK'
    BY <2>5 DEF Insert
  <2>6. ASSUME NEW p \in Proc, DeadlockVictim(p)
        PROVE  TypeOK'
    BY <2>6 DEF DeadlockVictim, Deadlocked, InsertWaitsFor
  <2>7. ASSUME NEW p \in Proc, Commit(p) \/ CrashAfterCommit(p)
        PROVE  TypeOK'
    <3>1. /\ rows \in Seq(Entry)
          /\ req[p] \in Requests
          /\ rows' = Append(rows, [by |-> p, req |-> req[p]])
      BY <2>7 DEF Commit, CrashAfterCommit
    <3>2. rows' \in Seq(Entry)
      BY <3>1, AppendedRow
    <3> QED
      BY <2>7, <3>2 DEF Commit, CrashAfterCommit
  <2>8. ASSUME NEW p \in Proc, Rollback(p)
        PROVE  TypeOK'
    BY <2>8 DEF Rollback
  <2>9. ASSUME NEW p \in Proc, BeginFails(p) \/ SelectCutShort(p) \/ StatementFails(p)
        PROVE  TypeOK'
    BY <2>9 DEF BeginFails, SelectCutShort, StatementFails
  <2>10. ASSUME NEW p \in Proc, CommitFails(p) \/ Crash(p)
         PROVE  TypeOK'
    BY <2>10 DEF CommitFails, Crash
  <2>11. CASE UNCHANGED vars
    BY <2>11 DEF vars
  <2> QED
    BY <2>1, <2>2, <2>3, <2>4, <2>5, <2>6, <2>7, <2>8, <2>9, <2>10, <2>11
       DEF Next, Advance, Trouble, Finished
<1> QED
  BY <1>1, <1>2, PTL DEF Spec

---------------------------------------------------------------------------
(***************************************************************************)
(* The inductive invariant behind MinTimeRespected.  A process that found  *)
(* no recent kill holds its scan locked; nothing it would have had to find *)
(* has been committed since; and no other process has an uncommitted row   *)
(* in the range, so that nothing can be committed there either.            *)
(***************************************************************************)
Cleared(p) == pc[p] \in {"cleared", "inserted"}

ClearedHoldLocks == \A p \in Proc : Cleared(p) => locked[p]

LocksAreDropped == \A p \in Proc : locked[p] => Cleared(p) \/ pc[p] = "failing"

ClearedStayClear ==
  \A p \in Proc : Cleared(p) => \A i \in DOMAIN rows : ~Forbids(rows[i].req, req[p])

LocksKeepRowsOut ==
  \A p, o \in Proc : o # p /\ locked[p] /\ pc[o] = "inserted" => ~InScan(req[o], req[p])

IInv == /\ TypeOK
        /\ ClearedHoldLocks
        /\ LocksAreDropped
        /\ ClearedStayClear
        /\ LocksKeepRowsOut
        /\ MinTimeRespected

(***************************************************************************)
(* Whatever the query of respectsMinTimeBetweenKills returns lies in the   *)
(* index range it locks.                                                   *)
(***************************************************************************)
LEMMA ForbiddingRowsAreScanned ==
  ASSUME NEW r, NEW q, Forbids(r, q)
  PROVE  InScan(r, q)
BY DEF Forbids, InScan, SameGroup

(***************************************************************************)
(* A step that commits nothing and lets no process become cleared or hold  *)
(* a new lock keeps the invariant.                                         *)
(***************************************************************************)
LEMMA Withdrawing ==
  ASSUME IInv, TypeOK', NEW p \in Proc,
         UNCHANGED rows,
         \A o \in Proc \ {p} : pc'[o] = pc[o] /\ locked'[o] = locked[o] /\ req'[o] = req[o],
         ~Cleared(p)',
         locked'[p] => locked[p] /\ req'[p] = req[p] /\ pc'[p] = "failing"
  PROVE  IInv'
<1> USE DEF IInv
<1>1. ClearedHoldLocks' /\ LocksAreDropped'
  BY DEF ClearedHoldLocks, LocksAreDropped, Cleared
<1>2. ClearedStayClear'
  BY DEF ClearedStayClear, Cleared
<1>3. LocksKeepRowsOut'
  <2> SUFFICES ASSUME NEW x \in Proc, NEW o \in Proc, o # x, locked'[x], pc'[o] = "inserted"
               PROVE  ~InScan(req'[o], req'[x])
    BY DEF LocksKeepRowsOut, InScan, SinceThreshold
  <2>1. o # p /\ pc[o] = "inserted" /\ req'[o] = req[o]
    BY DEF Cleared
  <2>2. locked[x] /\ req'[x] = req[x]
    OBVIOUS
  <2> QED
    BY <2>1, <2>2 DEF LocksKeepRowsOut
<1>4. MinTimeRespected'
  BY DEF MinTimeRespected, Forbids, SameGroup, SinceThreshold, Counts
<1> QED
  BY <1>1, <1>2, <1>3, <1>4

(***************************************************************************)
(* A process that scans the table and locks its range keeps the invariant, *)
(* whether it was cleared or refused.                                      *)
(***************************************************************************)
LEMMA Scanning ==
  ASSUME IInv, TypeOK', NEW p \in Proc, FindsNone(p) \/ FindsRecentKill(p)
  PROVE  IInv'
<1> USE DEF IInv
<1>1. /\ pc[p] = "begun" /\ UNCHANGED <<rows, req>>
      /\ locked' = [locked EXCEPT ![p] = TRUE]
      /\ \A o \in Proc : ~SelectWaitsFor(p, o)
      /\ \A o \in Proc \ {p} : pc'[o] = pc[o] /\ locked'[o] = locked[o]
      /\ locked'[p]
      /\ pc'[p] \in {"cleared", "failing"}
  BY DEF FindsNone, FindsRecentKill, Select, TypeOK
<1>2. ClearedHoldLocks' /\ LocksAreDropped'
  BY <1>1 DEF ClearedHoldLocks, LocksAreDropped, Cleared
<1>3. ClearedStayClear'
  <2>1. CASE FindsNone(p)
    BY <1>1, <2>1 DEF ClearedStayClear, Cleared, FindsNone, Forbids, SameGroup, SinceThreshold, Counts
  <2>2. CASE FindsRecentKill(p)
    <3>1. pc'[p] = "failing"
      BY <2>2 DEF FindsRecentKill, TypeOK
    <3> QED
      BY <1>1, <3>1 DEF ClearedStayClear, Cleared, Forbids, SameGroup, SinceThreshold, Counts
  <2> QED
    BY <2>1, <2>2
<1>4. LocksKeepRowsOut'
  <2> SUFFICES ASSUME NEW x \in Proc, NEW o \in Proc, o # x, locked'[x], pc'[o] = "inserted"
               PROVE  ~InScan(req[o], req[x])
    BY <1>1 DEF LocksKeepRowsOut, InScan, SinceThreshold
  <2>1. o # p /\ pc[o] = "inserted"
    BY <1>1
  <2>2. CASE x = p
    BY <1>1, <2>1, <2>2 DEF SelectWaitsFor
  <2>3. CASE x # p
    BY <1>1, <2>1, <2>3 DEF LocksKeepRowsOut
  <2> QED
    BY <2>2, <2>3
<1>5. MinTimeRespected'
  BY <1>1 DEF MinTimeRespected, Forbids, SameGroup, SinceThreshold, Counts
<1> QED
  BY <1>2, <1>3, <1>4, <1>5

(***************************************************************************)
(* An insert that waits for no lock keeps the invariant.                   *)
(***************************************************************************)
LEMMA Inserting ==
  ASSUME IInv, TypeOK', NEW p \in Proc, Insert(p)
  PROVE  IInv'
<1> USE DEF IInv
<1>1. /\ pc[p] = "cleared" /\ UNCHANGED <<rows, req, locked>>
      /\ \A o \in Proc : ~InsertWaitsFor(p, o)
      /\ pc' = [pc EXCEPT ![p] = "inserted"]
      /\ \A o \in Proc \ {p} : pc'[o] = pc[o]
      /\ pc'[p] = "inserted"
  BY DEF Insert, TypeOK
<1>2. \A o \in Proc : Cleared(o)' <=> Cleared(o)
  BY <1>1 DEF Cleared
<1>3. ClearedHoldLocks' /\ LocksAreDropped'
  BY <1>1, <1>2 DEF ClearedHoldLocks, LocksAreDropped, Cleared
<1>4. ClearedStayClear'
  BY <1>1, <1>2 DEF ClearedStayClear, Forbids, SameGroup, SinceThreshold, Counts
<1>5. LocksKeepRowsOut'
  <2> SUFFICES ASSUME NEW x \in Proc, NEW o \in Proc, o # x, locked[x], pc'[o] = "inserted"
               PROVE  ~InScan(req[o], req[x])
    BY <1>1 DEF LocksKeepRowsOut, InScan, SinceThreshold
  <2>1. CASE o = p
    BY <1>1, <2>1 DEF InsertWaitsFor
  <2>2. CASE o # p
    BY <1>1, <2>2 DEF LocksKeepRowsOut
  <2> QED
    BY <2>1, <2>2
<1>6. MinTimeRespected'
  BY <1>1 DEF MinTimeRespected, Forbids, SameGroup, SinceThreshold, Counts
<1> QED
  BY <1>3, <1>4, <1>5, <1>6

(***************************************************************************)
(* A commit keeps the invariant: its row was cleared against every         *)
(* committed one, and lies in the locked range of no other process.        *)
(***************************************************************************)
LEMMA Committing ==
  ASSUME IInv, TypeOK', NEW p \in Proc, Commit(p) \/ CrashAfterCommit(p)
  PROVE  IInv'
<1> USE DEF IInv
<1> DEFINE new == Len(rows) + 1
<1>1. /\ pc[p] = "inserted" /\ UNCHANGED req
      /\ rows' = Append(rows, [by |-> p, req |-> req[p]])
      /\ \A o \in Proc \ {p} : pc'[o] = pc[o] /\ locked'[o] = locked[o]
      /\ ~locked'[p]
      /\ pc'[p] \in {"returned", "crashed"}
  BY DEF Commit, CrashAfterCommit, TypeOK
<1>2. /\ DOMAIN rows' = DOMAIN rows \cup {new}
      /\ \A i \in DOMAIN rows : rows'[i] = rows[i]
      /\ rows'[new].req = req[p]
      /\ DOMAIN rows = 1 .. Len(rows) /\ Len(rows) \in Nat
  <2>1. rows \in Seq(Entry) /\ req[p] \in Requests
    BY <1>1 DEF TypeOK
  <2> QED
    BY <1>1, <2>1, AppendedRow
<1>3. ClearedHoldLocks' /\ LocksAreDropped'
  BY <1>1 DEF ClearedHoldLocks, LocksAreDropped, Cleared
<1>4. ClearedStayClear'
  <2> SUFFICES ASSUME NEW o \in Proc, Cleared(o)', NEW i \in DOMAIN rows'
               PROVE  ~Forbids(rows'[i].req, req[o])
    BY <1>1 DEF ClearedStayClear, Forbids, SameGroup, SinceThreshold, Counts
  <2>1. o # p /\ Cleared(o)
    BY <1>1 DEF Cleared
  <2>2. CASE i \in DOMAIN rows
    BY <1>2, <2>1, <2>2 DEF ClearedStayClear
  <2>3. CASE i = new
    <3>1. ~InScan(req[p], req[o])
      BY <1>1, <2>1 DEF ClearedHoldLocks, LocksKeepRowsOut
    <3> QED
      BY <1>2, <2>3, <3>1, ForbiddingRowsAreScanned
  <2> QED
    BY <1>2, <2>2, <2>3
<1>5. LocksKeepRowsOut'
  BY <1>1 DEF LocksKeepRowsOut, InScan, SinceThreshold
<1>6. MinTimeRespected'
  <2> SUFFICES ASSUME NEW i \in DOMAIN rows', NEW j \in DOMAIN rows', i < j
               PROVE  ~Forbids(rows'[i].req, rows'[j].req)
    BY DEF MinTimeRespected, Forbids, SameGroup, SinceThreshold, Counts
  <2>1. i \in DOMAIN rows
    BY <1>2
  <2>2. CASE j \in DOMAIN rows
    BY <1>2, <2>1, <2>2 DEF MinTimeRespected
  <2>3. CASE j = new
    BY <1>1, <1>2, <2>1, <2>3 DEF ClearedStayClear, Cleared
  <2> QED
    BY <1>2, <2>2, <2>3
<1> QED
  BY <1>3, <1>4, <1>5, <1>6

(***************************************************************************)
(* IInv is preserved by every step of every process, commits that fail and *)
(* crashes included, as long as no result of a SELECT is cut short.        *)
(***************************************************************************)
LEMMA Inductive ==
  ASSUME "read" \notin Faults, IInv, TypeOK', [Next]_vars
  PROVE  IInv'
<1>1. ASSUME NEW p \in Proc, NEW q \in Requests, Begin(p, q)
      PROVE  IInv'
  BY <1>1, Withdrawing DEF Begin, IInv, TypeOK, Cleared, LocksAreDropped
<1>2. ASSUME NEW p \in Proc,
             BeginFails(p) \/ IllegalMinDays(p) \/ StatementFails(p)
      PROVE  IInv'
  BY <1>2, Withdrawing DEF BeginFails, IllegalMinDays, StatementFails, IInv, TypeOK, Cleared, LocksAreDropped
<1>3. ASSUME NEW p \in Proc,
             DeadlockVictim(p) \/ CommitFails(p) \/ Rollback(p) \/ Crash(p)
      PROVE  IInv'
  BY <1>3, Withdrawing DEF DeadlockVictim, CommitFails, Rollback, Crash, IInv, TypeOK, Cleared
<1>4. ASSUME NEW p \in Proc, SelectCutShort(p)
      PROVE  IInv'
  BY <1>4 DEF SelectCutShort
<1>5. CASE UNCHANGED vars
  BY <1>5 DEF vars, IInv, ClearedHoldLocks, LocksAreDropped, ClearedStayClear,
              LocksKeepRowsOut, MinTimeRespected, Cleared, InScan, Forbids, SameGroup,
              SinceThreshold, Counts
<1> QED
  BY <1>1, <1>2, <1>3, <1>4, <1>5, Scanning, Inserting, Committing
     DEF Next, Advance, Trouble, Finished

(***************************************************************************)
(* The minimum time between kills is respected by any number of concurrent *)
(* processes, under crashes, deadlocks, failing statements and failing     *)
(* commits, for every threshold function, unless the server cuts the       *)
(* result of a SELECT short.                                               *)
(***************************************************************************)
THEOREM MinTimeIsRespected ==
  ASSUME "read" \notin Faults
  PROVE  Spec => []MinTimeRespected
<1>1. Init => IInv
  BY DEF Init, IInv, TypeOK, ClearedHoldLocks, LocksAreDropped, ClearedStayClear,
         LocksKeepRowsOut, MinTimeRespected, Cleared
<1>2. IInv /\ TypeOK' /\ [Next]_vars => IInv'
  BY Inductive
<1>3. IInv => MinTimeRespected
  BY DEF IInv
<1> QED
  BY <1>1, <1>2, <1>3, TypeCorrect, PTL DEF Spec

---------------------------------------------------------------------------
(***************************************************************************)
(* Implementation of MinTimeGuard.  Beyond IInv: what a failing or         *)
(* returned call reports, and that a cleared one has legal arguments.  A   *)
(* refusal is reported after the rollback, when other transactions may     *)
(* have committed; its cause is still in the table, which only grows.      *)
(***************************************************************************)
RefusalsStand ==
  \A p \in Proc : pc[p] \in {"failing", "returned"} /\ result[p] = "violates" =>
     /\ req[p] \in LegalRequests
     /\ \E i \in DOMAIN rows : Forbids(rows[i].req, req[p])

FailuresHaveErrors ==
  \A p \in Proc : pc[p] = "failing" => result[p] \in {"violates", "deadlock", "error"}

ClearedAreLegal == \A p \in Proc : Cleared(p) => req[p] \in LegalRequests

Reports == RefusalsStand /\ FailuresHaveErrors /\ ClearedAreLegal

(***************************************************************************)
(* What a call is going to report stays justified: a refusal by a row of   *)
(* the table, a failure by an error.                                       *)
(***************************************************************************)
LEMMA ReportsInductive ==
  ASSUME TypeOK, Reports, [Next]_vars
  PROVE  Reports'
<1> USE DEF Reports
<1>1. ASSUME NEW p \in Proc, UNCHANGED rows,
             \A o \in Proc \ {p} : pc'[o] = pc[o] /\ result'[o] = result[o] /\ req'[o] = req[o],
             \/ pc'[p] \in {"begun", "crashed"}
             \/ pc'[p] = "failing" /\ result'[p] \in {"deadlock", "error"}
             \/ pc'[p] = "returned" /\ result'[p] \in {"nil", "error"}
             \/ /\ pc[p] = "failing" /\ pc'[p] = "returned"
                /\ result'[p] = result[p] /\ req'[p] = req[p]
             \/ /\ pc'[p] = "failing" /\ result'[p] = "violates" /\ req'[p] \in LegalRequests
                /\ \E i \in DOMAIN rows : Forbids(rows[i].req, req'[p])
             \/ pc'[p] \in {"cleared", "inserted"} /\ req'[p] \in LegalRequests
      PROVE  Reports'
  <2>1. RefusalsStand'
    BY <1>1 DEF RefusalsStand, LegalRequests, Forbids, SameGroup, SinceThreshold, Counts
  <2>2. FailuresHaveErrors'
    BY <1>1 DEF FailuresHaveErrors
  <2>3. ClearedAreLegal'
    BY <1>1 DEF ClearedAreLegal, LegalRequests, Cleared
  <2> QED
    BY <2>1, <2>2, <2>3
<1>2. ASSUME NEW p \in Proc, NEW q \in Requests, Begin(p, q)
      PROVE  Reports'
  BY <1>1, <1>2 DEF Begin, TypeOK
<1>3. ASSUME NEW p \in Proc, BeginFails(p) \/ IllegalMinDays(p) \/ StatementFails(p) \/ DeadlockVictim(p)
      PROVE  Reports'
  BY <1>1, <1>3 DEF BeginFails, IllegalMinDays, StatementFails, DeadlockVictim, TypeOK
<1>4. ASSUME NEW p \in Proc, FindsRecentKill(p)
      PROVE  Reports'
  BY <1>1, <1>4 DEF FindsRecentKill, Select, LegalRequests, TypeOK
<1>5. ASSUME NEW p \in Proc, FindsNone(p) \/ SelectCutShort(p)
      PROVE  Reports'
  BY <1>1, <1>5 DEF FindsNone, Select, SelectCutShort, LegalRequests, TypeOK
<1>6. ASSUME NEW p \in Proc, Insert(p)
      PROVE  Reports'
  BY <1>1, <1>6 DEF Insert, ClearedAreLegal, Cleared, TypeOK
<1>7. ASSUME NEW p \in Proc, CommitFails(p) \/ Rollback(p) \/ Crash(p)
      PROVE  Reports'
  BY <1>1, <1>7 DEF CommitFails, Rollback, Crash, TypeOK
<1>8. ASSUME NEW p \in Proc, Commit(p) \/ CrashAfterCommit(p)
      PROVE  Reports'
  <2>1. /\ UNCHANGED req
        /\ \A o \in Proc \ {p} : pc'[o] = pc[o] /\ result'[o] = result[o]
        /\ \/ pc'[p] = "returned" /\ result'[p] = "nil"
           \/ pc'[p] = "crashed"
        /\ req[p] \in Requests /\ rows \in Seq(Entry)
        /\ rows' = Append(rows, [by |-> p, req |-> req[p]])
    BY <1>8 DEF Commit, CrashAfterCommit, TypeOK
  <2>2. \A i \in DOMAIN rows : i \in DOMAIN rows' /\ rows'[i] = rows[i]
    BY <2>1, AppendedRow
  <2>3. RefusalsStand'
    <3> SUFFICES ASSUME NEW o \in Proc, pc'[o] \in {"failing", "returned"}, result'[o] = "violates"
                 PROVE  /\ req[o] \in LegalRequests
                        /\ \E i \in DOMAIN rows' : Forbids(rows'[i].req, req[o])
      BY <2>1 DEF RefusalsStand, LegalRequests, Forbids, SameGroup, SinceThreshold, Counts
    <3>1. PICK i \in DOMAIN rows : Forbids(rows[i].req, req[o])
      BY <2>1 DEF RefusalsStand
    <3>2. req[o] \in LegalRequests
      BY <2>1 DEF RefusalsStand
    <3> QED
      BY <2>2, <3>1, <3>2
  <2>4. FailuresHaveErrors' /\ ClearedAreLegal'
    BY <2>1 DEF FailuresHaveErrors, ClearedAreLegal, Cleared, LegalRequests
  <2> QED
    BY <2>3, <2>4
<1>9. CASE UNCHANGED vars
  BY <1>9 DEF vars, RefusalsStand, FailuresHaveErrors, ClearedAreLegal, Cleared,
              LegalRequests, Forbids, SameGroup, SinceThreshold, Counts
<1> QED
  BY <1>2, <1>3, <1>4, <1>5, <1>6, <1>7, <1>8, <1>9 DEF Next, Advance, Trouble, Finished

(***************************************************************************)
(* Only the step that ends a call changes its answer.                      *)
(***************************************************************************)
LEMMA AnswerChanges ==
  ASSUME TypeOK, TypeOK', NEW p \in Proc,
         \A o \in Proc \ {p} : pc'[o] = pc[o] /\ result'[o] = result[o],
         pc[p] # "returned"
  PROVE  /\ answer[p] = "none"
         /\ pc'[p] # "returned" => answer' = answer
         /\ pc'[p] = "returned" /\ result'[p] = "nil"
               => answer' = [answer EXCEPT ![p] = "permitted"]
         /\ pc'[p] = "returned" /\ result'[p] = "violates"
               => answer' = [answer EXCEPT ![p] = "refused"]
         /\ pc'[p] = "returned" /\ result'[p] \in {"deadlock", "error"}
               => answer' = [answer EXCEPT ![p] = "failed"]
<1>1. \A o \in Proc \ {p} : Told(o)' = Told(o)
  BY DEF Told
<1>2. /\ Told(p) = "none"
      /\ pc'[p] # "returned" => Told(p)' = "none"
      /\ pc'[p] = "returned" /\ result'[p] = "nil" => Told(p)' = "permitted"
      /\ pc'[p] = "returned" /\ result'[p] = "violates" => Told(p)' = "refused"
      /\ pc'[p] = "returned" /\ result'[p] \in {"deadlock", "error"} => Told(p)' = "failed"
  BY DEF Told
<1> DEFINE say == Told(p)'
<1>3. answer' = [answer EXCEPT ![p] = say] /\ answer[p] = Told(p)
  BY <1>1 DEF answer
<1>4. say = Told(p) => answer' = answer
  BY <1>3 DEF answer
<1> QED
  BY <1>2, <1>3, <1>4

(***************************************************************************)
(* Every step of Check is a step of MinTimeGuard or leaves its variables   *)
(* unchanged.                                                              *)
(***************************************************************************)
LEMMA StepImplements ==
  ASSUME Faults = {}, IInv, TypeOK', Reports, [Next]_vars
  PROVE  [Guard!Next]_(Guard!vars)
<1> USE DEF Guard!vars
<1>1. ASSUME NEW p \in Proc, pc[p] # "returned", pc'[p] # "returned", UNCHANGED rows,
             \A o \in Proc \ {p} : pc'[o] = pc[o] /\ result'[o] = result[o]
      PROVE  UNCHANGED Guard!vars
  BY <1>1, AnswerChanges DEF IInv
<1>2. ASSUME NEW p \in Proc,
             \/ \E q \in Requests : Begin(p, q)
             \/ IllegalMinDays(p) \/ FindsRecentKill(p) \/ FindsNone(p) \/ Insert(p)
             \/ DeadlockVictim(p) \/ StatementFails(p) \/ Crash(p)
      PROVE  UNCHANGED Guard!vars
  BY <1>1, <1>2 DEF Begin, IllegalMinDays, FindsRecentKill, FindsNone, Select, Insert,
     DeadlockVictim, Deadlocked, InsertWaitsFor, StatementFails, Crash, IInv, TypeOK
<1>3. ASSUME NEW p \in Proc, BeginFails(p)
      PROVE  Guard!Fail(p)
  BY <1>3, AnswerChanges DEF BeginFails, Guard!Fail, IInv, TypeOK
<1>4. ASSUME NEW p \in Proc, Rollback(p)
      PROVE  Guard!Fail(p) \/ \E q \in LegalRequests : Guard!Refuse(p, q)
  <2>1. /\ pc[p] = "failing" /\ pc'[p] = "returned" /\ UNCHANGED <<rows, req, result>>
        /\ \A o \in Proc \ {p} : pc'[o] = pc[o]
    BY <1>4 DEF Rollback, IInv, TypeOK
  <2>2. CASE result[p] = "violates"
    <3>1. req[p] \in LegalRequests /\ Guard!InTheWay(req[p])
      BY <2>1, <2>2 DEF Reports, RefusalsStand, Guard!InTheWay
    <3>2. Guard!Refuse(p, req[p])
      BY <2>1, <2>2, <3>1, AnswerChanges DEF Guard!Refuse, IInv
    <3> QED
      BY <3>1, <3>2
  <2>3. CASE result[p] \in {"deadlock", "error"}
    BY <2>1, <2>3, AnswerChanges DEF Guard!Fail, IInv
  <2> QED
    BY <2>1, <2>2, <2>3 DEF Reports, FailuresHaveErrors
<1>5. ASSUME NEW p \in Proc, Commit(p) \/ CrashAfterCommit(p)
      PROVE  \E q \in LegalRequests : Guard!Permit(p, q)
  <2>1. /\ pc[p] = "inserted" /\ rows' = Append(rows, [by |-> p, req |-> req[p]])
        /\ \A o \in Proc \ {p} : pc'[o] = pc[o] /\ result'[o] = result[o]
        /\ \/ pc'[p] = "returned" /\ result'[p] = "nil"
           \/ pc'[p] # "returned"
    BY <1>5 DEF Commit, CrashAfterCommit, IInv, TypeOK
  <2>2. req[p] \in LegalRequests /\ ~Guard!InTheWay(req[p])
    BY <2>1 DEF Reports, ClearedAreLegal, IInv, ClearedStayClear, Cleared, Guard!InTheWay
  <2>3. answer[p] = "none" /\ answer' \in {answer, [answer EXCEPT ![p] = "permitted"]}
    BY <2>1, AnswerChanges DEF IInv
  <2> QED
    BY <2>1, <2>2, <2>3 DEF Guard!Permit
<1>6. CASE UNCHANGED vars
  BY <1>6 DEF vars, answer, Told
<1> QED
  BY <1>2, <1>3, <1>4, <1>5, <1>6
     DEF Next, Advance, Trouble, Finished, SelectCutShort, CommitFails, Guard!Next

(***************************************************************************)
(* With a server that reports its errors where the code looks for them,    *)
(* Check is the atomic test-and-set that chaosmonkey.Checker promises, for *)
(* any number of processes.                                                *)
(***************************************************************************)
THEOREM CheckIsAtomic ==
  ASSUME Faults = {}
  PROVE  Spec => ImplementsGuard
<1>1. Init => Guard!Init /\ IInv /\ Reports
  BY DEF Init, Guard!Init, answer, IInv, TypeOK, ClearedHoldLocks, LocksAreDropped,
         ClearedStayClear, LocksKeepRowsOut, MinTimeRespected, Cleared, Reports,
         RefusalsStand, FailuresHaveErrors, ClearedAreLegal, Told
<1>2. IInv /\ TypeOK' /\ [Next]_vars => IInv'
  BY Inductive
<1>3. IInv /\ Reports /\ [Next]_vars => Reports'
  BY ReportsInductive DEF IInv
<1>4. IInv /\ TypeOK' /\ Reports /\ [Next]_vars => [Guard!Next]_(Guard!vars)
  BY StepImplements
<1> QED
  BY <1>1, <1>2, <1>3, <1>4, TypeCorrect, PTL DEF Spec, ImplementsGuard, Guard!Spec

---------------------------------------------------------------------------
(***************************************************************************)
(* Whose rows the table holds: those of calls that have ended, and not in  *)
(* a refusal.  While a call is under way its result is an error or none,   *)
(* and none as long as no statement has failed or found a row.             *)
(***************************************************************************)
OwnRows ==
  \A i \in DOMAIN rows : /\ pc[rows[i].by] \in {"returned", "crashed"}
                         /\ result[rows[i].by] # "violates"

RefusedWhileFailing == \A p \in Proc : result[p] = "violates" => pc[p] \in {"failing", "returned"}

NilWhenReturned == \A p \in Proc : result[p] = "nil" => pc[p] = "returned"

NoResultYet ==
  \A p \in Proc : pc[p] \in {"idle", "begun", "cleared", "inserted"} => result[p] = "none"

Outcomes == OwnRows /\ RefusedWhileFailing /\ NilWhenReturned /\ NoResultYet

\* What one call does to the table and to what the calls report.
StepOf(p) ==
  /\ pc[p] \notin {"returned", "crashed"}
  /\ \A o \in Proc \ {p} : pc'[o] = pc[o] /\ result'[o] = result[o]
  /\ result'[p] = "violates" => pc'[p] \in {"failing", "returned"}
  /\ result'[p] = "nil" => pc'[p] = "returned" /\ (rows' = rows => "commit" \in Faults)
  /\ \/ rows' = rows
     \/ /\ req[p] \in Requests
        /\ rows' = Append(rows, [by |-> p, req |-> req[p]])
        /\ pc'[p] = "crashed" \/ (pc'[p] = "returned" /\ result'[p] = "nil")
        /\ result'[p] # "violates"
  /\ pc'[p] # "idle"
  /\ pc'[p] \in {"begun", "cleared", "inserted"} => result'[p] = "none"
  /\ result'[p] = "deadlock" /\ result[p] # "deadlock" => \E o \in Proc \ {p} : pc[o] = "cleared"

(***************************************************************************)
(* A step is the step of one call that has not ended; it changes the table *)
(* only by committing the row of that call, with which the call ends.  It  *)
(* makes a victim only where somebody else was waiting as well.            *)
(***************************************************************************)
LEMMA StepOfOneCall ==
  ASSUME TypeOK, Outcomes, [Next]_vars
  PROVE  (rows' = rows /\ pc' = pc /\ result' = result) \/ \E p \in Proc : StepOf(p)
<1> USE DEF TypeOK, Outcomes, RefusedWhileFailing, NilWhenReturned, NoResultYet
<1>1. ASSUME NEW p \in Proc, NEW q \in Requests, Begin(p, q)
      PROVE  StepOf(p)
  BY <1>1 DEF StepOf, Begin
<1>2. ASSUME NEW p \in Proc, BeginFails(p) \/ IllegalMinDays(p) \/ StatementFails(p)
      PROVE  StepOf(p)
  BY <1>2 DEF StepOf, BeginFails, IllegalMinDays, StatementFails
<1>3. ASSUME NEW p \in Proc, DeadlockVictim(p)
      PROVE  StepOf(p)
  <2>1. PICK S \in SUBSET Proc : p \in S /\ Deadlocked(S)
    BY <1>3 DEF DeadlockVictim
  <2>2. PICK o \in S : InsertWaitsFor(p, o)
    BY <2>1 DEF Deadlocked
  <2>3. o \in Proc \ {p} /\ pc[p] = "cleared" /\ pc[o] = "cleared"
    BY <2>1, <2>2 DEF Deadlocked, InsertWaitsFor
  <2>4. pc' = [pc EXCEPT ![p] = "failing"] /\ result' = [result EXCEPT ![p] = "deadlock"] /\ rows' = rows
    BY <1>3 DEF DeadlockVictim
  <2> QED
    BY <2>3, <2>4 DEF StepOf
<1>4. ASSUME NEW p \in Proc, FindsRecentKill(p) \/ FindsNone(p) \/ SelectCutShort(p) \/ Insert(p)
      PROVE  StepOf(p)
  BY <1>4 DEF StepOf, FindsRecentKill, FindsNone, Select, SelectCutShort, Insert
<1>5. ASSUME NEW p \in Proc, CommitFails(p) \/ Rollback(p) \/ Crash(p)
      PROVE  StepOf(p)
  BY <1>5 DEF StepOf, CommitFails, Rollback, Crash
<1>6. ASSUME NEW p \in Proc, Commit(p) \/ CrashAfterCommit(p)
      PROVE  StepOf(p)
  <2>1. /\ pc[p] = "inserted" /\ req[p] \in Requests /\ rows \in Seq(Entry)
        /\ \A o \in Proc \ {p} : pc'[o] = pc[o] /\ result'[o] = result[o]
        /\ rows' = Append(rows, [by |-> p, req |-> req[p]])
        /\ \/ pc'[p] = "returned" /\ result'[p] = "nil"
           \/ pc'[p] = "crashed" /\ result'[p] = result[p]
    BY <1>6 DEF Commit, CrashAfterCommit
  <2>2. rows' # rows
    BY <2>1, AppendedRow
  <2> QED
    BY <2>1, <2>2 DEF StepOf
<1>7. CASE UNCHANGED vars
  BY <1>7 DEF vars
<1> QED
  BY <1>1, <1>2, <1>3, <1>4, <1>5, <1>6, <1>7 DEF Next, Advance, Trouble, Finished, vars

(***************************************************************************)
(* Outcomes is inductive, whatever faults occur.                           *)
(***************************************************************************)
LEMMA OutcomesInductive ==
  ASSUME TypeOK, Outcomes, [Next]_vars
  PROVE  Outcomes'
<1>1. CASE rows' = rows /\ pc' = pc /\ result' = result
  BY <1>1 DEF Outcomes, OwnRows, RefusedWhileFailing, NilWhenReturned, NoResultYet
<1>2. ASSUME NEW p \in Proc, StepOf(p)
      PROVE  Outcomes'
  <2> USE <1>2 DEF StepOf
  <2>1. RefusedWhileFailing' /\ NilWhenReturned' /\ NoResultYet'
    BY DEF Outcomes, RefusedWhileFailing, NilWhenReturned, NoResultYet
  <2>2. ASSUME NEW i \in DOMAIN rows
        PROVE  /\ rows[i].by \in Proc \ {p}
               /\ pc'[rows[i].by] \in {"returned", "crashed"}
               /\ result'[rows[i].by] # "violates"
    <3>1. rows[i] \in Entry
      BY DEF TypeOK
    <3>2. rows[i].by \in Proc
      BY <3>1 DEF Entry
    <3> QED
      BY <3>2 DEF Outcomes, OwnRows
  <2>3. OwnRows'
    <3>1. CASE rows' = rows
      BY <2>2, <3>1 DEF OwnRows
    <3>2. CASE rows' # rows
      <4>1. /\ DOMAIN rows' = DOMAIN rows \cup {Len(rows) + 1}
            /\ \A i \in DOMAIN rows : rows'[i] = rows[i]
            /\ rows'[Len(rows) + 1].by = p
        <5>1. rows \in Seq(Entry) /\ req[p] \in Requests /\ rows' = Append(rows, [by |-> p, req |-> req[p]])
          BY <3>2 DEF TypeOK
        <5> HIDE DEF StepOf
        <5> QED
          BY ONLY <5>1, AppendedRow
      <4> QED
        BY <2>2, <3>2, <4>1 DEF OwnRows
    <3> QED
      BY <3>1, <3>2
  <2> QED
    BY <2>1, <2>3 DEF Outcomes
<1> QED
  BY <1>1, <1>2, StepOfOneCall

(***************************************************************************)
(* Check reports ErrViolatesMinTime only when a termination that another   *)
(* process committed stands in the way, whatever faults the server has.    *)
(***************************************************************************)
THEOREM RefusalsAreCaused == Spec => []RefusalHasACause
<1>1. Init => Outcomes /\ Reports
  BY DEF Init, Outcomes, OwnRows, RefusedWhileFailing, NilWhenReturned, NoResultYet, Reports,
         RefusalsStand, FailuresHaveErrors, ClearedAreLegal, Cleared
<1>2. TypeOK /\ Outcomes /\ [Next]_vars => Outcomes'
  BY OutcomesInductive
<1>3. TypeOK /\ Reports /\ [Next]_vars => Reports'
  BY ReportsInductive
<1>4. TypeOK /\ Outcomes /\ Reports => RefusalHasACause
  BY DEF Outcomes, OwnRows, RefusedWhileFailing, Reports, RefusalsStand, RefusalHasACause
<1> QED
  BY <1>1, <1>2, <1>3, <1>4, TypeCorrect, PTL DEF Spec

(***************************************************************************)
(* chaosmonkey.Checker's promise that a permitted termination is recorded, *)
(* for a server whose commits do not fail.                                 *)
(***************************************************************************)
THEOREM NothingUnrecorded ==
  ASSUME "commit" \notin Faults
  PROVE  Spec => []NilMeansRecorded
<1>1. Init => Outcomes /\ NilMeansRecorded
  BY DEF Init, Outcomes, OwnRows, RefusedWhileFailing, NilWhenReturned, NoResultYet, NilMeansRecorded
<1>2. TypeOK /\ Outcomes /\ [Next]_vars => Outcomes'
  BY OutcomesInductive
<1>3. TypeOK /\ Outcomes /\ NilMeansRecorded /\ [Next]_vars => NilMeansRecorded'
  <2> SUFFICES ASSUME TypeOK, Outcomes, NilMeansRecorded, [Next]_vars,
                      NEW o \in Proc, result'[o] = "nil"
               PROVE  \E i \in DOMAIN rows' : rows'[i].by = o
    BY DEF NilMeansRecorded
  <2>1. CASE rows' = rows /\ pc' = pc /\ result' = result
    BY <2>1 DEF NilMeansRecorded
  <2>2. ASSUME NEW p \in Proc, StepOf(p)
        PROVE  \E i \in DOMAIN rows' : rows'[i].by = o
    <3> USE <2>2 DEF StepOf
    <3>1. CASE rows' = rows
      BY <3>1 DEF NilMeansRecorded
    <3>2. CASE rows' # rows
      <4>1. /\ DOMAIN rows' = DOMAIN rows \cup {Len(rows) + 1}
            /\ \A i \in DOMAIN rows : rows'[i] = rows[i]
            /\ rows'[Len(rows) + 1].by = p
        <5>1. rows \in Seq(Entry) /\ req[p] \in Requests /\ rows' = Append(rows, [by |-> p, req |-> req[p]])
          BY <3>2 DEF TypeOK
        <5> HIDE DEF StepOf
        <5> QED
          BY ONLY <5>1, AppendedRow
      <4>2. CASE o = p
        BY <4>1, <4>2
      <4>3. CASE o # p
        BY <4>1, <4>3 DEF NilMeansRecorded
      <4> QED
        BY <4>2, <4>3
    <3> QED
      BY <3>1, <3>2
  <2> QED
    BY <2>1, <2>2, StepOfOneCall
<1> QED
  BY <1>1, <1>2, <1>3, TypeCorrect, PTL DEF Spec

---------------------------------------------------------------------------
(***************************************************************************)
(* Why rivals do not all lose: whoever has a row was told nil, or died;    *)
(* and a deadlock makes a victim of a call only while another call, which  *)
(* waits in the same circle, has no result yet.                            *)
(***************************************************************************)
RowsOfWinners ==
  \A i \in DOMAIN rows : pc[rows[i].by] = "crashed" \/ result[rows[i].by] = "nil"

NotAllAreVictims == Proc # {} => \E p \in Proc : result[p] # "deadlock"

Rivalry == RowsOfWinners /\ NotAllAreVictims

LEMMA RivalryInductive ==
  ASSUME TypeOK, Outcomes, Rivalry, [Next]_vars
  PROVE  Rivalry'
<1>1. CASE rows' = rows /\ pc' = pc /\ result' = result
  BY <1>1 DEF Rivalry, RowsOfWinners, NotAllAreVictims
<1>2. ASSUME NEW p \in Proc, StepOf(p)
      PROVE  Rivalry'
  <2> USE <1>2 DEF StepOf
  <2>1. NotAllAreVictims'
    BY DEF Rivalry, NotAllAreVictims, Outcomes, NoResultYet
  <2>2. ASSUME NEW i \in DOMAIN rows
        PROVE  /\ rows[i].by \in Proc \ {p}
               /\ pc'[rows[i].by] = "crashed" \/ result'[rows[i].by] = "nil"
    <3>1. rows[i] \in Entry
      BY DEF TypeOK
    <3>2. rows[i].by \in Proc
      BY <3>1 DEF Entry
    <3>3. rows[i].by # p
      BY <3>2 DEF Outcomes, OwnRows
    <3> QED
      BY <3>2, <3>3 DEF Rivalry, RowsOfWinners
  <2>3. RowsOfWinners'
    <3>1. CASE rows' = rows
      BY <2>2, <3>1 DEF RowsOfWinners
    <3>2. CASE rows' # rows
      <4>1. /\ DOMAIN rows' = DOMAIN rows \cup {Len(rows) + 1}
            /\ \A i \in DOMAIN rows : rows'[i] = rows[i]
            /\ rows'[Len(rows) + 1].by = p
        <5>1. rows \in Seq(Entry) /\ req[p] \in Requests /\ rows' = Append(rows, [by |-> p, req |-> req[p]])
          BY <3>2 DEF TypeOK
        <5> HIDE DEF StepOf
        <5> QED
          BY ONLY <5>1, AppendedRow
      <4> QED
        BY <2>2, <3>2, <4>1 DEF RowsOfWinners
    <3> QED
      BY <3>1, <3>2
  <2> QED
    BY <2>1, <2>3 DEF Rivalry
<1> QED
  BY <1>1, <1>2, StepOfOneCall

(***************************************************************************)
(* TestConcurrentChecks, for any number of processes and any faults.       *)
(***************************************************************************)
THEOREM RivalsDoNotAllLose ==
  ASSUME Proc # {}
  PROVE  Spec => []SomebodyWins
<1>1. Init => Rivalry /\ Outcomes /\ Reports
  BY DEF Init, Rivalry, RowsOfWinners, NotAllAreVictims, Outcomes, OwnRows,
         RefusedWhileFailing, NilWhenReturned, NoResultYet, Reports, RefusalsStand, FailuresHaveErrors,
         ClearedAreLegal, Cleared
<1>2. TypeOK /\ Outcomes /\ [Next]_vars => Outcomes'
  BY OutcomesInductive
<1>3. TypeOK /\ Reports /\ [Next]_vars => Reports'
  BY ReportsInductive
<1>4. TypeOK /\ Outcomes /\ Rivalry /\ [Next]_vars => Rivalry'
  BY RivalryInductive
<1>5. TypeOK /\ Reports /\ Rivalry => SomebodyWins
  <2> SUFFICES ASSUME TypeOK, Reports, Rivalry,
                      \A p \in Proc : pc[p] = "returned" /\ result[p] \in {"nil", "violates", "deadlock"}
               PROVE  \E p \in Proc : result[p] = "nil"
    BY DEF SomebodyWins
  <2>1. PICK p \in Proc : result[p] # "deadlock"
    BY DEF Rivalry, NotAllAreVictims
  <2>2. CASE result[p] = "violates"
    <3>1. PICK i \in DOMAIN rows : TRUE
      BY <2>2 DEF Reports, RefusalsStand
    <3>2. rows[i] \in Entry
      BY DEF TypeOK
    <3>3. rows[i].by \in Proc
      BY <3>2 DEF Entry
    <3> QED
      BY <3>3 DEF Rivalry, RowsOfWinners
  <2> QED
    BY <2>1, <2>2
<1> QED
  BY <1>1, <1>2, <1>3, <1>4, <1>5, TypeCorrect, PTL DEF Spec

---------------------------------------------------------------------------
(***************************************************************************)
(* The threshold.  NoKillsSince is a recursive function on the calendar;   *)
(* its value is the end of the working day that lies that many working     *)
(* days back.  The provers have no induction on recursive functions, so    *)
(* the proof has two halves: that closed form obeys the recursion, and     *)
(* nothing else does, as there is no least call on which another solution  *)
(* could differ.                                                           *)
(***************************************************************************)

(***************************************************************************)
(* A set of natural numbers that is not empty has a least element.         *)
(***************************************************************************)
LEMMA LeastElement ==
  ASSUME NEW S, S \subseteq Nat, S # {}
  PROVE  \E m \in S : \A k \in S : m <= k
<1>1. PICK m \in S : \A k \in S : ~(<<k, m>> \in OpToRel(<, Nat))
  BY NatLessThanWellFounded, WFMin
<1>2. \A k \in S : ~(k < m)
  BY <1>1 DEF OpToRel
<1> QED
  BY <1>2

\* The number of the last working day up to day d, counted from the first Monday.
WorkdayIndex(d) == 5 * (d \div 7) + (IF IsWorkingDay(d) THEN d % 7 ELSE 4)

\* The working day of that number.
WorkdayAt(k) == 7 * (k \div 5) + (k % 5)

(***************************************************************************)
(* Stepping back one day steps back one working day from a working day,    *)
(* and none from a weekend, which counts as the Friday before it.          *)
(***************************************************************************)
LEMMA Counting ==
  ASSUME NEW d \in Int
  PROVE  /\ WorkdayIndex(d) \in Int
         /\ WorkdayIndex(d - 1) = WorkdayIndex(d) - (IF IsWorkingDay(d) THEN 1 ELSE 0)
         /\ WorkdayAt(WorkdayIndex(d)) \in d - 2 .. d
         /\ IsWorkingDay(d) => WorkdayAt(WorkdayIndex(d)) = d
  BY DEF WorkdayIndex, WorkdayAt, IsWorkingDay

(***************************************************************************)
(* The numbers of the working days are all the integers.                   *)
(***************************************************************************)
LEMMA CountingBack ==
  ASSUME NEW k \in Int
  PROVE  /\ WorkdayAt(k) \in Int
         /\ WorkdayAt(k - 1) \in WorkdayAt(k) - 3 .. WorkdayAt(k) - 1
         /\ IsWorkingDay(WorkdayAt(k))
         /\ WorkdayIndex(WorkdayAt(k)) = k
  BY DEF WorkdayIndex, WorkdayAt, IsWorkingDay

(***************************************************************************)
(* The numbering follows the calendar.                                     *)
(***************************************************************************)
LEMMA CountingIsMonotonic ==
  ASSUME NEW i \in Int, NEW k \in Int
  PROVE  /\ i <= k => WorkdayAt(i) <= WorkdayAt(k) /\ WorkdayIndex(i) <= WorkdayIndex(k)
         /\ i < k => WorkdayAt(i) < WorkdayAt(k)
  BY DEF WorkdayIndex, WorkdayAt, IsWorkingDay

\* The clock changes among S before day d.
Before(S, d) == {x \in S : x < d}

(***************************************************************************)
(* How their number grows from one day to the next.                        *)
(***************************************************************************)
LEMMA Filtered ==
  ASSUME NEW S, IsFiniteSet(S), S \subseteq Nat, NEW d \in Int
  PROVE  /\ Cardinality(Before(S, d)) \in 0 .. Cardinality(S)
         /\ Cardinality(S) \in Nat
         /\ Cardinality(Before(S, d + 1)) = Cardinality(Before(S, d)) + (IF d \in S THEN 1 ELSE 0)
<1>1. Before(S, d) \subseteq S
  BY DEF Before
<1>2. /\ IsFiniteSet(Before(S, d)) /\ Cardinality(Before(S, d)) \in Nat
      /\ Cardinality(S) \in Nat /\ Cardinality(Before(S, d)) <= Cardinality(S)
  BY <1>1, FS_Subset, FS_CardinalityType
<1>3. \A x \in S : x < d + 1 <=> x < d \/ x = d
  OBVIOUS
<1>4. d \notin Before(S, d)
  BY DEF Before
<1>5. CASE d \in S
  <2>1. Before(S, d + 1) = Before(S, d) \cup {d}
    BY <1>3, <1>5 DEF Before
  <2> QED
    BY <2>1, <1>2, <1>4, <1>5, FS_AddElement
<1>6. CASE d \notin S
  <2>1. Before(S, d + 1) = Before(S, d)
    BY <1>3, <1>6 DEF Before
  <2> QED
    BY <2>1, <1>2, <1>6
<1> QED
  BY <1>5, <1>6

(***************************************************************************)
(* How far the start of a day can be from 24 hours times its number.       *)
(***************************************************************************)
LEMMA ClockChangesAreFew ==
  ASSUME NEW d \in Int
  PROVE  /\ DayStart(d) = OneDay * d + Cardinality(Before(LongDays, d))
                                     - Cardinality(Before(ShortDays, d))
         /\ Cardinality(Before(LongDays, d)) \in 0 .. Cardinality(LongDays)
         /\ Cardinality(Before(ShortDays, d)) \in 0 .. Cardinality(ShortDays)
         /\ Cardinality(LongDays) \in Nat /\ Cardinality(ShortDays) \in Nat
         /\ Cardinality(ShortDays) + Cardinality(LongDays) <= 8
         /\ DayStart(d) \in Int
<1>1. DayStart(d) = OneDay * d + Cardinality(Before(LongDays, d))
                              - Cardinality(Before(ShortDays, d))
  BY DEF DayStart, Before
<1>2. /\ Cardinality(Before(LongDays, d)) \in 0 .. Cardinality(LongDays)
      /\ Cardinality(LongDays) \in Nat
  BY ClockChanges, Filtered
<1>3. /\ Cardinality(Before(ShortDays, d)) \in 0 .. Cardinality(ShortDays)
      /\ Cardinality(ShortDays) \in Nat
  BY ClockChanges, Filtered
<1>4. Cardinality(ShortDays) + Cardinality(LongDays) <= 8
  BY ClockChanges
<1>5. DayStart(d) \in Int
  BY <1>1, <1>2, <1>3 DEF OneDay
<1> QED
  BY <1>1, <1>2, <1>3, <1>4, <1>5

(***************************************************************************)
(* A day starts at most eight hours from 24 times its number, and lasts 24 *)
(* hours but for the clock changes.                                        *)
(***************************************************************************)
LEMMA Days ==
  ASSUME NEW d \in Int
  PROVE  /\ DayStart(d) \in Int
         /\ -8 <= DayStart(d) - OneDay * d /\ DayStart(d) - OneDay * d <= 8
         /\ DayStart(d + 1) - DayStart(d) = OneDay + (IF d \in LongDays THEN 1 ELSE 0)
                                                   - (IF d \in ShortDays THEN 1 ELSE 0)
<1>1. Cardinality(Before(LongDays, d + 1)) =
        Cardinality(Before(LongDays, d)) + (IF d \in LongDays THEN 1 ELSE 0)
  BY ClockChanges, Filtered
<1>2. Cardinality(Before(ShortDays, d + 1)) =
        Cardinality(Before(ShortDays, d)) + (IF d \in ShortDays THEN 1 ELSE 0)
  BY ClockChanges, Filtered
<1> DEFINE l == Cardinality(Before(LongDays, d))
           s == Cardinality(Before(ShortDays, d))
<1>3. /\ DayStart(d) = OneDay * d + l - s /\ DayStart(d) \in Int
      /\ l \in Int /\ s \in Int /\ 0 <= l /\ l <= 8 /\ 0 <= s /\ s <= 8
  <2>1. l \in 0 .. Cardinality(LongDays) /\ s \in 0 .. Cardinality(ShortDays)
    BY ClockChangesAreFew
  <2>2. /\ DayStart(d) = OneDay * d + l - s /\ DayStart(d) \in Int
        /\ Cardinality(LongDays) \in Nat /\ Cardinality(ShortDays) \in Nat
        /\ Cardinality(ShortDays) + Cardinality(LongDays) <= 8
    BY ClockChangesAreFew
  <2> HIDE DEF l, s
  <2> QED
    BY <2>1, <2>2
<1>4. DayStart(d + 1) = OneDay * (d + 1) + (l + (IF d \in LongDays THEN 1 ELSE 0))
                                         - (s + (IF d \in ShortDays THEN 1 ELSE 0))
  <2>1. DayStart(d + 1) = OneDay * (d + 1) + Cardinality(Before(LongDays, d + 1))
                                           - Cardinality(Before(ShortDays, d + 1))
    BY ClockChangesAreFew
  <2> QED
    BY <2>1, <1>1, <1>2
<1> HIDE DEF l, s
<1> QED
  BY <1>3, <1>4 DEF OneDay

(***************************************************************************)
(* Days start one after another.                                           *)
(***************************************************************************)
LEMMA DaysFollow ==
  ASSUME NEW c \in Int, NEW d \in Int, c < d
  PROVE  DayStart(c) < DayStart(d)
  BY ClockChangesAreFew DEF OneDay

(***************************************************************************)
(* Every instant lies in its day.                                          *)
(***************************************************************************)
LEMMA TheDayOfAnInstant ==
  ASSUME NEW t \in Int
  PROVE  /\ DayOf(t) \in Int
         /\ DayStart(DayOf(t)) <= t /\ t < DayStart(DayOf(t) + 1)
<1> DEFINE c == t \div OneDay
<1>1. c \in Int /\ OneDay * c <= t /\ t < OneDay * (c + 1)
  BY DEF OneDay
<1> HIDE DEF c
<1>2. DayStart(c - 1) <= t /\ t < DayStart(c + 2)
  <2>1. DayStart(c - 1) \in Int /\ -8 <= DayStart(c - 1) - OneDay * (c - 1) /\ DayStart(c - 1) - OneDay * (c - 1) <= 8
    <3>1. c - 1 \in Int
      BY <1>1
    <3> QED
      BY <3>1, Days, SMTT(30)
  <2>2. DayStart(c + 2) \in Int /\ -8 <= DayStart(c + 2) - OneDay * (c + 2) /\ DayStart(c + 2) - OneDay * (c + 2) <= 8
    BY <1>1, Days
  <2> QED
    BY <1>1, <2>1, <2>2 DEF OneDay
<1>3. \A d \in Int : DayStart(d) \in Int
  BY Days
<1>4. \E d \in c - 1 .. c + 1 : DayStart(d) <= t /\ t < DayStart(d + 1)
  <2>1. CASE t < DayStart(c)
    <3>1. t < DayStart((c - 1) + 1) /\ c - 1 \in c - 1 .. c + 1
      BY <1>1, <2>1
    <3> QED
      BY <3>1, <1>2
  <2>2. CASE DayStart(c) <= t /\ t < DayStart(c + 1)
    BY <1>1, <2>2
  <2>3. CASE DayStart(c + 1) <= t
    <3>1. t < DayStart((c + 1) + 1) /\ c + 1 \in c - 1 .. c + 1
      BY <1>1, <1>2
    <3> QED
      BY <3>1, <2>3
  <2> QED
    BY <1>1, <1>3, <2>1, <2>2, <2>3
<1>5. DayOf(t) \in c - 1 .. c + 1 /\ DayStart(DayOf(t)) <= t /\ t < DayStart(DayOf(t) + 1)
  BY <1>4 DEF DayOf, c
<1> QED
  BY <1>1, <1>5

(***************************************************************************)
(* An instant after the start of day c and before the end of day d is on a *)
(* day from c to d.                                                        *)
(***************************************************************************)
LEMMA TheDayIsUnique ==
  ASSUME NEW t \in Int, NEW c \in Int, DayStart(c) <= t, NEW d \in Int, t < DayStart(d + 1)
  PROVE  c <= DayOf(t) /\ DayOf(t) <= d
<1>1. \A x \in Int : DayStart(x) \in Int
  BY Days
<1>2. ~(DayOf(t) + 1 <= c)
  <2>1. SUFFICES ASSUME DayOf(t) + 1 <= c PROVE FALSE
    OBVIOUS
  <2>2. DayStart(DayOf(t) + 1) <= DayStart(c)
    <3>1. DayOf(t) \in Int
      BY TheDayOfAnInstant
    <3>2. CASE DayOf(t) + 1 = c
      BY <1>1, <3>2
    <3>3. CASE DayOf(t) + 1 < c
      BY <1>1, <3>1, <3>3, DaysFollow
    <3> QED
      BY <3>1, <3>2, <3>3, <2>1
  <2> QED
    BY <1>1, <2>2, TheDayOfAnInstant
<1>3. ~(d + 1 <= DayOf(t))
  <2>1. SUFFICES ASSUME d + 1 <= DayOf(t) PROVE FALSE
    OBVIOUS
  <2>2. DayStart(d + 1) <= DayStart(DayOf(t))
    <3>1. DayOf(t) \in Int
      BY TheDayOfAnInstant
    <3>2. CASE d + 1 = DayOf(t)
      BY <1>1, <3>2
    <3>3. CASE d + 1 < DayOf(t)
      BY <1>1, <3>1, <3>3, DaysFollow
    <3> QED
      BY <3>1, <3>2, <3>3, <2>1
  <2> QED
    BY <1>1, <2>2, TheDayOfAnInstant
<1> QED
  BY <1>2, <1>3, TheDayOfAnInstant

\* As the zones of America and Europe have it; see the README for what happens otherwise.
ClocksChangeAtWeekends == \A d \in ShortDays \cup LongDays : ~IsWorkingDay(d)

(***************************************************************************)
(* Working days last 24 hours, the others up to an hour more or less.      *)
(***************************************************************************)
LEMMA LengthsOfDays ==
  ASSUME ClocksChangeAtWeekends, NEW d \in Int
  PROVE  /\ DayStart(d) \in Int /\ DayStart(d + 1) \in Int
         /\ IsWorkingDay(d) => DayStart(d + 1) = DayStart(d) + OneDay
         /\ DayStart(d + 1) <= DayStart(d) + OneDay + 1
         /\ DayStart(d + 1) >= DayStart(d) + OneDay - 1
<1>1. /\ DayStart(d) \in Int /\ DayStart(d + 1) \in Int
      /\ DayStart(d + 1) - DayStart(d) = OneDay + (IF d \in LongDays THEN 1 ELSE 0)
                                                - (IF d \in ShortDays THEN 1 ELSE 0)
  BY Days
<1>2. IsWorkingDay(d) => d \notin LongDays /\ d \notin ShortDays
  BY DEF ClocksChangeAtWeekends
<1> QED
  BY <1>1, <1>2 DEF OneDay

(***************************************************************************)
(* Subtracting 24 hours, as noKillsSince does, steps back one working day  *)
(* from an instant of a working day, and none from an instant of a         *)
(* weekend, although at a clock change it may skip a day or stay on the    *)
(* same one.                                                               *)
(***************************************************************************)
LEMMA OneDayEarlier ==
  ASSUME ClocksChangeAtWeekends, NEW t \in Int
  PROVE  WorkdayIndex(DayOf(t - OneDay)) =
           WorkdayIndex(DayOf(t)) - (IF IsWorkday(t) THEN 1 ELSE 0)
<1> DEFINE d == DayOf(t)
           e == DayOf(t - OneDay)
<1>1. d \in Int /\ DayStart(d) <= t /\ t < DayStart(d + 1)
  BY TheDayOfAnInstant
<1>2. t - OneDay \in Int /\ t - OneDay = t - 24
  BY DEF OneDay
<1>3. e \in Int
  BY <1>2, TheDayOfAnInstant
<1>4. \A c, f \in Int : DayStart(c) <= t - OneDay /\ t - OneDay < DayStart(f + 1) => c <= e /\ e <= f
  BY <1>2, TheDayIsUnique
<1>5. IsWorkday(t) <=> IsWorkingDay(d)
  BY DEF IsWorkday
<1> HIDE DEF d, e
<1>6. \A x \in Int : /\ DayStart(x) \in Int
                     /\ IsWorkingDay(x) => DayStart(x + 1) = DayStart(x) + 24
                     /\ DayStart(x + 1) <= DayStart(x) + 25
                     /\ DayStart(x + 1) >= DayStart(x) + 23
  BY LengthsOfDays DEF OneDay
<1>7. /\ DayStart(d) \in Int /\ DayStart(d - 1) \in Int /\ DayStart(d - 2) \in Int
      /\ DayStart(d + 1) \in Int
      /\ DayStart(d + 1) <= DayStart(d) + 25 /\ DayStart(d + 1) >= DayStart(d) + 23
      /\ IsWorkingDay(d) => DayStart(d + 1) = DayStart(d) + 24
      /\ DayStart(d) <= DayStart(d - 1) + 25 /\ DayStart(d) >= DayStart(d - 1) + 23
      /\ IsWorkingDay(d - 1) => DayStart(d) = DayStart(d - 1) + 24
      /\ DayStart(d - 1) <= DayStart(d - 2) + 25 /\ DayStart(d - 1) >= DayStart(d - 2) + 23
      /\ IsWorkingDay(d - 2) => DayStart(d - 1) = DayStart(d - 2) + 24
  <2>1. d - 1 \in Int /\ d - 2 \in Int /\ (d - 1) + 1 = d /\ (d - 2) + 1 = d - 1
    BY <1>1
  <2>2. /\ DayStart(d) \in Int /\ DayStart(d + 1) \in Int
        /\ DayStart(d + 1) <= DayStart(d) + 25 /\ DayStart(d + 1) >= DayStart(d) + 23
        /\ IsWorkingDay(d) => DayStart(d + 1) = DayStart(d) + 24
    BY <1>1, <1>6
  <2>3. /\ DayStart(d - 1) \in Int
        /\ DayStart((d - 1) + 1) <= DayStart(d - 1) + 25
        /\ DayStart((d - 1) + 1) >= DayStart(d - 1) + 23
        /\ IsWorkingDay(d - 1) => DayStart((d - 1) + 1) = DayStart(d - 1) + 24
    BY <2>1, <1>6
  <2>4. /\ DayStart(d - 2) \in Int
        /\ DayStart((d - 2) + 1) <= DayStart(d - 2) + 25
        /\ DayStart((d - 2) + 1) >= DayStart(d - 2) + 23
        /\ IsWorkingDay(d - 2) => DayStart((d - 2) + 1) = DayStart(d - 2) + 24
    BY <2>1, <1>6
  <2> QED
    BY <2>1, <2>2, <2>3, <2>4
<1>8. CASE IsWorkingDay(d) /\ IsWorkingDay(d - 1)
  <2>1. DayStart(d - 1) <= t - 24 /\ t - 24 < DayStart((d - 1) + 1)
    BY <1>1, <1>7, <1>8
  <2>2. e = d - 1
    BY <1>1, <1>2, <1>3, <1>4, <2>1
  <2> QED
    BY <2>2, <1>1, <1>8, <1>5, Counting DEF d, e
<1>9. CASE IsWorkingDay(d) /\ ~IsWorkingDay(d - 1)
  <2>1. DayStart(d - 2) <= t - 24 /\ t - 24 < DayStart((d - 1) + 1)
    BY <1>1, <1>7, <1>9
  <2>2. e = d - 1 \/ e = d - 2
    BY <1>1, <1>2, <1>3, <1>4, <2>1
  <2>3. WorkdayIndex(d - 1) = WorkdayIndex(d) - 1 /\ WorkdayIndex(d - 2) = WorkdayIndex(d) - 1
    BY <1>1, <1>9 DEF WorkdayIndex, IsWorkingDay
  <2> QED
    BY <2>2, <2>3, <1>9, <1>5 DEF d, e
<1>10. CASE ~IsWorkingDay(d) /\ IsWorkingDay(d - 1)
  <2>1. DayStart(d - 1) <= t - 24 /\ t - 24 < DayStart(d + 1)
    BY <1>1, <1>7, <1>10
  <2>2. e = d - 1 \/ e = d
    BY <1>1, <1>2, <1>3, <1>4, <2>1
  <2>3. WorkdayIndex(d - 1) = WorkdayIndex(d)
    BY <1>1, <1>10 DEF WorkdayIndex, IsWorkingDay
  <2>4. WorkdayIndex(d) \in Int
    BY <1>1, Counting
  <2> QED
    BY <2>2, <2>3, <2>4, <1>10, <1>5 DEF d, e
<1>11. CASE ~IsWorkingDay(d) /\ ~IsWorkingDay(d - 1)
  <2>0. IsWorkingDay(d - 2)
    BY <1>1, <1>11 DEF IsWorkingDay
  <2>1. DayStart(d - 2) <= t - 24 /\ t - 24 < DayStart(d + 1)
    BY <1>1, <1>7, <2>0
  <2>2. e = d - 1 \/ e = d \/ e = d - 2
    BY <1>1, <1>2, <1>3, <1>4, <2>1
  <2>3. WorkdayIndex(d - 1) = WorkdayIndex(d) /\ WorkdayIndex(d - 2) = WorkdayIndex(d)
    BY <1>1, <1>11 DEF WorkdayIndex, IsWorkingDay
  <2>4. WorkdayIndex(d) \in Int
    BY <1>1, Counting
  <2> QED
    BY <2>2, <2>3, <2>4, <1>11, <1>5 DEF d, e
<1> QED
  BY <1>8, <1>9, <1>10, <1>11

\* The end of the working day that lies n working days before that of t.
EndOfWorkday(n, t, e) == AtHour(WorkdayAt(WorkdayIndex(DayOf(t)) - n), e)

(***************************************************************************)
(* EndOfWorkday obeys the equation of the recursion.                       *)
(***************************************************************************)
LEMMA EndsAgree ==
  ASSUME ClocksChangeAtWeekends, NEW e \in Int, NEW n \in Nat, NEW t \in Int
  PROVE  EndOfWorkday(n, t, e) =
           IF ~IsWorkday(t) THEN EndOfWorkday(n, t - OneDay, e)
           ELSE IF n = 0 THEN AtHour(DayOf(t), e)
           ELSE EndOfWorkday(n - 1, t - OneDay, e)
<1>1. /\ t - OneDay \in Int /\ DayOf(t) \in Int /\ DayOf(t - OneDay) \in Int
  BY TheDayOfAnInstant DEF OneDay
<1>2. WorkdayIndex(DayOf(t)) \in Int /\ WorkdayIndex(DayOf(t - OneDay)) \in Int
  BY <1>1, Counting
<1>3. CASE ~IsWorkday(t)
  BY <1>2, <1>3, OneDayEarlier DEF EndOfWorkday
<1>4. CASE IsWorkday(t) /\ n = 0
  BY <1>1, <1>2, <1>4, Counting DEF EndOfWorkday, IsWorkday
<1>5. CASE IsWorkday(t) /\ n # 0
  <2>1. WorkdayIndex(DayOf(t - OneDay)) - (n - 1) = WorkdayIndex(DayOf(t)) - n
    BY <1>2, <1>5, OneDayEarlier
  <2> QED
    BY <2>1, <1>5 DEF EndOfWorkday
<1> QED
  BY <1>3, <1>4, <1>5

\* h satisfies the equation that defines the helper of NoKillsSince.
Recursion(h, e) ==
  h = [call \in Nat \X Int |->
        LET n == call[1]
            t == call[2]
        IN  IF ~IsWorkday(t) THEN h[<<n, t - OneDay>>]
            ELSE IF n = 0    THEN AtHour(DayOf(t), e)
            ELSE h[<<n - 1, t - OneDay>>]]

(***************************************************************************)
(* The recursive function exists: EndOfWorkday is one.                     *)
(***************************************************************************)
LEMMA TheRecursionHasASolution ==
  ASSUME ClocksChangeAtWeekends, NEW e \in Int
  PROVE  \E h : Recursion(h, e)
<1> DEFINE g == [call \in Nat \X Int |-> EndOfWorkday(call[1], call[2], e)]
           step(call) == LET n == call[1]
                             t == call[2]
                         IN  IF ~IsWorkday(t) THEN g[<<n, t - OneDay>>]
                             ELSE IF n = 0    THEN AtHour(DayOf(t), e)
                             ELSE g[<<n - 1, t - OneDay>>]
<1>1. \A n \in Nat, t \in Int : g[<<n, t>>] = EndOfWorkday(n, t, e)
  OBVIOUS
<1>2. ASSUME NEW call \in Nat \X Int
      PROVE  EndOfWorkday(call[1], call[2], e) = step(call)
  <2>1. PICK n \in Nat, t \in Int : call = <<n, t>>
    OBVIOUS
  <2>2. t - OneDay \in Int /\ (n # 0 => n - 1 \in Nat)
    BY DEF OneDay
  <2>3. g[<<n, t - OneDay>>] = EndOfWorkday(n, t - OneDay, e)
    BY <2>2, <1>1
  <2>4. n # 0 => g[<<n - 1, t - OneDay>>] = EndOfWorkday(n - 1, t - OneDay, e)
    BY <2>2, <1>1
  <2>5. call[1] = n /\ call[2] = t
    BY <2>1
  <2> HIDE DEF g
  <2> QED
    BY <2>3, <2>4, <2>5, EndsAgree
<1>3. g = [call \in Nat \X Int |-> step(call)]
  BY <1>2
<1> HIDE DEF g
<1> QED
  BY <1>3 DEF Recursion

(***************************************************************************)
(* It is the only one.  Each call of the recursion makes 100 * n plus the  *)
(* hours since the last working day began smaller; if another solution     *)
(* differed somewhere, it would differ at a call where this measure is     *)
(* least, and the call it makes there would be smaller.                    *)
(***************************************************************************)
LEMMA TheSolutionIsUnique ==
  ASSUME ClocksChangeAtWeekends, NEW e \in Int, NEW h, Recursion(h, e),
         NEW n0 \in Nat, NEW t0 \in Int
  PROVE  h[<<n0, t0>>] = EndOfWorkday(n0, t0, e)
<1> DEFINE Start(t) == DayStart(WorkdayAt(WorkdayIndex(DayOf(t))))
           Measure(n, t) == 100 * n + (t - Start(t))
           Wrong(n, t) == h[<<n, t>>] # EndOfWorkday(n, t, e)
           Counter == {m \in Nat : \E n \in Nat, t \in Int : m = Measure(n, t) /\ Wrong(n, t)}
<1>1. \A n \in Nat, t \in Int :
        h[<<n, t>>] = IF ~IsWorkday(t) THEN h[<<n, t - OneDay>>]
                      ELSE IF n = 0    THEN AtHour(DayOf(t), e)
                      ELSE h[<<n - 1, t - OneDay>>]
  BY DEF Recursion
<1>2. ASSUME NEW n \in Nat, NEW t \in Int
      PROVE  /\ Measure(n, t) \in Nat
             /\ ~IsWorkday(t) => Measure(n, t - OneDay) < Measure(n, t)
             /\ IsWorkday(t) => Measure(n - 1, t - OneDay) < Measure(n, t)
  <2> DEFINE d == DayOf(t)
             i == WorkdayIndex(d)
  <2>1. d \in Int /\ DayStart(d) <= t /\ t - OneDay \in Int
    BY TheDayOfAnInstant DEF OneDay
  <2>2. i \in Int /\ WorkdayAt(i) \in d - 2 .. d /\ (IsWorkday(t) => WorkdayAt(i) = d)
    BY <2>1, Counting DEF IsWorkday
  <2>3. DayStart(d) \in Int /\ DayStart(WorkdayAt(i)) \in Int /\ DayStart(WorkdayAt(i)) <= DayStart(d)
    <3> HIDE DEF d, i
    <3>1. CASE WorkdayAt(i) = d
      BY <2>1, <3>1, Days
    <3>2. CASE WorkdayAt(i) < d
      BY <2>1, <2>2, <3>2, Days, DaysFollow
    <3> QED
      BY <2>1, <2>2, <3>1, <3>2
  <2>4. Start(t) \in Int /\ Start(t) <= t
    BY <2>1, <2>3
  <2>5. Start(t - OneDay) = DayStart(WorkdayAt(i - (IF IsWorkday(t) THEN 1 ELSE 0)))
    BY OneDayEarlier
  <2>6. ASSUME ~IsWorkday(t) PROVE Measure(n, t - OneDay) < Measure(n, t)
    <3>1. Start(t - OneDay) = Start(t)
      BY <2>2, <2>5, <2>6
    <3> HIDE DEF Start
    <3> QED
      BY <3>1, <2>4 DEF OneDay
  <2>7. ASSUME IsWorkday(t) PROVE Measure(n - 1, t - OneDay) < Measure(n, t)
    <3>1. Start(t - OneDay) = DayStart(WorkdayAt(i - 1)) /\ Start(t) = DayStart(d)
      BY <2>2, <2>5, <2>7
    <3>2. WorkdayAt(i - 1) \in d - 3 .. d - 1
      BY <2>2, <2>7, CountingBack
    <3>3. DayStart(WorkdayAt(i - 1)) >= DayStart(d) - 100 /\ DayStart(WorkdayAt(i - 1)) \in Int
      <4> DEFINE c == WorkdayAt(i - 1)
      <4>1. /\ DayStart(c) \in Int /\ -8 <= DayStart(c) - OneDay * c
            /\ DayStart(d) \in Int /\ DayStart(d) - OneDay * d <= 8
        BY <3>2, <2>1, Days
      <4> HIDE DEF c, d
      <4> QED
        BY <4>1, <3>2, <2>1 DEF OneDay, c
    <3> HIDE DEF Start, d, i
    <3> QED
      BY <3>1, <3>3, <2>1, <2>3 DEF OneDay
  <2>8. Measure(n, t) \in Nat
    <3> HIDE DEF Start
    <3> QED
      BY <2>4
  <2> QED
    BY <2>6, <2>7, <2>8
<1>3. ASSUME NEW n \in Nat, NEW t \in Int, Wrong(n, t)
      PROVE  \E k \in Counter : k < Measure(n, t)
  <2>1. t - OneDay \in Int
    BY DEF OneDay
  <2>2. CASE ~IsWorkday(t)
    <3>1. Wrong(n, t - OneDay)
      BY <1>1, <1>3, <2>2, EndsAgree
    <3>2. Measure(n, t - OneDay) \in Counter
      <4> HIDE DEF Measure, Wrong
      <4> QED
        BY <3>1, <2>1, <1>2
    <3> HIDE DEF Counter, Measure
    <3> QED
      BY <3>2, <1>2, <2>2
  <2>3. CASE IsWorkday(t)
    <3>1. n # 0
      BY <1>1, <1>3, <2>3, EndsAgree
    <3>2. n - 1 \in Nat
      BY <3>1
    <3>3. Wrong(n - 1, t - OneDay)
      BY <1>1, <1>3, <2>3, <3>1, EndsAgree
    <3>4. Measure(n - 1, t - OneDay) \in Counter
      <4> HIDE DEF Measure, Wrong
      <4> QED
        BY <3>3, <2>1, <3>2, <1>2
    <3> HIDE DEF Counter, Measure
    <3> QED
      BY <3>4, <1>2, <2>3
  <2> QED
    BY <2>2, <2>3
<1>4. Counter = {}
  <2>1. SUFFICES ASSUME Counter # {} PROVE FALSE
    OBVIOUS
  <2>2. Counter \subseteq Nat
    OBVIOUS
  <2>3. PICK m \in Counter : \A k \in Counter : m <= k
    <3> HIDE DEF Counter
    <3> QED
      BY <2>1, <2>2, LeastElement
  <2>4. PICK n \in Nat, t \in Int : m = Measure(n, t) /\ Wrong(n, t)
    BY <2>3
  <2>5. PICK k \in Counter : k < m
    BY <2>4, <1>3
  <2> HIDE DEF Counter
  <2> QED
    BY <2>2, <2>3, <2>5
<1> HIDE DEF Measure, Wrong
<1>5. ~Wrong(n0, t0)
  BY <1>2, <1>4
<1> QED
  BY <1>5 DEF Wrong

(***************************************************************************)
(* What noKillsSince computes, for every setting, instant and end of the   *)
(* working day.                                                            *)
(***************************************************************************)
THEOREM TheThreshold ==
  ASSUME ClocksChangeAtWeekends, NEW e \in Int, NEW n0 \in Nat, NEW t0 \in Int
  PROVE  NoKillsSince(n0, t0, e) = EndOfWorkday(n0, t0, e)
<1> DEFINE h == CHOOSE f : Recursion(f, e)
<1>1. Recursion(h, e)
  BY TheRecursionHasASolution
<1>2. NoKillsSince(n0, t0, e) = h[<<n0, t0>>]
  BY DEF NoKillsSince, Recursion
<1> HIDE DEF h
<1> QED
  BY <1>1, <1>2, TheSolutionIsUnique

(***************************************************************************)
(* The ends of working days are instants.                                  *)
(***************************************************************************)
LEMMA EndsAreInstants ==
  ASSUME NEW n \in Int, NEW t \in Int, NEW e \in Int
  PROVE  EndOfWorkday(n, t, e) \in Int
<1>1. DayOf(t) \in Int
  BY TheDayOfAnInstant
<1> DEFINE k == WorkdayIndex(DayOf(t)) - n
<1>2. k \in Int
  BY <1>1, Counting
<1> HIDE DEF k
<1>3. WorkdayAt(k) \in Int /\ WorkdayAt(k) + 1 \in Int
  BY <1>2, CountingBack
<1> QED
  BY <1>3, Days DEF EndOfWorkday, AtHour, OneDay, k

(***************************************************************************)
(* With a minimum of one day the threshold lies before today.              *)
(***************************************************************************)
LEMMA TodayIsTooRecent ==
  ASSUME ClocksChangeAtWeekends, NEW n \in Nat, n >= 1, NEW t \in Int, NEW u \in Int,
         DayOf(t) = DayOf(u), NEW e \in 0 .. 24
  PROVE  u >= NoKillsSince(n, t, e)
<1> DEFINE d == DayOf(t)
           c == WorkdayAt(WorkdayIndex(d) - n)
<1>1. d \in Int /\ DayStart(d) <= u
  BY TheDayOfAnInstant
<1>2. c \in Int /\ c + 1 <= d
  <2>1. /\ WorkdayIndex(d) \in Int /\ WorkdayAt(WorkdayIndex(d)) \in Int
        /\ WorkdayAt(WorkdayIndex(d)) <= d
    BY <1>1, Counting
  <2>2. WorkdayIndex(d) - n \in Int /\ WorkdayIndex(d) - n < WorkdayIndex(d)
    BY <2>1
  <2>3. c < WorkdayAt(WorkdayIndex(d)) /\ c \in Int
    BY <2>1, <2>2, CountingIsMonotonic, CountingBack
  <2> HIDE DEF c, d
  <2> QED
    BY <1>1, <2>1, <2>3
<1>3. NoKillsSince(n, t, e) = AtHour(c, e)
  BY TheThreshold DEF EndOfWorkday
<1> HIDE DEF c, d
<1>4. DayStart(c + 1) \in Int /\ DayStart(d) \in Int /\ DayStart(c + 1) <= DayStart(d)
  <2>1. c + 1 \in Int
    BY <1>2
  <2>2. DayStart(c + 1) \in Int /\ DayStart(d) \in Int
    BY <1>1, <2>1, Days
  <2>3. CASE c + 1 = d
    BY <2>2, <2>3
  <2>4. CASE c + 1 < d
    BY <1>1, <2>1, <2>2, <2>4, DaysFollow
  <2> QED
    BY <1>1, <1>2, <2>2, <2>3, <2>4
<1> QED
  BY <1>1, <1>3, <1>4 DEF AtHour, OneDay

(***************************************************************************)
(* A group loses at most one instance a day: for any number of concurrent  *)
(* processes, any requests and settings of at least one day, under crashes,*)
(* deadlocks and failing statements and commits, on any calendar whose     *)
(* clocks change at weekends, unless the server cuts the result of a       *)
(* SELECT short.                                                           *)
(***************************************************************************)
THEOREM OneKillADay ==
  ASSUME "read" \notin Faults, ClocksChangeAtWeekends
  PROVE  Spec => []AtMostOneKillADay
<1>1. TypeOK /\ MinTimeRespected => AtMostOneKillADay
  <2> SUFFICES ASSUME TypeOK, MinTimeRespected, NEW i \in DOMAIN rows, NEW j \in DOMAIN rows, i < j,
                      rows[j].req.minDays >= 1, ~rows[i].req.leashed, ~rows[j].req.leashed,
                      SameDay(rows[i].req, rows[j].req),
                      GroupOf(rows[i].req, rows[j].req) = GroupOf(rows[j].req, rows[j].req)
               PROVE  FALSE
    BY DEF AtMostOneKillADay
  <2> DEFINE r == rows[i].req
             q == rows[j].req
  <2>1. IsRequest(r) /\ IsRequest(q) /\ q \in Requests
    <3>1. rows[i] \in Entry /\ rows[j] \in Entry
      BY DEF TypeOK
    <3>2. r \in Requests /\ q \in Requests
      BY <3>1 DEF Entry
    <3> QED
      BY <3>2, RequestsAssumption
  <2>2. /\ r.killedAt \in Int /\ q.killedAt \in Int /\ q.minDays \in Nat
        /\ q.grouping \in Grouping
    BY <2>1 DEF IsRequest
  <2>3. Threshold(q.minDays, q.killedAt) = NoKillsSince(q.minDays, q.killedAt, EndHour)
    BY <2>1, <2>2, CheckUsesTheCalendar
  <2>4. SinceThreshold(r, q)
    BY <2>2, <2>3, TodayIsTooRecent, CheckUsesTheCalendar DEF SinceThreshold, SameDay
  <2>5. SameGroup(r, q)
    <3> HIDE DEF r, q
    <3>1. GroupOf(r, q) = GroupOf(q, q)
      BY DEF r, q
    <3>2. r.app = q.app /\ r.account = q.account
      BY <3>1 DEF GroupOf
    <3>3. GroupOf(r, q).region = GroupOf(q, q).region /\ GroupOf(r, q).part = GroupOf(q, q).part
      BY <3>1
    <3>4. q.regionsAreIndependent => r.region = q.region
      BY <3>3 DEF GroupOf
    <3>5. q.grouping = "stack" => r.stack = q.stack
      BY <3>3 DEF GroupOf
    <3>6. q.grouping = "cluster" => r.cluster = q.cluster
      BY <3>3 DEF GroupOf
    <3> QED
      BY <3>2, <3>4, <3>5, <3>6 DEF SameGroup
  <2>6. Counts(r, q)
    BY DEF Counts
  <2> QED
    BY <2>4, <2>5, <2>6 DEF Forbids, MinTimeRespected
<1> QED
  BY <1>1, TypeCorrect, MinTimeIsRespected, PTL

---------------------------------------------------------------------------
(***************************************************************************)
(* ThresholdClock looks at the threshold at every instant and after every  *)
(* change of the setting.                                                  *)
(***************************************************************************)

(***************************************************************************)
(* The number of working days after the i-th, up to day d.                 *)
(***************************************************************************)
LEMMA WorkdaysBetween ==
  ASSUME NEW d \in Int, NEW i \in Int, i <= WorkdayIndex(d)
  PROVE  Cardinality({w \in WorkdayAt(i) + 1 .. d : IsWorkingDay(w)}) = WorkdayIndex(d) - i
<1> DEFINE W == {w \in WorkdayAt(i) + 1 .. d : IsWorkingDay(w)}
           I == i + 1 .. WorkdayIndex(d)
           f == [k \in I |-> WorkdayAt(k)]
<1>1. WorkdayIndex(d) \in Int /\ WorkdayAt(WorkdayIndex(d)) <= d /\ WorkdayAt(i) \in Int
  BY Counting, CountingBack
<1>2. ASSUME NEW k \in I
      PROVE  WorkdayAt(k) \in W
  <2>1. k \in Int /\ i < k /\ k <= WorkdayIndex(d)
    BY <1>1
  <2>2. WorkdayAt(i) < WorkdayAt(k) /\ WorkdayAt(k) <= WorkdayAt(WorkdayIndex(d))
    BY <2>1, <1>1, CountingIsMonotonic
  <2>3. WorkdayAt(k) \in Int /\ IsWorkingDay(WorkdayAt(k)) /\ WorkdayAt(WorkdayIndex(d)) \in Int
    BY <2>1, <1>1, CountingBack
  <2>4. WorkdayAt(k) \in WorkdayAt(i) + 1 .. d
    BY <2>2, <2>3, <1>1
  <2> QED
    BY <2>3, <2>4
<1>3. ASSUME NEW k \in I, NEW l \in I, WorkdayAt(k) = WorkdayAt(l)
      PROVE  k = l
  BY <1>1, <1>3, CountingBack
<1>4. ASSUME NEW w \in W
      PROVE  \E k \in I : WorkdayAt(k) = w
  <2>1. w \in Int /\ WorkdayAt(i) < w /\ w <= d /\ IsWorkingDay(w)
    BY <1>1
  <2>2. WorkdayIndex(w) \in Int /\ WorkdayAt(WorkdayIndex(w)) = w
    BY <2>1, Counting
  <2>3. WorkdayIndex(w) <= WorkdayIndex(d)
    BY <2>1, CountingIsMonotonic
  <2>4. ~(WorkdayIndex(w) <= i)
    BY <2>1, <2>2, <1>1, CountingIsMonotonic
  <2>5. WorkdayIndex(w) \in I
    BY <1>1, <2>2, <2>3, <2>4
  <2> QED
    BY <2>2, <2>5
<1>5. f \in Bijection(I, W)
  <2> HIDE DEF W, I
  <2>1. f \in [I -> W]
    BY <1>2
  <2>2. \A k, l \in I : f[k] = f[l] => k = l
    BY <1>3
  <2>3. \A w \in W : \E k \in I : f[k] = w
    BY <1>4
  <2> QED
    BY <2>1, <2>2, <2>3 DEF Bijection, Injection, Surjection, IsInjective
<1>6. IsFiniteSet(I) /\ Cardinality(I) = WorkdayIndex(d) - i
  BY <1>1, FS_Interval
<1>7. ExistsBijection(I, W)
  BY <1>5 DEF ExistsBijection
<1> HIDE DEF W, I
<1>8. Cardinality(W) = Cardinality(I)
  BY <1>6, <1>7, FS_Bijection
<1> QED
  BY <1>6, <1>8 DEF W

(***************************************************************************)
(* n working days are at most 2n + 3 days.                                 *)
(***************************************************************************)
LEMMA NotTooFarBack ==
  ASSUME NEW d \in Int, NEW n \in Nat
  PROVE  WorkdayAt(WorkdayIndex(d) - n) >= d - 2 * n - 3
  BY DEF WorkdayAt, WorkdayIndex, IsWorkingDay

\* What the variables of the clock hold.
ClockTypes == now \in Int /\ days \in 0 .. MaxDays /\ endHour \in EndHours

(***************************************************************************)
(* The clock holds instants and settings, and never goes back.             *)
(***************************************************************************)
LEMMA TheClockRuns ==
  /\ ClockInit => ClockTypes
  /\ ClockTypes /\ [ClockNext]_clockVars => ClockTypes'
  /\ ClockTypes /\ [ClockNext]_clockVars => now' >= now
  BY ClockAssumption DEF ClockInit, ClockNext, Tick, Reconfigure, clockVars, ClockTypes

(***************************************************************************)
(* Later instants have later thresholds.                                   *)
(***************************************************************************)
LEMMA ThresholdsAdvance ==
  ASSUME ClocksChangeAtWeekends, NEW e \in Int, NEW n \in Nat,
         NEW t \in Int, NEW u \in Int, t <= u
  PROVE  /\ EndOfWorkday(n, t, e) \in Int /\ EndOfWorkday(n, u, e) \in Int
         /\ EndOfWorkday(n, t, e) <= EndOfWorkday(n, u, e)
<1> DEFINE k == WorkdayIndex(DayOf(t)) - n
           l == WorkdayIndex(DayOf(u)) - n
<1>1. /\ DayOf(t) \in Int /\ DayOf(u) \in Int
      /\ DayStart(DayOf(t)) <= t /\ u < DayStart(DayOf(u) + 1)
      /\ DayStart(DayOf(t)) \in Int /\ DayStart(DayOf(u) + 1) \in Int
  <2>1. /\ DayOf(t) \in Int /\ DayOf(u) \in Int
        /\ DayStart(DayOf(t)) <= t /\ u < DayStart(DayOf(u) + 1)
    BY TheDayOfAnInstant
  <2>2. DayOf(u) + 1 \in Int
    BY <2>1
  <2> QED
    BY <2>1, <2>2, Days
<1>2. DayOf(t) <= DayOf(u)
  BY <1>1, TheDayIsUnique
<1>3. k \in Int /\ l \in Int /\ k <= l
  <2>1. /\ WorkdayIndex(DayOf(t)) \in Int /\ WorkdayIndex(DayOf(u)) \in Int
        /\ WorkdayIndex(DayOf(t)) <= WorkdayIndex(DayOf(u))
    BY <1>1, <1>2, Counting, CountingIsMonotonic
  <2> QED
    BY <2>1
<1> HIDE DEF k, l
<1>4. WorkdayAt(k) + 1 \in Int /\ WorkdayAt(l) + 1 \in Int /\ WorkdayAt(k) + 1 <= WorkdayAt(l) + 1
  <2>1. WorkdayAt(k) \in Int /\ WorkdayAt(l) \in Int /\ WorkdayAt(k) <= WorkdayAt(l)
    BY <1>3, CountingBack, CountingIsMonotonic
  <2> QED
    BY <2>1
<1>5. DayStart(WorkdayAt(k) + 1) \in Int /\ DayStart(WorkdayAt(l) + 1) \in Int
  BY <1>4, Days
<1>6. DayStart(WorkdayAt(k) + 1) <= DayStart(WorkdayAt(l) + 1)
  <2>1. CASE WorkdayAt(k) + 1 = WorkdayAt(l) + 1
    BY <2>1, <1>5
  <2>2. CASE WorkdayAt(k) + 1 < WorkdayAt(l) + 1
    BY <2>2, <1>4, <1>5, DaysFollow
  <2> QED
    BY <1>4, <2>1, <2>2
<1>7. /\ AtHour(WorkdayAt(k), e) \in Int /\ AtHour(WorkdayAt(l), e) \in Int
      /\ AtHour(WorkdayAt(k), e) <= AtHour(WorkdayAt(l), e)
  BY <1>5, <1>6 DEF AtHour, OneDay
<1> QED
  BY <1>7 DEF EndOfWorkday, k, l

(***************************************************************************)
(* While the setting stays the same the threshold of noKillsSince never    *)
(* moves backwards, from any instant on, for any settings and ends of the  *)
(* working day, over weekends and their clock changes: a kill that is old  *)
(* enough stays so.                                                        *)
(***************************************************************************)
THEOREM OldKillsStayOld ==
  ASSUME ClocksChangeAtWeekends
  PROVE  ClockSpec => ThresholdNeverRetreats
<1>1. ClockTypes /\ ClockTypes' /\ [ClockNext]_clockVars
        => [days' = days => Since' >= Since]_clockVars
  <2> SUFFICES ASSUME ClockTypes, ClockTypes', [ClockNext]_clockVars, days' = days
               PROVE  Since' >= Since
    BY DEF clockVars
  <2>1. /\ now \in Int /\ now' \in Int /\ days \in Nat /\ endHour \in Int /\ now <= now'
    BY TheClockRuns, ClockAssumption DEF ClockTypes
  <2>2. endHour' = endHour
    BY DEF ClockNext, Tick, Reconfigure, clockVars
  <2>3. \A t, u \in Int : t <= u =>
           /\ EndOfWorkday(days, t, endHour) \in Int /\ EndOfWorkday(days, u, endHour) \in Int
           /\ EndOfWorkday(days, t, endHour) <= EndOfWorkday(days, u, endHour)
    BY <2>1, ThresholdsAdvance
  <2>4. \A t \in Int : NoKillsSince(days, t, endHour) = EndOfWorkday(days, t, endHour)
    BY <2>1, TheThreshold
  <2>5. Since = EndOfWorkday(days, now, endHour) /\ Since' = EndOfWorkday(days, now', endHour)
    BY <2>1, <2>2, <2>4 DEF Since
  <2> QED
    BY <2>1, <2>3, <2>5
<1> QED
  BY <1>1, TheClockRuns, PTL DEF ClockSpec, ThresholdNeverRetreats

(***************************************************************************)
(* The doc comment of noKillsSince, for every instant, setting and end of  *)
(* the working day: the threshold is the end of the working day that lies  *)
(* that many working days back.                                            *)
(***************************************************************************)
THEOREM ThresholdsAreTheDocumentedOnes ==
  ASSUME ClocksChangeAtWeekends
  PROVE  ClockSpec => []EndsThatManyWorkingDaysBack
<1>1. ClockTypes => EndsThatManyWorkingDaysBack
  <2> SUFFICES ASSUME ClockTypes
               PROVE  EndsThatManyWorkingDaysBack
    OBVIOUS
  <2> DEFINE k == WorkdayIndex(DayOf(now)) - days
  <2>1. now \in Int /\ days \in Nat /\ days <= MaxDays /\ endHour \in Int
    BY ClockAssumption DEF ClockTypes
  <2>2. DayOf(now) \in Int /\ WorkdayIndex(DayOf(now)) \in Int
    BY <2>1, TheDayOfAnInstant, Counting
  <2>3. k \in Int /\ k <= WorkdayIndex(DayOf(now)) /\ WorkdayIndex(DayOf(now)) - k = days
    BY <2>1, <2>2
  <2>4. WorkdayAt(k) \in Int /\ IsWorkingDay(WorkdayAt(k))
    BY <2>3, CountingBack
  <2>5. WorkdayAt(k) <= DayOf(now)
    BY <2>2, <2>3, <2>4, Counting, CountingBack, CountingIsMonotonic
  <2>6. WorkdayAt(k) >= DayOf(now) - 2 * MaxDays - 3
    <3>1. WorkdayAt(k) >= DayOf(now) - 2 * days - 3
      BY <2>1, <2>2, NotTooFarBack
    <3> HIDE DEF k
    <3> QED
      BY <3>1, <2>1, <2>2, <2>4, ClockAssumption
  <2>7. EndOfWorkday(days, now, endHour) = AtHour(WorkdayAt(k), endHour)
    BY DEF EndOfWorkday
  <2>8. Cardinality({w \in WorkdayAt(k) + 1 .. DayOf(now) : IsWorkingDay(w)}) = days
    BY <2>2, <2>3, WorkdaysBetween
  <2>9. Since = EndOfWorkday(days, now, endHour)
    BY <2>1, TheThreshold DEF Since
  <2> HIDE DEF k
  <2>10. WorkdayAt(k) \in DayOf(now) - 2 * MaxDays - 3 .. DayOf(now)
    BY <2>1, <2>2, <2>4, <2>5, <2>6
  <2> QED
    BY <2>4, <2>7, <2>8, <2>9, <2>10 DEF EndsThatManyWorkingDaysBack, WorkingDaysAfter
<1> QED
  BY <1>1, TheClockRuns, PTL DEF ClockSpec
=============================================================================
