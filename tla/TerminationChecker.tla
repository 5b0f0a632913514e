------------------------- MODULE TerminationChecker -------------------------
(***************************************************************************)
(* mysql.MySQL.Check: the test-and-set on the terminations table by which  *)
(* every Chaos Monkey process asks whether it may terminate an instance.   *)
(*                                                                         *)
(* Each process is one run of "chaosmonkey terminate" and calls Check at   *)
(* most once.  Check is one SERIALIZABLE transaction: a SELECT for a       *)
(* termination inside the minimum time, an INSERT of this one, COMMIT or   *)
(* ROLLBACK by the deferred function.                                      *)
(*                                                                         *)
(* The database is InnoDB.  In a SERIALIZABLE transaction its SELECT takes *)
(* shared locks on the index range it scans, the (app, killed_at) index    *)
(* here, gaps included, and waits for uncommitted rows in it; an INSERT    *)
(* waits for the locks other transactions hold on the place of its row;    *)
(* locks last until the end of the transaction; a cycle of waiting         *)
(* transactions is broken by failing one of them.                          *)
(***************************************************************************)
EXTENDS Integers, Sequences, FiniteSets, InstanceGroups

CONSTANTS
  Proc,               \* the processes
  Requests,           \* the arguments of Check that occur
  NoRequest,
  Threshold(_, _),    \* noKillsSince(days, now), the end hour being fixed
  Faults              \* the faults of the server that occur, see below

Grouping == {"app", "stack", "cluster"}

\* chaosmonkey.Termination and the part of chaosmonkey.AppConfig Check reads.
IsRequest(q) ==
  /\ DOMAIN q = {"app", "account", "stack", "cluster", "region",
                 "killedAt", "leashed", "grouping", "regionsAreIndependent", "minDays"}
  /\ q.killedAt \in Int
  /\ q.leashed \in BOOLEAN
  /\ q.grouping \in Grouping
  /\ q.regionsAreIndependent \in BOOLEAN
  /\ q.minDays \in Int

ASSUME RequestsAssumption ==
  /\ \A q \in Requests : IsRequest(q)
  /\ NoRequest \notin Requests

ASSUME ThresholdAssumption ==
  \A q \in Requests : q.minDays >= 0 => Threshold(q.minDays, q.killedAt) \in Int

(***************************************************************************)
(* "read": the server ends the result of the SELECT with an error (a lock  *)
(*   wait timeout, a killed query); rows.Next returns false and the error  *)
(*   stays in rows.Err, which respectsMinTimeBetweenKills does not read.   *)
(* "commit": the server cannot commit; the deferred function assigns the   *)
(*   error to a variable that is no result of CheckWithDelay.              *)
(***************************************************************************)
ASSUME FaultsAssumption == Faults \subseteq {"read", "commit"}

VARIABLES
  rows,      \* the committed rows of terminations, in the order of commit
  pc,        \* how far the call of Check has come
  req,       \* its arguments
  locked,    \* whether its transaction holds the locks of the SELECT
  result     \* err, then the error that Check returned

vars == <<rows, pc, req, locked, result>>

Entry == [by: Proc, req: Requests]

TypeOK ==
  /\ rows \in Seq(Entry)
  /\ pc \in [Proc -> {"idle", "begun", "cleared", "inserted", "failing",
                      "returned", "crashed"}]
  /\ req \in [Proc -> Requests \cup {NoRequest}]
  /\ \A p \in Proc : pc[p] \in {"begun", "cleared", "inserted", "failing"} => req[p] \in Requests
  /\ locked \in [Proc -> BOOLEAN]
  /\ result \in [Proc -> {"none", "nil", "violates", "deadlock", "error"}]

Init ==
  /\ rows = << >>
  /\ pc = [p \in Proc |-> "idle"]
  /\ req = [p \in Proc |-> NoRequest]
  /\ locked = [p \in Proc |-> FALSE]
  /\ result = [p \in Proc |-> "none"]

---------------------------------------------------------------------------
(* The WHERE clause of respectsMinTimeBetweenKills; SameGroup is the part that names the group. *)

SinceThreshold(r, q) == r.killedAt >= Threshold(q.minDays, q.killedAt)

\* A leashed termination is no obstacle to a real one.
Counts(r, q) == q.leashed \/ ~r.leashed

Forbids(r, q) == SameGroup(r, q) /\ SinceThreshold(r, q) /\ Counts(r, q)

\* The range of the (app, killed_at) index that the SELECT of q scans.
InScan(r, q) == r.app = q.app /\ SinceThreshold(r, q)

---------------------------------------------------------------------------
(* Who waits for whom. *)

SelectWaitsFor(p, o) == o # p /\ pc[o] = "inserted" /\ InScan(req[o], req[p])

InsertWaitsFor(p, o) ==
  o # p /\ pc[p] = "cleared" /\ locked[o] /\ InScan(req[p], req[o])

\* Inserting transactions that all wait for one another.
Deadlocked(S) ==
  \A p \in S : /\ \E o \in S : InsertWaitsFor(p, o)
               /\ \E o \in S : InsertWaitsFor(o, p)

---------------------------------------------------------------------------
(* The steps of Check. *)

\* A mistake: the transaction begins before the arguments are there.
BeginWithoutArguments(p, q) ==
  /\ pc[p] = "idle"
  /\ pc' = [pc EXCEPT ![p] = "begun"]
  /\ UNCHANGED <<rows, req, locked, result>>

Begin(p, q) ==
  /\ pc[p] = "idle"
  /\ pc' = [pc EXCEPT ![p] = "begun"]
  /\ req' = [req EXCEPT ![p] = q]
  /\ UNCHANGED <<rows, locked, result>>

BeginFails(p) ==
  /\ pc[p] = "idle"
  /\ pc' = [pc EXCEPT ![p] = "returned"]
  /\ result' = [result EXCEPT ![p] = "error"]
  /\ UNCHANGED <<rows, req, locked>>

\* noKillsSince refuses a negative number of days.
IllegalMinDays(p) ==
  /\ pc[p] = "begun"
  /\ req[p].minDays < 0
  /\ pc' = [pc EXCEPT ![p] = "failing"]
  /\ result' = [result EXCEPT ![p] = "error"]
  /\ UNCHANGED <<rows, req, locked>>

\* A mistake: dsn leaves the isolation level at its default, REPEATABLE READ,
\* in which a SELECT takes no locks and waits for none.
SelectUnlocked(p) ==
  /\ pc[p] = "begun"
  /\ req[p].minDays >= 0
  /\ UNCHANGED <<rows, req, locked>>

Select(p) ==
  /\ pc[p] = "begun"
  /\ req[p].minDays >= 0
  /\ \A o \in Proc : ~SelectWaitsFor(p, o)
  /\ locked' = [locked EXCEPT ![p] = TRUE]
  /\ UNCHANGED <<rows, req>>

\* A mistake: READ UNCOMMITTED, rows of unfinished transactions are found too.
FindsUncommittedKill(p) ==
  /\ pc[p] = "begun"
  /\ req[p].minDays >= 0
  /\ \/ \E i \in DOMAIN rows : Forbids(rows[i].req, req[p])
     \/ \E o \in Proc \ {p} : pc[o] = "inserted" /\ Forbids(req[o], req[p])
  /\ pc' = [pc EXCEPT ![p] = "failing"]
  /\ result' = [result EXCEPT ![p] = "violates"]
  /\ UNCHANGED <<rows, req, locked>>

FindsRecentKill(p) ==
  /\ Select(p)
  /\ \E i \in DOMAIN rows : Forbids(rows[i].req, req[p])
  /\ pc' = [pc EXCEPT ![p] = "failing"]
  /\ result' = [result EXCEPT ![p] = "violates"]

FindsNone(p) ==
  /\ Select(p)
  /\ ~ \E i \in DOMAIN rows : Forbids(rows[i].req, req[p])
  /\ pc' = [pc EXCEPT ![p] = "cleared"]
  /\ UNCHANGED result

\* "read" in Faults: no row arrives and the error is not looked at.
SelectCutShort(p) ==
  /\ "read" \in Faults
  /\ pc[p] = "begun"
  /\ req[p].minDays >= 0
  /\ pc' = [pc EXCEPT ![p] = "cleared"]
  /\ UNCHANGED <<rows, req, locked, result>>

\* A mistake: an INSERT that would wait is given up at once.
InsertWithoutWaiting(p) ==
  /\ pc[p] = "cleared"
  /\ IF \E o \in Proc : InsertWaitsFor(p, o)
     THEN /\ pc' = [pc EXCEPT ![p] = "failing"]
          /\ result' = [result EXCEPT ![p] = "deadlock"]
     ELSE pc' = [pc EXCEPT ![p] = "inserted"] /\ UNCHANGED result
  /\ UNCHANGED <<rows, req, locked>>

Insert(p) ==
  /\ pc[p] = "cleared"
  /\ \A o \in Proc : ~InsertWaitsFor(p, o)
  /\ pc' = [pc EXCEPT ![p] = "inserted"]
  /\ UNCHANGED <<rows, req, locked, result>>

\* InnoDB rolls the victim back at once; Exec returns error 1213.
DeadlockVictim(p) ==
  /\ \E S \in SUBSET Proc : p \in S /\ Deadlocked(S)
  /\ pc' = [pc EXCEPT ![p] = "failing"]
  /\ locked' = [locked EXCEPT ![p] = FALSE]
  /\ result' = [result EXCEPT ![p] = "deadlock"]
  /\ UNCHANGED <<rows, req>>

\* The SELECT or the INSERT returns an error: connection lost, lock wait timeout.
StatementFails(p) ==
  /\ pc[p] \in {"begun", "cleared"}
  /\ pc' = [pc EXCEPT ![p] = "failing"]
  /\ result' = [result EXCEPT ![p] = "error"]
  /\ UNCHANGED <<rows, req, locked>>

\* A mistake: the branches of the deferred function the wrong way round.
RollbackInstead(p) ==
  /\ pc[p] = "inserted"
  /\ locked' = [locked EXCEPT ![p] = FALSE]
  /\ pc' = [pc EXCEPT ![p] = "returned"]
  /\ result' = [result EXCEPT ![p] = "nil"]
  /\ UNCHANGED <<rows, req>>

\* COMMIT takes effect; Check returns nil even when its acknowledgement is lost.
Commit(p) ==
  /\ pc[p] = "inserted"
  /\ rows' = Append(rows, [by |-> p, req |-> req[p]])
  /\ locked' = [locked EXCEPT ![p] = FALSE]
  /\ pc' = [pc EXCEPT ![p] = "returned"]
  /\ result' = [result EXCEPT ![p] = "nil"]
  /\ UNCHANGED req

\* "commit" in Faults: nothing is recorded and Check returns nil all the same.
CommitFails(p) ==
  /\ "commit" \in Faults
  /\ pc[p] = "inserted"
  /\ locked' = [locked EXCEPT ![p] = FALSE]
  /\ pc' = [pc EXCEPT ![p] = "returned"]
  /\ result' = [result EXCEPT ![p] = "nil"]
  /\ UNCHANGED <<rows, req>>

\* A mistake: the transaction of a failed check is left open.
TransactionLeftOpen(p) ==
  /\ pc[p] = "failing"
  /\ pc' = [pc EXCEPT ![p] = "returned"]
  /\ UNCHANGED <<rows, req, locked, result>>

Rollback(p) ==
  /\ pc[p] = "failing"
  /\ locked' = [locked EXCEPT ![p] = FALSE]
  /\ pc' = [pc EXCEPT ![p] = "returned"]
  /\ UNCHANGED <<rows, req, result>>

\* The process dies; the server ends its transaction.
Crash(p) ==
  /\ pc[p] \in {"begun", "cleared", "inserted", "failing"}
  /\ pc' = [pc EXCEPT ![p] = "crashed"]
  /\ locked' = [locked EXCEPT ![p] = FALSE]
  /\ result' = [result EXCEPT ![p] = "none"]
  /\ UNCHANGED <<rows, req>>

CrashAfterCommit(p) ==
  /\ pc[p] = "inserted"
  /\ rows' = Append(rows, [by |-> p, req |-> req[p]])
  /\ pc' = [pc EXCEPT ![p] = "crashed"]
  /\ locked' = [locked EXCEPT ![p] = FALSE]
  /\ UNCHANGED <<req, result>>

Advance(p) ==
  \/ IllegalMinDays(p)
  \/ FindsRecentKill(p)
  \/ FindsNone(p)
  \/ Insert(p)
  \/ DeadlockVictim(p)
  \/ Commit(p)
  \/ Rollback(p)

Trouble(p) ==
  \/ BeginFails(p)
  \/ SelectCutShort(p)
  \/ StatementFails(p)
  \/ CommitFails(p)
  \/ Crash(p)
  \/ CrashAfterCommit(p)

Finished ==
  /\ \A p \in Proc : pc[p] \in {"returned", "crashed"}
  /\ UNCHANGED vars

Next ==
  \/ \E p \in Proc : \/ \E q \in Requests : Begin(p, q)
                     \/ Advance(p)
                     \/ Trouble(p)
  \/ Finished

Spec == Init /\ [][Next]_vars

\* Statements complete and InnoDB breaks deadlocks: a call under way goes on.
FairSpec == Spec /\ \A p \in Proc : WF_vars(Advance(p))

---------------------------------------------------------------------------
(***************************************************************************)
(* The promise of the minimum time between kills: no termination was       *)
(* committed that an earlier committed one forbids, judged by the settings *)
(* its own process used.                                                   *)
(***************************************************************************)
MinTimeRespected ==
  \A i, j \in DOMAIN rows : i < j => ~Forbids(rows[i].req, rows[j].req)

(***************************************************************************)
(* chaosmonkey.go: "if the checker returns true, the termination will be   *)
(* recorded": a process whose call of Check returned nil has its row in    *)
(* the table.                                                              *)
(***************************************************************************)
NilMeansRecorded ==
  \A p \in Proc : result[p] = "nil" => \E i \in DOMAIN rows : rows[i].by = p

(***************************************************************************)
(* Check reports ErrViolatesMinTime only when some committed termination   *)
(* stands in the way: never because of a row that was rolled back, and     *)
(* never because of the process's own row.                                 *)
(***************************************************************************)
RefusalHasACause ==
  \A p \in Proc : result[p] = "violates" =>
     \E i \in DOMAIN rows : rows[i].by # p /\ Forbids(rows[i].req, req[p])

(***************************************************************************)
(* TestConcurrentChecks, for any number of processes: when every call has  *)
(* returned, and none failed for another reason than losing to its rivals, *)
(* at least one of them was permitted.  Deadlock victims and refusals do   *)
(* not cancel one another out.                                             *)
(***************************************************************************)
SomebodyWins ==
  (\A p \in Proc : pc[p] = "returned" /\ result[p] \in {"nil", "violates", "deadlock"})
     => \E p \in Proc : result[p] = "nil"

(***************************************************************************)
(* A call of Check returns, unless its process dies: neither a lock held   *)
(* by another transaction nor a deadlock keeps it waiting for ever.        *)
(***************************************************************************)
CheckReturns ==
  \A p \in Proc : pc[p] = "begun" ~> pc[p] \in {"returned", "crashed"}

---------------------------------------------------------------------------
(* What the calls look like to their callers. *)

Told(p) ==
  IF pc[p] # "returned" THEN "none"
  ELSE IF result[p] = "nil" THEN "permitted"
  ELSE IF result[p] = "violates" THEN "refused"
  ELSE "failed"

answer == [p \in Proc |-> Told(p)]

LegalRequests == {q \in Requests : q.minDays >= 0}

Guard == INSTANCE MinTimeGuard WITH Request <- LegalRequests, record <- rows, answer <- answer

(***************************************************************************)
(* Check implements MinTimeGuard: to its callers the transaction is one    *)
(* step, although a refused call returns long after it has read the table. *)
(***************************************************************************)
ImplementsGuard == Guard!Spec
=============================================================================
