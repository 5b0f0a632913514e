--------------------------- MODULE ScheduleStore ---------------------------
(***************************************************************************)
(* schedstore.SchedStore as mysql.MySQL implements it: publishing the      *)
(* termination schedule of a date, once, by processes that may publish at  *)
(* the same time from several hosts, and retrieving it.                    *)
(*                                                                         *)
(* Instants are hours since a midnight in UTC.  A schedule is stored under *)
(* the local date of the instant at which it is published (utcDate); the   *)
(* test whether there is one already hands that instant itself to the      *)
(* driver, which converts it to UTC before MySQL takes the date of it.     *)
(*                                                                         *)
(* Publish is one SERIALIZABLE transaction under InnoDB: the count locks   *)
(* the rows of its date in date_index and the gaps next to them.           *)
(***************************************************************************)
EXTENDS Integers, FiniteSets

CONSTANTS
  Proc,         \* the calls of Publish
  Offset,       \* hours the location is ahead of UTC
  Instants,     \* when Publish may be called
  Schedules,    \* the schedules, sets of entries
  Faults        \* "read": the result of the COUNT query may end with an error

ASSUME ScheduleStoreAssumption ==
  /\ Offset \in -12 .. 14
  /\ Instants \subseteq Nat
  /\ \A s \in Schedules : IsFiniteSet(s)
  /\ Faults \subseteq {"read"}

VARIABLES
  rows,      \* the committed rows of schedules
  pc,
  at,        \* the instant of the call
  sched,     \* the schedule to publish
  locked,    \* whether the transaction holds the locks of the COUNT query
  result,    \* err
  blind      \* the calls whose count did not arrive (not a variable of the code)

vars == <<rows, pc, at, sched, locked, result, blind>>

UTCDate(t) == t \div 24

\* utcDate: the year, month and day the instant has in the location.
LocalDate(t) == (t + Offset) \div 24

TypeOK ==
  /\ \A r \in rows : r.by \in Proc /\ r.entry \in UNION Schedules /\ r.date \in Int
  /\ pc \in [Proc -> {"idle", "begun", "clear", "inserted", "exists", "failing",
                      "returned", "crashed"}]
  /\ at \in [Proc -> Instants]
  /\ sched \in [Proc -> Schedules]
  /\ locked \in [Proc -> BOOLEAN]
  /\ result \in [Proc -> {"none", "nil", "ErrAlreadyExists", "deadlock", "error"}]
  /\ \A p \in Proc : locked[p] => pc[p] \in {"clear", "inserted", "exists", "failing"}
  /\ blind \subseteq Proc
  /\ \A p \in Proc : pc[p] \in {"exists", "failing", "returned"} => result[p] # "none"

Init ==
  /\ rows = {}
  /\ pc = [p \in Proc |-> "idle"]
  /\ at \in [Proc -> Instants]
  /\ sched \in [Proc -> Schedules]
  /\ locked = [p \in Proc |-> FALSE]
  /\ result = [p \in Proc |-> "none"]
  /\ blind = {}

---------------------------------------------------------------------------
Retrieve(date) == {r.entry : r \in {x \in rows : x.date = date}}

\* The date schedExists asks for.
AskedDate(p) == UTCDate(at[p])

StoredDate(p) == LocalDate(at[p])

\* The place of date x in date_index lies among the rows of date d or in a gap
\* next to them; the rows of one date are in the order of their insertion.
InGap(x, d) ==
  \/ x = d
  \/ x > d /\ ~ \E r \in rows : d < r.date /\ r.date <= x
  \/ x < d /\ ~ \E r \in rows : x < r.date /\ r.date < d

Inserts(p) == sched[p] # {}

CountWaitsFor(p, o) ==
  o # p /\ pc[o] = "inserted" /\ Inserts(o) /\ StoredDate(o) = AskedDate(p)

InsertWaitsFor(p, o) ==
  /\ o # p /\ pc[p] = "clear" /\ Inserts(p)
  /\ locked[o] /\ InGap(StoredDate(p), AskedDate(o))

Deadlocked(S) ==
  \A p \in S : /\ \E o \in S : InsertWaitsFor(p, o)
               /\ \E o \in S : InsertWaitsFor(o, p)

---------------------------------------------------------------------------
Begin(p) ==
  /\ pc[p] = "idle"
  /\ pc' = [pc EXCEPT ![p] = "begun"]
  /\ UNCHANGED <<rows, at, sched, locked, result, blind>>

\* A mistake: the isolation level is left at its default, no locks are taken.
CountUnlocked(p) ==
  /\ pc[p] = "begun"
  /\ UNCHANGED <<rows, at, sched, locked, blind>>

Count(p) ==
  /\ pc[p] = "begun"
  /\ \A o \in Proc : ~CountWaitsFor(p, o)
  /\ locked' = [locked EXCEPT ![p] = TRUE]
  /\ UNCHANGED <<rows, at, sched, blind>>

\* A mistake: any published schedule counts, whatever its date.
FindsAnySchedule(p) ==
  /\ Count(p)
  /\ rows # {}
  /\ pc' = [pc EXCEPT ![p] = "exists"]
  /\ result' = [result EXCEPT ![p] = "ErrAlreadyExists"]

FindsSchedule(p) ==
  /\ Count(p)
  /\ Retrieve(AskedDate(p)) # {}
  /\ pc' = [pc EXCEPT ![p] = "exists"]
  /\ result' = [result EXCEPT ![p] = "ErrAlreadyExists"]

FindsNone(p) ==
  /\ Count(p)
  /\ Retrieve(AskedDate(p)) = {}
  /\ pc' = [pc EXCEPT ![p] = "clear"]
  /\ UNCHANGED result

\* "read" in Faults: no count arrives, rows.Err is not looked at, count stays 0.
CountCutShort(p) ==
  /\ "read" \in Faults
  /\ pc[p] = "begun"
  /\ pc' = [pc EXCEPT ![p] = "clear"]
  /\ blind' = blind \cup {p}
  /\ UNCHANGED <<rows, at, sched, locked, result>>

\* A mistake: an INSERT that would wait is given up at once.
InsertWithoutWaiting(p) ==
  /\ pc[p] = "clear"
  /\ IF \E o \in Proc : InsertWaitsFor(p, o)
     THEN /\ pc' = [pc EXCEPT ![p] = "failing"]
          /\ result' = [result EXCEPT ![p] = "deadlock"]
     ELSE pc' = [pc EXCEPT ![p] = "inserted"] /\ UNCHANGED result
  /\ UNCHANGED <<rows, at, sched, locked, blind>>

\* One row for each entry; none, and no waiting, for an empty schedule.
Insert(p) ==
  /\ pc[p] = "clear"
  /\ \A o \in Proc : ~InsertWaitsFor(p, o)
  /\ pc' = [pc EXCEPT ![p] = "inserted"]
  /\ UNCHANGED <<rows, at, sched, locked, result, blind>>

DeadlockVictim(p) ==
  /\ \E S \in SUBSET Proc : p \in S /\ Deadlocked(S)
  /\ pc' = [pc EXCEPT ![p] = "failing"]
  /\ locked' = [locked EXCEPT ![p] = FALSE]
  /\ result' = [result EXCEPT ![p] = "deadlock"]
  /\ UNCHANGED <<rows, at, sched, blind>>

StatementFails(p) ==
  /\ pc[p] \in {"begun", "clear"}
  /\ pc' = [pc EXCEPT ![p] = "failing"]
  /\ result' = [result EXCEPT ![p] = "error"]
  /\ UNCHANGED <<rows, at, sched, locked, blind>>

Published(p) == {[by |-> p, entry |-> e, date |-> StoredDate(p)] : e \in sched[p]}

\* A mistake: every entry is written in a transaction of its own.
CommitPiecemeal(p) ==
  /\ pc[p] = "inserted"
  /\ \E part \in SUBSET Published(p) : rows' = rows \cup part
  /\ locked' = [locked EXCEPT ![p] = FALSE]
  /\ pc' = [pc EXCEPT ![p] = "returned"]
  /\ result' = [result EXCEPT ![p] = "nil"]
  /\ UNCHANGED <<at, sched, blind>>

\* err is a named result here: a lost acknowledgement is reported as an error.
Commit(p) ==
  /\ pc[p] = "inserted"
  /\ rows' = rows \cup Published(p)
  /\ locked' = [locked EXCEPT ![p] = FALSE]
  /\ pc' = [pc EXCEPT ![p] = "returned"]
  /\ \E err \in {"nil", "error"} : result' = [result EXCEPT ![p] = err]
  /\ UNCHANGED <<at, sched, blind>>

CommitFails(p) ==
  /\ pc[p] = "inserted"
  /\ locked' = [locked EXCEPT ![p] = FALSE]
  /\ pc' = [pc EXCEPT ![p] = "returned"]
  /\ result' = [result EXCEPT ![p] = "error"]
  /\ UNCHANGED <<rows, at, sched, blind>>

\* A mistake: a failed publication leaves its transaction open.
TransactionLeftOpen(p) ==
  /\ pc[p] \in {"exists", "failing"}
  /\ pc' = [pc EXCEPT ![p] = "returned"]
  /\ UNCHANGED <<rows, at, sched, locked, result, blind>>

\* ErrAlreadyExists commits, whatever comes of it; other errors roll back.
EndWithoutWriting(p) ==
  /\ pc[p] \in {"exists", "failing"}
  /\ locked' = [locked EXCEPT ![p] = FALSE]
  /\ pc' = [pc EXCEPT ![p] = "returned"]
  /\ UNCHANGED <<rows, at, sched, result, blind>>

\* The process dies; the commit it may have sent takes effect or does not.
Crash(p) ==
  /\ pc[p] \in {"begun", "clear", "inserted", "exists", "failing"}
  /\ pc' = [pc EXCEPT ![p] = "crashed"]
  /\ locked' = [locked EXCEPT ![p] = FALSE]
  /\ rows' \in {rows} \cup (IF pc[p] = "inserted" THEN {rows \cup Published(p)} ELSE {})
  /\ UNCHANGED <<at, sched, result, blind>>

Advance(p) ==
  \/ FindsSchedule(p) \/ FindsNone(p) \/ Insert(p) \/ DeadlockVictim(p)
  \/ Commit(p) \/ EndWithoutWriting(p)

Trouble(p) == CountCutShort(p) \/ StatementFails(p) \/ CommitFails(p) \/ Crash(p)

Finished == (\A p \in Proc : pc[p] \in {"returned", "crashed"}) /\ UNCHANGED vars

Next ==
  \/ \E p \in Proc : Begin(p) \/ Advance(p) \/ Trouble(p)
  \/ Finished

Spec == Init /\ [][Next]_vars

---------------------------------------------------------------------------
(***************************************************************************)
(* schedstore.ErrAlreadyExists: once a schedule has been published for a   *)
(* date no other one is: of two calls that return nil for one local date,  *)
(* one has gone on without its count, rows.Err not being looked at.        *)
(***************************************************************************)
OnePublisherPerDate ==
  \A p, o \in Proc :
     /\ result[p] = "nil" /\ result[o] = "nil" /\ StoredDate(p) = StoredDate(o)
     /\ p # o
     => p \in blind \/ o \in blind

(***************************************************************************)
(* TestScheduleAlreadyExistsConcurrency, for any number of publishers: if  *)
(* all of them return, having failed only against one another, one of them *)
(* has published.                                                          *)
(***************************************************************************)
SomebodyPublishes ==
  (\A p \in Proc : pc[p] = "returned" /\ result[p] \in {"nil", "ErrAlreadyExists", "deadlock"})
     => \E p \in Proc : result[p] = "nil"

---------------------------------------------------------------------------
\* What PublishOnce sees of this: the table without its publishers, and the
\* results that have been returned.
answer == [p \in Proc |-> IF pc[p] = "returned" THEN result[p] ELSE "none"]

Promise == INSTANCE PublishOnce WITH
  Call <- {[asked |-> UTCDate(t), stored |-> LocalDate(t), schedule |-> s] :
             t \in Instants, s \in Schedules},
  call <- [p \in Proc |->
             [asked |-> AskedDate(p), stored |-> StoredDate(p), schedule |-> sched[p]]],
  table <- {[date |-> r.date, entry |-> r.entry] : r \in rows},
  answer <- answer,
  blind <- blind

(***************************************************************************)
(* Publish implements PublishOnce: to its callers the transaction is one   *)
(* step.  A schedule appears in the table whole or not at all, even when   *)
(* its publisher died or was told of an error; it appears beside another   *)
(* one of the date only when its count was lost; and ErrAlreadyExists is   *)
(* the answer only when there is one.                                      *)
(***************************************************************************)
ImplementsStore == Promise!Spec
=============================================================================
