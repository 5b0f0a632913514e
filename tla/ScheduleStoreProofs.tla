------------------------ MODULE ScheduleStoreProofs ------------------------
(***************************************************************************)
(* Proofs about ScheduleStore, for any number of publishers, any schedules *)
(* and any location: its types; that Publish implements PublishOnce, the   *)
(* indivisible step that schedstore.SchedStore promises; that a date gets  *)
(* one schedule; and that publishers do not all lose to one another.       *)
(***************************************************************************)
EXTENDS ScheduleStore, TLAPS

(***************************************************************************)
(* Type correctness.                                                       *)
(***************************************************************************)
THEOREM TypeCorrect == Spec => []TypeOK
<1>1. Init => TypeOK
  BY DEF Init, TypeOK
<1>2. TypeOK /\ [Next]_vars => TypeOK'
  <2> SUFFICES ASSUME TypeOK, [Next]_vars
               PROVE  TypeOK'
    OBVIOUS
  <2> USE DEF TypeOK
  <2>1. ASSUME NEW p \in Proc, Begin(p)
        PROVE  TypeOK'
    BY <2>1 DEF Begin
  <2>2. ASSUME NEW p \in Proc, FindsSchedule(p) \/ FindsNone(p)
        PROVE  TypeOK'
    BY <2>2 DEF FindsSchedule, FindsNone, Count
  <2>3. ASSUME NEW p \in Proc, CountCutShort(p)
        PROVE  TypeOK'
    BY <2>3 DEF CountCutShort
  <2>4. ASSUME NEW p \in Proc, Insert(p)
        PROVE  TypeOK'
    BY <2>4 DEF Insert
  <2>5. ASSUME NEW p \in Proc, DeadlockVictim(p)
        PROVE  TypeOK'
    BY <2>5 DEF DeadlockVictim
  <2>6. ASSUME NEW p \in Proc, StatementFails(p)
        PROVE  TypeOK'
    BY <2>6 DEF StatementFails
  <2>7. ASSUME NEW p \in Proc, NEW r \in Published(p)
        PROVE  r.by \in Proc /\ r.entry \in UNION Schedules /\ r.date \in Int
    <3>1. at[p] \in Int /\ Offset \in Int
      <4>1. at[p] \in Nat
        BY ScheduleStoreAssumption
      <4> QED
        BY <4>1, ScheduleStoreAssumption
    <3>2. StoredDate(p) \in Int
      BY <3>1 DEF StoredDate, LocalDate
    <3> QED
      BY <2>7, <3>2 DEF Published
  <2>8. ASSUME NEW p \in Proc, Commit(p)
        PROVE  TypeOK'
    BY <2>7, <2>8 DEF Commit
  <2>9. ASSUME NEW p \in Proc, CommitFails(p) \/ EndWithoutWriting(p)
        PROVE  TypeOK'
    BY <2>9 DEF CommitFails, EndWithoutWriting
  <2>10. ASSUME NEW p \in Proc, Crash(p)
         PROVE  TypeOK'
    BY <2>7, <2>10 DEF Crash
  <2>11. CASE UNCHANGED vars
    BY <2>11 DEF vars
  <2> QED
    BY <2>1, <2>2, <2>3, <2>4, <2>5, <2>6, <2>8, <2>9, <2>10, <2>11
       DEF Next, Advance, Trouble, Finished
<1> QED
  BY <1>1, <1>2, PTL DEF Spec

---------------------------------------------------------------------------
(***************************************************************************)
(* The inductive invariant behind ImplementsStore.  A transaction that has *)
(* counted no rows holds its locks; no row of the date it asked for has    *)
(* been committed since; and no other transaction has uncommitted rows of  *)
(* that date, so that none can be committed.  A call that lost its count   *)
(* is exempt.  What a call is going to report has its cause in the table.  *)
(***************************************************************************)
Cleared(p) == pc[p] \in {"clear", "inserted"} /\ p \notin blind

ClearedHoldLocks == \A p \in Proc : Cleared(p) => locked[p]

ClearedStayClear == \A p \in Proc : Cleared(p) => Retrieve(AskedDate(p)) = {}

LocksKeepRowsOut ==
  \A p, o \in Proc :
     o # p /\ locked[p] /\ pc[o] = "inserted" /\ Inserts(o) => StoredDate(o) # AskedDate(p)

RefusalsStand ==
  \A p \in Proc :
     /\ pc[p] = "exists" => Retrieve(AskedDate(p)) # {} /\ result[p] = "ErrAlreadyExists"
     /\ pc[p] = "failing" => result[p] \in {"deadlock", "error"}

IInv == /\ TypeOK
        /\ ClearedHoldLocks
        /\ ClearedStayClear
        /\ LocksKeepRowsOut
        /\ RefusalsStand

(***************************************************************************)
(* Whose rows the table holds, and what the results say of it: a call that *)
(* returned nil has all of its rows there, rows are those of calls that    *)
(* have ended, and whoever was refused found some.                         *)
(***************************************************************************)
RowsHaveAPublisher ==
  \A r \in rows : \/ pc[r.by] = "crashed"
                  \/ pc[r.by] = "returned" /\ result[r.by] \in {"nil", "error"}

NilMeansPublished ==
  \A p \in Proc : result[p] = "nil" => pc[p] = "returned" /\ Published(p) \subseteq rows

RefusedFoundRows == \A p \in Proc : result[p] = "ErrAlreadyExists" => rows # {}

NoResultYet ==
  \A p \in Proc : pc[p] \in {"idle", "begun", "clear", "inserted"} => result[p] = "none"

\* The last of the victims would have nobody to wait for.
NotAllAreVictims == Proc # {} => \E p \in Proc : result[p] # "deadlock"

Outcomes == /\ RowsHaveAPublisher
            /\ NilMeansPublished
            /\ RefusedFoundRows
            /\ NoResultYet
            /\ NotAllAreVictims

(***************************************************************************)
(* A step that changes neither the table nor anybody's place in it, and    *)
(* after which the one call it is of holds no row and no new lock, keeps   *)
(* the invariant.                                                          *)
(***************************************************************************)
LEMMA Withdrawing ==
  ASSUME IInv, TypeOK', NEW p \in Proc,
         UNCHANGED <<rows, at, sched>>,
         blind \subseteq blind',
         \A o \in Proc \ {p} : pc'[o] = pc[o] /\ locked'[o] = locked[o] /\ result'[o] = result[o],
         ~Cleared(p)',
         pc'[p] # "inserted",
         locked'[p] => locked[p],
         pc'[p] # "exists",
         pc'[p] = "failing" => result'[p] \in {"deadlock", "error"}
  PROVE  IInv'
<1> USE DEF IInv
<1>1. \A o \in Proc : Cleared(o)' => o # p /\ Cleared(o)
  BY DEF Cleared
<1>2. ClearedHoldLocks'
  BY <1>1 DEF ClearedHoldLocks
<1>3. ClearedStayClear'
  BY <1>1 DEF ClearedStayClear, Retrieve, AskedDate
<1>4. LocksKeepRowsOut'
  BY DEF LocksKeepRowsOut, StoredDate, AskedDate, Inserts
<1>5. RefusalsStand'
  BY DEF RefusalsStand, Retrieve, AskedDate
<1> QED
  BY <1>2, <1>3, <1>4, <1>5

(***************************************************************************)
(* A count, whatever it finds, keeps the invariant: the rows that would    *)
(* have to be kept out are those it has waited for.                        *)
(***************************************************************************)
LEMMA Counting ==
  ASSUME IInv, TypeOK', NEW p \in Proc, FindsSchedule(p) \/ FindsNone(p)
  PROVE  IInv'
<1> USE DEF IInv
<1>1. /\ pc[p] = "begun" /\ UNCHANGED <<rows, at, sched, blind>>
      /\ \A o \in Proc : ~CountWaitsFor(p, o)
      /\ \A o \in Proc \ {p} : pc'[o] = pc[o] /\ locked'[o] = locked[o] /\ result'[o] = result[o]
      /\ locked'[p]
      /\ \/ pc'[p] = "exists" /\ result'[p] = "ErrAlreadyExists" /\ Retrieve(AskedDate(p)) # {}
         \/ pc'[p] = "clear" /\ Retrieve(AskedDate(p)) = {}
  BY DEF FindsSchedule, FindsNone, Count, TypeOK
<1>2. \A o \in Proc : Cleared(o)' => o = p \/ Cleared(o)
  BY <1>1 DEF Cleared
<1>3. ClearedHoldLocks'
  BY <1>1, <1>2 DEF ClearedHoldLocks
<1>4. ClearedStayClear'
  BY <1>1, <1>2 DEF ClearedStayClear, Cleared, Retrieve, AskedDate
<1>5. LocksKeepRowsOut'
  <2> SUFFICES ASSUME NEW x \in Proc, NEW o \in Proc,
                      o # x, locked'[x], pc'[o] = "inserted", Inserts(o)
               PROVE  StoredDate(o) # AskedDate(x)
    BY <1>1 DEF LocksKeepRowsOut, StoredDate, AskedDate, Inserts
  <2>1. o # p /\ pc[o] = "inserted"
    BY <1>1
  <2>2. CASE x = p
    BY <1>1, <2>1, <2>2 DEF CountWaitsFor
  <2>3. CASE x # p
    BY <1>1, <2>1, <2>3 DEF LocksKeepRowsOut
  <2> QED
    BY <2>2, <2>3
<1>6. RefusalsStand'
  BY <1>1 DEF RefusalsStand, Retrieve, AskedDate
<1> QED
  BY <1>3, <1>4, <1>5, <1>6

(***************************************************************************)
(* An insertion keeps the invariant: a place among the rows of a date that *)
(* is locked is one of those it waits for.                                 *)
(***************************************************************************)
LEMMA Inserting ==
  ASSUME IInv, TypeOK', NEW p \in Proc, Insert(p)
  PROVE  IInv'
<1> USE DEF IInv
<1>1. /\ pc[p] = "clear" /\ UNCHANGED <<rows, at, sched, locked, result, blind>>
      /\ \A o \in Proc : ~InsertWaitsFor(p, o)
      /\ \A o \in Proc \ {p} : pc'[o] = pc[o]
      /\ pc'[p] = "inserted"
  BY DEF Insert, TypeOK
<1>2. \A o \in Proc : Cleared(o)' => Cleared(o)
  BY <1>1 DEF Cleared
<1>3. ClearedHoldLocks'
  BY <1>1, <1>2 DEF ClearedHoldLocks
<1>4. ClearedStayClear'
  BY <1>1, <1>2 DEF ClearedStayClear, Retrieve, AskedDate
<1>5. LocksKeepRowsOut'
  <2> SUFFICES ASSUME NEW x \in Proc, NEW o \in Proc,
                      o # x, locked[x], pc'[o] = "inserted", Inserts(o)
               PROVE  StoredDate(o) # AskedDate(x)
    BY <1>1 DEF LocksKeepRowsOut, StoredDate, AskedDate, Inserts
  <2>1. CASE o = p
    BY <1>1, <2>1 DEF InsertWaitsFor, InGap
  <2>2. CASE o # p
    BY <1>1, <2>2 DEF LocksKeepRowsOut
  <2> QED
    BY <2>1, <2>2
<1>6. RefusalsStand'
  BY <1>1 DEF RefusalsStand, Retrieve, AskedDate
<1> QED
  BY <1>3, <1>4, <1>5, <1>6

(***************************************************************************)
(* A commit keeps the invariant: its rows are of no date for which another *)
(* call has counted none, as that call's locks would have kept them out.   *)
(***************************************************************************)
LEMMA Committing ==
  ASSUME IInv, TypeOK', NEW p \in Proc, pc[p] = "inserted",
         rows' = rows \cup Published(p),
         UNCHANGED <<at, sched, blind>>,
         \A o \in Proc \ {p} : pc'[o] = pc[o] /\ locked'[o] = locked[o] /\ result'[o] = result[o],
         pc'[p] \in {"returned", "crashed"}, ~locked'[p]
  PROVE  IInv'
<1> USE DEF IInv
<1>1. \A o \in Proc : Cleared(o)' => o # p /\ Cleared(o)
  BY DEF Cleared
<1>2. ClearedHoldLocks'
  BY <1>1 DEF ClearedHoldLocks
<1>3. ClearedStayClear'
  <2> SUFFICES ASSUME NEW o \in Proc, Cleared(o), o # p
               PROVE  \A r \in rows \cup Published(p) : r.date # AskedDate(o)
    BY <1>1 DEF ClearedStayClear, Retrieve, AskedDate
  <2>1. \A r \in rows : r.date # AskedDate(o)
    BY DEF ClearedStayClear, Retrieve
  <2>2. ASSUME NEW r \in Published(p)
        PROVE  r.date # AskedDate(o)
    <3>1. Inserts(p) /\ r.date = StoredDate(p)
      BY <2>2 DEF Published, Inserts
    <3>2. locked[o]
      BY DEF ClearedHoldLocks
    <3> QED
      BY <3>1, <3>2 DEF LocksKeepRowsOut
  <2> QED
    BY <2>1, <2>2
<1>4. LocksKeepRowsOut'
  BY DEF LocksKeepRowsOut, StoredDate, AskedDate, Inserts
<1>5. RefusalsStand'
  <2>1. \A d : Retrieve(d) \subseteq Retrieve(d)'
    BY DEF Retrieve
  <2> QED
    BY <2>1 DEF RefusalsStand, AskedDate
<1> QED
  BY <1>2, <1>3, <1>4, <1>5

(***************************************************************************)
(* Every step keeps the invariant.                                         *)
(***************************************************************************)
LEMMA Inductive ==
  ASSUME IInv, TypeOK', [Next]_vars
  PROVE  IInv'
<1>1. ASSUME NEW p \in Proc, Begin(p)
      PROVE  IInv'
  BY <1>1, Withdrawing DEF Begin, Cleared, IInv, TypeOK
<1>2. ASSUME NEW p \in Proc, FindsSchedule(p) \/ FindsNone(p)
      PROVE  IInv'
  BY <1>2, Counting
<1>3. ASSUME NEW p \in Proc, Insert(p)
      PROVE  IInv'
  BY <1>3, Inserting
<1>4. ASSUME NEW p \in Proc, CountCutShort(p)
      PROVE  IInv'
  BY <1>4, Withdrawing DEF CountCutShort, Cleared, IInv, TypeOK
<1>5. ASSUME NEW p \in Proc, DeadlockVictim(p) \/ StatementFails(p)
      PROVE  IInv'
  BY <1>5, Withdrawing DEF DeadlockVictim, StatementFails, Cleared, IInv, TypeOK
<1>6. ASSUME NEW p \in Proc, CommitFails(p) \/ EndWithoutWriting(p)
      PROVE  IInv'
  BY <1>6, Withdrawing DEF CommitFails, EndWithoutWriting, Cleared, IInv, TypeOK
<1>7. ASSUME NEW p \in Proc, Commit(p)
      PROVE  IInv'
  <2>1. /\ pc[p] = "inserted" /\ rows' = rows \cup Published(p) /\ UNCHANGED <<at, sched, blind>>
        /\ \A o \in Proc \ {p} : pc'[o] = pc[o] /\ locked'[o] = locked[o] /\ result'[o] = result[o]
        /\ pc'[p] \in {"returned", "crashed"} /\ ~locked'[p]
    BY <1>7 DEF Commit, IInv, TypeOK
  <2> QED
    BY <2>1, Committing
<1>8. ASSUME NEW p \in Proc, Crash(p)
      PROVE  IInv'
  <2>1. /\ UNCHANGED <<at, sched, blind>>
        /\ \A o \in Proc \ {p} : pc'[o] = pc[o] /\ locked'[o] = locked[o] /\ result'[o] = result[o]
        /\ pc'[p] = "crashed" /\ ~locked'[p]
    BY <1>8 DEF Crash, IInv, TypeOK
  <2>2. CASE rows' = rows
    BY <2>1, <2>2, Withdrawing DEF Cleared
  <2>3. CASE pc[p] = "inserted" /\ rows' = rows \cup Published(p)
    BY <2>1, <2>3, Committing
  <2> QED
    BY <1>8, <2>2, <2>3 DEF Crash
<1>9. CASE UNCHANGED vars
  BY <1>9 DEF vars, IInv, ClearedHoldLocks, ClearedStayClear, LocksKeepRowsOut, RefusalsStand,
     Cleared, Retrieve, AskedDate, StoredDate, Inserts
<1> QED
  BY <1>1, <1>2, <1>3, <1>4, <1>5, <1>6, <1>7, <1>8, <1>9 DEF Next, Advance, Trouble, Finished

LEMMA InitiallyIInv == Init => IInv
BY DEF Init, IInv, TypeOK, ClearedHoldLocks, ClearedStayClear, LocksKeepRowsOut, RefusalsStand,
   Cleared

---------------------------------------------------------------------------
(***************************************************************************)
(* What PublishOnce reads of the table is what the queries read of it, and *)
(* what it is given to add is what a commit adds.                          *)
(***************************************************************************)
Table == {[date |-> r.date, entry |-> r.entry] : r \in rows}

calls == [p \in Proc |-> [asked |-> AskedDate(p), stored |-> StoredDate(p), schedule |-> sched[p]]]

LEMMA TableIsTheSame ==
  /\ \A d : Promise!Retrieve(d) = Retrieve(d)
  /\ \A p \in Proc : rows' = rows \cup Published(p) =>
       Table' = Table \cup {[date |-> StoredDate(p), entry |-> e] : e \in sched[p]}
<1>1. ASSUME NEW d
      PROVE  Promise!Retrieve(d) = Retrieve(d)
  <2>1. ASSUME NEW e
        PROVE  e \in Promise!Retrieve(d) <=> \E r \in rows : r.date = d /\ r.entry = e
    <3>1. e \in Promise!Retrieve(d) <=> \E x \in Table : x.date = d /\ x.entry = e
      BY DEF Promise!Retrieve, Table
    <3>2. ASSUME NEW x \in Table, x.date = d, x.entry = e
          PROVE  \E r \in rows : r.date = d /\ r.entry = e
      <4>1. PICK r \in rows : x = [date |-> r.date, entry |-> r.entry]
        BY DEF Table
      <4> QED
        BY <3>2, <4>1
    <3>3. ASSUME NEW r \in rows, r.date = d, r.entry = e
          PROVE  \E x \in Table : x.date = d /\ x.entry = e
      <4>1. [date |-> d, entry |-> e] \in Table
        BY <3>3 DEF Table
      <4> QED
        BY <4>1
    <3> QED
      BY <3>1, <3>2, <3>3
  <2>2. ASSUME NEW e
        PROVE  e \in Retrieve(d) <=> \E r \in rows : r.date = d /\ r.entry = e
    BY DEF Retrieve
  <2> QED
    BY <2>1, <2>2
<1>2. ASSUME NEW p \in Proc, rows' = rows \cup Published(p)
      PROVE  Table' = Table \cup {[date |-> StoredDate(p), entry |-> e] : e \in sched[p]}
  <2>1. Table' = Table \cup {[date |-> r.date, entry |-> r.entry] : r \in Published(p)}
    BY <1>2 DEF Table
  <2> DEFINE row(e) == [by |-> p, entry |-> e, date |-> StoredDate(p)]
             seen(r) == [date |-> r.date, entry |-> r.entry]
             added(e) == [date |-> StoredDate(p), entry |-> e]
  <2>2. \A e : seen(row(e)) = added(e)
    OBVIOUS
  <2>3. Published(p) = {row(e) : e \in sched[p]}
    BY DEF Published
  <2> HIDE DEF row, seen, added
  <2>4. {seen(r) : r \in Published(p)} = {added(e) : e \in sched[p]}
    BY <2>2, <2>3
  <2> QED
    BY <2>1, <2>4 DEF seen, added
<1> QED
  BY <1>1, <1>2

(***************************************************************************)
(* The step of one call changes its own answer only: to what it reports    *)
(* when it returns.                                                        *)
(***************************************************************************)
LEMMA AnswerChanges ==
  ASSUME TypeOK, TypeOK', NEW p \in Proc, pc[p] # "returned",
         \A o \in Proc \ {p} : pc'[o] = pc[o] /\ result'[o] = result[o]
  PROVE  /\ answer[p] = "none"
         /\ pc'[p] # "returned" => answer' = answer
         /\ pc'[p] = "returned" => answer' = [answer EXCEPT ![p] = result'[p]]
<1> DEFINE say == IF pc'[p] = "returned" THEN result'[p] ELSE "none"
<1>1. answer[p] = "none"
  BY DEF answer
<1>2. answer' = [answer EXCEPT ![p] = say]
  BY DEF answer
<1>3. say = "none" => [answer EXCEPT ![p] = say] = answer
  BY <1>1 DEF answer
<1> QED
  BY <1>1, <1>2, <1>3

(***************************************************************************)
(* Every step of Publish is a step of PublishOnce or leaves what that sees *)
(* unchanged.                                                              *)
(***************************************************************************)
LEMMA StepImplements ==
  ASSUME IInv, TypeOK', [Next]_vars
  PROVE  [Promise!Next]_(Promise!vars)
<1>1. UNCHANGED <<at, sched>>
  BY DEF Next, Advance, Trouble, Finished, Begin, FindsSchedule, FindsNone, Count, CountCutShort,
     Insert, DeadlockVictim, StatementFails, Commit, CommitFails, EndWithoutWriting, Crash, vars
<1>2. UNCHANGED calls
  BY <1>1 DEF calls, AskedDate, StoredDate
<1>3. SUFFICES UNCHANGED <<Table, answer, blind>> \/ \E p \in Proc :
                 Promise!LoseCount(p) \/ Promise!Fail(p)
                   \/ Promise!Publish(p, calls[p]) \/ Promise!Refuse(p, calls[p])
  BY <1>2 DEF Promise!Next, Promise!vars, Table, calls
<1>4. ASSUME NEW p \in Proc,
             \/ Begin(p) \/ FindsSchedule(p) \/ FindsNone(p) \/ Insert(p)
             \/ DeadlockVictim(p) \/ StatementFails(p)
      PROVE  UNCHANGED <<Table, answer, blind>>
  <2>1. /\ pc[p] # "returned" /\ pc'[p] # "returned" /\ UNCHANGED <<rows, blind>>
        /\ \A o \in Proc \ {p} : pc'[o] = pc[o] /\ result'[o] = result[o]
    <3>1. CASE DeadlockVictim(p)
      BY <3>1 DEF DeadlockVictim, Deadlocked, InsertWaitsFor, IInv, TypeOK
    <3>2. CASE ~DeadlockVictim(p)
      BY <1>4, <3>2 DEF Begin, FindsSchedule, FindsNone, Count, Insert, StatementFails, IInv, TypeOK
    <3> QED
      BY <3>1, <3>2
  <2> QED
    BY <2>1, AnswerChanges DEF IInv, Table
<1>5. ASSUME NEW p \in Proc, CountCutShort(p)
      PROVE  Promise!LoseCount(p)
  <2>1. /\ pc[p] # "returned" /\ pc'[p] # "returned" /\ UNCHANGED rows /\ blind' = blind \cup {p}
        /\ \A o \in Proc \ {p} : pc'[o] = pc[o] /\ result'[o] = result[o]
    BY <1>5 DEF CountCutShort, IInv, TypeOK
  <2>2. answer[p] = "none" /\ UNCHANGED <<Table, answer>>
    BY <2>1, AnswerChanges DEF IInv, Table
  <2> QED
    BY <2>1, <2>2 DEF Promise!LoseCount, Table
<1>6. ASSUME NEW p \in Proc, CommitFails(p) \/ (EndWithoutWriting(p) /\ pc[p] = "failing")
      PROVE  Promise!Fail(p)
  <2>1. /\ pc[p] # "returned" /\ pc'[p] = "returned" /\ UNCHANGED <<rows, blind>>
        /\ \A o \in Proc \ {p} : pc'[o] = pc[o] /\ result'[o] = result[o]
        /\ result'[p] \in {"deadlock", "error"}
    BY <1>6 DEF CommitFails, EndWithoutWriting, IInv, TypeOK, RefusalsStand
  <2>2. answer[p] = "none" /\ UNCHANGED <<Table, blind>> /\ answer' = [answer EXCEPT ![p] = result'[p]]
    BY <2>1, AnswerChanges DEF IInv, Table
  <2> QED
    BY <2>1, <2>2 DEF Promise!Fail, Table
<1>7. ASSUME NEW p \in Proc, EndWithoutWriting(p), pc[p] = "exists"
      PROVE  Promise!Refuse(p, calls[p])
  <2>1. /\ pc[p] # "returned" /\ pc'[p] = "returned" /\ UNCHANGED <<rows, blind>>
        /\ \A o \in Proc \ {p} : pc'[o] = pc[o] /\ result'[o] = result[o]
        /\ result'[p] = "ErrAlreadyExists"
        /\ Retrieve(AskedDate(p)) # {}
    BY <1>7 DEF EndWithoutWriting, IInv, TypeOK, RefusalsStand
  <2>2. /\ answer[p] = "none" /\ UNCHANGED <<Table, blind>>
        /\ answer' = [answer EXCEPT ![p] = "ErrAlreadyExists"]
    BY <2>1, AnswerChanges DEF IInv, Table
  <2>3. calls[p].asked = AskedDate(p)
    BY DEF calls
  <2> QED
    BY <2>1, <2>2, <2>3, TableIsTheSame DEF Promise!Refuse, Table
<1>8. ASSUME NEW p \in Proc, pc[p] = "inserted", rows' = rows \cup Published(p), UNCHANGED blind,
             \A o \in Proc \ {p} : pc'[o] = pc[o] /\ result'[o] = result[o],
             pc'[p] = "returned" => result'[p] \in {"nil", "error"}
      PROVE  Promise!Publish(p, calls[p])
  <2>1. Retrieve(AskedDate(p)) = {} \/ p \in blind
    BY <1>8 DEF IInv, ClearedStayClear, Cleared
  <2>2. /\ answer[p] = "none"
        /\ answer' \in {answer} \cup {[answer EXCEPT ![p] = a] : a \in {"nil", "error"}}
    BY <1>8, AnswerChanges DEF IInv
  <2>3. /\ calls[p].asked = AskedDate(p)
        /\ calls[p].stored = StoredDate(p)
        /\ calls[p].schedule = sched[p]
    BY DEF calls
  <2>4. Table' = Table \cup {[date |-> StoredDate(p), entry |-> e] : e \in sched[p]}
    BY <1>8, TableIsTheSame
  <2> QED
    BY <1>8, <2>1, <2>2, <2>3, <2>4, TableIsTheSame DEF Promise!Publish, Table
<1>9. ASSUME NEW p \in Proc, Commit(p)
      PROVE  Promise!Publish(p, calls[p])
  BY <1>8, <1>9 DEF Commit, IInv, TypeOK
<1>10. ASSUME NEW p \in Proc, Crash(p)
       PROVE  UNCHANGED <<Table, answer, blind>> \/ Promise!Publish(p, calls[p])
  <2>1. /\ pc[p] # "returned" /\ pc'[p] # "returned" /\ UNCHANGED blind
        /\ \A o \in Proc \ {p} : pc'[o] = pc[o] /\ result'[o] = result[o]
        /\ rows' = rows \/ (pc[p] = "inserted" /\ rows' = rows \cup Published(p))
    BY <1>10 DEF Crash, IInv, TypeOK
  <2>2. CASE rows' = rows
    BY <2>1, <2>2, AnswerChanges DEF IInv, Table
  <2>3. CASE pc[p] = "inserted" /\ rows' = rows \cup Published(p)
    BY <1>8, <2>1, <2>3
  <2> QED
    BY <2>1, <2>2, <2>3
<1>11. CASE UNCHANGED vars
  BY <1>11 DEF vars, Table, answer
<1> QED
  BY <1>4, <1>5, <1>6, <1>7, <1>9, <1>10, <1>11
     DEF Next, Advance, Trouble, Finished, EndWithoutWriting

(***************************************************************************)
(* Publish is the indivisible step that schedstore.SchedStore promises,    *)
(* for any number of publishers on any hosts, in any location, and even    *)
(* when counts and acknowledgements are lost and publishers die.           *)
(***************************************************************************)
THEOREM PublishIsOneStep == Spec => ImplementsStore
<1>1. Init => Promise!Init
  BY DEF Init, Promise!Init, answer, AskedDate, StoredDate
<1>2. IInv /\ TypeOK' /\ [Next]_vars => IInv'
  BY Inductive
<1>3. IInv /\ TypeOK' /\ [Next]_vars => [Promise!Next]_(Promise!vars)
  BY StepImplements
<1> QED
  BY <1>1, <1>2, <1>3, InitiallyIInv, TypeCorrect, PTL DEF Spec, ImplementsStore, Promise!Spec

---------------------------------------------------------------------------
(***************************************************************************)
(* A step other than a commit leaves the table alone, and brings nobody a  *)
(* nil; it makes a victim or a refusal of one call at most.                *)
(***************************************************************************)
StepOf(p) ==
  /\ pc[p] \notin {"returned", "crashed"}
  /\ \A o \in Proc \ {p} : pc'[o] = pc[o] /\ result'[o] = result[o]
  /\ result'[p] = "nil" => rows' = rows \cup Published(p) /\ pc'[p] = "returned"
  /\ \/ rows' = rows
     \/ /\ rows' = rows \cup Published(p)
        /\ pc[p] = "inserted"
        /\ pc'[p] = "crashed" \/ (pc'[p] = "returned" /\ result'[p] \in {"nil", "error"})
  /\ pc'[p] \in {"idle", "begun", "clear", "inserted"} => result'[p] = "none"
  /\ result'[p] = "ErrAlreadyExists" => result[p] = "ErrAlreadyExists" \/ rows # {}
  /\ result'[p] = "deadlock" /\ result[p] # "deadlock" => \E o \in Proc \ {p} : pc[o] = "clear"

LEMMA StepOfOneCall ==
  ASSUME TypeOK, Outcomes, [Next]_vars
  PROVE  /\ UNCHANGED <<at, sched>> /\ blind \subseteq blind'
         /\ (rows' = rows /\ pc' = pc /\ result' = result) \/ \E p \in Proc : StepOf(p)
<1> USE DEF TypeOK, Outcomes, NilMeansPublished, NoResultYet
<1>1. UNCHANGED <<at, sched>> /\ blind \subseteq blind'
  BY DEF Next, Advance, Trouble, Finished, Begin, FindsSchedule, FindsNone, Count, CountCutShort,
     Insert, DeadlockVictim, StatementFails, Commit, CommitFails, EndWithoutWriting, Crash, vars
<1>2. ASSUME NEW p \in Proc, Begin(p) \/ CountCutShort(p) \/ Insert(p) \/ FindsNone(p)
      PROVE  StepOf(p)
  BY <1>2 DEF StepOf, Begin, CountCutShort, Insert, FindsNone, Count
<1>3. ASSUME NEW p \in Proc, FindsSchedule(p)
      PROVE  StepOf(p)
  BY <1>3 DEF StepOf, FindsSchedule, Count, Retrieve
<1>4. ASSUME NEW p \in Proc, DeadlockVictim(p)
      PROVE  StepOf(p)
  <2>1. PICK S \in SUBSET Proc : p \in S /\ Deadlocked(S)
    BY <1>4 DEF DeadlockVictim
  <2>2. PICK o \in S : InsertWaitsFor(p, o)
    BY <2>1 DEF Deadlocked
  <2>3. o \in Proc \ {p} /\ pc[p] = "clear" /\ pc[o] = "clear"
    BY <2>1, <2>2 DEF Deadlocked, InsertWaitsFor
  <2>4. pc' = [pc EXCEPT ![p] = "failing"] /\ result' = [result EXCEPT ![p] = "deadlock"] /\ rows' = rows
    BY <1>4 DEF DeadlockVictim
  <2> QED
    BY <2>3, <2>4 DEF StepOf
<1>5. ASSUME NEW p \in Proc, StatementFails(p) \/ CommitFails(p) \/ EndWithoutWriting(p)
      PROVE  StepOf(p)
  BY <1>5 DEF StepOf, StatementFails, CommitFails, EndWithoutWriting
<1>6. ASSUME NEW p \in Proc, Commit(p)
      PROVE  StepOf(p)
  BY <1>6 DEF StepOf, Commit
<1>7. ASSUME NEW p \in Proc, Crash(p)
      PROVE  StepOf(p)
  BY <1>7 DEF StepOf, Crash
<1>8. CASE UNCHANGED vars
  BY <1>8 DEF vars
<1> QED
  BY <1>1, <1>2, <1>3, <1>4, <1>5, <1>6, <1>7, <1>8 DEF Next, Advance, Trouble, Finished, vars

(***************************************************************************)
(* Outcomes is inductive, whatever faults occur.                           *)
(***************************************************************************)
LEMMA OutcomesInductive ==
  ASSUME TypeOK, Outcomes, [Next]_vars
  PROVE  Outcomes'
<1>1. UNCHANGED <<at, sched>>
  BY StepOfOneCall
<1>2. \A p \in Proc : Published(p)' = Published(p)
  BY <1>1 DEF Published, StoredDate
<1>3. CASE rows' = rows /\ pc' = pc /\ result' = result
  BY <1>2, <1>3 DEF Outcomes, RowsHaveAPublisher, NilMeansPublished, RefusedFoundRows, NoResultYet,
     NotAllAreVictims
<1>4. ASSUME NEW p \in Proc, StepOf(p)
      PROVE  Outcomes'
  <2>1. rows \subseteq rows' /\ \A o \in Proc \ {p} : pc'[o] = pc[o] /\ result'[o] = result[o]
    BY <1>4 DEF StepOf
  <2>2. RowsHaveAPublisher'
    <3>1. ASSUME NEW r \in rows
          PROVE  r.by \in Proc \ {p}
      BY <1>4 DEF StepOf, Outcomes, RowsHaveAPublisher, TypeOK
    <3>2. ASSUME NEW r \in Published(p)
          PROVE  r.by = p
      BY <3>2 DEF Published
    <3>3. ASSUME NEW r \in rows
          PROVE  (pc[r.by] = "crashed" \/ (pc[r.by] = "returned" /\ result[r.by] \in {"nil", "error"}))'
      BY <2>1, <3>1 DEF Outcomes, RowsHaveAPublisher
    <3> QED
      BY <1>4, <3>2, <3>3 DEF StepOf, RowsHaveAPublisher
  <2>3. NilMeansPublished'
    BY <1>2, <1>4, <2>1 DEF StepOf, Outcomes, NilMeansPublished
  <2>4. RefusedFoundRows'
    BY <1>4, <2>1 DEF StepOf, Outcomes, RefusedFoundRows
  <2>5. NoResultYet'
    BY <1>4, <2>1 DEF StepOf, Outcomes, NoResultYet
  <2>6. NotAllAreVictims'
    BY <1>4, <2>1 DEF StepOf, Outcomes, NotAllAreVictims, NoResultYet
  <2> QED
    BY <2>2, <2>3, <2>4, <2>5, <2>6 DEF Outcomes
<1> QED
  BY <1>3, <1>4, StepOfOneCall

LEMMA InitiallyOutcomes == Init => Outcomes
BY DEF Init, Outcomes, RowsHaveAPublisher, NilMeansPublished, RefusedFoundRows, NoResultYet,
   NotAllAreVictims

(***************************************************************************)
(* A local date gets one schedule, however many hosts publish at once, if  *)
(* they do so at hours that are of one date in the location and in UTC and *)
(* no schedule is empty.  publish_evening shows the first condition to be  *)
(* needed; rows that are not there cannot be counted, hence the second.    *)
(***************************************************************************)
THEOREM OneScheduleForADate ==
  ASSUME \A t \in Instants : UTCDate(t) = LocalDate(t),
         {} \notin Schedules
  PROVE  Spec => []OnePublisherPerDate
<1>1. Init => OnePublisherPerDate
  BY DEF Init, OnePublisherPerDate
<1>2. TypeOK /\ IInv /\ Outcomes /\ OnePublisherPerDate /\ [Next]_vars => OnePublisherPerDate'
  <2> SUFFICES ASSUME TypeOK, IInv, Outcomes, OnePublisherPerDate, [Next]_vars,
                      NEW p \in Proc, NEW o \in Proc, p # o,
                      result'[p] = "nil", result'[o] = "nil",
                      StoredDate(p)' = StoredDate(o)'
               PROVE  p \in blind' \/ o \in blind'
    BY DEF OnePublisherPerDate
  <2>1. UNCHANGED <<at, sched>> /\ blind \subseteq blind'
    BY StepOfOneCall
  <2>2. StoredDate(p) = StoredDate(o)
    BY <2>1 DEF StoredDate
  <2>3. ASSUME NEW x \in Proc
        PROVE  \E e : e \in sched[x]
    <3>1. sched[x] \in Schedules
      BY DEF TypeOK
    <3>2. sched[x] # {}
      BY <3>1
    <3> QED
      BY <3>2
  <2>4. ASSUME NEW x \in Proc, NEW y \in Proc, x # y, StepOf(x), StoredDate(x) = StoredDate(y),
               result'[x] = "nil", result'[y] = "nil"
        PROVE  x \in blind
    <3>1. result[y] = "nil" /\ Published(y) \subseteq rows
      BY <2>4 DEF StepOf, Outcomes, NilMeansPublished
    <3>2. PICK e : e \in sched[y]
      BY <2>3
    <3>3. [by |-> y, entry |-> e, date |-> StoredDate(y)] \in rows
      BY <3>1, <3>2 DEF Published
    <3>4. at[x] \in Instants /\ AskedDate(x) = StoredDate(y)
      BY <2>4 DEF TypeOK, AskedDate, StoredDate
    <3>5. e \in Retrieve(AskedDate(x))
      BY <3>3, <3>4 DEF Retrieve
    <3>6. pc[x] = "inserted"
      <4>1. rows' = rows \cup Published(x) /\ pc'[x] = "returned"
        BY <2>4 DEF StepOf
      <4>2. CASE rows' # rows
        BY <2>4, <4>2 DEF StepOf
      <4>3. CASE rows' = rows
        <5>1. PICK d : d \in sched[x]
          BY <2>3
        <5>2. [by |-> x, entry |-> d, date |-> StoredDate(x)] \in rows
          BY <4>1, <4>3, <5>1 DEF Published
        <5>3. pc[x] \in {"returned", "crashed"}
          BY <5>2 DEF Outcomes, RowsHaveAPublisher
        <5> QED
          BY <2>4, <5>3 DEF StepOf
      <4> QED
        BY <4>2, <4>3
    <3> QED
      BY <3>5, <3>6 DEF IInv, ClearedStayClear, Cleared
  <2>5. CASE result' = result
    BY <2>1, <2>2, <2>5 DEF OnePublisherPerDate
  <2>6. ASSUME NEW x \in Proc, StepOf(x)
        PROVE  p \in blind' \/ o \in blind'
    <3>1. CASE x = p
      BY <2>1, <2>2, <2>4, <2>6, <3>1
    <3>2. CASE x = o
      BY <2>1, <2>2, <2>4, <2>6, <3>2
    <3>3. CASE x # p /\ x # o
      BY <2>1, <2>2, <2>6, <3>3 DEF StepOf, OnePublisherPerDate
    <3> QED
      BY <3>1, <3>2, <3>3
  <2> QED
    BY <2>5, <2>6, StepOfOneCall
<1>3. IInv /\ TypeOK' /\ [Next]_vars => IInv'
  BY Inductive
<1>4. TypeOK /\ Outcomes /\ [Next]_vars => Outcomes'
  BY OutcomesInductive
<1> QED
  BY <1>1, <1>2, <1>3, <1>4, InitiallyIInv, InitiallyOutcomes, TypeCorrect, PTL DEF Spec

(***************************************************************************)
(* Publishers do not all lose to one another: refusals come of rows that   *)
(* somebody has published, and of those that wait in a circle not all are  *)
(* made victims.                                                           *)
(***************************************************************************)
THEOREM NotEverybodyLoses ==
  ASSUME Proc # {}
  PROVE  Spec => []SomebodyPublishes
<1>1. TypeOK /\ Outcomes => SomebodyPublishes
  <2> SUFFICES ASSUME TypeOK, Outcomes,
                      \A p \in Proc : pc[p] = "returned"
                                        /\ result[p] \in {"nil", "ErrAlreadyExists", "deadlock"}
               PROVE  \E p \in Proc : result[p] = "nil"
    BY DEF SomebodyPublishes
  <2>1. PICK p \in Proc : result[p] # "deadlock"
    BY DEF Outcomes, NotAllAreVictims
  <2>2. CASE result[p] = "ErrAlreadyExists"
    <3>1. PICK r \in rows : TRUE
      BY <2>2 DEF Outcomes, RefusedFoundRows
    <3>2. r.by \in Proc /\ result[r.by] \in {"nil", "error"}
      BY DEF TypeOK, Outcomes, RowsHaveAPublisher
    <3> QED
      BY <3>2
  <2> QED
    BY <2>1, <2>2
<1>2. TypeOK /\ Outcomes /\ [Next]_vars => Outcomes'
  BY OutcomesInductive
<1> QED
  BY <1>1, <1>2, InitiallyOutcomes, TypeCorrect, PTL DEF Spec
=============================================================================
