------------------------ MODULE DailyScheduleProofs ------------------------
(***************************************************************************)
(* Proofs about DailySchedule, for any hosts, groups, hours and number of  *)
(* failures: its types; that what cron runs has been published; the dates  *)
(* of the schedules table; and, when the scheduling run is made on the     *)
(* date that it schedules for, that the table has one time for a group on  *)
(* a date, that the deployments agree on it, that what is due on a date is *)
(* fetched on it, and that a host which has installed a schedule launches  *)
(* all of it when it is due and at no other time for six days.             *)
(***************************************************************************)
EXTENDS DailySchedule, TLAPS

Past(c) == pc[c] \in {"open", "write"}

(***************************************************************************)
(* What a command is about to publish was made in this hour, with one time *)
(* of this date for a group.                                               *)
(***************************************************************************)
MadeThisHour ==
  \A c \in Command : pc[c] = "publish" =>
     /\ now % 24 = RunHour
     /\ \A e \in sched[c] : e.time \in TerminationTimes(now)
     /\ \A e, f \in sched[c] : e.group = f.group => e = f

(***************************************************************************)
(* Everything on its way to cron is in the database.                       *)
(***************************************************************************)
Published(e) == \E r \in store : r.entry = e

OnItsWayIsPublished ==
  /\ \A c \in Command : Past(c) => \A e \in sched[c] : Published(e)
  /\ \A h \in Host : \A e \in crontab[h] : Published(e)
  /\ \A l \in launched : Published(l.entry)

IInv == TypeOK /\ MadeThisHour /\ OnItsWayIsPublished

---------------------------------------------------------------------------
(***************************************************************************)
(* The scheduling run is made on the same date in UTC as in the location.  *)
(* Otherwise Publish looks for another date than the one it stores.        *)
(***************************************************************************)
RunsOnTheDate == RunHour + Offset \in 0 .. 23

(***************************************************************************)
(* The table has one schedule for a date, with one time for a group.       *)
(***************************************************************************)
OneTimeForAGroup ==
  /\ \A r \in store : r.date \in 0 .. UTCDate(now) /\ LocalDate(r.entry.time) = r.date
  /\ \A r, s \in store : r.date = s.date /\ r.entry.group = s.entry.group => r = s

(***************************************************************************)
(* What a command has got from the store, and what a host is armed with,   *)
(* is all there is and will be for the date, unless it is nothing.         *)
(***************************************************************************)
Stored(table, d) == {r.entry : r \in {x \in table : x.date = d}}

SchedulesAreWhole ==
  /\ \A c \in Command : Past(c) /\ sched[c] # {} => sched[c] = Stored(store, date[c])
  /\ \A h \in Host : armed[h] # NoDate => crontab[h] # {} /\ crontab[h] = Stored(store, armed[h])

DatesInv == OneTimeForAGroup /\ SchedulesAreWhole

---------------------------------------------------------------------------
LEMMA Commands ==
  /\ \A h \in Host : <<h, "schedule">> \in Command /\ <<h, "fetch">> \in Command
  /\ \A c \in Command : HostOf(c) \in Host
  /\ \A h \in Host : HostOf(<<h, "schedule">>) = h /\ HostOf(<<h, "fetch">>) = h
  BY DEF Command, HostOf

LEMMA TimesAreInstants ==
  ASSUME NEW t \in Int
  PROVE  TerminationTimes(t) \subseteq Int
  BY DailyScheduleAssumption DEF TerminationTimes, UTCDate

(***************************************************************************)
(* What the store returns for a date.                                      *)
(***************************************************************************)
LEMMA WhatIsRetrieved ==
  ASSUME NEW d
  PROVE  Retrieve(d) = Stored(store, d)
  BY DEF Retrieve, Store!Retrieve, Stored

LEMMA WhatIsMade ==
  ASSUME NEW h \in Host, Populate(h), now \in Int
  PROVE  \E making \in SUBSET Entry :
            /\ MakeSchedule(<<h, "schedule">>, making)
            /\ \A e \in making : e.time \in TerminationTimes(now)
            /\ \A e, f \in making : e.group = f.group => e = f
<1>1. PICK G \in SUBSET Group : \E tm \in [G -> TerminationTimes(now)] :
        MakeSchedule(<<h, "schedule">>, {[group |-> g, time |-> tm[g]] : g \in G})
  BY DEF Populate
<1>2. PICK tm \in [G -> TerminationTimes(now)] :
        MakeSchedule(<<h, "schedule">>, {[group |-> g, time |-> tm[g]] : g \in G})
  BY <1>1
<1> DEFINE making == {[group |-> g, time |-> tm[g]] : g \in G}
<1>3. making \in SUBSET Entry
  BY TimesAreInstants DEF Entry
<1>4. \A e \in making : e.time \in TerminationTimes(now)
  OBVIOUS
<1>5. \A e, f \in making : e.group = f.group => e = f
  OBVIOUS
<1> QED
  BY <1>2, <1>3, <1>4, <1>5

LEMMA TypesInductive ==
  ASSUME TypeOK, [Next]_vars
  PROVE  TypeOK'
<1> USE DailyScheduleAssumption, Commands DEF TypeOK, cron
<1>1. CASE Tick
  <2>1. now' \in Stops
    BY <1>1 DEF Tick
  <2>2. launching' \subseteq [host: Host, entry: Entry]
    BY <1>1 DEF Tick
  <2>3. launched' \subseteq [entry: Entry, at: Stops]
    BY <1>1, <2>1, <2>2 DEF Tick
  <2> QED
    BY <1>1, <2>1, <2>2, <2>3 DEF Tick
<1>2. ASSUME NEW h \in Host, Populate(h)
      PROVE  TypeOK'
  <2>1. PICK making \in SUBSET Entry : MakeSchedule(<<h, "schedule">>, making)
    BY <1>2, WhatIsMade
  <2> QED
    BY <2>1 DEF MakeSchedule
<1>3. ASSUME NEW h \in Host, FetchSchedule(h)
      PROVE  TypeOK'
  <2>1. Retrieve(LocalDate(now)) \subseteq Entry
    BY WhatIsRetrieved DEF Stored
  <2>2. LocalDate(now) \in Int
    BY DEF LocalDate
  <2> HIDE DEF Entry
  <2> QED
    BY <1>3, <2>1, <2>2 DEF FetchSchedule
<1>4. ASSUME NEW c \in Command, Publish(c)
      PROVE  TypeOK'
  BY <1>4 DEF Publish, Store!Publish, LocalDate
<1>5. ASSUME NEW c \in Command,
             PublishFails(c) \/ OpenCrontab(c) \/ WriteNothing(c) \/ WriteCrontab(c)
      PROVE  TypeOK'
  BY <1>5 DEF PublishFails, OpenCrontab, WriteNothing, WriteCrontab, Over, NoDate
<1>6. ASSUME NEW c \in Command, OverwriteCrontab(c)
      PROVE  TypeOK'
  BY <1>6 DEF OverwriteCrontab, Over, NoDate
<1>7. ASSUME NEW c \in Command, Fail(c)
      PROVE  TypeOK'
  BY <1>7 DEF Fail, Over, NoDate
<1>8. CASE UNCHANGED vars
  BY <1>8 DEF vars
<1> QED
  BY <1>1, <1>2, <1>3, <1>4, <1>5, <1>6, <1>7, <1>8 DEF Next

LEMMA ClockIsNat ==
  ASSUME TypeOK
  PROVE  now \in Nat /\ (Tick => now' \in Nat /\ now < now')
  BY DailyScheduleAssumption DEF TypeOK, Tick

LEMMA Inductive ==
  ASSUME IInv, [Next]_vars
  PROVE  IInv'
<1> USE Commands DEF IInv, TypeOK, MadeThisHour, OnItsWayIsPublished, Past, Published, cron
<1> HIDE DEF TypeOK
<1>1. TypeOK'
  BY TypesInductive
<1>2. CASE Tick
  <2>1. \A l \in launched' : Published(l.entry)
    BY <1>2 DEF Tick, TypeOK
  <2>2. UNCHANGED <<store, crontab, pc, sched>> /\ \A c \in Command : pc[c] # "publish"
    BY <1>2 DEF Tick
  <2> QED
    BY <1>1, <2>1, <2>2
<1>3. ASSUME NEW h \in Host, Populate(h)
      PROVE  IInv'
  <2>1. PICK making \in SUBSET Entry :
          /\ MakeSchedule(<<h, "schedule">>, making)
          /\ \A e \in making : e.time \in TerminationTimes(now)
          /\ \A e, f \in making : e.group = f.group => e = f
    BY <1>3, ClockIsNat, WhatIsMade
  <2>2. MadeThisHour'
    BY <2>1 DEF MakeSchedule, TypeOK
  <2>3. OnItsWayIsPublished'
    BY <2>1 DEF MakeSchedule, TypeOK
  <2> QED
    BY <1>1, <2>2, <2>3
<1>4. ASSUME NEW h \in Host, FetchSchedule(h)
      PROVE  IInv'
  <2>1. \A e \in Retrieve(LocalDate(now)) : Published(e)
    BY WhatIsRetrieved DEF Stored
  <2>2. MadeThisHour'
    BY <1>4 DEF FetchSchedule, TypeOK
  <2>3. OnItsWayIsPublished'
    BY <1>4, <2>1 DEF FetchSchedule, TypeOK
  <2> QED
    BY <1>1, <2>2, <2>3
<1>5. ASSUME NEW c \in Command, Publish(c)
      PROVE  IInv'
  <2>1. /\ pc' = [pc EXCEPT ![c] = "open"]
        /\ store' = store \cup {[date |-> LocalDate(now), entry |-> e] : e \in sched[c]}
        /\ UNCHANGED <<now, crontab, sched, launched>>
    BY <1>5 DEF Publish, Store!Publish
  <2>2. \A e : Published(e) => Published(e)'
    BY <2>1
  <2>3. ASSUME NEW e \in sched[c]
        PROVE  Published(e)'
    <3>1. [date |-> LocalDate(now), entry |-> e] \in store'
      BY <2>1
    <3> QED
      BY <3>1
  <2>4. MadeThisHour'
    BY <2>1 DEF TypeOK
  <2>5. OnItsWayIsPublished'
    BY <2>1, <2>2, <2>3 DEF TypeOK
  <2> QED
    BY <1>1, <2>4, <2>5
<1>6. ASSUME NEW c \in Command, OpenCrontab(c)
      PROVE  IInv'
  BY <1>1, <1>6 DEF OpenCrontab, TypeOK
<1>7. ASSUME NEW c \in Command,
             PublishFails(c) \/ WriteNothing(c) \/ WriteCrontab(c) \/ Fail(c)
      PROVE  IInv'
  <2>1. MadeThisHour'
    BY <1>7 DEF PublishFails, WriteNothing, WriteCrontab, Fail, Over, TypeOK
  <2>2. OnItsWayIsPublished'
    BY <1>7 DEF PublishFails, WriteNothing, WriteCrontab, Fail, Over, TypeOK
  <2> QED
    BY <1>1, <2>1, <2>2
<1>8. ASSUME NEW c \in Command, OverwriteCrontab(c)
      PROVE  IInv'
  <2>1. PICK content \in {{}} \cup {sched[c] \cup rest : rest \in SUBSET crontab[HostOf(c)]} :
          crontab' = [crontab EXCEPT ![HostOf(c)] = content]
    BY <1>8 DEF OverwriteCrontab
  <2>2. content \subseteq sched[c] \cup crontab[HostOf(c)]
    OBVIOUS
  <2>3. pc[c] = "write" /\ Over({c}) /\ UNCHANGED <<now, store, launched>>
    BY <1>8 DEF OverwriteCrontab
  <2>4. MadeThisHour'
    BY <2>3 DEF Over, TypeOK
  <2>5. OnItsWayIsPublished'
    BY <2>1, <2>2, <2>3 DEF Over, TypeOK
  <2> QED
    BY <1>1, <2>4, <2>5
<1>9. CASE UNCHANGED vars
  BY <1>1, <1>9 DEF vars
<1> QED
  BY <1>2, <1>3, <1>4, <1>5, <1>6, <1>7, <1>8, <1>9 DEF Next

LEMMA Initially == Init => IInv
<1> SUFFICES ASSUME Init
             PROVE  IInv
  OBVIOUS
<1>1. TypeOK
  BY DailyScheduleAssumption DEF Init, TypeOK, NoDate
<1>2. MadeThisHour /\ OnItsWayIsPublished
  BY DEF Init, MadeThisHour, OnItsWayIsPublished, Past
<1> QED
  BY <1>1, <1>2 DEF IInv

(***************************************************************************)
(* The variables of the daily run keep their types: what is in a crontab   *)
(* or on its way there is a group with a time.                             *)
(***************************************************************************)
THEOREM TypeCorrect == Spec => []TypeOK
<1>1. IInv => TypeOK
  BY DEF IInv
<1> QED
  BY <1>1, Initially, Inductive, PTL DEF Spec

(***************************************************************************)
(* Whatever commands run side by side, overwrite one another's crontab and *)
(* die, cron runs nothing that is not in the database.                     *)
(***************************************************************************)
THEOREM CronRunsWhatIsPublished == Spec => []CrontabsArePublished
<1>1. IInv => CrontabsArePublished
  BY DEF IInv, OnItsWayIsPublished, Published, CrontabsArePublished
<1> QED
  BY <1>1, Initially, Inductive, PTL DEF Spec

---------------------------------------------------------------------------
(***************************************************************************)
(* How many days the location is ahead of the host in the hour of the      *)
(* scheduling run.                                                         *)
(***************************************************************************)
DateShift == (RunHour + Offset) \div 24

LEMMA DatesOfARun ==
  ASSUME NEW t \in Nat, t % 24 = RunHour
  PROVE  /\ UTCDate(t) \in Nat /\ DateShift \in Int
         /\ LocalDate(t) = UTCDate(t) + DateShift
         /\ \A u \in TerminationTimes(t) : u \in Int /\ LocalDate(u) = UTCDate(t)
<1> USE DailyScheduleAssumption DEF UTCDate, LocalDate, TerminationTimes, DateShift
<1> DEFINE q == UTCDate(t)
           m == t % 24
<1>1. q \in Nat /\ m \in 0 .. 23 /\ t = 24 * q + m /\ Offset \in Int
  OBVIOUS
<1>2. ASSUME NEW hour \in StartHour .. EndHour - 1
      PROVE  /\ 24 * UTCDate(t) + hour - Offset \in Int
             /\ LocalDate(24 * UTCDate(t) + hour - Offset) = UTCDate(t)
  <2>1. hour \in 0 .. 23
    OBVIOUS
  <2> HIDE DEF q
  <2>2. (24 * q + hour - Offset) + Offset = 24 * q + hour
    BY <1>1, <2>1
  <2>3. (24 * q + hour) \div 24 = q
    BY <1>1, <2>1
  <2> QED
    BY <1>1, <2>1, <2>2, <2>3 DEF q
<1>3. LocalDate(t) = UTCDate(t) + DateShift /\ DateShift \in Int
  <2>1. m = RunHour
    OBVIOUS
  <2> HIDE DEF q, m
  <2>2. (24 * q + m + Offset) \div 24 = q + ((m + Offset) \div 24) /\ (m + Offset) \div 24 \in Int
    BY <1>1
  <2>3. t + Offset = 24 * q + m + Offset
    BY <1>1
  <2> QED
    BY <2>1, <2>2, <2>3 DEF q
<1> QED
  BY <1>1, <1>2, <1>3

LEMMA NoShift ==
  ASSUME RunsOnTheDate
  PROVE  DateShift = 0
<1>1. RunHour + Offset \in 0 .. 23
  BY DEF RunsOnTheDate
<1> QED
  BY <1>1 DEF DateShift

LEMMA DateArithmetic ==
  ASSUME RunsOnTheDate, now \in Nat, now % 24 = RunHour
  PROVE  /\ UTCDate(now) \in Nat /\ LocalDate(now) = UTCDate(now)
         /\ \A t \in TerminationTimes(now) : t \in Int /\ LocalDate(t) = UTCDate(now)
  BY DatesOfARun, NoShift

(***************************************************************************)
(* Where the table is wrong about dates, and by how much: a termination is *)
(* stored under the date it is due on in the location, plus DateShift.  In *)
(* the default hour in America that is the day before, so that a fetch on  *)
(* the day finds nothing; east of UTC it may be the day after.             *)
(***************************************************************************)
TableIsOffByTheShift == \A r \in store : r.date = LocalDate(r.entry.time) + DateShift

THEOREM DatesOfTheTable == Spec => []TableIsOffByTheShift
<1>1. Init => TableIsOffByTheShift
  BY DEF Init, TableIsOffByTheShift
<1>2. IInv /\ TableIsOffByTheShift /\ [Next]_vars => TableIsOffByTheShift'
  <2> SUFFICES ASSUME IInv, TableIsOffByTheShift, [Next]_vars
               PROVE  TableIsOffByTheShift'
    OBVIOUS
  <2>1. CASE UNCHANGED store
    BY <2>1 DEF TableIsOffByTheShift
  <2>2. ASSUME NEW c \in Command, Publish(c)
        PROVE  TableIsOffByTheShift'
    <3>1. /\ store' = store \cup {[date |-> LocalDate(now), entry |-> e] : e \in sched[c]}
          /\ now \in Nat /\ now % 24 = RunHour
          /\ \A e \in sched[c] : e.time \in TerminationTimes(now)
      BY <2>2, DailyScheduleAssumption DEF Publish, Store!Publish, IInv, TypeOK, MadeThisHour
    <3>2. \A e \in sched[c] : LocalDate(now) = LocalDate(e.time) + DateShift
      BY <3>1, DatesOfARun
    <3>3. \A r \in store' : \/ r \in store
                            \/ r.date = LocalDate(now) /\ r.entry \in sched[c]
      BY <3>1
    <3> QED
      BY <3>2, <3>3 DEF TableIsOffByTheShift
  <2> QED
    BY <2>1, <2>2 DEF Next, vars, Tick, Populate, MakeSchedule, FetchSchedule, PublishFails,
       OpenCrontab, WriteNothing, WriteCrontab, OverwriteCrontab, Fail
<1> QED
  BY <1>1, <1>2, Initially, Inductive, PTL DEF Spec

(***************************************************************************)
(* When the scheduling run is made on the date that it schedules for, a    *)
(* fetch brings whatever the database has that is due that day, whoever    *)
(* published it, and whenever on that day in the location the fetch is.    *)
(***************************************************************************)
THEOREM FetchBringsTheDay ==
  ASSUME RunsOnTheDate
  PROVE  Spec => AllThatIsDueTodayIsFetched
<1> DEFINE Fetched ==
      \A h \in Host :
        pc[<<h, "fetch">>] = "none" /\ pc'[<<h, "fetch">>] = "open" =>
          \A r \in store : LocalDate(r.entry.time) = LocalDate(now)
                             => r.entry \in sched'[<<h, "fetch">>]
<1>1. IInv /\ TableIsOffByTheShift /\ [Next]_vars => [Fetched]_vars
  <2> SUFFICES ASSUME IInv, TableIsOffByTheShift, [Next]_vars, NEW h \in Host,
                      pc[<<h, "fetch">>] = "none", pc'[<<h, "fetch">>] = "open",
                      NEW r \in store, LocalDate(r.entry.time) = LocalDate(now)
               PROVE  r.entry \in sched'[<<h, "fetch">>]
    OBVIOUS
  <2> DEFINE c == <<h, "fetch">>
  <2>1. FetchSchedule(h)
    <3>1. \A g \in Host \ {h} : <<g, "fetch">> # c
      OBVIOUS
    <3>2. \A g \in Host : <<g, "schedule">> # c
      OBVIOUS
    <3>3. c \in Command /\ pc \in [Command -> {"none", "publish", "open", "write"}]
      BY Commands DEF IInv, TypeOK
    <3> HIDE DEF c
    <3>4. pc[c] = "none" /\ pc'[c] = "open"
      BY DEF c
    <3>5. ~ \E o \in Command : Publish(o) \/ PublishFails(o) \/ OpenCrontab(o) \/ WriteNothing(o)
                                \/ WriteCrontab(o) \/ OverwriteCrontab(o) \/ Fail(o)
      BY <3>3, <3>4 DEF Publish, PublishFails, OpenCrontab, WriteNothing, WriteCrontab,
         OverwriteCrontab, Fail, Over
    <3>6. ~ \E g \in Host : Populate(g)
      BY <3>2, <3>3, <3>4 DEF Populate, MakeSchedule
    <3>7. ~ \E g \in Host \ {h} : FetchSchedule(g)
      BY <3>1, <3>3, <3>4 DEF FetchSchedule
    <3>8. ~Tick /\ ~UNCHANGED vars
      BY <3>4 DEF Tick, vars
    <3> QED
      BY <3>5, <3>6, <3>7, <3>8 DEF Next
  <2>2. sched'[c] = Stored(store, LocalDate(now))
    <3>1. c \in Command /\ sched' = [sched EXCEPT ![c] = Stored(store, LocalDate(now))]
      BY <2>1, Commands, WhatIsRetrieved DEF FetchSchedule
    <3> HIDE DEF c
    <3> QED
      BY <3>1 DEF IInv, TypeOK
  <2>3. LocalDate(now) \in Int
    BY DailyScheduleAssumption DEF LocalDate, IInv, TypeOK
  <2>4. r.date = LocalDate(now)
    BY <2>3, NoShift DEF TableIsOffByTheShift
  <2> QED
    BY <2>2, <2>4 DEF Stored
<1>2. Spec => [][Fetched]_vars
  BY <1>1, Initially, Inductive, DatesOfTheTable, PTL DEF Spec
<1> QED
  BY <1>2 DEF AllThatIsDueTodayIsFetched

LEMMA LaterDates ==
  ASSUME NEW t \in Int, NEW u \in Int, t <= u
  PROVE  UTCDate(t) \in Int /\ UTCDate(u) \in Int /\ UTCDate(t) <= UTCDate(u)
  BY DEF UTCDate

LEMMA DatesInductive ==
  ASSUME IInv, DatesInv, RunsOnTheDate, [Next]_vars
  PROVE  DatesInv'
<1> USE Commands DEF IInv, DatesInv, OneTimeForAGroup, SchedulesAreWhole, Past, cron
<1>1. CASE Tick
  <2>1. UNCHANGED <<store, crontab, pc, sched, date, armed>>
    BY <1>1 DEF Tick
  <2>2. UTCDate(now) <= UTCDate(now')
    <3>1. now \in Int /\ now' \in Int /\ now <= now'
      BY <1>1, ClockIsNat DEF Tick
    <3> QED
      BY <3>1, LaterDates
  <2>3. \A r \in store : r.date \in 0 .. UTCDate(now')
    <3>1. UTCDate(now) \in Int /\ UTCDate(now') \in Int
      BY <1>1, ClockIsNat DEF Tick, UTCDate
    <3> QED
      BY <2>2, <3>1
  <2> QED
    BY <2>1, <2>3
<1>2. ASSUME NEW h \in Host, Populate(h)
      PROVE  DatesInv'
  <2>1. /\ pc' = [pc EXCEPT ![<<h, "schedule">>] = "publish"]
        /\ \A c \in Command \ {<<h, "schedule">>} : sched'[c] = sched[c]
        /\ UNCHANGED <<now, store, crontab, date, armed>>
    BY <1>2 DEF Populate, MakeSchedule, TypeOK
  <2> QED
    BY <2>1 DEF TypeOK
<1>3. ASSUME NEW h \in Host, FetchSchedule(h)
      PROVE  DatesInv'
  <2> DEFINE c == <<h, "fetch">>
  <2>1. /\ c \in Command
        /\ pc' = [pc EXCEPT ![c] = "open"]
        /\ date' = [date EXCEPT ![c] = LocalDate(now)]
        /\ sched' = [sched EXCEPT ![c] = Stored(store, LocalDate(now))]
        /\ UNCHANGED <<now, store, crontab, armed>>
    BY <1>3, WhatIsRetrieved DEF FetchSchedule
  <2> HIDE DEF c
  <2> QED
    BY <2>1 DEF TypeOK
<1>4. ASSUME NEW c \in Command, Publish(c)
      PROVE  DatesInv'
  <2> DEFINE d == UTCDate(now)
             added == {[date |-> d, entry |-> e] : e \in sched[c]}
  <2>1. /\ d \in Nat /\ LocalDate(now) = d
        /\ \A e \in sched[c] : LocalDate(e.time) = d
        /\ \A e, f \in sched[c] : e.group = f.group => e = f
    BY <1>4, ClockIsNat, DateArithmetic DEF Publish, MadeThisHour
  <2>2. /\ pc' = [pc EXCEPT ![c] = "open"]
        /\ date' = [date EXCEPT ![c] = d]
        /\ store' = store \cup added
        /\ UNCHANGED <<now, crontab, sched, armed>>
    BY <1>4, <2>1 DEF Publish, Store!Publish
  <2>3. Stored(store, d) = {}
    BY <1>4, WhatIsRetrieved DEF Publish, Store!Publish, Retrieve
  <2>4. /\ \A r \in added : r.date = d /\ r.entry \in sched[c]
        /\ \A e \in sched[c] : [date |-> d, entry |-> e] \in added
        /\ \A e : [date |-> d, entry |-> e].entry = e
    OBVIOUS
  <2>5. \A r, s \in added : r.entry = s.entry => r = s
    OBVIOUS
  <2> HIDE DEF d, added
  <2>6. \A x : Stored(store', x) = IF x = d THEN sched[c] ELSE Stored(store, x)
    <3>1. \A e \in sched[c] : \E r \in added : r.entry = e
      BY <2>4
    <3>2. \A r \in added : r.date = d /\ r.entry \in sched[c]
      BY <2>4
    <3>3. \A x : Stored(store', x) = Stored(store, x) \cup Stored(added, x)
      BY <2>2 DEF Stored
    <3>4. \A x : Stored(added, x) = IF x = d THEN sched[c] ELSE {}
      BY <3>1, <3>2 DEF Stored
    <3>5. ASSUME NEW x
          PROVE  Stored(store', x) = IF x = d THEN sched[c] ELSE Stored(store, x)
      <4>1. CASE x = d
        BY <2>3, <3>3, <3>4, <4>1
      <4>2. CASE x # d
        <5>1. {y \in store \cup added : y.date = x} = {y \in store : y.date = x}
          BY <3>2, <4>2
        <5> QED
          BY <2>2, <4>2, <5>1 DEF Stored
      <4> QED
        BY <4>1, <4>2
    <3> QED
      BY <3>5
  <2>7. \A r \in store : r.date # d
    BY <2>3 DEF Stored
  <2>8. OneTimeForAGroup'
    <3>1. \A r \in store' : r.date \in 0 .. UTCDate(now') /\ LocalDate(r.entry.time) = r.date
      BY <2>1, <2>2, <2>4 DEF d
    <3>2. \A r, s \in store' : r.date = s.date /\ r.entry.group = s.entry.group => r = s
      BY <2>1, <2>2, <2>4, <2>5, <2>7
    <3> QED
      BY <3>1, <3>2
  <2>9. SchedulesAreWhole'
    <3>1. ASSUME NEW o \in Command, Past(o)', sched'[o] # {}
          PROVE  sched'[o] = Stored(store', date'[o])
      BY <2>2, <2>3, <2>6, <3>1 DEF TypeOK
    <3>2. ASSUME NEW h \in Host, armed'[h] # NoDate
          PROVE  crontab'[h] # {} /\ crontab'[h] = Stored(store', armed'[h])
      BY <2>2, <2>3, <2>6, <3>2
    <3> QED
      BY <3>1, <3>2
  <2> QED
    BY <2>8, <2>9
<1>5. ASSUME NEW c \in Command,
             \/ PublishFails(c) \/ OpenCrontab(c) \/ WriteNothing(c) \/ WriteCrontab(c)
             \/ OverwriteCrontab(c) \/ Fail(c)
      PROVE  DatesInv'
  <2>1. UNCHANGED <<now, store>>
    BY <1>5 DEF PublishFails, OpenCrontab, WriteNothing, WriteCrontab, OverwriteCrontab, Fail
  <2>2. \A o \in Command : Past(o)' => Past(o) /\ sched'[o] = sched[o] /\ date'[o] = date[o]
    BY <1>5 DEF PublishFails, OpenCrontab, WriteNothing, WriteCrontab, OverwriteCrontab, Fail,
       Over, TypeOK
  <2>3. \A h \in Host : armed'[h] # NoDate =>
           \/ armed'[h] = armed[h] /\ crontab'[h] = crontab[h]
           \/ Past(c) /\ sched[c] # {} /\ armed'[h] = date[c] /\ crontab'[h] = sched[c]
    BY <1>5 DEF PublishFails, OpenCrontab, WriteNothing, WriteCrontab, OverwriteCrontab, Fail,
       TypeOK
  <2> QED
    BY <2>1, <2>2, <2>3
<1>6. CASE UNCHANGED vars
  BY <1>6 DEF vars
<1> QED
  BY <1>1, <1>2, <1>3, <1>4, <1>5, <1>6 DEF Next

LEMMA DatesInitially == Init => DatesInv
  BY DEF Init, DatesInv, OneTimeForAGroup, SchedulesAreWhole, Past

LEMMA OnlyTickMovesTheClock ==
  ASSUME [Next]_vars, now' # now
  PROVE  Tick
  BY DEF Next, vars, Populate, MakeSchedule, FetchSchedule, Publish, PublishFails, OpenCrontab,
     WriteNothing, WriteCrontab, OverwriteCrontab, Fail

(***************************************************************************)
(* A host that has installed the schedule of a date launches every entry   *)
(* that the database has for it when it is due, for as long as no other    *)
(* command touches its crontab.                                            *)
(***************************************************************************)
THEOREM ArmedHostsDeliver ==
  ASSUME RunsOnTheDate
  PROVE  Spec => ArmedHostsLaunch
<1> DEFINE Launches ==
      now' # now =>
        \A h \in Host : \A e \in Retrieve(armed[h]) :
           e.time = now' => [host |-> h, entry |-> e] \in launching'
<1>1. IInv /\ DatesInv /\ [Next]_vars => [Launches]_vars
  <2> SUFFICES ASSUME IInv, DatesInv, [Next]_vars, now' # now,
                      NEW h \in Host, NEW e \in Retrieve(armed[h]), e.time = now'
               PROVE  [host |-> h, entry |-> e] \in launching'
    OBVIOUS
  <2>1. PICK r \in store : r.date = armed[h] /\ r.entry = e
    BY WhatIsRetrieved DEF Stored
  <2>2. armed[h] # NoDate
    <3>1. r.date \in 0 .. UTCDate(now)
      BY DEF DatesInv, OneTimeForAGroup
    <3> QED
      BY <2>1, <3>1 DEF NoDate
  <2>3. e \in crontab[h]
    BY <2>2, WhatIsRetrieved DEF DatesInv, SchedulesAreWhole
  <2>4. Due(e, now')
    BY DEF Due
  <2>5. Tick
    BY OnlyTickMovesTheClock
  <2> QED
    BY <2>3, <2>4, <2>5 DEF Tick
<1>2. IInv /\ DatesInv /\ [Next]_vars => IInv' /\ DatesInv'
  BY Inductive, DatesInductive
<1>3. Spec => [][Launches]_vars
  BY <1>1, <1>2, Initially, DatesInitially, PTL DEF Spec
<1> QED
  BY <1>3 DEF ArmedHostsLaunch

---------------------------------------------------------------------------
(***************************************************************************)
(* A crontab line matches on its weekday too, so that one that nobody      *)
(* replaces is launched again after a week, and not before.                *)
(***************************************************************************)
LEMMA DateAndHour ==
  ASSUME NEW t \in Int
  PROVE  t = 24 * UTCDate(t) + (t % 24) /\ UTCDate(t) \in Int /\ t % 24 \in 0 .. 23
  BY DEF UTCDate

LEMMA DueAgain ==
  ASSUME NEW e, NEW u \in Int, e.time \in Int, Due(e, u), u > e.time - 48
  PROVE  u = e.time \/ u >= e.time + 168
<1> DEFINE t == e.time
           a == UTCDate(t)
           b == UTCDate(u)
           m == t % 24
<1>1. /\ t = 24 * a + m /\ u = 24 * b + m
      /\ a \in Int /\ b \in Int /\ m \in 0 .. 23 /\ t \in Int
      /\ b = a \/ b % 7 = a % 7
  BY DateAndHour DEF Due
<1> HIDE DEF t, a, b, m
<1>2. u > t - 48
  BY DEF t
<1>3. b - a >= -1
  BY <1>1, <1>2
<1>4. b = a \/ b - a >= 7
  BY <1>1, <1>3
<1>5. CASE b = a
  BY <1>1, <1>5 DEF t
<1>6. CASE b - a >= 7
  BY <1>1, <1>6 DEF t
<1> QED
  BY <1>4, <1>5, <1>6

(***************************************************************************)
(* What cron finds in a crontab is hardly ahead of the clock.              *)
(***************************************************************************)
LEMMA NotLongBefore ==
  ASSUME IInv, DatesInv, NEW r \in store, NEW u \in Nat, now <= u
  PROVE  /\ r.entry.time \in Int /\ u > r.entry.time - 48
         /\ r.date \in Int /\ LocalDate(r.entry.time) = r.date
<1> DEFINE t == r.entry.time
           d == r.date
<1>1. t \in Int /\ now \in Nat
  BY DailyScheduleAssumption DEF IInv, TypeOK, Entry
<1>2. d \in 0 .. UTCDate(now) /\ LocalDate(t) = d
  BY DEF DatesInv, OneTimeForAGroup
<1>3. UTCDate(now) \in Int /\ UTCDate(now) <= UTCDate(u) /\ UTCDate(u) \in Int
  BY <1>1, LaterDates
<1>4. u >= 24 * UTCDate(u)
  BY DateAndHour
<1>5. d \in Int /\ u >= 24 * d
  BY <1>2, <1>3, <1>4
<1>6. t + Offset <= 24 * d + 23 /\ Offset \in -12 .. 14
  BY <1>1, <1>2, DailyScheduleAssumption DEF LocalDate
<1> HIDE DEF t, d
<1>7. u > t - 48
  BY <1>1, <1>5, <1>6
<1> QED
  BY <1>1, <1>2, <1>5, <1>7 DEF t, d

(***************************************************************************)
(* A host launches what it has installed at the time it was scheduled for  *)
(* and at no other, until the seventh day from the date of the schedule,   *)
(* however often its commands and the other hosts fail meanwhile.          *)
(***************************************************************************)
THEOREM HostsAreOnTime ==
  ASSUME RunsOnTheDate
  PROVE  Spec => ArmedHostsAreOnTime
<1> DEFINE OnTime ==
      now' # now =>
        \A l \in launching' :
           armed[l.host] # NoDate /\ LocalDate(now') < armed[l.host] + 7
             => l.entry.time = now'
<1>1. IInv /\ DatesInv /\ [Next]_vars => [OnTime]_vars
  <2> SUFFICES ASSUME IInv, DatesInv, [Next]_vars, now' # now, NEW l \in launching',
                      armed[l.host] # NoDate, LocalDate(now') < armed[l.host] + 7
               PROVE  l.entry.time = now'
    OBVIOUS
  <2> DEFINE e == l.entry
             u == now'
  <2>1. Tick
    BY OnlyTickMovesTheClock
  <2>2. /\ l.host \in Host /\ e \in crontab[l.host] /\ Due(e, u)
        /\ u \in Nat /\ now <= u
    BY <2>1, DailyScheduleAssumption DEF Tick, IInv, TypeOK
  <2>3. PICK r \in store : r.date = armed[l.host] /\ r.entry = e
    BY <2>2 DEF DatesInv, SchedulesAreWhole, Stored
  <2>4. /\ e.time \in Int /\ u > e.time - 48
        /\ LocalDate(e.time) = armed[l.host] /\ armed[l.host] \in Int
    BY <2>2, <2>3, NotLongBefore
  <2>5. u = e.time \/ u >= e.time + 168
    BY <2>2, <2>4, DueAgain
  <2>6. ~(u >= e.time + 168)
    <3> SUFFICES ASSUME u >= e.time + 168
                 PROVE  LocalDate(u) >= LocalDate(e.time) + 7
      BY <2>2, <2>4, DailyScheduleAssumption DEF LocalDate
    <3> DEFINE t == e.time
    <3>1. t \in Int /\ u \in Int /\ Offset \in Int /\ u >= t + 168
      BY <2>2, <2>4, DailyScheduleAssumption
    <3> HIDE DEF t, u
    <3>2. (u + Offset) \div 24 >= ((t + Offset) \div 24) + 7
      BY <3>1
    <3> QED
      BY <3>2 DEF LocalDate, t
  <2> QED
    BY <2>5, <2>6
<1>2. IInv /\ DatesInv /\ [Next]_vars => IInv' /\ DatesInv'
  BY Inductive, DatesInductive
<1>3. Spec => [][OnTime]_vars
  BY <1>1, <1>2, Initially, DatesInitially, PTL DEF Spec
<1> QED
  BY <1>3 DEF ArmedHostsAreOnTime

---------------------------------------------------------------------------
(***************************************************************************)
(* Armed or not, cron launches at the right time or a week or more later.  *)
(***************************************************************************)
OnTimeOrWeekOld == \A l \in launched : l.at = l.entry.time \/ WeekOld(l)

LEMMA LaunchesInductive ==
  ASSUME IInv, DatesInv, OnTimeOrWeekOld, [Next]_vars
  PROVE  OnTimeOrWeekOld'
<1>1. CASE UNCHANGED launched
  BY <1>1 DEF OnTimeOrWeekOld, WeekOld
<1>2. CASE Tick
  <2> SUFFICES ASSUME NEW l \in launched', l \notin launched
               PROVE  l.at = l.entry.time \/ WeekOld(l)
    BY DEF OnTimeOrWeekOld, WeekOld
  <2>1. PICK h \in Host : \E e \in crontab[h] :
          Due(e, now') /\ l = [entry |-> e, at |-> now']
    BY <1>2 DEF Tick
  <2>2. PICK e \in crontab[h] : Due(e, now') /\ l = [entry |-> e, at |-> now']
    BY <2>1
  <2>3. PICK r \in store : r.entry = e
    BY DEF IInv, OnItsWayIsPublished, Published
  <2>4. now' \in Nat /\ now <= now'
    BY <1>2, DailyScheduleAssumption DEF Tick, IInv, TypeOK
  <2>5. e.time \in Int /\ now' > e.time - 48
    BY <2>3, <2>4, NotLongBefore
  <2>6. now' = e.time \/ now' >= e.time + 168
    BY <2>2, <2>4, <2>5, DueAgain
  <2> QED
    BY <2>2, <2>5, <2>6 DEF WeekOld
<1> QED
  BY <1>1, <1>2 DEF Next, vars, cron, Populate, MakeSchedule, FetchSchedule, Publish, PublishFails,
     OpenCrontab, WriteNothing, WriteCrontab, OverwriteCrontab, Fail

LEMMA NothingLaunchedYet == Init => OnTimeOrWeekOld
  BY DEF Init, OnTimeOrWeekOld

(***************************************************************************)
(* Deployments that share a database launch terminations of a group at one *)
(* time of a day only, although each of them makes a schedule of its own,  *)
(* for as long as the database goes on; only what is left in a crontab for *)
(* a week may come beside them.                                            *)
(***************************************************************************)
THEOREM DeploymentsAgree ==
  ASSUME RunsOnTheDate
  PROVE  Spec => []HostsAgree
<1>1. IInv /\ DatesInv /\ OnTimeOrWeekOld => HostsAgree
  <2> SUFFICES ASSUME IInv, DatesInv, OnTimeOrWeekOld, NEW k \in launched, NEW l \in launched,
                      ~WeekOld(k), ~WeekOld(l),
                      k.entry.group = l.entry.group, LocalDate(k.at) = LocalDate(l.at)
               PROVE  k.at = l.at
    BY DEF HostsAgree
  <2>1. PICK r \in store : r.entry = k.entry
    BY DEF IInv, OnItsWayIsPublished, Published
  <2>2. PICK s \in store : s.entry = l.entry
    BY DEF IInv, OnItsWayIsPublished, Published
  <2>3. k.at = k.entry.time /\ l.at = l.entry.time
    BY DEF OnTimeOrWeekOld
  <2>4. r.date = s.date
    BY <2>1, <2>2, <2>3 DEF DatesInv, OneTimeForAGroup
  <2>5. r = s
    BY <2>1, <2>2, <2>4 DEF DatesInv, OneTimeForAGroup
  <2> QED
    BY <2>1, <2>2, <2>3, <2>5
<1>2. IInv /\ DatesInv /\ OnTimeOrWeekOld /\ [Next]_vars => IInv' /\ DatesInv' /\ OnTimeOrWeekOld'
  BY Inductive, DatesInductive, LaunchesInductive
<1> QED
  BY <1>1, <1>2, Initially, DatesInitially, NothingLaunchedYet, PTL DEF Spec
=============================================================================
