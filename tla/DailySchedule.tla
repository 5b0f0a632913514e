--------------------------- MODULE DailySchedule ---------------------------
(***************************************************************************)
(* From the daily scheduling run to the launch of terminations: the        *)
(* commands "schedule" and "fetch-schedule", which may run side by side,   *)
(* on several hosts that share a database, the crontab file each host      *)
(* keeps, and the cron daemon that launches "terminate" from it.           *)
(*                                                                         *)
(* Time is in hours of UTC since a Monday midnight, within one month, and  *)
(* jumps from one of the Stops at which something happens to the next; the *)
(* system clocks of the hosts run in UTC, as docs/How-to-deploy.md         *)
(* assumes, and the location of the configuration is Offset hours ahead.   *)
(* The database is PublishOnce, which ScheduleStore implements.            *)
(***************************************************************************)
EXTENDS Integers, FiniteSets

CONSTANTS
  Host,
  Group,                \* the eligible instance groups
  Offset,
  StartHour, EndHour,   \* working hours in the location
  CronHour,             \* the hour in cron_expression, or {} without one
  Stops,                \* the instants the clock stops at
  Fetching,             \* whether operators use fetch-schedule
  MaxFailures           \* bound on the crashes and replacements of hosts

ASSUME DailyScheduleAssumption ==
  /\ Offset \in -12 .. 14
  /\ StartHour \in 0 .. 23 /\ EndHour \in StartHour + 1 .. 24
  /\ CronHour \in {{}} \cup {{hour} : hour \in 0 .. 23}
  /\ Stops \subseteq Nat
  /\ Fetching \in BOOLEAN
  /\ MaxFailures \in Nat

VARIABLES
  now,
  store,       \* the schedules table: its rows as pairs of date and entry
  crontab,     \* the file cron_path of each host
  pc,          \* what each command does next
  sched,       \* the schedule it holds
  date,        \* the local date that is for
  launching,   \* the terminate commands cron launches at this time, by host
  launched,    \* history: those of this date in the location, on whatever host
  armed,       \* history: the date whose schedule a host has installed
  failures

vars == <<now, store, crontab, pc, sched, date, launching, launched, armed, failures>>

cron == <<launching, launched>>

NoDate == -99

UTCDate(t) == t \div 24
LocalDate(t) == (t + Offset) \div 24

Entry == [group: Group, time: Int]

\* A host may run one command of each kind at a time.
Command == Host \X {"schedule", "fetch"}

HostOf(c) == c[1]

\* A command calls the store once; PublishFails ends it, so "nil" is all it is told.
Store == INSTANCE PublishOnce WITH
  Proc <- Command,
  Call <- {},
  call <- [c \in Command |-> << >>],
  table <- store,
  answer <- [c \in Command |-> IF pc[c] \in {"open", "write"} THEN "nil" ELSE "none"],
  blind <- {}

Retrieve(d) == Store!Retrieve(d)

TypeOK ==
  /\ now \in Stops
  /\ store \subseteq [date: Int, entry: Entry]
  /\ crontab \in [Host -> SUBSET Entry]
  /\ pc \in [Command -> {"none", "publish", "open", "write"}]
  /\ sched \in [Command -> SUBSET Entry]
  /\ date \in [Command -> Int]
  /\ launching \subseteq [host: Host, entry: Entry]
  /\ launched \subseteq [entry: Entry, at: Stops]
  /\ armed \in [Host -> Int]
  /\ failures \in 0 .. MaxFailures

Init ==
  /\ now \in {t \in Stops : \A u \in Stops : t <= u}
  /\ store = {}
  /\ crontab = [h \in Host |-> {}]
  /\ pc = [c \in Command |-> "none"]
  /\ sched = [c \in Command |-> {}]
  /\ date = [c \in Command |-> NoDate]
  /\ launching = {}
  /\ launched = {}
  /\ armed = [h \in Host |-> NoDate]
  /\ failures = 0

---------------------------------------------------------------------------
(* The cron daemon. *)

\* A mistake: the crontab has the hour and day of the location.
DueInLocalTime(e, t) ==
  /\ t % 24 = (e.time + Offset) % 24
  /\ UTCDate(t) % 7 = LocalDate(e.time) % 7

\* A mistake: the crontab names the minute and hour only.
DueEveryDay(e, t) == t % 24 = e.time % 24

\* Entry.Crontab names minute, hour, day, month and weekday, all in UTC.  cron
\* runs a job when either of the last and the third field matches.
Due(e, t) ==
  /\ t % 24 = e.time % 24
  /\ \/ UTCDate(t) = UTCDate(e.time)
     \/ UTCDate(t) % 7 = UTCDate(e.time) % 7

\* A schedule is published in the hour in which its making began; a command that
\* is about to write a crontab may take as long as it likes.
Tick ==
  /\ \A c \in Command : pc[c] # "publish"
  /\ now' \in {t \in Stops : t > now /\ \A u \in Stops : u > now => t <= u}
  /\ launching' = UNION {{[host |-> h, entry |-> e] : e \in {x \in crontab[h] : Due(x, now')}} :
                            h \in Host}
  /\ launched' = {l \in launched : LocalDate(l.at) = LocalDate(now')}
                   \cup {[entry |-> l.entry, at |-> now'] : l \in launching'}
  /\ UNCHANGED <<store, crontab, pc, sched, date, armed, failures>>

---------------------------------------------------------------------------
(* The commands. *)

Weekday(t) == UTCDate(t) % 7 \in 0 .. 4

\* calculateDefaultCronRunHour
DefaultRunHour == IF StartHour < 2 THEN 24 + StartHour - 2 ELSE StartHour - 2

RunHour == IF CronHour = {} THEN DefaultRunHour ELSE CHOOSE hour \in CronHour : TRUE

\* chooseTerminationTime: the date of now in the system's zone, UTC, taken for
\* a date of the location.
TerminationTimes(t) ==
  {24 * UTCDate(t) + hour - Offset : hour \in StartHour .. EndHour - 1}

\* Until the last of them, no termination that a schedule may hold is passed over.
ASSUME StopsAreEnough ==
  \A t \in Stops : t % 24 = RunHour /\ Weekday(t) =>
     \A u \in TerminationTimes(t) : (\E s \in Stops : s > u) /\ u > t => u \in Stops

MakeSchedule(c, making) ==
  /\ pc[c] = "none"
  /\ now % 24 = RunHour /\ Weekday(now)
  /\ sched' = [sched EXCEPT ![c] = making]
  /\ pc' = [pc EXCEPT ![c] = "publish"]
  /\ UNCHANGED <<now, store, crontab, date, cron, armed, failures>>

\* A mistake: the schedule holds groups without their times.
PopulateWithoutTimes(h) ==
  \E G \in SUBSET Group : MakeSchedule(<<h, "schedule">>, {[group |-> g] : g \in G})

\* "schedule": a coin for each group, a time for each that is to lose an instance.
\* Unless schedule_enabled nothing is done, and the old crontab stays.
Populate(h) ==
  \E G \in SUBSET Group : \E tm \in [G -> TerminationTimes(now)] :
     MakeSchedule(<<h, "schedule">>, {[group |-> g, time |-> tm[g]] : g \in G})

\* A mistake: ErrAlreadyExists is not taken for a failure.
PublishIgnoringErrors(c) ==
  /\ pc[c] = "publish"
  /\ store' = IF Retrieve(UTCDate(now)) = {}
              THEN store \cup {[date |-> LocalDate(now), entry |-> e] : e \in sched[c]}
              ELSE store
  /\ date' = [date EXCEPT ![c] = LocalDate(now)]
  /\ pc' = [pc EXCEPT ![c] = "open"]
  /\ UNCHANGED <<now, crontab, sched, cron, armed, failures>>

Publish(c) ==
  /\ pc[c] = "publish"
  /\ pc' = [pc EXCEPT ![c] = "open"]
  /\ Store!Publish(c, [asked |-> UTCDate(now), stored |-> LocalDate(now), schedule |-> sched[c]])
  /\ date' = [date EXCEPT ![c] = LocalDate(now)]
  /\ UNCHANGED <<now, crontab, sched, cron, armed, failures>>

\* What a command held goes with it.
Over(C) ==
  /\ pc' = [c \in Command |-> IF c \in C THEN "none" ELSE pc[c]]
  /\ sched' = [c \in Command |-> IF c \in C THEN {} ELSE sched[c]]
  /\ date' = [c \in Command |-> IF c \in C THEN NoDate ELSE date[c]]

\* ErrAlreadyExists, or another error of the store: the command fails.
PublishFails(c) ==
  /\ pc[c] = "publish"
  /\ Over({c})
  /\ UNCHANGED <<now, store, crontab, cron, armed, failures>>

\* A mistake: the schedule is asked for by the date in UTC.
FetchByUTCDate(h) ==
  LET c == <<h, "fetch">> IN
  /\ Fetching
  /\ pc[c] = "none"
  /\ date' = [date EXCEPT ![c] = UTCDate(now)]
  /\ sched' = [sched EXCEPT ![c] = Retrieve(UTCDate(now))]
  /\ pc' = [pc EXCEPT ![c] = "open"]
  /\ UNCHANGED <<now, store, crontab, cron, armed, failures>>

\* "fetch-schedule": a date without rows gives an empty schedule, not none.
FetchSchedule(h) ==
  LET c == <<h, "fetch">> IN
  /\ Fetching
  /\ pc[c] = "none"
  /\ date' = [date EXCEPT ![c] = LocalDate(now)]
  /\ sched' = [sched EXCEPT ![c] = Retrieve(LocalDate(now))]
  /\ pc' = [pc EXCEPT ![c] = "open"]
  /\ UNCHANGED <<now, store, crontab, cron, armed, failures>>

\* registerWithCron: ioutil.WriteFile empties the file, then writes it.
OpenCrontab(c) ==
  /\ pc[c] = "open"
  /\ crontab' = [crontab EXCEPT ![HostOf(c)] = {}]
  /\ armed' = [armed EXCEPT ![HostOf(c)] = NoDate]
  /\ pc' = [pc EXCEPT ![c] = "write"]
  /\ UNCHANGED <<now, store, sched, date, cron, failures>>

\* No bytes are written for an empty schedule.
WriteNothing(c) ==
  /\ pc[c] = "write" /\ sched[c] = {}
  /\ Over({c})
  /\ UNCHANGED <<now, store, crontab, cron, armed, failures>>

WriteCrontab(c) ==
  /\ pc[c] = "write" /\ sched[c] # {}
  /\ crontab[HostOf(c)] = {}
  /\ crontab' = [crontab EXCEPT ![HostOf(c)] = sched[c]]
  /\ armed' = [armed EXCEPT ![HostOf(c)] = date[c]]
  /\ Over({c})
  /\ UNCHANGED <<now, store, cron, failures>>

\* The other command has written in the meantime.  What was longer remains at the
\* end, the first of those lines cut; cron ignores a file with a line it cannot read.
OverwriteCrontab(c) ==
  /\ pc[c] = "write" /\ sched[c] # {}
  /\ crontab[HostOf(c)] # {}
  /\ \E content \in {{}} \cup {sched[c] \cup rest : rest \in SUBSET crontab[HostOf(c)]} :
       crontab' = [crontab EXCEPT ![HostOf(c)] = content]
  /\ armed' = [armed EXCEPT ![HostOf(c)] = NoDate]
  /\ Over({c})
  /\ UNCHANGED <<now, store, cron, failures>>

\* The command dies where it is, or the whole host is replaced.
Fail(c) ==
  /\ failures < MaxFailures
  /\ failures' = failures + 1
  /\ \/ pc[c] # "none" /\ Over({c}) /\ UNCHANGED <<crontab, armed>>
     \/ /\ Over({HostOf(c)} \X {"schedule", "fetch"})
        /\ crontab' = [crontab EXCEPT ![HostOf(c)] = {}]
        /\ armed' = [armed EXCEPT ![HostOf(c)] = NoDate]
  /\ UNCHANGED <<now, store, cron>>

Next ==
  \/ Tick
  \/ \E h \in Host : Populate(h) \/ FetchSchedule(h)
  \/ \E c \in Command :
       \/ Publish(c) \/ PublishFails(c)
       \/ OpenCrontab(c) \/ WriteNothing(c) \/ WriteCrontab(c) \/ OverwriteCrontab(c)
       \/ Fail(c)

Spec == Init /\ [][Next]_vars

---------------------------------------------------------------------------
(***************************************************************************)
(* What cron runs has been published: no host's crontab has an entry that  *)
(* is not in the database, so that a host which replaces it can fetch it.  *)
(***************************************************************************)
CrontabsArePublished ==
  \A h \in Host : \A e \in crontab[h] : \E r \in store : r.entry = e

(***************************************************************************)
(* Several deployments of Chaos Monkey that share a database never launch  *)
(* terminations for the same group at two different times of one day,      *)
(* unless one of the two is out of a crontab that was left for a week.     *)
(***************************************************************************)
WeekOld(l) == l.at >= l.entry.time + 7 * 24

HostsAgree ==
  \A k, l \in {m \in launched : ~WeekOld(m)} :
     k.entry.group = l.entry.group /\ LocalDate(k.at) = LocalDate(l.at) => k.at = l.at

(***************************************************************************)
(* A host that has installed the schedule of a date, from a scheduling run *)
(* or by fetching it after a failure, launches every entry the database    *)
(* has for that date at the instant it is due, unless another command has  *)
(* emptied or overwritten its crontab since.                               *)
(***************************************************************************)
ArmedHostsLaunch ==
  [][now' # now =>
       \A h \in Host : \A e \in Retrieve(armed[h]) :
          e.time = now' => [host |-> h, entry |-> e] \in launching']_vars

(***************************************************************************)
(* docs/Termination-behavior.md: a termination is scheduled for a time of  *)
(* that day.  A host launches what it has installed then and at no other   *)
(* time, for six days; on the seventh, when nothing has replaced the       *)
(* crontab, cron takes it for that day's.                                  *)
(***************************************************************************)
ArmedHostsAreOnTime ==
  [][now' # now =>
       \A l \in launching' :
          armed[l.host] # NoDate /\ LocalDate(now') < armed[l.host] + 7
            => l.entry.time = now']_vars

(***************************************************************************)
(* The comment on FetchSchedule: the schedule for today, if one has been   *)
(* registered, is downloaded.  Whatever termination the database has that  *)
(* is due on the present date in the location is in what is fetched.       *)
(***************************************************************************)
AllThatIsDueTodayIsFetched ==
  [][\A h \in Host :
       pc[<<h, "fetch">>] = "none" /\ pc'[<<h, "fetch">>] = "open" =>
         \A r \in store : LocalDate(r.entry.time) = LocalDate(now)
                            => r.entry \in sched'[<<h, "fetch">>]]_vars
=============================================================================
