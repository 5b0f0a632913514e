# Chaos Monkey: models, checks and proofs

Chaos Monkey terminates instances in production at random, and promises its users limits: never
outside the hours and the groups they configured, never more often than the minimum time between
kills, never without a record. These TLA+ modules model the parts of the code that keep these
promises when several processes, several hosts, a database, a cron daemon and Spinnaker are
involved; TLC checks them on small instances, and TLAPS proves the central ones for every instance.

To check a run: `tlc -config <cfg> <module>`; to check proofs: `tlapm <module>Proofs.tla`.
`PROJECT.json` has the runs, the source lines of every definition and the hazards by line.

## 1. The system

| Component | State | Operations | Hard part |
|---|---|---|---|
| Termination checker, `mysql/mysql.go` Check | table `terminations` | SELECT, INSERT, COMMIT/ROLLBACK in one SERIALIZABLE transaction | concurrent checks, InnoDB locks and deadlocks, errors of SELECT and COMMIT, crashes |
| Working-day arithmetic, `cal/cal.go`, `mysql.go` noKillsSince | none | minimum time in working days to an instant | weekends, clock changes, zones |
| Termination command, `term/term.go`, `spinnaker/terminator.go` | none of its own; reads switches, calls Checker, trackers, Spinnaker | a dozen calls in a fixed order | the world changes between the calls; a call lasts, fails or is answered too late |
| Schedule store, `mysql.go` Publish, Retrieve | table `schedules` | count, insert, commit; retrieve | concurrent publishers; two ways to compute a date |
| Daily scheduling, `command/schedule.go`, `fetchschedule.go`, `schedule/schedule.go` | the crontab file of each host | schedule, fetch-schedule, side by side; cron launches terminate | crash between publishing and installing; two writers of one file; stale crontabs; three clocks |
| Groups and selection, `grp`, `deploy`, `eligible` | none; groups travel on command lines | dividing an application into groups, finding the instances of one | the three notions of a group must agree while the deployment changes; a cluster name that cannot be parsed is handled in four ways |
| Spinnaker client, `spinnaker/spinnaker.go` | none | one HTTP request per cluster, region list, instance list | answers from different moments; errors of one part |
| Population, `schedule.go` Populate, `constrainer` | the schedule, a channel | a goroutine surveys and sends applications, the loop receives | failing requests of one application; max-apps leaves the goroutine running beside what follows |
| Application configuration, `spinnaker/fromjson.go` | none | validation of JSON | combinations of absent fields, which must never reach the panics further on |
| Monkey configuration, `config` | viper | getters, default cron hour | an hour before midnight belongs to the day before |
| Installation, migration, `command/install.go`, `migrate.go`, `migration/mysql` | two scripts and a crontab on each host; two tables and the record of the migration | writes scripts and crontab, migrates | cron runs all the while; failures half way, which the operator repairs by repeating; two hosts migrate at once |
| Plug-ins, command line, mocks | none | defaults that do nothing, flags, printing | none |

How they interact. `install` puts the scripts and the daily crontab on a host and makes the tables.
Once a working day cron runs `schedule` on a host. It asks Spinnaker for the
applications, divides each into groups, tosses a coin and picks a time for each group, publishes the
schedule in MySQL and writes a crontab with one `terminate` per entry. Another host may fetch the
published schedule and write its own crontab. At its time each `terminate` process reads the
switches, looks for the instances of its group, picks one, asks the Checker (a test-and-set in
MySQL), tells the trackers and posts the termination to Spinnaker. Processes share nothing but
MySQL, the crontab file of their host and Spinnaker itself.

## 2. The modules

| Module | Models | Depends on |
|---|---|---|
| `WorkCalendar` | `isWeekday`, `IsWorkday`, `noKillsSince`, as functions of instants | |
| `ThresholdClock` | a clock that evaluates them hour by hour | WorkCalendar |
| `MinTimeGuard` | the promise of `chaosmonkey.Checker`: an atomic test-and-set | |
| `InstanceGroups` | grouping, containment, exceptions and the WHERE clause of Check, as operators | |
| `TerminationChecker` | `MySQL.Check`; refines MinTimeGuard | InstanceGroups, MinTimeGuard |
| `DailyKills` | Check with the threshold of `noKillsSince`, and what the two promise together | TerminationChecker, WorkCalendar |
| `Terminate` | `term.Terminate`, `doTerminate`, `Execute` | MinTimeGuard as its Checker |
| `PublishOnce` | the promise of `schedstore.SchedStore`: publishing as one step | |
| `ScheduleStore` | `Publish`, `schedExists`, `Retrieve`; refines PublishOnce | PublishOnce |
| `DailySchedule` | `schedule`, `fetch-schedule`, crontabs, cron | PublishOnce as its store |
| `Installation` | `install`, `migrate`, and cron running what is there | |
| `AppConfig` | `fromJSON`, as operators | |
| `Population` | `Populate` and `Apps`, two goroutines, up to the crontab | InstanceGroups, AppConfig |
| `Selection` | `GetApp`, `EligibleInstanceGroups`, `eligible.Instances` | InstanceGroups |
| `MC...` | values of the constants for TLC | |
| `...Proofs` | theorems about the module of that name; those of `InstanceGroupsProofs` serve two others, `TerminationCheckerProofs` has those of DailyKills, WorkCalendar and ThresholdClock | it, TLAPS |

Definitions whose comment begins "A mistake:" are altered forms of the definition that follows
them. They are in no specification: they show that the properties notice such a change.

### TerminationChecker

A process calls Check once. `pc` is how far it has come: `Begin` (tx.Begin), then `FindsRecentKill`
or `FindsNone` (tx.Query and rows.Next), `Insert` (tx.Exec), `Commit` or `Rollback` (the deferred
function), `returned`. `rows` is the committed part of the table, in the order of commit. `result`
is `err`, and at the end what Check returns.

MySQL is external; the model says what the code relies on. `locked[p]` stands for the shared
next-key locks a SELECT takes in a SERIALIZABLE transaction on the range of `(app, killed_at)` it
scans. A SELECT waits for uncommitted rows in its range, an INSERT waits for the locks of others on
the place of its row, locks last to the end, and a cycle of waiting transactions costs one of them
its life. InnoDB also locks the gap below the range; leaving that out allows more interleavings,
never fewer. `Faults` says which server faults occur: a SELECT whose result ends with an error
("read"), a COMMIT that fails ("commit"). Connections lost and lock-wait timeouts reported by a
statement (`StatementFails`) and crashes always occur.

`MinTimeGuard` is the abstract specification. The refinement mapping takes `rows` for `record` and,
for `answer`, what the process has been told once its call has returned. A refused call reads the
table long before it returns; that MinTimeGuard's Refuse is enabled only at the end works because
the table never shrinks.

### Terminate

One action per call: `ReadEnabled`, `CheckOutage`, `ReadAccountEnabled`, `ReadLeashed`,
`GetAppConfig` (enabled and whitelist), `PickInstance` (selection and the clock),
`Permitted`/`Refused` (Checker), `Track` per tracker, `Execute` or `ExecuteLeashed`. Between any two
of them an operator may `Flip` a switch, midnight may pass (`NextDay`), the process may `Crash`, and
any call may fail. The Checker is MinTimeGuard instantiated, so what is checked here rests on what
TerminationChecker implements. `CrashInCheck` is a crash after MySQL has committed.
`PermittedUnrecorded` is the commit error that Check does not report; the answer is then
"unrecorded", which is "permitted" to the code. Nothing bounds how late a call is answered, so the
properties say which kills they are about instead of leaving such runs out: KillsAreRecorded excepts
a run that was permitted by that error itself, and KillsKeepApart compares the kills that are
`OnRecord`, made on the day in their record. `Ledger` is MinTimeGuard once more, with the answers
the runs should have been told (`Due`): the table obeys it whatever happens.

### ScheduleStore

As TerminationChecker, for `schedules`. Instants are hours; `StoredDate` is `utcDate` (the date in
the location), `AskedDate` the UTC date that MySQL takes of the raw instant in `schedExists`. The
count locks the rows of its date and the gaps on both sides in `date_index`, so publishers of
neighbouring dates can deadlock. `blind` records whose count did not arrive and is not a variable
of the code: it lets the properties say that a lost count is the only way to a double publication.
What each call publishes is fixed in Init, since the code is handed it as an argument.

`PublishOnce` is the abstract specification: a call finds a schedule of the date it asks for and is
refused, or finds none and adds its own, all in one step. The refinement mapping drops the publisher
from each row and takes for `answer` what a call has been told once it has returned. The step that
adds the rows is Commit, or a crash whose commit took effect. That Publish of PublishOnce requires
the table to be without a schedule of the date at that very step is what the locks are for: between
a count of 0 and the commit nobody else has committed rows of that date. A refusal is a step of
PublishOnce when the call returns, which works because the table never shrinks. ImplementsStore
covers what three separate invariants would say: whole schedules, no mixture, refusals with a cause.

### DailySchedule

A clock in hours of UTC, hosts in UTC (docs/How-to-deploy.md), the location `Offset` hours ahead.
The clock jumps from one of the `Stops` to the next. They are constants of an instance, and the
assumption StopsAreEnough says that no time a schedule may hold is jumped over, so that a short list
can span weeks. `launched` keeps what was launched on the present date of the location, by any host.
`RunHour` is the hour of `CronExpression`, two before the start of the working day unless one is
configured.

Each host may run one `schedule` and one `fetch-schedule` at the same time; a command is a pair of
host and kind, with its own `pc`, `sched` and `date`. The store is PublishOnce instantiated with the
commands as its callers, so what is checked here rests on what ScheduleStore implements; a command
calls it once. When scheduling is disabled `schedule` does nothing at all, which is the same as not
being run. `OpenCrontab` and `WriteCrontab` are the two halves of ioutil.WriteFile. When the other
command has written in between (`OverwriteCrontab`), what was longer remains at the end of the file,
its first line cut: the outcome is what was written with some of the lines that were there, or, as
cron ignores a file with a line it cannot read, nothing. `Tick` launches what `Due` says: cron runs
a job when the day of the month OR the weekday matches, and the entry names both. `Fail` kills a
command where it is or replaces the host by one with an empty crontab.

### Installation

`files` has, for the two scripts and the crontab of every host, whether the file is absent, empty or
whole, and in that case whether the latest installation wrote it ("new") or an earlier one ("old").
The steps are `EnsureFileAbsent` and the two halves of each WriteFile in the order of
`setupTerminationScript` and `setupCron`, then `Plan`, the two `CREATE TABLE IF NOT EXISTS` and
`Record` of sql-migrate, which is external: it looks for the record of the migration, applies it when
there is none, and inserts the record. MySQL commits each CREATE TABLE at once, so a migration that
dies leaves its tables. The record has a primary key, so of two hosts that migrate at the same time
one fails after the tables have been made. `Fail` is any call's error (log.Fatalf) or the death of
the command. Cron runs the daily script (`DailyRun`) and what has been scheduled
(`DueTermination`) at any time; `missed` collects the hosts that had been told "installation done!"
and on which one of these found a script or a table missing.

### Population and AppConfig

`producer` is what the goroutine of Apps does (`ListClusters`, `ReadServerGroups` per cluster, `NewApp`,
then waiting at the channel, `Close`), `main` what the command does (`Receive`, `ScheduleApp` or
`SkipApp`, ..., `Publish`, `RegisterWithCron`). `ScheduleApp` panics, and ends the process, when the
mean time is not positive or when the application is to be divided by stack and the name of one of its
clusters cannot be parsed (`StackNamePanics`, deployment.go:149). The channel has no buffer, so sending
and receiving are one action: `Receive`, or `LeaveLoop` when max-apps applications have been counted and
one more arrives, which is dropped. `ListClustersFails` is `log.Fatalln` in the goroutine: the process
ends, even while the command is publishing. Each request is made once, so `situation` fixes beforehand
which one fails, and properties can say what the schedule should be. `AppConfig` gives fields that may
be missing as sets of at most one element; an error is the empty set.

### Selection and InstanceGroups

A cluster is the record of the parts of its name; one that `frigga.Parse` refuses has `Garbled` for
its stack. `grp.Contains` takes such a cluster to be in no group, and dividing an application by
stack panics on it.

Server groups are records of account, region, cluster and version, each absent, disabled, empty or
up. The survey (`ListClusters`, one `ReadServerGroups` per cluster, `Group`) is `GetApp` and
`EligibleInstanceGroups`; a run is `GetConfig`, `GetClusterNames`, one `GetRegionNames` per cluster,
one `GetInstanceIDs` per place, `PickRandomInstance`. Each is one request, so the deployment or the
configuration may change between any two. A current server group is chosen among the enabled ones
of its place.

## 3. The runs

Passing:

| Run | Question | Instance and bounds |
|---|---|---|
| `threshold` | Is the threshold the end of the right working day at every hour? | three weeks with a 25-hour and a 23-hour Sunday, minimum times 0 to 6 (longer than a week), two end hours; the setting changes at any hour |
| `check_two` | Is Check an atomic test-and-set, and does one group lose at most one instance a day? | 2 calls, 33 requests: one group on two days, leashed or not, minimum -1, 0, 2; two clusters in two regions under all six groupings |
| `check_rivals` | Do deadlocks, crashes and faults leave somebody a winner, and does every call return? | 3 calls with overlapping ranges over a week, the smallest number in which a chain and a cycle differ; fairness |
| `terminate_two` | Is every kill recorded first, permitted by every switch, preceded by its trackers and far enough from the others; does a dry run stay dry? | 2 runs, 2 instances of a group, 2 days with midnight at any moment, 2 trackers, 2 changes of switches from every start with at most one switch off; commits, calls and runs fail anywhere |
| `publish_daytime` | Is Publish one indivisible step, does a date get one schedule, and do publishers not all lose? | 3 publishers, 2 dates, schedules of two and one entries, lost counts |
| `daily_hosts` | Is what cron launches what was published, at its time, on each host, and does a fetch bring what is due? | 2 hosts with up to two commands each, a Monday, the Tuesday (its first hour in UTC is still Monday in the location) and the Monday after, so that a crontab may be a week old; a scheduling run at 13 UTC on both Mondays, one group, termination times in two hours on either side of midnight UTC, one failure at any call |
| `populate` | Is the schedule what the owners ask for, whatever request fails and wherever the limit falls, and does the command end? | 3 applications, the first in 2 accounts, regions and stacks, the last with a cluster name that cannot be parsed and divided in every way; limits 0 to 3, fewer, as many and more than the list; 960 documents for one application and no document; every failing request of every application |
| `selection_day` | Do schedule and Checker mean the same groups while the deployment and the exceptions change; does every running instance belong to one; is nothing protected picked? | 6 server groups in 2 stacks, 2 accounts and 2 regions, two of them versions of one cluster in one region and one a canary, under every grouping, with and without independent regions; one change of a server group or of the exceptions between any two requests; 2 runs; any request fails |
| `installation` | Does an installed host work, does a crontab come after its scripts, and can an installation be repeated until it works? | 2 hosts that share a new database, 2 failures at any calls, one upgrade, `migrate` at any time; fairness |

Violated, each a place where the code does not do what the repository says:

| Run | What it shows |
|---|---|
| `check_commit_error` | The deferred function of CheckWithDelay (mysql.go:279) assigns the error of Commit to a variable that is not a result; Check returns nil and the kill goes ahead without a record. |
| `publish_evening` | At five in the afternoon in Los Angeles `schedExists` (mysql.go:217) asks for the next date, so that a second schedule is published. |
| `daily_default_hour` | With start_hour 9 the default run is at 7 UTC, which is still the day before in Los Angeles. chooseTerminationTime (schedule.go:137) takes the date in UTC, Publish the one in the location: what is due on Monday is stored under Sunday, and fetch-schedule on Monday finds nothing. |

### Why the bounds are enough

The interesting cases are pairwise or three-way conflicts between calls on one range of one index,
and these occur with two and three calls. Two days suffice where a property compares neighbouring
days, a week where weekends matter (`threshold` has three). One change of the deployment can fall
between any two requests of the survey and of a run. MaxFlips = 2 lets a switch be turned off and
on again within one run. In `installation` MaxFailures = 2 lets either host fail twice or both once,
and MaxUpgrades = 1 is enough for old and new files to lie side by side; in `daily_hosts` one failure
leaves the other host to compare with. Its two Mondays are seven days apart because cron takes a
weekday for any weekday of that name; the stops on the Tuesday let a fetch see one date in UTC and
another in the location. Symmetry is used for interchangeable processes, hosts and
instances, in runs without liveness properties only; the properties of `daily_hosts` and
ImplementsStore are safety properties (`check_two`, which checks ImplementsGuard, uses no symmetry).

Deadlock is not checked where the system may stop: in `threshold` and the `daily_` runs the clock
reaches its bound, in `selection_day` the runs of the day are over. In `installation` a host can
always run another command. The other modules have an explicit `Finished` step, so that a deadlock
TLC reports there is a set of transactions or calls that wait for ever.

### Fairness

Weak fairness of `Advance(p)` in TerminationChecker: a statement the server can execute is
executed, and InnoDB breaks deadlocks, so that a call under way goes on. It is not assumed that a
process begins, nor that faults or crashes occur. In Population it is weak fairness of each of the two
goroutines: requests are answered and both are scheduled. CommandEnds needs no more, because the
command never waits for a goroutine that is itself waiting. In Installation it is weak fairness of
`Advance(h)`, a command that has begun goes on, and strong fairness of `Retry(h)`: an operator who
has been told of an error repeats the installation, now and then, although somebody may run
`migrate` on the host in between. That is a promise of the operator and not of the code; what the
code has to do for RetriesSucceed is leave nothing behind that makes every attempt fail. The other
modules have no liveness property. Of Terminate none is stated: the code gives no timeout for the
requests to Spinnaker, so whether a run ends is up to Spinnaker.

## 4. What is proved

The theorems hold for every value of the constants: any processes, hosts, instances, requests,
schedules, hours and bounds. They use the named ASSUMEs of the modules, which TLC evaluates in every
run, and the hypotheses of the last column.

| Module | Theorem | Says | Needs |
|---|---|---|---|
| TerminationCheckerProofs | `TypeCorrect` | `[]TypeOK` | |
| | `MinTimeIsRespected` | `[]MinTimeRespected` | no SELECT is cut short |
| | `CheckIsAtomic` | Check implements MinTimeGuard | neither fault |
| | `RefusalsAreCaused` | `[]RefusalHasACause` | |
| | `NothingUnrecorded` | `[]NilMeansRecorded` | commits do not fail |
| | `RivalsDoNotAllLose` | `[]SomebodyWins` | somebody asks |
| | `OneKillADay` | `[]AtMostOneKillADay` | no SELECT is cut short, ClocksChangeAtWeekends |
| | `ThresholdsAreTheDocumentedOnes` | `[]EndsThatManyWorkingDaysBack` (ThresholdClock) | ClocksChangeAtWeekends |
| | `OldKillsStayOld` | `ThresholdNeverRetreats` (ThresholdClock) | ClocksChangeAtWeekends |
| | `TheThreshold` | what `NoKillsSince` computes, in closed form | ClocksChangeAtWeekends |
| TerminateProofs | `TypeCorrect` | `[]TypeOK` | |
| | `SwitchesAreAsked` | `[]KillsNeedEverySwitch` | |
| | `LeashHolds` | `[]DryRunsStayDry` | |
| | `TrackersComeFirst` | `[]KillsAreTracked` | |
| | `KillsLeaveARecord` | `[]KillsAreRecorded` | |
| | `MinimumTimeIsKept` | `[]KillsKeepApart` | |
| | `UsesTheChecker` | Terminate keeps to MinTimeGuard, with the answers that are due | |
| | `GuardKeepsApart` | MinTimeGuard records nothing that it forbids | |
| ScheduleStoreProofs | `TypeCorrect` | `[]TypeOK` | |
| | `PublishIsOneStep` | Publish implements PublishOnce | |
| | `OneScheduleForADate` | `[]OnePublisherPerDate` | instants of one date in UTC and the location, no empty schedule |
| | `NotEverybodyLoses` | `[]SomebodyPublishes` | somebody publishes |
| DailyScheduleProofs | `TypeCorrect` | `[]TypeOK` | |
| | `CronRunsWhatIsPublished` | `[]CrontabsArePublished` | |
| | `DatesOfTheTable` | by how much the date in the table is off, for every offset and run hour | |
| | `FetchBringsTheDay` | `AllThatIsDueTodayIsFetched` | RunsOnTheDate |
| | `ArmedHostsDeliver` | `ArmedHostsLaunch` | RunsOnTheDate |
| | `HostsAreOnTime` | `ArmedHostsAreOnTime` | RunsOnTheDate |
| | `DeploymentsAgree` | `[]HostsAgree` | RunsOnTheDate |
| SelectionProofs | `TypeCorrect` | `[]TypeOK` | |
| | `ProtectionHolds` | `[]VictimsAreFairGame` | |
| | `ScheduleIsComplete` | `[]NobodyIsForgotten` | |
| | `GroupsDoNotOverlap` | `[]GroupsAreDisjoint` | NamesAreGiven |
| | `ChecksMatchTheSchedule` | `[]SchedulesMatchChecks` | NamesAreGiven |
| InstanceGroupsProofs | `TheGroupOfAMember` | a group can be told from any of its members | regions, clusters and stacks have names |
| PopulationProofs | `TypeCorrect` | `[]TypeOK` | |
| | `DeathsAreCaused` | `DeathsHaveACause` | |
| | `OwnersGetWhatTheyAskedFor` | `[]OwnersGetTheirSchedule` | NamesAreGiven |
| InstallationProofs | `TypeCorrect` | `[]TypeOK` | |
| | `CrontabIsLast` | `CrontabComesLast` | |
| | `InstalledHostsWork` | `[]InstalledHostsRun` | |

None of the hypotheses in the last column is idle: where it fails the code does not keep the
property, and section 5 or a run with a violation says how. The two faults are those of
`check_commit_error` and of rows.Err(). `RunsOnTheDate` is `RunHour + Offset \in 0 .. 23`: the daily
run is made on the date, in the location, that it has in UTC. The default hours satisfy it in
Europe and New York; with the default location, Los Angeles, they do not in winter, and then
`daily_default_hour` and `publish_evening` are what happens. DatesOfTheTable needs no hypothesis: it
says by how much the dates are off in every configuration, and that nothing else puts an entry under
a wrong date.
`ClocksChangeAtWeekends` is how the zones of America and Europe do it; on a Friday of 25 hours (LongDays
of {4}) the instant 24 hours before the last hour is still on that Friday, so that one day back
noKillsSince returns the end of Friday itself, and a second kill that late would be permitted.
`NamesAreGiven` says that regions have names, and stacks too where groups are stacks; grp.New takes a
blank for "any".

### The arguments

TerminationChecker. MinTimeRespected is not inductive: it says nothing of the transactions under way.
`IInv` adds

* `ClearedHoldLocks`: a call whose SELECT found nothing holds its locks until it ends;
* `LocksAreDropped`: locks are held by calls that are cleared, inserted or failing only;
* `ClearedStayClear`: nothing that would have forbidden such a call has been committed since;
* `LocksKeepRowsOut`: no other transaction has an uncommitted row in a range that is locked.

The step that matters is Commit. The row it adds could break ClearedStayClear of another call;
LocksKeepRowsOut says that the row is outside the other's range, and `ForbiddingRowsAreScanned`
that what a query returns is inside the range it locks. Insert is what establishes
LocksKeepRowsOut, and can, because it waits. SelectWaitsFor keeps a new lock from covering a row
that is inserted already. With a SELECT that is cut short a call is cleared without a lock, and the
argument, like the code, fails. For CheckIsAtomic `Reports` is needed as well: a call that is going
to report a refusal still has its cause in the table. `OwnRows` relates the rows of the table to the
calls that made them. SomebodyWins rests on `NotAllAreVictims`: of the transactions that wait in a
circle the one that is not chosen is still there, so not every process can be a victim, and a
refusal needs a row, whose process was told nil (`RowsOfWinners`) or has crashed.

The threshold. `NoKillsSince` is a recursive function: TLA+ defines it as some function that satisfies
an equation, and nothing can be said of it before there is one. `EndOfWorkday` is a closed form, which
numbers the working days (`WorkdayIndex`), subtracts, and goes back to the calendar (`WorkdayAt`). It
obeys the equation (`EndsAgree`) because 24 hours before an instant of a working day the last working
day is the one before, and 24 hours before an instant of a weekend it is the same
(`OneDayEarlier`), whatever the clocks do that weekend. It is the only function that does
(`TheSolutionIsUnique`): every call of the recursion makes 100 * n plus the hours since the last
working day began smaller, so there is no least call on which another solution differs. The induction
is the least element of a set of numbers (`LeastElement`, from the library's theorems on well-founded
relations), for which no operator has to be substituted. OneKillADay then follows from
MinTimeRespected and `TodayIsTooRecent`: with a minimum of a day, today is behind the threshold.
ThresholdsAreTheDocumentedOnes counts the working days in between by a bijection (`WorkdaysBetween`).
The theorems about ThresholdClock are in TerminationCheckerProofs too, which extends it.

ScheduleStore. The same argument, with dates for ranges: `RefusalsStand` is what Reports is for the
Checker. Publish needs no hypothesis to be one step, because PublishOnce lets a blind call publish;
what a blind call costs is in OnePublisherPerDate. That theorem is about the two dates: when
`AskedDate` and `StoredDate` are the same, a call that counted nothing is the first of its date.

Terminate. `IInv` says of a run under way what its past was: `SwitchesWereOn` relates the call it
makes next to the switches it has `Passed`, and to the leash and the environment; `RecordsAreOfRuns`
that a record is the termination of a run past its check; `KillsAreOfRuns` that a kill is that of a
run which has ended, unleashed, with all it needed behind it. `RunsAreRecorded` adds that a run
which was told "permitted" has its record, and that a run past its check was told that or
"unrecorded". That no record forbids a later one is not proved of Terminate at all: it is
`GuardKeepsApart`, a theorem about the abstract Checker, which holds of the table because of the
refinement UsesTheChecker. That refinement takes for the abstract answers the ones that are due, so
that a run which was let through wrongly is one that failed, and needs no assumption about commits.
From these KillsKeepApart follows: the two kills have different runs, these have different records,
whose days are those of the kills, and of the two records the earlier one does not forbid the later.
The steps that only go from one call to the next are one case in the proofs (`GoesOn`), the two that
append to the table another (`Records`).

DailySchedule. `IInv`: a schedule about to be published was made in this hour, and all that is on its
way to a crontab, in one or launched from one is in the table. `OneTimeForAGroup` says that the table
has one time for a group on a date; Publish keeps it because it looks for the very date it stores.
`SchedulesAreWhole`: what a command holds past the store is all the table has for its date, or
nothing, and a host's crontab is all the table has for the date it is armed with. Nobody adds to a
date that has rows, so neither can become stale. `DatesOfARun` is the arithmetic of the two dates: the
times of a schedule lie on the UTC date of its run, taken in the location, and the local date of the
run differs from that by `DateShift`, which is 0 exactly under RunsOnTheDate. `DueAgain` is the
arithmetic of cron: an entry that is due at another time than its own is due a week after it or
later, or two days before it, and nothing stands in a crontab that long before (`NotLongBefore`). So
what is launched is on time or a week old (`OnTimeOrWeekOld`), whatever the host has done.

InstanceGroups. Each group comes from a cluster (`GroupsComeFromClusters`), the group of something can
be told from it (`TheGroupOfAMember`), and what the application has somewhere is in a group
(`EveryMemberHasAGroup`). The proofs of Selection and of Population rest on these three.

Selection. Check compares the same things as the scheduler (`QueriesMeanTheSame`). `IInv` says that
the groups of the day are those of the survey under the setting, and that what a run has found is in
its group and not barred by the exceptions it read.

Population. The two goroutines meet at the channel only, so the invariant is about what each knows of
the other. `IInv` has

* `AppsInv`: what Apps has learnt of an application is so, nothing is missing but what it has still to
  ask, if no request fails (`Surveyed`), and what waits at the channel is an application that answers;
* `LoopInv`: while Populate is in the loop it has counted exactly the applications surveyed that
  answer, and it has left the loop because there are no more or because there was one too many;
* `EntriesInv`: the groups scheduled are of the applications considered so far, and all of these that
  ask for daily terminations are covered but the one being handled.

`Answering(n)` counts the first n applications that can be surveyed. It is a cardinality, so no
induction is needed: `CountingOn` says what the next application adds, `CountingIsMonotonic` that a
count never falls, and `NobodyElseIsConsidered` that after one too many nobody that comes later could
have been considered, which is why leaving the loop early loses nothing. That a document alone does
not make the command panic is `ConfigurationsComeFromDocuments`: an AppConfig that is enabled has a
positive mean, and the grouping that its document names. What is left is a name that cannot be
parsed, which Surveyed traces to a place where the application runs (`SchedulingAnApp`). The second
half of DeathsHaveACause is LoopInv with the producer at work: it cannot have closed the channel.

Installation. Neither CrontabComesLast nor InstalledHostsRun says what a command under way has done
already. `IInv` adds

* `InstallationsAreUnderWay`: what touches files is an installation, and it is one to its end;
* `FilesComeInOrder`: each call finds what comes before it written by the same installation, and no
  new crontab while scripts are being replaced;
* `TablesComeInOrder`: the record of the migration is made after both tables;
* `InstallationsAreComplete`: an installation that has come to the migration has written all three
  files, and one that ended well has both tables too.

TypeOK contributes that a recorded migration has its tables, which is what lets a second host skip
it. Tables are never dropped and files change only under their own host's installation, so nothing
another host does can undo InstallationsAreComplete.

Only model-checked: liveness (CheckReturns, CommandEnds, RetriesSucceed), which is out of
the provers' reach. Every safety property and every action property that a run checks is proved.

## 5. Divergences that have no run

Each is a step of a model or was found in writing one.

* `rows.Err()` is never asked (mysql.go:358, 237): a result that ends with an error counts as empty.
  The actions are SelectCutShort and CountCutShort; with "read" in Faults MinTimeRespected fails.
* `schedExists` finds no rows of an empty schedule, so an empty schedule can be published again;
  east of Greenwich it refuses in the morning because the date before has a schedule.
* `noKillsSince` steps 24 hours at a time: in a working day of 25 hours, in its last hour, a minimum
  of one day reaches only back to the same day's end. Zones that change clocks on Sundays never
  meet it on a working day.
* The time written into `terminations` is read before the check; a request answered the next day
  kills on a day another run may kill on too (term.go:152). KillsKeepApart excepts such a kill by
  `OnRecord`, and without that `terminate_two` violates it.
* The default crontab of install runs two hours before the start of the day in the host's clock, not
  in the configured location's. East of UTC the run may come when the times chooseTerminationTime picks
  are already past: with start_hour 9 and the location 9 hours ahead, 7 UTC is four in the afternoon.
  West of it the dates come apart, as `daily_default_hour` shows.
* fetch-schedule empties the crontab when there is no schedule; its early return is dead code
  (fetchschedule.go:36). The deployment guide says so, the function's comment does not.
* EligibleInstanceGroups returns groups without instances, in spite of its comment (line 36), for
  accounts and clusters with nothing running. A cluster without a stack makes a group that contains
  the clusters of every stack, as a blank stack means any.
* A cluster with only disabled server groups makes GetInstanceIDs fail and `Instances` throw away what
  it found elsewhere (eligible.go:201): the run ends as if nothing were eligible.
* What to do with a cluster name that cannot be parsed is decided in four ways. `grp.Contains` warns and
  takes it for a cluster of no group; `eligible.clusters` returns an error, so that no group of that
  application and account ever loses an instance (eligible.go:117); `Cluster.StackName` panics
  (deployment.go:149), so that one such name in one application divided by stack ends the scheduling of
  all applications; and dividing by cluster makes a group of it that contains nothing. DeathsHaveACause
  says that no other name and no document has this effect.
* GetApp's helpers end the process for one failing application (spinnaker.go:384-429), although
  Apps means to go on with the next (spinnaker.go:244). When max-apps cuts the list short the
  goroutine is still surveying while the schedule is published, and can end the process before the
  crontab is written; DeathsHaveACause says that this is the only way.
* When no schedule is written for a week, because scheduling is switched off or keeps failing, the
  old crontab stays, and cron, matching the weekday OR the day of the month, launches last week's
  terminations again (schedule.go:225), although docs/Termination-behavior.md:13 says "at a random
  time between 9AM and 3PM that day". `daily_hosts` goes on to the Monday after and meets this:
  ArmedHostsAreOnTime says that a host is on time up to the seventh day and excepts what comes then,
  and without the exception TLC finds it violated there. So does HostsAgree (`WeekOld`), which needs
  its exception as soon as the second Monday has both termination hours, with 192 among the Stops.
* With start_hour 0 or 1 the default crontab runs at 22 or 23 of the same weekday
  (config/monkey.go:473), although the comment there means the previous day; the times
  chooseTerminationTime picks on that date are already past.

## 6. What is not modelled

HTTP, TLS, JSON, viper's layers of defaults, files and flags, logging, printing and the default plug-ins
(which do nothing) have no state that these properties are about. Probabilities are choices. Minutes are
not modelled: instants are hours, and `killed_at`, which MySQL rounds to a whole second, is left out. In
the crontab that two commands write into each other's text, a line that is cut inside its two-digit
minute may stay readable at another minute of the same hour; here a cut line is lost or makes the file
unreadable. `schedule` is run by cron, at RunHour on weekdays; an operator who runs it by hand at
another hour is not modelled. The runs and proofs of Selection are for cluster names that can be parsed;
Population has the ones that cannot. Time stands still between the start of Populate and Publish in
DailySchedule; installing may take any time. A host runs at most one `schedule` and one `fetch-schedule`
at a time there, and one command at a time in Installation. `--no-record-schedule`, which puts a store
that does nothing in place of the database, is not modelled. A script of which WriteFile wrote only a
part counts as empty: neither does the work. The hours and the location that Populate panics on when
they make no sense are assumed to make sense. The commands that print a configuration, a group or an
outage, and the test doubles under `mock`, change no state.

## 7. Plan

Done: a model of every component with logic of its own, the two abstract specifications and the
refinements to them, and proofs of every safety property.

Next: the composition of DailySchedule with Terminate (what is launched twice is killed once).
