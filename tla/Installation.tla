---------------------------- MODULE Installation ----------------------------
(***************************************************************************)
(* "install" and "migrate" on several hosts that share a database, while   *)
(* cron runs what has been installed: the script that wraps "terminate",   *)
(* the script that wraps "schedule", the crontab that runs the latter once *)
(* a day, and the two tables with sql-migrate's record of having made      *)
(* them.  A command ends at its first error, wherever that is, or dies,    *)
(* and is repeated by its operator.                                        *)
(*                                                                         *)
(* The content of a file is what matters of it: whether it is whole, and   *)
(* whether the latest installation on its host wrote it ("new") or an      *)
(* earlier one ("old"), perhaps with another executable and configuration. *)
(***************************************************************************)
EXTENDS Naturals

CONSTANTS
  Host,
  MaxFailures,  \* bound on the commands that fail or die for a reason of their own
  MaxUpgrades   \* bound on the installations over one that ended well

ASSUME InstallationAssumption == MaxFailures \in Nat /\ MaxUpgrades \in Nat

VARIABLES
  files,      \* of each host: the termination script, the schedule script, the crontab
  pc,         \* the next call of the command a host is running
  outcome,    \* what became of the last installation on a host
  tables,     \* the tables there are
  migrated,   \* whether gorp_migrations has the migration's record
  armed,      \* the hosts whose daily run has written a crontab of terminations
  missed,     \* history: installed hosts on which cron could not do its work
  failures, upgrades

vars == <<files, pc, outcome, tables, migrated, armed, missed, failures, upgrades>>

File == {"term", "schedule", "crontab"}
Table == {"schedules", "terminations"}

Steps == {"removeTerm", "openTerm", "writeTerm",
          "removeSchedule", "removeCrontab", "openSchedule", "writeSchedule",
          "openCrontab", "writeCrontab",
          "plan", "createSchedules", "createTerminations", "record"}

Whole(content) == content \in {"old", "new"}

TypeOK ==
  /\ files \in [Host -> [File -> {"absent", "empty", "old", "new"}]]
  /\ pc \in [Host -> Steps \cup {"none"}]
  /\ outcome \in [Host -> {"none", "installing", "failed", "installed"}]
  /\ tables \subseteq Table
  /\ migrated \in BOOLEAN /\ (migrated => tables = Table)
  /\ armed \subseteq Host /\ missed \subseteq Host
  /\ failures \in 0 .. MaxFailures
  /\ upgrades \in 0 .. MaxUpgrades

Init ==
  /\ files = [h \in Host |-> [f \in File |-> "absent"]]
  /\ pc = [h \in Host |-> "none"]
  /\ outcome = [h \in Host |-> "none"]
  /\ tables = {}
  /\ migrated = FALSE
  /\ armed = {}
  /\ missed = {}
  /\ failures = 0
  /\ upgrades = 0

database == <<tables, migrated>>
cron == <<armed, missed>>
bounds == <<failures, upgrades>>

Goto(h, from, to) == pc[h] = from /\ pc' = [pc EXCEPT ![h] = to]

\* The end of a command; "migrate" says nothing of the installation of the host.
Ends(h, how) ==
  /\ pc' = [pc EXCEPT ![h] = "none"]
  /\ outcome' = [outcome EXCEPT ![h] = IF @ = "installing" THEN how ELSE @]

---------------------------------------------------------------------------
(* The operators. *)

\* What is there was written by an earlier installation from now on.
Install(h) ==
  /\ Goto(h, "none", "removeTerm")
  /\ IF outcome[h] = "installed"
     THEN upgrades < MaxUpgrades /\ upgrades' = upgrades + 1
     ELSE UNCHANGED upgrades
  /\ outcome' = [outcome EXCEPT ![h] = "installing"]
  /\ files' = [files EXCEPT ![h] =
                 [f \in File |-> IF @[f] = "new" THEN "old" ELSE @[f]]]
  /\ UNCHANGED <<database, cron, failures>>

\* "migrate" by itself, which the deployment guide asks for.
JustMigrate(h) ==
  /\ Goto(h, "none", "plan")
  /\ UNCHANGED <<files, outcome, database, cron, bounds>>

---------------------------------------------------------------------------
(* InstallCron, call by call. *)

\* A mistake: that the file is not there is an error like any other.
RemoveExisting(h, f, from, to) ==
  /\ pc[h] = from
  /\ IF files[h][f] = "absent"
     THEN Ends(h, "failed") /\ UNCHANGED files
     ELSE /\ pc' = [pc EXCEPT ![h] = to]
          /\ files' = [files EXCEPT ![h][f] = "absent"]
          /\ UNCHANGED outcome
  /\ UNCHANGED <<database, cron, bounds>>

EnsureFileAbsent(h, f, from, to) ==
  /\ Goto(h, from, to)
  /\ files' = [files EXCEPT ![h][f] = "absent"]
  /\ UNCHANGED <<outcome, database, cron, bounds>>

\* The two halves of ioutil.WriteFile.
Open(h, f, from, to) ==
  /\ Goto(h, from, to)
  /\ files' = [files EXCEPT ![h][f] = "empty"]
  /\ UNCHANGED <<outcome, database, cron, bounds>>

Write(h, f, from, to) ==
  /\ Goto(h, from, to)
  /\ files' = [files EXCEPT ![h][f] = "new"]
  /\ UNCHANGED <<outcome, database, cron, bounds>>

SetupTerminationScript(h) ==
  \/ EnsureFileAbsent(h, "term", "removeTerm", "openTerm")
  \/ Open(h, "term", "openTerm", "writeTerm")
  \/ Write(h, "term", "writeTerm", "removeSchedule")

\* A mistake: the crontab is written before the script that it runs.
SetupCronFirst(h) ==
  \/ EnsureFileAbsent(h, "schedule", "removeSchedule", "removeCrontab")
  \/ EnsureFileAbsent(h, "crontab", "removeCrontab", "openCrontab")
  \/ Open(h, "crontab", "openCrontab", "writeCrontab")
  \/ Write(h, "crontab", "writeCrontab", "openSchedule")
  \/ Open(h, "schedule", "openSchedule", "writeSchedule")
  \/ Write(h, "schedule", "writeSchedule", "plan")

\* CronExpression is asked before the crontab is opened.
SetupCron(h) ==
  \/ EnsureFileAbsent(h, "schedule", "removeSchedule", "removeCrontab")
  \/ EnsureFileAbsent(h, "crontab", "removeCrontab", "openSchedule")
  \/ Open(h, "schedule", "openSchedule", "writeSchedule")
  \/ Write(h, "schedule", "writeSchedule", "openCrontab")
  \/ Open(h, "crontab", "openCrontab", "writeCrontab")
  \/ Write(h, "crontab", "writeCrontab", "plan")

---------------------------------------------------------------------------
(* mysql.Migrate: sql-migrate applies what it finds no record of. *)

Plan(h) ==
  /\ pc[h] = "plan"
  /\ IF migrated THEN Ends(h, "installed")
     ELSE pc' = [pc EXCEPT ![h] = "createSchedules"] /\ UNCHANGED outcome
  /\ UNCHANGED <<files, database, cron, bounds>>

\* A mistake: CREATE TABLE without IF NOT EXISTS.
CreateAgain(h, t, from, to) ==
  /\ pc[h] = from
  /\ IF t \in tables THEN Ends(h, "failed") /\ UNCHANGED tables
     ELSE /\ pc' = [pc EXCEPT ![h] = to]
          /\ tables' = tables \cup {t}
          /\ UNCHANGED outcome
  /\ UNCHANGED <<files, migrated, cron, bounds>>

\* CREATE TABLE IF NOT EXISTS; MySQL commits it at once, in a transaction or not.
CreateTable(h, t, from, to) ==
  /\ Goto(h, from, to)
  /\ tables' = tables \cup {t}
  /\ UNCHANGED <<files, outcome, migrated, cron, bounds>>

\* A mistake: the second statement of the migration is lost.
MigrationOfOneTable(h) == CreateTable(h, "schedules", "createSchedules", "record")

Migrations(h) ==
  \/ CreateTable(h, "schedules", "createSchedules", "createTerminations")
  \/ CreateTable(h, "terminations", "createTerminations", "record")

\* The record has a primary key: whoever comes second is told of a duplicate.
Record(h) ==
  /\ pc[h] = "record"
  /\ Ends(h, IF migrated THEN "failed" ELSE "installed")
  /\ migrated' = TRUE
  /\ UNCHANGED <<files, tables, cron, bounds>>

\* A mistake: an error is logged, and the command ends as if there were none.
FailQuietly(h) ==
  /\ failures < MaxFailures
  /\ failures' = failures + 1
  /\ pc[h] # "none"
  /\ Ends(h, "installed")
  /\ UNCHANGED <<files, database, cron, upgrades>>

\* Any call may fail: log.Fatalf.  Or the command is killed.
Fail(h) ==
  /\ failures < MaxFailures
  /\ failures' = failures + 1
  /\ pc[h] # "none"
  /\ Ends(h, "failed")
  /\ UNCHANGED <<files, database, cron, upgrades>>

---------------------------------------------------------------------------
(* Cron, once a day and at the time of each termination. *)

Missing(h, works) ==
  missed' = missed \cup (IF outcome[h] = "installed" /\ ~works THEN {h} ELSE {})

\* Publishing needs the table, and comes before the crontab of terminations.
DailyRun(h) ==
  /\ Whole(files[h]["crontab"])
  /\ LET works == Whole(files[h]["schedule"]) /\ "schedules" \in tables
     IN armed' = (IF works THEN armed \cup {h} ELSE armed) /\ Missing(h, works)
  /\ UNCHANGED <<files, pc, outcome, database, bounds>>

\* Check needs the other table.
DueTermination(h) ==
  /\ h \in armed
  /\ Missing(h, Whole(files[h]["term"]) /\ "terminations" \in tables)
  /\ UNCHANGED <<files, pc, outcome, database, armed, bounds>>

---------------------------------------------------------------------------
Advance(h) ==
  SetupTerminationScript(h) \/ SetupCron(h) \/ Plan(h) \/ Migrations(h) \/ Record(h)

Next == \E h \in Host :
  \/ Install(h) \/ JustMigrate(h)
  \/ Advance(h) \/ Fail(h)
  \/ DailyRun(h) \/ DueTermination(h)

Spec == Init /\ [][Next]_vars

\* A command goes on, and an operator repeats an installation that failed.
Retry(h) == outcome[h] = "failed" /\ Install(h)

FairSpec == Spec /\ \A h \in Host : WF_vars(Advance(h)) /\ SF_vars(Retry(h))

---------------------------------------------------------------------------
(***************************************************************************)
(* "installation done!" is true and stays true: from then on the daily run *)
(* of the host finds its script and its table, and so does every           *)
(* termination it schedules, whatever failed before and whatever other     *)
(* hosts are doing to the database, until the host is installed anew.      *)
(***************************************************************************)
InstalledHostsRun == missed = {}

(***************************************************************************)
(* A crontab never outlives its installation's failure: one that the       *)
(* latest installation has written runs scripts of the same installation,  *)
(* complete ones, so that executable, configuration and hour belong        *)
(* together, even when the command died in the middle.                     *)
(***************************************************************************)
CrontabComesLast ==
  \A h \in Host : files[h]["crontab"] = "new" =>
     files[h]["schedule"] = "new" /\ files[h]["term"] = "new"

(***************************************************************************)
(* An installation can be repeated until it works: no failure leaves files *)
(* or tables behind that make every later attempt fail, and hosts that     *)
(* migrate at the same time do not keep each other from it.                *)
(***************************************************************************)
RetriesSucceed ==
  \A h \in Host : outcome[h] \in {"installing", "failed"} ~> outcome[h] = "installed"
=============================================================================
