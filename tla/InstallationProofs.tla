------------------------- MODULE InstallationProofs -------------------------
(***************************************************************************)
(* Proofs about Installation, for any set of hosts and any number of       *)
(* failures: its types, the order in which the files of an installation    *)
(* come to be whole, and that an installed host keeps working.             *)
(***************************************************************************)
EXTENDS Installation, TLAPS

FileSteps == {"removeTerm", "openTerm", "writeTerm", "removeSchedule", "removeCrontab",
              "openSchedule", "writeSchedule", "openCrontab", "writeCrontab"}

AllWritten(h) == \A f \in File : files[h][f] = "new"

\* Only an installation touches files, and it is an installation to its end.
InstallationsAreUnderWay ==
  \A h \in Host : /\ pc[h] \in FileSteps => outcome[h] = "installing"
                  /\ outcome[h] = "installing" => pc[h] # "none"

FilesComeInOrder ==
  \A h \in Host :
    /\ pc[h] \in FileSteps => files[h]["crontab"] # "new"
    /\ pc[h] \in FileSteps \ {"removeTerm", "openTerm", "writeTerm"} => files[h]["term"] = "new"
    /\ pc[h] \in {"openCrontab", "writeCrontab"} => files[h]["schedule"] = "new"

TablesComeInOrder ==
  \A h \in Host : /\ pc[h] = "createTerminations" => "schedules" \in tables
                  /\ pc[h] = "record" => tables = Table

InstallationsAreComplete ==
  \A h \in Host :
    /\ outcome[h] = "installing" /\ pc[h] \notin FileSteps => AllWritten(h)
    /\ outcome[h] = "installed" => AllWritten(h) /\ tables = Table

IInv == /\ TypeOK
        /\ InstallationsAreUnderWay
        /\ FilesComeInOrder
        /\ TablesComeInOrder
        /\ InstallationsAreComplete
        /\ CrontabComesLast
        /\ InstalledHostsRun

(***************************************************************************)
(* A call that touches a file keeps the types.                             *)
(***************************************************************************)
LEMMA FileCallsKeepTypes ==
  ASSUME TypeOK, NEW h \in Host, NEW f \in File, NEW from, NEW to \in Steps,
         EnsureFileAbsent(h, f, from, to) \/ Open(h, f, from, to) \/ Write(h, f, from, to)
  PROVE  TypeOK'
<1>1. PICK content \in {"absent", "empty", "new"} : files' = [files EXCEPT ![h][f] = content]
  BY DEF EnsureFileAbsent, Open, Write
<1>2. files' \in [Host -> [File -> {"absent", "empty", "old", "new"}]]
  BY <1>1 DEF TypeOK
<1>3. pc' \in [Host -> Steps \cup {"none"}]
  BY DEF EnsureFileAbsent, Open, Write, Goto, TypeOK
<1>4. UNCHANGED <<outcome, tables, migrated, armed, missed, failures, upgrades>>
  BY DEF EnsureFileAbsent, Open, Write, database, cron, bounds
<1>5. migrated' \in BOOLEAN /\ (migrated' => tables' = Table)
  BY <1>4, Zenon DEF TypeOK
<1>6. tables' \subseteq Table /\ armed' \subseteq Host /\ missed' \subseteq Host
  BY <1>4 DEF TypeOK
<1>7. /\ outcome' \in [Host -> {"none", "installing", "failed", "installed"}]
      /\ failures' \in 0 .. MaxFailures
      /\ upgrades' \in 0 .. MaxUpgrades
  BY <1>4 DEF TypeOK
<1> QED
  BY <1>2, <1>3, <1>5, <1>6, <1>7, Zenon DEF TypeOK

(***************************************************************************)
(* Every step keeps the invariant.                                         *)
(***************************************************************************)
LEMMA Invariance == Spec => []IInv
<1> USE DEF File, Table, Steps, FileSteps, AllWritten
<1>1. Init => IInv
  <2> SUFFICES ASSUME Init PROVE IInv
    OBVIOUS
  <2> USE DEF Init
  <2>1. TypeOK
    <3>1. failures \in 0 .. MaxFailures /\ upgrades \in 0 .. MaxUpgrades
      BY InstallationAssumption
    <3>2. migrated \in BOOLEAN /\ (migrated => tables = Table)
      BY Zenon
    <3>3. tables \subseteq Table /\ armed \subseteq Host /\ missed \subseteq Host
      OBVIOUS
    <3>4. pc \in [Host -> Steps \cup {"none"}]
      OBVIOUS
    <3>5. outcome \in [Host -> {"none", "installing", "failed", "installed"}]
      OBVIOUS
    <3>6. files \in [Host -> [File -> {"absent", "empty", "old", "new"}]]
      OBVIOUS
    <3> QED
      BY <3>1, <3>2, <3>3, <3>4, <3>5, <3>6 DEF TypeOK
  <2>2. InstallationsAreUnderWay
    BY DEF InstallationsAreUnderWay
  <2>3. FilesComeInOrder
    BY DEF FilesComeInOrder
  <2>4. TablesComeInOrder
    BY DEF TablesComeInOrder
  <2>5. InstallationsAreComplete
    BY DEF InstallationsAreComplete
  <2>6. CrontabComesLast
    BY DEF CrontabComesLast
  <2>7. InstalledHostsRun
    BY DEF InstalledHostsRun
  <2> QED
    BY <2>1, <2>2, <2>3, <2>4, <2>5, <2>6, <2>7 DEF IInv
<1>2. IInv /\ [Next]_vars => IInv'
  <2> SUFFICES ASSUME IInv, [Next]_vars
               PROVE  IInv'
    OBVIOUS
  <2> USE DEF IInv
  <2>1. ASSUME NEW h \in Host, Install(h)
         PROVE  IInv'
    <3>1. TypeOK'
      BY <2>1, InstallationAssumption DEF Install, Goto, TypeOK, database, cron
    <3>2. InstallationsAreUnderWay'
      BY <2>1 DEF Install, Goto, InstallationsAreUnderWay, TypeOK
    <3>3. FilesComeInOrder'
      BY <2>1 DEF Install, Goto, FilesComeInOrder, TypeOK
    <3>4. TablesComeInOrder'
      BY <2>1 DEF Install, Goto, TablesComeInOrder, TypeOK, database
    <3>5. InstallationsAreComplete'
      BY <2>1 DEF Install, Goto, InstallationsAreComplete, TypeOK, database
    <3>6. CrontabComesLast'
      BY <2>1 DEF Install, Goto, CrontabComesLast, TypeOK
    <3>7. InstalledHostsRun'
      BY <2>1 DEF Install, InstalledHostsRun, cron
    <3> QED
      BY <3>1, <3>2, <3>3, <3>4, <3>5, <3>6, <3>7
  <2>2. ASSUME NEW h \in Host, JustMigrate(h)
         PROVE  IInv'
    <3>1. TypeOK'
      BY <2>2 DEF JustMigrate, Goto, TypeOK, database, cron, bounds
    <3>2. InstallationsAreUnderWay'
      BY <2>2 DEF JustMigrate, Goto, InstallationsAreUnderWay, TypeOK
    <3>3. FilesComeInOrder'
      BY <2>2 DEF JustMigrate, Goto, FilesComeInOrder, TypeOK
    <3>4. TablesComeInOrder'
      BY <2>2 DEF JustMigrate, Goto, TablesComeInOrder, TypeOK, database
    <3>5. InstallationsAreComplete'
      BY <2>2 DEF JustMigrate, Goto, InstallationsAreComplete, TypeOK, database,
         InstallationsAreUnderWay
    <3>6. CrontabComesLast'
      BY <2>2 DEF JustMigrate, CrontabComesLast
    <3>7. InstalledHostsRun'
      BY <2>2 DEF JustMigrate, InstalledHostsRun, cron
    <3> QED
      BY <3>1, <3>2, <3>3, <3>4, <3>5, <3>6, <3>7
  <2>3. ASSUME NEW h \in Host, SetupTerminationScript(h)
         PROVE  IInv'
    <3>1. TypeOK'
      BY <2>3, FileCallsKeepTypes DEF SetupTerminationScript
    <3>2. InstallationsAreUnderWay'
      BY <2>3 DEF SetupTerminationScript, EnsureFileAbsent, Open, Write, Goto,
         InstallationsAreUnderWay, TypeOK
    <3>3. FilesComeInOrder'
      BY <2>3 DEF SetupTerminationScript, EnsureFileAbsent, Open, Write, Goto, FilesComeInOrder,
         TypeOK
    <3>4. TablesComeInOrder'
      BY <2>3 DEF SetupTerminationScript, EnsureFileAbsent, Open, Write, Goto, TablesComeInOrder,
         TypeOK, database
    <3>5. InstallationsAreComplete'
      BY <2>3 DEF SetupTerminationScript, EnsureFileAbsent, Open, Write, Goto,
         InstallationsAreComplete, TypeOK, database, InstallationsAreUnderWay
    <3>6. CrontabComesLast'
      BY <2>3 DEF SetupTerminationScript, EnsureFileAbsent, Open, Write, Goto, CrontabComesLast,
         TypeOK, FilesComeInOrder
    <3>7. InstalledHostsRun'
      BY <2>3 DEF SetupTerminationScript, EnsureFileAbsent, Open, Write, InstalledHostsRun, cron
    <3> QED
      BY <3>1, <3>2, <3>3, <3>4, <3>5, <3>6, <3>7
  <2>4. ASSUME NEW h \in Host, SetupCron(h)
         PROVE  IInv'
    <3>1. TypeOK'
      BY <2>4, FileCallsKeepTypes DEF SetupCron
    <3>2. InstallationsAreUnderWay'
      BY <2>4 DEF SetupCron, EnsureFileAbsent, Open, Write, Goto, InstallationsAreUnderWay, TypeOK
    <3>3. FilesComeInOrder'
      BY <2>4 DEF SetupCron, EnsureFileAbsent, Open, Write, Goto, FilesComeInOrder, TypeOK
    <3>4. TablesComeInOrder'
      BY <2>4 DEF SetupCron, EnsureFileAbsent, Open, Write, Goto, TablesComeInOrder, TypeOK,
         database
    <3>5. InstallationsAreComplete'
      BY <2>4 DEF SetupCron, EnsureFileAbsent, Open, Write, Goto, InstallationsAreComplete,
         TypeOK, database, InstallationsAreUnderWay, FilesComeInOrder
    <3>6. CrontabComesLast'
      BY <2>4 DEF SetupCron, EnsureFileAbsent, Open, Write, Goto, CrontabComesLast, TypeOK,
         FilesComeInOrder
    <3>7. InstalledHostsRun'
      BY <2>4 DEF SetupCron, EnsureFileAbsent, Open, Write, InstalledHostsRun, cron
    <3> QED
      BY <3>1, <3>2, <3>3, <3>4, <3>5, <3>6, <3>7
  <2>5. ASSUME NEW h \in Host, Plan(h)
         PROVE  IInv'
    <3>1. TypeOK'
      BY <2>5 DEF Plan, Ends, TypeOK, database, cron, bounds
    <3>2. InstallationsAreUnderWay'
      BY <2>5 DEF Plan, Ends, InstallationsAreUnderWay, TypeOK
    <3>3. FilesComeInOrder'
      BY <2>5 DEF Plan, Ends, FilesComeInOrder, TypeOK
    <3>4. TablesComeInOrder'
      BY <2>5 DEF Plan, Ends, TablesComeInOrder, TypeOK, database
    <3>5. InstallationsAreComplete'
      BY <2>5 DEF Plan, Ends, InstallationsAreComplete, TypeOK, database
    <3>6. CrontabComesLast'
      BY <2>5 DEF Plan, CrontabComesLast
    <3>7. InstalledHostsRun'
      BY <2>5 DEF Plan, InstalledHostsRun, cron
    <3> QED
      BY <3>1, <3>2, <3>3, <3>4, <3>5, <3>6, <3>7
  <2>6. ASSUME NEW h \in Host, Migrations(h)
         PROVE  IInv'
    <3>1. TypeOK'
      <4>1. PICK t \in Table : tables' = tables \cup {t}
        BY <2>6 DEF Migrations, CreateTable
      <4>2. tables' \subseteq Table /\ (tables = Table => tables' = Table)
        BY <4>1 DEF TypeOK
      <4>3. pc' \in [Host -> Steps \cup {"none"}]
        BY <2>6 DEF Migrations, CreateTable, Goto, TypeOK
      <4>4. UNCHANGED <<files, outcome, migrated, armed, missed, failures, upgrades>>
        BY <2>6 DEF Migrations, CreateTable, cron, bounds
      <4>5. migrated' \in BOOLEAN /\ (migrated' => tables' = Table)
        BY <4>2, <4>4, Zenon DEF TypeOK
      <4>6. /\ files' \in [Host -> [File -> {"absent", "empty", "old", "new"}]]
            /\ outcome' \in [Host -> {"none", "installing", "failed", "installed"}]
            /\ armed' \subseteq Host /\ missed' \subseteq Host
            /\ failures' \in 0 .. MaxFailures
            /\ upgrades' \in 0 .. MaxUpgrades
        BY <4>4 DEF TypeOK
      <4> QED
        BY <4>2, <4>3, <4>5, <4>6, Zenon DEF TypeOK
    <3>2. InstallationsAreUnderWay'
      BY <2>6 DEF Migrations, CreateTable, Goto, InstallationsAreUnderWay, TypeOK
    <3>3. FilesComeInOrder'
      BY <2>6 DEF Migrations, CreateTable, Goto, FilesComeInOrder, TypeOK
    <3>4. TablesComeInOrder'
      BY <2>6 DEF Migrations, CreateTable, Goto, TablesComeInOrder, TypeOK
    <3>5. InstallationsAreComplete'
      BY <2>6 DEF Migrations, CreateTable, Goto, InstallationsAreComplete, TypeOK
    <3>6. CrontabComesLast'
      BY <2>6 DEF Migrations, CreateTable, CrontabComesLast
    <3>7. InstalledHostsRun'
      BY <2>6 DEF Migrations, CreateTable, InstalledHostsRun, cron
    <3> QED
      BY <3>1, <3>2, <3>3, <3>4, <3>5, <3>6, <3>7
  <2>7. ASSUME NEW h \in Host, Record(h)
         PROVE  IInv'
    <3>1. TypeOK'
      BY <2>7 DEF Record, Ends, TypeOK, TablesComeInOrder, cron, bounds
    <3>2. InstallationsAreUnderWay'
      BY <2>7 DEF Record, Ends, InstallationsAreUnderWay, TypeOK
    <3>3. FilesComeInOrder'
      BY <2>7 DEF Record, Ends, FilesComeInOrder, TypeOK
    <3>4. TablesComeInOrder'
      BY <2>7 DEF Record, Ends, TablesComeInOrder, TypeOK
    <3>5. InstallationsAreComplete'
      BY <2>7 DEF Record, Ends, InstallationsAreComplete, TypeOK, TablesComeInOrder
    <3>6. CrontabComesLast'
      BY <2>7 DEF Record, CrontabComesLast
    <3>7. InstalledHostsRun'
      BY <2>7 DEF Record, InstalledHostsRun, cron
    <3> QED
      BY <3>1, <3>2, <3>3, <3>4, <3>5, <3>6, <3>7
  <2>8. ASSUME NEW h \in Host, Fail(h)
         PROVE  IInv'
    <3>1. TypeOK'
      BY <2>8, InstallationAssumption DEF Fail, Ends, TypeOK, database, cron
    <3>2. InstallationsAreUnderWay'
      BY <2>8 DEF Fail, Ends, InstallationsAreUnderWay, TypeOK
    <3>3. FilesComeInOrder'
      BY <2>8 DEF Fail, Ends, FilesComeInOrder, TypeOK
    <3>4. TablesComeInOrder'
      BY <2>8 DEF Fail, Ends, TablesComeInOrder, TypeOK, database
    <3>5. InstallationsAreComplete'
      BY <2>8 DEF Fail, Ends, InstallationsAreComplete, TypeOK, database
    <3>6. CrontabComesLast'
      BY <2>8 DEF Fail, CrontabComesLast
    <3>7. InstalledHostsRun'
      BY <2>8 DEF Fail, InstalledHostsRun, cron
    <3> QED
      BY <3>1, <3>2, <3>3, <3>4, <3>5, <3>6, <3>7
  <2>9. ASSUME NEW h \in Host, DailyRun(h)
         PROVE  IInv'
    <3>1. TypeOK'
      BY <2>9 DEF DailyRun, Missing, TypeOK, database, bounds
    <3>2. /\ InstallationsAreUnderWay' /\ FilesComeInOrder' /\ TablesComeInOrder'
          /\ InstallationsAreComplete' /\ CrontabComesLast'
      BY <2>9 DEF DailyRun, Missing, InstallationsAreUnderWay, FilesComeInOrder,
         TablesComeInOrder, InstallationsAreComplete, CrontabComesLast, database
    <3>3. InstalledHostsRun'
      BY <2>9 DEF DailyRun, Missing, InstalledHostsRun, TypeOK, Whole, InstallationsAreComplete
    <3> QED
      BY <3>1, <3>2, <3>3
  <2>10. ASSUME NEW h \in Host, DueTermination(h)
         PROVE  IInv'
    <3>1. TypeOK'
      BY <2>10 DEF DueTermination, Missing, TypeOK, database, bounds
    <3>2. /\ InstallationsAreUnderWay' /\ FilesComeInOrder' /\ TablesComeInOrder'
          /\ InstallationsAreComplete' /\ CrontabComesLast'
      BY <2>10 DEF DueTermination, Missing, InstallationsAreUnderWay, FilesComeInOrder,
         TablesComeInOrder, InstallationsAreComplete, CrontabComesLast, database
    <3>3. InstalledHostsRun'
      BY <2>10 DEF DueTermination, Missing, InstalledHostsRun, TypeOK, Whole,
         InstallationsAreComplete
    <3> QED
      BY <3>1, <3>2, <3>3
  <2>11. CASE UNCHANGED vars
    BY <2>11 DEF vars, TypeOK, InstallationsAreUnderWay, FilesComeInOrder, TablesComeInOrder,
       InstallationsAreComplete, CrontabComesLast, InstalledHostsRun
  <2> QED
    BY <2>1, <2>2, <2>3, <2>4, <2>5, <2>6, <2>7, <2>8, <2>9, <2>10, <2>11 DEF Next, Advance
<1> QED
  BY <1>1, <1>2, PTL DEF Spec

(***************************************************************************)
(* Every file, table and outcome is what Installation says it may be, and  *)
(* sql-migrate has its record only when both tables are there.             *)
(***************************************************************************)
THEOREM TypeCorrect == Spec => []TypeOK
<1>1. IInv => TypeOK
  BY DEF IInv
<1> QED
  BY Invariance, <1>1, PTL

(***************************************************************************)
(* Whenever setupCron ends or dies, a crontab it has written runs the      *)
(* scripts of the same installation.                                       *)
(***************************************************************************)
THEOREM CrontabIsLast == Spec => []CrontabComesLast
<1>1. IInv => CrontabComesLast
  BY DEF IInv
<1> QED
  BY Invariance, <1>1, PTL

(***************************************************************************)
(* A host that has been told "installation done!" can do its daily run and *)
(* its terminations, however many hosts migrate the database meanwhile.    *)
(***************************************************************************)
THEOREM InstalledHostsWork == Spec => []InstalledHostsRun
<1>1. IInv => InstalledHostsRun
  BY DEF IInv
<1> QED
  BY Invariance, <1>1, PTL
=============================================================================
