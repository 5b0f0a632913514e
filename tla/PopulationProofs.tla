-------------------------- MODULE PopulationProofs --------------------------
(***************************************************************************)
(* Proofs about Population, for any applications, places, documents and    *)
(* failing requests, lists of any length and any max-apps: its types; that *)
(* the goroutine that is left behind kills the command only when max-apps  *)
(* cuts the list short; and that the published schedule is what the owners *)
(* of the first max-apps applications asked for.                           *)
(***************************************************************************)
EXTENDS Population, InstanceGroupsProofs, FiniteSetTheorems, TLAPS

---------------------------------------------------------------------------
(* Counting the applications that can be surveyed. *)

LEMMA CountingStarts == Answering(0) = 0
  BY FS_EmptySet DEF Answering

(***************************************************************************)
(* Each application of the list counts for one, if it can be surveyed.     *)
(***************************************************************************)
LEMMA CountingOn ==
  ASSUME NEW n \in Nat
  PROVE  /\ Answering(n) \in Nat
         /\ Answering(n + 1) = IF Answers(apps[n + 1]) THEN Answering(n) + 1 ELSE Answering(n)
<1> DEFINE S(m) == {k \in 1 .. m : Answers(apps[k])}
<1>1. \A m \in Nat : IsFiniteSet(S(m)) /\ Cardinality(S(m)) \in Nat
  <2> SUFFICES ASSUME NEW m \in Nat
               PROVE  IsFiniteSet(S(m)) /\ Cardinality(S(m)) \in Nat
    OBVIOUS
  <2>1. IsFiniteSet(1 .. m)
    BY FS_Interval
  <2>2. S(m) \in SUBSET (1 .. m)
    OBVIOUS
  <2>3. IsFiniteSet(S(m))
    BY <2>1, <2>2, FS_Subset
  <2> QED
    BY <2>3, FS_CardinalityType
<1>2. CASE Answers(apps[n + 1])
  <2>1. S(n + 1) = S(n) \cup {n + 1} /\ n + 1 \notin S(n)
    BY <1>2
  <2>2. Cardinality(S(n + 1)) = Cardinality(S(n)) + 1
    BY <1>1, <2>1, FS_AddElement
  <2> QED
    BY <1>1, <1>2, <2>2 DEF Answering
<1>3. CASE ~Answers(apps[n + 1])
  <2>1. S(n + 1) = S(n)
    BY <1>3
  <2> QED
    BY <1>1, <1>3, <2>1 DEF Answering
<1> QED
  BY <1>2, <1>3

LEMMA CountingIsMonotonic ==
  ASSUME NEW n \in Nat, NEW m \in Nat, n <= m
  PROVE  Answering(n) <= Answering(m)
<1> DEFINE S(l) == {k \in 1 .. l : Answers(apps[k])}
<1>1. S(n) \in SUBSET S(m)
  OBVIOUS
<1>2. S(m) \in SUBSET (1 .. m) /\ IsFiniteSet(1 .. m)
  BY FS_Interval
<1>3. IsFiniteSet(S(m))
  BY <1>2, FS_Subset
<1> QED
  BY <1>1, <1>3, FS_Subset DEF Answering

(***************************************************************************)
(* What is counted does not change with the rest of the state.             *)
(***************************************************************************)
LEMMA CountingIsStable ==
  ASSUME UNCHANGED <<situation, maxApps, apps>>
  PROVE  /\ \A a : Answers(a)' <=> Answers(a)
         /\ \A n : Answering(n)' = Answering(n)
         /\ \A n : ConsideredOf(n)' = ConsideredOf(n)
<1>1. \A a : Answers(a)' <=> Answers(a)
  BY DEF Answers, PlacesOf
<1>2. \A n : Answering(n)' = Answering(n)
  BY <1>1 DEF Answering
<1> QED
  BY <1>1, <1>2 DEF ConsideredOf

LEMMA NobodyIsConsideredYet == ConsideredOf(0) = {}
  BY DEF ConsideredOf

(***************************************************************************)
(* The next application is considered, unless it cannot be surveyed or     *)
(* comes after max-apps that can.                                          *)
(***************************************************************************)
LEMMA ConsideringOn ==
  ASSUME NEW n \in Nat
  PROVE  ConsideredOf(n + 1) =
           IF Answers(apps[n + 1]) /\ Answering(n + 1) <= maxApps
           THEN ConsideredOf(n) \cup {apps[n + 1]} ELSE ConsideredOf(n)
<1> DEFINE C(m) == {l \in 1 .. m : Answers(apps[l]) /\ Answering(l) <= maxApps}
<1>1. C(n + 1) = IF Answers(apps[n + 1]) /\ Answering(n + 1) <= maxApps
                 THEN C(n) \cup {n + 1} ELSE C(n)
  OBVIOUS
<1>2. ConsideredOf(n) = {apps[k] : k \in C(n)} /\ ConsideredOf(n + 1) = {apps[k] : k \in C(n + 1)}
  BY DEF ConsideredOf
<1> HIDE DEF C
<1> QED
  BY <1>1, <1>2

(***************************************************************************)
(* Once more than max-apps applications have been counted, none of those   *)
(* that come later is considered.                                          *)
(***************************************************************************)
LEMMA NobodyElseIsConsidered ==
  ASSUME NEW n \in Nat, NEW m \in Nat, n <= m, maxApps \in Nat, n = m \/ Answering(n) > maxApps
  PROVE  ConsideredOf(m) = ConsideredOf(n)
<1>1. ASSUME NEW l \in 1 .. m, Answering(l) <= maxApps
      PROVE  l \in 1 .. n
  <2>1. CASE n = m
    BY <2>1
  <2>2. CASE Answering(n) > maxApps
    <3>1. l \in Nat /\ Answering(l) \in Nat /\ Answering(n) \in Nat
      BY CountingOn
    <3>2. ~(n <= l)
      BY <1>1, <2>2, <3>1, CountingIsMonotonic
    <3> QED
      BY <3>1, <3>2
  <2> QED
    BY <2>1, <2>2
<1> QED
  BY <1>1 DEF ConsideredOf

---------------------------------------------------------------------------
(* The invariant. *)

(***************************************************************************)
(* What has been learnt of an application is so, and nothing is missing    *)
(* but what is still to be asked, when none of its requests fails.         *)
(***************************************************************************)
Surveyed(a, rest) ==
  /\ a.accounts = {p.account : p \in PlacesOf(a.name)}
  /\ \A c \in a.clusters : c.cluster.app = a.name
  /\ \A c \in rest : c.cluster.app = a.name
  /\ situation[a.name].fails = "none" =>
       \A p \in PlacesOf(a.name) :
         \/ \E c \in rest : c.account = p.account /\ c.cluster = p.cluster
         \/ \E c \in a.clusters : /\ c.account = p.account /\ c.cluster = p.cluster
                                  /\ p.region \in c.regions

\* The goroutine of Apps.
AppsInv ==
  /\ main = "names" => surveyed = 0
  /\ producer = "closed" => surveyed = Len(apps)
  /\ producer = "asgs" => Surveyed(app, todo)
  /\ producer = "send" => Surveyed(app, {}) /\ Answers(app.name)
  /\ main = "config" => Surveyed(current, {})

\* Populate has counted what it has been sent; and how it came to leave the loop.
LoopInv ==
  /\ main \in {"names", "receive", "config"} => Answering(surveyed) = i
  /\ main \in {"publish", "register", "exited"} =>
       producer = "closed" \/ Answering(surveyed) > maxApps

AsksDaily(a) ==
  situation[a].fails = "none" /\ \E cm \in situation[a].document : Daily(cm)

IsScheduled(a) ==
  \A p \in PlacesOf(a) :
    Parses(p.cluster) => \E g \in entries : Contains(g, p.account, p.region, p.cluster)

\* What is scheduled so far, of what has been received so far.
EntriesInv ==
  /\ \A g \in entries : g.app \in ConsideredOf(surveyed)
  /\ main = "config" => current.name \in ConsideredOf(surveyed)
  /\ main \notin {"fatal", "panic"} =>
       \A a \in ConsideredOf(surveyed) :
         AsksDaily(a) => IsScheduled(a) \/ (main = "config" /\ current.name = a)

IInv == TypeOK /\ AppsInv /\ LoopInv /\ EntriesInv /\ situation \in Situations

(***************************************************************************)
(* Names are not blank: regions, clusters, and stacks where somebody may   *)
(* ask for groups by stack.  A group means any of them by a blank.         *)
(***************************************************************************)
NamesAreGiven ==
  \A p \in Places :
    /\ p.region # Blank
    /\ p.cluster # NoCluster
    /\ \A s \in Situations : \A cm \in s[p.cluster.app].document :
         cm.grouping = "stack" => p.cluster.stack # Blank

EntriesAreAskedFor ==
  \A g \in entries : \E cm \in situation[g.app].document : AskedFor(g, cm)

---------------------------------------------------------------------------
(* Documents and groups. *)

(***************************************************************************)
(* An AppConfig says what its document says, and what it leaves to be      *)
(* divided by has a grouping and a mean to be divided by.                  *)
(***************************************************************************)
LEMMA ConfigurationsComeFromDocuments ==
  ASSUME TypeOK, NEW a \in Applications, NEW cfg \in AppConfigOf(a)
  PROVE  \E cm \in situation[a].document :
           /\ cfg.enabled <=> cm.enabled = {TRUE}
           /\ cfg.regionsAreIndependent = cm.regionsAreIndependent
           /\ cfg.regionsAreIndependent \in BOOLEAN
           /\ cfg.grouping \in {"app", "stack", "cluster"}
           /\ cfg.enabled => cfg.grouping = cm.grouping /\ cfg.mean \in Int /\ cfg.mean > 0
           /\ Daily(cm) => cfg.mean = 1
<1>1. PICK cm \in situation[a].document :
        /\ Valid(cm)
        /\ cfg = [enabled |-> Enabled(cm),
                  regionsAreIndependent |-> cm.regionsAreIndependent,
                  grouping |-> IF cm.grouping \in KnownGroupings THEN cm.grouping ELSE "cluster",
                  mean |-> OrZero(cm.mean),
                  min |-> OrZero(cm.min),
                  exceptions |-> cm.exceptions]
  BY DEF AppConfigOf, FromJSON
<1>2. cm.regionsAreIndependent \in BOOLEAN /\ cm.mean \subseteq Int
  BY DEF TypeOK, IsSituation, IsDocument
<1>3. /\ cfg.enabled = Enabled(cm)
      /\ cfg.regionsAreIndependent = cm.regionsAreIndependent
      /\ cfg.grouping = IF cm.grouping \in KnownGroupings THEN cm.grouping ELSE "cluster"
      /\ cfg.mean = OrZero(cm.mean)
  BY <1>1
<1>4. Enabled(cm) => /\ cm.grouping \in KnownGroupings
                     /\ OrZero(cm.mean) \in Int /\ OrZero(cm.mean) > 0
  <2> SUFFICES ASSUME Enabled(cm)
               PROVE  /\ cm.grouping \in KnownGroupings
                      /\ OrZero(cm.mean) \in Int /\ OrZero(cm.mean) > 0
    OBVIOUS
  <2>1. Complete(cm)
    BY <1>1 DEF Valid
  <2>2. OrZero(cm.mean) \in cm.mean
    BY <2>1 DEF Complete, OrZero
  <2> QED
    BY <1>2, <2>1, <2>2 DEF Complete
<1>5. Daily(cm) => OrZero(cm.mean) = 1
  <2>1. OrZero({1}) = 1
    BY DEF OrZero
  <2> QED
    BY <2>1 DEF Daily
<1>6. cfg.grouping \in {"app", "stack", "cluster"}
  BY <1>3 DEF KnownGroupings
<1>7. cfg.enabled <=> cm.enabled = {TRUE}
  BY <1>3 DEF Enabled
<1> QED
  BY <1>2, <1>3, <1>4, <1>5, <1>6, <1>7 DEF Enabled

(***************************************************************************)
(* A document that asks for daily terminations is not refused.             *)
(***************************************************************************)
LEMMA DailyDocumentsAreUsable ==
  ASSUME TypeOK, NEW a, AsksDaily(a)
  PROVE  AppConfigOf(a) # {}
<1>1. PICK cm \in situation[a].document : Daily(cm)
  BY DEF AsksDaily
<1>2. Valid(cm)
  BY <1>1 DEF Daily, Valid, Enabled, Complete, ExceptionsAreUsable, KnownGroupings
<1>3. cm \in {c \in situation[a].document : Valid(c)}
  BY <1>1, <1>2
<1> DEFINE
      Out(c) == [enabled |-> Enabled(c),
                 regionsAreIndependent |-> c.regionsAreIndependent,
                 grouping |-> IF c.grouping \in KnownGroupings THEN c.grouping ELSE "cluster",
                 mean |-> OrZero(c.mean),
                 min |-> OrZero(c.min),
                 exceptions |-> c.exceptions]
<1>4. FromJSON(situation[a].document) = {Out(c) : c \in {d \in situation[a].document : Valid(d)}}
  BY DEF FromJSON
<1> HIDE DEF Out
<1>5. FromJSON(situation[a].document) # {}
  BY <1>3, <1>4
<1> QED
  BY <1>5 DEF AsksDaily, AppConfigOf

(***************************************************************************)
(* And every place of its application with a name that can be taken apart  *)
(* is in one of the groups.                                                *)
(***************************************************************************)
LEMMA DailyGroupsReachEveryPlace ==
  ASSUME TypeOK, main = "config", Surveyed(current, {}), AsksDaily(current.name),
         NEW cfg \in AppConfigOf(current.name)
  PROVE  /\ cfg.mean = 1
         /\ \A p \in PlacesOf(current.name) :
              Parses(p.cluster) =>
                \E g \in Groups(cfg) : Contains(g, p.account, p.region, p.cluster)
<1>1. current.name \in Applications /\ IsDocument(situation[current.name].document)
  BY DEF TypeOK, IsSituation
<1>2. PICK cm \in situation[current.name].document :
        /\ cfg.enabled <=> cm.enabled = {TRUE}
        /\ cfg.regionsAreIndependent \in BOOLEAN
        /\ cfg.grouping \in {"app", "stack", "cluster"}
        /\ Daily(cm) => cfg.mean = 1
  BY <1>1, ConfigurationsComeFromDocuments
<1>3. Daily(cm)
  BY <1>1 DEF AsksDaily, IsDocument
<1>4. Groups(cfg) = EligibleInstanceGroups(current, cfg.grouping, cfg.regionsAreIndependent)
  BY <1>2, <1>3 DEF Groups, Daily
<1>5. ASSUME NEW p \in PlacesOf(current.name), Parses(p.cluster)
      PROVE  \E g \in EligibleInstanceGroups(current, cfg.grouping, cfg.regionsAreIndependent) :
               Contains(g, p.account, p.region, p.cluster)
  <2>1. PICK c \in current.clusters : /\ c.account = p.account /\ c.cluster = p.cluster
                                      /\ p.region \in c.regions
    BY DEF Surveyed, AsksDaily
  <2>2. p.account \in current.accounts /\ p.cluster.app = current.name
    BY DEF Surveyed, PlacesOf
  <2> QED
    BY <1>2, <1>5, <2>1, <2>2, EveryMemberHasAGroup
<1> QED
  BY <1>2, <1>3, <1>4, <1>5

(***************************************************************************)
(* All groups are of the application.                                      *)
(***************************************************************************)
LEMMA GroupsAreOfTheApplication ==
  ASSUME TypeOK, main = "config", NEW cfg \in AppConfigOf(current.name), NEW g \in Groups(cfg)
  PROVE  g.app = current.name
<1>1. current.name \in Applications
  BY DEF TypeOK
<1>2. /\ cfg.regionsAreIndependent \in BOOLEAN
      /\ cfg.grouping \in {"app", "stack", "cluster"}
  BY <1>1, ConfigurationsComeFromDocuments
<1>3. g \in EligibleInstanceGroups(current, cfg.grouping, cfg.regionsAreIndependent)
  BY DEF Groups
<1> QED
  BY <1>2, <1>3, GroupsComeFromClusters, NewFields

(***************************************************************************)
(* They have the shape the document asks for, if names are given.          *)
(***************************************************************************)
LEMMA GroupsHaveTheShapeAskedFor ==
  ASSUME NamesAreGiven, TypeOK, situation \in Situations,
         main = "config", Surveyed(current, {}),
         NEW cfg \in AppConfigOf(current.name), NEW g \in Groups(cfg)
  PROVE  \E cm \in situation[current.name].document : AskedFor(g, cm)
<1>1. current.name \in Applications
  BY DEF TypeOK
<1>2. PICK cm \in situation[current.name].document :
        /\ cfg.enabled <=> cm.enabled = {TRUE}
        /\ cfg.regionsAreIndependent = cm.regionsAreIndependent
        /\ cfg.regionsAreIndependent \in BOOLEAN
        /\ cfg.grouping \in {"app", "stack", "cluster"}
        /\ cfg.enabled => cfg.grouping = cm.grouping /\ cfg.mean \in Int /\ cfg.mean > 0
        /\ Daily(cm) => cfg.mean = 1
  BY <1>1, ConfigurationsComeFromDocuments
<1>3. /\ cfg.enabled
      /\ g \in EligibleInstanceGroups(current, cfg.grouping, cfg.regionsAreIndependent)
  BY DEF Groups
<1>4. ASSUME NEW c \in current.clusters
      PROVE  /\ c.cluster # NoCluster
             /\ cm.grouping = "stack" => c.cluster.stack # Blank
             /\ Blank \notin c.regions
  <2>1. c.cluster \in ClusterNames /\ c.regions \subseteq AllRegions
    BY DEF TypeOK, DeployApp
  <2>2. PICK p \in Places : p.cluster = c.cluster
    BY <2>1 DEF ClusterNames
  <2>3. c.cluster.app = current.name
    BY DEF Surveyed
  <2> QED
    BY <2>1, <2>2, <2>3 DEF NamesAreGiven, AllRegions
<1>5. PICK account, region, stack, cluster :
        /\ g = New(current.name, account, region, stack, cluster)
        /\ IF cfg.regionsAreIndependent THEN \E c \in current.clusters : region \in c.regions
                                        ELSE region = Blank
        /\ IF cfg.grouping = "stack" THEN \E c \in current.clusters : stack = c.cluster.stack
                                     ELSE stack = Blank
        /\ IF cfg.grouping = "cluster" THEN \E c \in current.clusters : cluster = c.cluster
                                       ELSE cluster = NoCluster
  BY <1>2, <1>3, GroupsComeFromClusters
<1>6. g.region = region /\ g.stack = stack /\ g.cluster = cluster
  BY <1>5, NewFields
<1>7. AnyCluster(g) <=> cm.grouping # "cluster"
  BY <1>2, <1>3, <1>4, <1>5, <1>6 DEF AnyCluster
<1>8. AnyStack(g) <=> cm.grouping # "stack"
  BY <1>2, <1>3, <1>4, <1>5, <1>6 DEF AnyStack
<1>9. AnyRegion(g) <=> ~cm.regionsAreIndependent
  BY <1>2, <1>4, <1>5, <1>6 DEF AnyRegion
<1> QED
  BY <1>2, <1>3, <1>7, <1>8, <1>9 DEF AskedFor

---------------------------------------------------------------------------
(* Types. *)

LEMMA ListTypes ==
  ASSUME TypeOK
  PROVE  /\ Len(apps) \in Nat /\ \A k \in 1 .. Len(apps) : apps[k] \in Applications
         /\ surveyed \in Nat /\ maxApps \in Nat
  BY PopulationAssumption DEF TypeOK

LEMMA NoAppIsOne == NoApp \in DeployApp
  BY DEF NoApp, DeployApp

LEMMA TypesInitially == Init => TypeOK
<1> SUFFICES ASSUME Init
             PROVE  TypeOK
  OBVIOUS
<1>1. Len(apps) \in Nat
  BY PopulationAssumption DEF Init
<1>2. maxApps \in Nat
  BY PopulationAssumption DEF Init
<1> QED
  BY <1>1, <1>2, NoAppIsOne, PopulationAssumption DEF Init, TypeOK

(***************************************************************************)
(* A cluster that has been asked about becomes one of the application.     *)
(***************************************************************************)
LEMMA AddingACluster ==
  ASSUME TypeOK, NEW c \in todo, NEW regions \in SUBSET AllRegions,
         NEW added, added = [account |-> c.account, cluster |-> c.cluster, regions |-> regions],
         app' = [app EXCEPT !.clusters = @ \cup {added}]
  PROVE  /\ app' \in DeployApp
         /\ app'.name = app.name /\ app'.accounts = app.accounts
         /\ app'.clusters = app.clusters \cup {added}
         /\ added.account = c.account /\ added.cluster = c.cluster /\ added.regions = regions
<1>1. added \in [account: Accounts, cluster: ClusterNames, regions: SUBSET AllRegions]
  BY DEF TypeOK
<1>2. app \in DeployApp
  BY DEF TypeOK
<1> QED
  BY <1>1, <1>2 DEF DeployApp

LEMMA TypesInductive == TypeOK /\ [Next]_vars => TypeOK'
<1> SUFFICES ASSUME TypeOK, [Next]_vars
             PROVE  TypeOK'
  OBVIOUS
<1> USE ListTypes, NoAppIsOne DEF TypeOK, world, survey, schedule
<1>1. CASE StartApps
  <2>1. apps' \in Lists /\ Len(apps') \in Nat
    BY <1>1, PopulationAssumption DEF StartApps
  <2>2. apps = <<>> => Len(apps) = 0
    OBVIOUS
  <2> QED
    BY <1>1, <2>1, <2>2 DEF StartApps
<1>2. CASE AppNamesFails
  BY <1>2 DEF AppNamesFails
<1>3. CASE ListClusters
  <2>1. PlacesOf(apps[surveyed + 1]) \subseteq Places
    BY DEF PlacesOf
  <2>2. apps[surveyed + 1] \in Applications
    BY <1>3 DEF ListClusters
  <2>3. app' \in DeployApp /\ app'.name = apps[surveyed + 1]
    BY <1>3, <2>1, <2>2 DEF ListClusters, DeployApp, Accounts
  <2>4. todo' \subseteq [account: Accounts, cluster: ClusterNames]
    BY <1>3, <2>1 DEF ListClusters, Accounts, ClusterNames
  <2> QED
    BY <1>3, <2>3, <2>4 DEF ListClusters
<1>4. CASE ListClustersFails
  BY <1>4 DEF ListClustersFails
<1>5. CASE CloudProviderFails
  BY <1>5 DEF CloudProviderFails
<1>6. ASSUME NEW c \in todo, NEW regions \in SUBSET AllRegions, AddCluster(c, regions)
      PROVE  TypeOK'
  <2>1. app' \in DeployApp /\ app'.name = app.name
    BY <1>6, AddingACluster DEF AddCluster
  <2> QED
    BY <1>6, <2>1 DEF AddCluster
<1>7. CASE NewApp
  BY <1>7 DEF NewApp
<1>8. CASE Close
  BY <1>8 DEF Close
<1>9. CASE Receive
  <2>1. app.name \in Applications
    BY <1>9 DEF Receive, Sent
  <2> QED
    BY <1>9, <2>1 DEF Receive, Sent
<1>10. CASE LeaveLoop
  BY <1>10 DEF LeaveLoop, Sent
<1>11. CASE Drained
  BY <1>11 DEF Drained
<1>12. CASE SkipApp
  BY <1>12 DEF SkipApp, Handled
<1>13. CASE ScheduleApp
  <2>1. PICK cfg \in AppConfigOf(current.name) :
          \/ main' = "panic" /\ UNCHANGED entries
          \/ /\ \E chosen \in Coins(Groups(cfg), cfg.mean) : entries' = entries \cup chosen
             /\ main' = "receive"
    BY <1>13 DEF ScheduleApp
  <2>2. main = "config" /\ \A g \in Groups(cfg) : g.app = current.name
    BY <1>13, GroupsAreOfTheApplication DEF ScheduleApp, Handled
  <2>3. \A g \in entries' : g.app \in Applications
    BY <2>1, <2>2 DEF Coins
  <2> QED
    BY <1>13, <2>1, <2>3 DEF ScheduleApp, Handled
<1>14. ASSUME NEW at, NEW then \in {"register", "exited", "failed"}, Deploys(at, then)
       PROVE  TypeOK'
  BY <1>14 DEF Deploys
<1>15. CASE UNCHANGED vars
  BY <1>15 DEF vars
<1> USE DEF Next
<1>16. CASE AppsStep
  <2>1. \A c : {p.region : p \in {q \in Places : q.account = c.account /\ q.cluster = c.cluster}}
                 \in SUBSET AllRegions
    BY DEF AllRegions
  <2> QED
    BY <1>3, <1>4, <1>5, <1>6, <1>7, <1>8, <1>16, <2>1
       DEF AppsStep, ReadServerGroups, ReadServerGroupsFails
<1>17. CASE MainStep
  BY <1>1, <1>2, <1>9, <1>10, <1>11, <1>12, <1>13, <1>14, <1>17
     DEF MainStep, Publish, RegisterWithCron
<1> QED
  BY <1>15, <1>16, <1>17 DEF Finished

(***************************************************************************)
(* Every variable of the command keeps its type.                           *)
(***************************************************************************)
THEOREM TypeCorrect == Spec => []TypeOK
  BY TypesInitially, TypesInductive, PTL DEF Spec

---------------------------------------------------------------------------
(* The invariant holds initially and is kept. *)

LEMMA Initially == Init => IInv
<1> SUFFICES ASSUME Init
             PROVE  IInv
  OBVIOUS
<1>1. TypeOK /\ maxApps \in Nat
  BY TypesInitially, ListTypes
<1> QED
  BY <1>1, CountingStarts, NobodyIsConsideredYet
     DEF Init, IInv, AppsInv, LoopInv, EntriesInv

(***************************************************************************)
(* An application that has a place, and a provider that cannot be had,     *)
(* does not reach the channel; one that is built does.                     *)
(***************************************************************************)
LEMMA WhoAnswers ==
  ASSUME TypeOK, AppsInv
  PROVE  /\ CloudProviderFails => ~Answers(apps[surveyed + 1])
         /\ NewApp => Answers(app.name)
         /\ Sent => Answers(apps[surveyed + 1])
<1>1. producer = "asgs" => /\ app.name = apps[surveyed + 1]
                           /\ app.accounts = {p.account : p \in PlacesOf(app.name)}
  BY DEF TypeOK, AppsInv, Surveyed
<1>2. CloudProviderFails => ~Answers(apps[surveyed + 1])
  BY <1>1 DEF CloudProviderFails, Fails, Answers
<1>3. NewApp => Answers(app.name)
  BY <1>1 DEF NewApp, Fails, Answers
<1>4. Sent => Answers(apps[surveyed + 1])
  BY DEF Sent, AppsInv, TypeOK
<1> QED
  BY <1>2, <1>3, <1>4

LEMMA ListingClusters ==
  ASSUME TypeOK, AppsInv, ListClusters
  PROVE  AppsInv'
<1>1. PICK here : /\ here = PlacesOf(apps[surveyed + 1])
                  /\ todo' = {[account |-> p.account, cluster |-> p.cluster] : p \in here}
                  /\ app' = [name |-> apps[surveyed + 1],
                             accounts |-> {p.account : p \in here},
                             clusters |-> {}]
  BY DEF ListClusters
<1>2. /\ app'.name = apps[surveyed + 1]
      /\ app'.accounts = {p.account : p \in here}
      /\ app'.clusters = {}
  BY <1>1
<1>3. \A c \in todo' : c.cluster.app = app'.name
  BY <1>1, <1>2 DEF PlacesOf
<1>4. \A p \in here : \E c \in todo' : c.account = p.account /\ c.cluster = p.cluster
  <2> SUFFICES ASSUME NEW p \in here
               PROVE  \E c \in todo' : c.account = p.account /\ c.cluster = p.cluster
    OBVIOUS
  <2>1. [account |-> p.account, cluster |-> p.cluster] \in todo'
    BY <1>1
  <2> QED
    BY <2>1
<1>5. Surveyed(app, todo)'
  BY <1>1, <1>2, <1>3, <1>4 DEF Surveyed, PlacesOf
<1>6. Surveyed(current, {})' <=> Surveyed(current, {})
  BY DEF ListClusters, world, schedule, Surveyed, PlacesOf
<1> QED
  BY <1>5, <1>6 DEF ListClusters, AppsInv, TypeOK

LEMMA ReadingServerGroups ==
  ASSUME TypeOK, AppsInv, NEW c \in todo, ReadServerGroups(c) \/ ReadServerGroupsFails(c)
  PROVE  AppsInv'
<1> DEFINE there == {p.region : p \in {q \in Places : q.account = c.account /\ q.cluster = c.cluster}}
<1>1. PICK regions \in SUBSET AllRegions :
        AddCluster(c, regions) /\ (regions = there \/ Fails("asgs"))
  BY DEF ReadServerGroups, ReadServerGroupsFails, AllRegions
<1>2. PICK added : /\ added = [account |-> c.account, cluster |-> c.cluster, regions |-> regions]
                   /\ app' = [app EXCEPT !.clusters = @ \cup {added}]
  BY <1>1 DEF AddCluster
<1>3. /\ app'.name = app.name /\ app'.accounts = app.accounts
      /\ app'.clusters = app.clusters \cup {added}
      /\ added.account = c.account /\ added.cluster = c.cluster /\ added.regions = regions
  BY <1>2, AddingACluster
<1>4. Surveyed(app, todo) /\ todo' = todo \ {c} /\ UNCHANGED <<situation, current, main, surveyed, producer>>
  BY <1>1 DEF AddCluster, AppsInv, world, schedule
<1>5. \A d \in app'.clusters : d.cluster.app = app'.name
  BY <1>3, <1>4 DEF Surveyed
<1>6. ASSUME situation[app.name].fails = "none", NEW p \in PlacesOf(app.name)
      PROVE  \/ \E d \in todo' : d.account = p.account /\ d.cluster = p.cluster
             \/ \E d \in app'.clusters : /\ d.account = p.account /\ d.cluster = p.cluster
                                         /\ p.region \in d.regions
  <2>1. regions = there
    BY <1>1, <1>6 DEF Fails, AddCluster, TypeOK
  <2>2. CASE c.account = p.account /\ c.cluster = p.cluster
    <3>1. p.region \in there
      BY <2>2 DEF PlacesOf
    <3> QED
      BY <1>3, <2>1, <2>2, <3>1
  <2>3. CASE ~(c.account = p.account /\ c.cluster = p.cluster)
    BY <1>3, <1>4, <1>6, <2>3 DEF Surveyed
  <2> QED
    BY <2>2, <2>3
<1>7. Surveyed(app, todo)'
  BY <1>3, <1>4, <1>5, <1>6 DEF Surveyed, PlacesOf
<1>8. Surveyed(current, {})' <=> Surveyed(current, {})
  BY <1>4 DEF Surveyed, PlacesOf
<1>9. producer = "asgs"
  BY <1>1 DEF AddCluster
<1> QED
  BY <1>4, <1>7, <1>8, <1>9 DEF AppsInv

LEMMA BuildingAnApp ==
  ASSUME TypeOK, AppsInv, NewApp
  PROVE  AppsInv'
<1>1. Surveyed(app, {}) /\ Answers(app.name)
  BY WhoAnswers DEF NewApp, AppsInv
<1>2. UNCHANGED <<situation, apps, app, current, main, surveyed>> /\ producer' = "send"
  BY DEF NewApp, world, schedule
<1>3. /\ Surveyed(app, {})' <=> Surveyed(app, {})
      /\ Surveyed(current, {})' <=> Surveyed(current, {})
  BY <1>2 DEF Surveyed, PlacesOf
<1>4. Answers(app.name)' <=> Answers(app.name)
  BY <1>2 DEF Answers, PlacesOf
<1> QED
  BY <1>1, <1>2, <1>3, <1>4 DEF AppsInv

LEMMA AppsInvKept == TypeOK /\ AppsInv /\ [Next]_vars => AppsInv'
<1> SUFFICES ASSUME TypeOK, AppsInv, [Next]_vars
             PROVE  AppsInv'
  OBVIOUS
<1>1. CASE UNCHANGED <<situation, apps, app, todo, current, surveyed>> /\ producer' = producer
           /\ (main' = "config" => main = "config") /\ (main' = "names" => main = "names")
  <2>1. /\ Surveyed(app, {})' <=> Surveyed(app, {})
        /\ Surveyed(app, todo)' <=> Surveyed(app, todo)
        /\ Surveyed(current, {})' <=> Surveyed(current, {})
        /\ Answers(app.name)' <=> Answers(app.name)
    BY <1>1 DEF Surveyed, Answers, PlacesOf
  <2> QED
    BY <1>1, <2>1 DEF AppsInv
<1>2. CASE StartApps
  BY <1>2 DEF StartApps, AppsInv
<1>3. CASE CloudProviderFails
  <2>1. Surveyed(current, {})' <=> Surveyed(current, {})
    BY <1>3 DEF CloudProviderFails, world, schedule, Surveyed, PlacesOf
  <2> QED
    BY <1>3, <2>1 DEF CloudProviderFails, AppsInv, TypeOK
<1>4. CASE Close
  <2>1. Surveyed(current, {})' <=> Surveyed(current, {})
    BY <1>4 DEF Close, world, schedule, Surveyed, PlacesOf
  <2> QED
    BY <1>4, <2>1 DEF Close, AppsInv
<1>5. CASE Receive
  <2>1. Surveyed(app, {}) /\ current' = app /\ UNCHANGED situation
    BY <1>5 DEF Receive, Sent, AppsInv, world
  <2>2. Surveyed(current, {})'
    BY <2>1 DEF Surveyed, PlacesOf
  <2> QED
    BY <1>5, <2>2 DEF Receive, Sent, AppsInv
<1>6. CASE LeaveLoop
  BY <1>6 DEF LeaveLoop, Sent, AppsInv
<1>7. CASE SkipApp \/ ScheduleApp
  <2>1. /\ UNCHANGED <<situation, apps, app, todo, surveyed, producer>>
        /\ main' \in {"receive", "panic"}
    BY <1>7 DEF SkipApp, ScheduleApp, Handled, world, survey
  <2>2. /\ Surveyed(app, {})' <=> Surveyed(app, {})
        /\ Surveyed(app, todo)' <=> Surveyed(app, todo)
        /\ Answers(app.name)' <=> Answers(app.name)
    BY <2>1 DEF Surveyed, Answers, PlacesOf
  <2> QED
    BY <2>1, <2>2 DEF AppsInv
<1>8. ASSUME NEW at, NEW then \in {"register", "exited", "failed"}, Deploys(at, then)
      PROVE  AppsInv'
  BY <1>1, <1>8 DEF Deploys, world, survey, schedule
<1>9. CASE AppNamesFails \/ ListClustersFails \/ Drained \/ UNCHANGED vars
  BY <1>1, <1>9 DEF AppNamesFails, ListClustersFails, Drained, world, survey, schedule, vars
<1> QED
  BY <1>2, <1>3, <1>4, <1>5, <1>6, <1>7, <1>8, <1>9,
     ListingClusters, ReadingServerGroups, BuildingAnApp
     DEF Next, AppsStep, MainStep, Publish, RegisterWithCron, Finished

(***************************************************************************)
(* The steps by how far they bring the survey: no further; past an         *)
(* application that does not answer; past one that is counted.  Only the   *)
(* start of the survey may change the list.                                *)
(***************************************************************************)
Standing == UNCHANGED <<situation, maxApps, apps, surveyed, i>>

Skipping == /\ UNCHANGED <<situation, maxApps, apps, i, main, entries, current>>
            /\ producer = "asgs" /\ producer' = "next"
            /\ surveyed' = surveyed + 1 /\ ~Answers(apps[surveyed + 1])

Sending == /\ UNCHANGED <<situation, maxApps, apps>>
           /\ surveyed' = surveyed + 1 /\ Answers(apps[surveyed + 1])

LEMMA HowFar ==
  ASSUME TypeOK, AppsInv
  PROVE  /\ AppsStep => Skipping \/ (Standing /\ UNCHANGED <<entries, current>>)
         /\ Sent => Sending
         /\ Drained \/ SkipApp \/ ScheduleApp => Standing
         /\ \A at, then : Deploys(at, then) => Standing
<1>1. AppsStep => Skipping \/ (Standing /\ UNCHANGED <<entries, current>>)
  <2>1. CloudProviderFails => Skipping
    BY WhoAnswers DEF CloudProviderFails, Skipping, world, schedule
  <2>2. ListClusters \/ ListClustersFails \/ NewApp \/ Close
          => Standing /\ UNCHANGED <<entries, current>>
    BY DEF ListClusters, ListClustersFails, NewApp, Close, Standing, world, survey, schedule
  <2>3. \A c \in todo : ReadServerGroups(c) \/ ReadServerGroupsFails(c)
                          => Standing /\ UNCHANGED <<entries, current>>
    BY DEF ReadServerGroups, ReadServerGroupsFails, AddCluster, Standing, world, schedule
  <2> QED
    BY <2>1, <2>2, <2>3 DEF AppsStep
<1>2. Sent => Sending
  BY WhoAnswers DEF Sent, Sending, world
<1>3. Drained \/ SkipApp \/ ScheduleApp => Standing
  BY DEF Drained, SkipApp, ScheduleApp, Handled, Standing, world, survey, schedule
<1>4. \A at, then : Deploys(at, then) => Standing
  BY DEF Deploys, Standing, world, survey, schedule
<1> QED
  BY <1>1, <1>2, <1>3, <1>4

LEMMA CountsAfterAStep ==
  ASSUME TypeOK
  PROVE  /\ Standing => Answering(surveyed)' = Answering(surveyed)
         /\ Skipping => Answering(surveyed)' = Answering(surveyed)
         /\ Sending => Answering(surveyed)' = Answering(surveyed) + 1
         /\ Answering(surveyed) \in Nat
<1>1. UNCHANGED <<situation, maxApps, apps>> => Answering(surveyed)' = Answering(surveyed')
  BY CountingIsStable DEF Answering
<1>2. surveyed \in Nat /\ Answering(surveyed) \in Nat
  BY ListTypes, CountingOn
<1> QED
  BY <1>1, <1>2, CountingOn DEF Standing, Skipping, Sending

LEMMA LoopInvKept ==
  ASSUME TypeOK, AppsInv, LoopInv, [Next]_vars
  PROVE  LoopInv'
<1> USE CountsAfterAStep
<1>1. CASE AppsStep
  <2>1. \/ main' = main
        \/ main' = "fatal"
    BY <1>1 DEF AppsStep, ListClusters, ListClustersFails, CloudProviderFails,
                ReadServerGroups, ReadServerGroupsFails, AddCluster, NewApp, Close
  <2>2. producer # "closed"
    BY <1>1 DEF AppsStep, ListClusters, ListClustersFails, CloudProviderFails,
                ReadServerGroups, ReadServerGroupsFails, AddCluster, NewApp, Close
  <2>3. UNCHANGED <<i, maxApps>> /\ Answering(surveyed)' = Answering(surveyed)
    BY <1>1, HowFar DEF Standing, Skipping
  <2> QED
    BY <2>1, <2>2, <2>3 DEF LoopInv
<1>2. CASE StartApps
  <2>1. Answering(surveyed) = 0 /\ surveyed = 0 /\ surveyed' = 0 /\ i = 0 /\ i' = 0
    BY <1>2, CountingStarts DEF StartApps, AppsInv, LoopInv, schedule
  <2>2. Answering(surveyed)' = 0
    BY <2>1, FS_EmptySet DEF Answering
  <2> QED
    BY <1>2, <2>1, <2>2 DEF StartApps, LoopInv
<1>3. CASE Receive
  <2>1. main = "receive" /\ main' = "config" /\ i' = i + 1
    BY <1>3 DEF Receive, Sent
  <2>2. Answering(surveyed)' = Answering(surveyed) + 1
    BY <1>3, HowFar DEF Receive
  <2> QED
    BY <2>1, <2>2 DEF LoopInv
<1>4. CASE LeaveLoop
  <2>1. main = "receive" /\ main' = "publish" /\ i >= maxApps /\ maxApps' = maxApps
    BY <1>4 DEF LeaveLoop, Sent, world
  <2>2. Answering(surveyed)' = Answering(surveyed) + 1
    BY <1>4, HowFar DEF LeaveLoop
  <2>3. i \in Nat /\ maxApps \in Nat
    BY ListTypes DEF TypeOK
  <2> QED
    BY <2>1, <2>2, <2>3 DEF LoopInv
<1>5. CASE Drained
  BY <1>5 DEF Drained, LoopInv, survey
<1>6. CASE SkipApp \/ ScheduleApp
  <2>1. Standing
    BY <1>6, HowFar
  <2>2. main = "config" /\ main' \in {"receive", "panic"}
    BY <1>6 DEF SkipApp, ScheduleApp, Handled
  <2> QED
    BY <2>1, <2>2 DEF LoopInv, Standing
<1>7. ASSUME NEW at \in {"publish", "register"}, NEW then \in {"register", "exited", "failed"},
             Deploys(at, then)
      PROVE  LoopInv'
  <2>1. Standing
    BY <1>7, HowFar
  <2>2. main \in {"publish", "register"} /\ main' \in {"register", "exited", "failed"}
        /\ producer' = producer
    BY <1>7 DEF Deploys, survey
  <2> QED
    BY <2>1, <2>2 DEF LoopInv, Standing
<1>8. CASE AppNamesFails
  BY <1>8 DEF AppNamesFails, LoopInv
<1>9. CASE UNCHANGED vars
  BY <1>9 DEF vars, world, survey, schedule, LoopInv, Standing
<1> QED
  BY <1>1, <1>2, <1>3, <1>4, <1>5, <1>6, <1>7, <1>8, <1>9
     DEF Next, MainStep, Publish, RegisterWithCron, Finished

(***************************************************************************)
(* Who is considered after a step.                                         *)
(***************************************************************************)
LEMMA ConsideredAfterAStep ==
  ASSUME TypeOK
  PROVE  /\ Standing => ConsideredOf(surveyed)' = ConsideredOf(surveyed)
         /\ Skipping => ConsideredOf(surveyed)' = ConsideredOf(surveyed)
         /\ Sending => ConsideredOf(surveyed)' =
              IF Answering(surveyed) + 1 <= maxApps
              THEN ConsideredOf(surveyed) \cup {apps[surveyed + 1]} ELSE ConsideredOf(surveyed)
<1>1. UNCHANGED <<situation, maxApps, apps>> => ConsideredOf(surveyed)' = ConsideredOf(surveyed')
  <2> SUFFICES ASSUME UNCHANGED <<situation, maxApps, apps>>
               PROVE  ConsideredOf(surveyed)' = ConsideredOf(surveyed')
    OBVIOUS
  <2>1. \A l : (Answers(apps[l])' <=> Answers(apps[l])) /\ Answering(l)' = Answering(l)
    BY CountingIsStable DEF Answers, PlacesOf
  <2> QED
    BY <2>1 DEF ConsideredOf
<1>2. surveyed \in Nat /\ Answering(surveyed) \in Nat
  BY ListTypes, CountingOn
<1>3. Answering(surveyed + 1) = IF Answers(apps[surveyed + 1]) THEN Answering(surveyed) + 1
                                ELSE Answering(surveyed)
  BY <1>2, CountingOn
<1> QED
  BY <1>1, <1>2, <1>3, ConsideringOn DEF Standing, Skipping, Sending

(***************************************************************************)
(* Nothing that is scheduled is taken back.                                *)
(***************************************************************************)
LEMMA ScheduledStaysScheduled ==
  ASSUME entries \subseteq entries', UNCHANGED situation
  PROVE  \A a : /\ AsksDaily(a)' <=> AsksDaily(a)
                /\ IsScheduled(a) => IsScheduled(a)'
  BY DEF AsksDaily, IsScheduled, PlacesOf

LEMMA SchedulingAnApp ==
  ASSUME TypeOK, AppsInv, ScheduleApp
  PROVE  /\ main = "config" /\ main' \in {"receive", "panic"}
         /\ entries \subseteq entries'
         /\ \E cfg \in AppConfigOf(current.name) :
              \A g \in entries' : g \in entries \/ g \in Groups(cfg)
         /\ \A a : main' = "receive" /\ a = current.name /\ AsksDaily(a) => IsScheduled(a)'
         /\ main' = "panic" =>
              /\ \E cm \in situation[current.name].document : Enabled(cm) /\ cm.grouping = "stack"
              /\ \E p \in PlacesOf(current.name) : ~Parses(p.cluster)
<1>1. PICK cfg \in AppConfigOf(current.name) :
        IF Panics(cfg)
        THEN main' = "panic" /\ UNCHANGED entries
        ELSE /\ \E chosen \in Coins(Groups(cfg), cfg.mean) : entries' = entries \cup chosen
             /\ main' = "receive"
  BY DEF ScheduleApp
<1>2. main = "config" /\ current.name \in Applications /\ Surveyed(current, {})
  BY DEF ScheduleApp, Handled, TypeOK, AppsInv
<1>3. PICK cm \in situation[current.name].document :
        /\ cfg.enabled <=> cm.enabled = {TRUE}
        /\ cfg.enabled => cfg.grouping = cm.grouping /\ cfg.mean \in Int /\ cfg.mean > 0
  BY <1>2, ConfigurationsComeFromDocuments
<1>4. ~(Groups(cfg) # {} /\ cfg.mean <= 0)
  BY <1>3 DEF Groups
<1>5. CASE Panics(cfg)
  <2>1. cfg.enabled /\ cfg.grouping = "stack" /\ \E c \in current.clusters : ~Parses(c.cluster)
    BY <1>4, <1>5 DEF Panics, StackNamePanics
  <2>2. Enabled(cm) /\ cm.grouping = "stack"
    BY <1>3, <2>1 DEF Enabled
  <2>3. PICK c \in current.clusters : ~Parses(c.cluster)
    BY <2>1
  <2>4. c.cluster \in ClusterNames /\ c.cluster.app = current.name
    BY <1>2 DEF Surveyed, TypeOK, DeployApp
  <2>5. \E p \in PlacesOf(current.name) : ~Parses(p.cluster)
    BY <2>3, <2>4 DEF ClusterNames, PlacesOf
  <2>6. main' = "panic" /\ UNCHANGED entries
    BY <1>1, <1>5
  <2> QED
    BY <1>2, <2>2, <2>5, <2>6
<1>6. CASE ~Panics(cfg)
  <2>1. PICK chosen \in Coins(Groups(cfg), cfg.mean) : entries' = entries \cup chosen
    BY <1>1, <1>6
  <2>2. ASSUME NEW a, a = current.name, AsksDaily(a)
        PROVE  IsScheduled(a)'
    <3>1. /\ cfg.mean = 1
          /\ \A p \in PlacesOf(current.name) :
                Parses(p.cluster) =>
                  \E g \in Groups(cfg) : Contains(g, p.account, p.region, p.cluster)
      BY <1>2, <2>2, DailyGroupsReachEveryPlace
    <3>2. Groups(cfg) \subseteq entries'
      BY <2>1, <3>1 DEF Coins
    <3>3. \A p \in PlacesOf(a) :
            Parses(p.cluster) => \E g \in entries' : Contains(g, p.account, p.region, p.cluster)
      BY <2>2, <3>1, <3>2
    <3> QED
      BY <3>3 DEF IsScheduled, PlacesOf
  <2>3. main' = "receive"
    BY <1>1, <1>6
  <2> QED
    BY <1>2, <2>1, <2>2, <2>3 DEF Coins
<1> QED
  BY <1>5, <1>6

(***************************************************************************)
(* Steps that leave the command where it is and the schedule as it is.     *)
(***************************************************************************)
LEMMA EntriesLeftAlone ==
  ASSUME EntriesInv, UNCHANGED <<situation, entries, current>>,
         ConsideredOf(surveyed)' = ConsideredOf(surveyed),
         \/ main' = main
         \/ main' = "fatal"
         \/ main \notin {"fatal", "panic", "config"} /\ main' # "config"
  PROVE  EntriesInv'
  BY ScheduledStaysScheduled DEF EntriesInv

LEMMA EntriesInvKept ==
  ASSUME TypeOK, AppsInv, LoopInv, EntriesInv, [Next]_vars
  PROVE  EntriesInv'
<1> USE ConsideredAfterAStep
<1>1. CASE AppsStep
  <2>1. \/ main' = main
        \/ main' = "fatal"
    BY <1>1 DEF AppsStep, ListClusters, ListClustersFails, CloudProviderFails,
                ReadServerGroups, ReadServerGroupsFails, AddCluster, NewApp, Close
  <2>2. UNCHANGED <<situation, entries, current>>
        /\ ConsideredOf(surveyed)' = ConsideredOf(surveyed)
    BY <1>1, HowFar DEF Standing, Skipping
  <2> QED
    BY <2>1, <2>2, EntriesLeftAlone
<1>2. CASE StartApps
  <2>1. /\ surveyed = 0 /\ surveyed' = 0 /\ main = "names" /\ main' = "receive"
        /\ UNCHANGED <<situation, entries, current>>
    BY <1>2 DEF StartApps, AppsInv, world, schedule
  <2>2. ConsideredOf(surveyed) = {} /\ ConsideredOf(surveyed)' = {}
    BY <2>1 DEF ConsideredOf
  <2> QED
    BY <2>1, <2>2, EntriesLeftAlone
<1>3. CASE Receive
  <2>1. /\ main = "receive" /\ main' = "config" /\ i < maxApps /\ current' = app
        /\ app.name = apps[surveyed + 1] /\ UNCHANGED <<situation, entries>>
    BY <1>3 DEF Receive, Sent, world, TypeOK
  <2>2. Answering(surveyed) = i /\ i \in Nat /\ maxApps \in Nat
    BY <2>1, ListTypes DEF LoopInv, TypeOK
  <2>3. ConsideredOf(surveyed)' = ConsideredOf(surveyed) \cup {current'.name}
    BY <1>3, <2>1, <2>2, HowFar DEF Receive
  <2> QED
    BY <2>1, <2>3, ScheduledStaysScheduled DEF EntriesInv
<1>4. CASE LeaveLoop
  <2>1. /\ main = "receive" /\ main' = "publish" /\ i >= maxApps
        /\ UNCHANGED <<situation, entries, current>>
    BY <1>4 DEF LeaveLoop, Sent, world
  <2>2. Answering(surveyed) = i /\ i \in Nat /\ maxApps \in Nat
    BY <2>1, ListTypes DEF LoopInv, TypeOK
  <2>3. ConsideredOf(surveyed)' = ConsideredOf(surveyed)
    BY <1>4, <2>1, <2>2, HowFar DEF LeaveLoop
  <2> QED
    BY <2>1, <2>3, EntriesLeftAlone
<1>5. CASE Drained
  <2>1. /\ main = "receive" /\ main' = "publish" /\ UNCHANGED <<situation, entries, current>>
    BY <1>5 DEF Drained, world, schedule
  <2> QED
    BY <1>5, <2>1, HowFar, EntriesLeftAlone
<1>6. CASE SkipApp
  <2>1. /\ main = "config" /\ main' = "receive" /\ UNCHANGED <<situation, entries>>
        /\ AppConfigOf(current.name) = {}
    BY <1>6 DEF SkipApp, Handled, world
  <2>2. ~AsksDaily(current.name)
    BY <2>1, DailyDocumentsAreUsable
  <2> QED
    BY <1>6, <2>1, <2>2, HowFar, ScheduledStaysScheduled DEF EntriesInv
<1>7. CASE ScheduleApp
  <2>1. /\ main' \in {"receive", "panic"} /\ main = "config" /\ entries \subseteq entries'
        /\ UNCHANGED situation
        /\ ConsideredOf(surveyed)' = ConsideredOf(surveyed)
    BY <1>7, SchedulingAnApp, HowFar DEF ScheduleApp, Handled, world
  <2>2. PICK cfg \in AppConfigOf(current.name) :
          \A g \in entries' : g \in entries \/ g \in Groups(cfg)
    BY <1>7, SchedulingAnApp
  <2>3. \A g \in entries' : g.app \in ConsideredOf(surveyed)
    BY <2>1, <2>2, GroupsAreOfTheApplication DEF EntriesInv
  <2>4. ASSUME main' = "receive", NEW a \in ConsideredOf(surveyed), AsksDaily(a)
        PROVE  IsScheduled(a)'
    <3>1. CASE a = current.name
      BY <1>7, <2>4, <3>1, SchedulingAnApp
    <3>2. CASE a # current.name
      BY <2>1, <2>4, <3>2, ScheduledStaysScheduled DEF EntriesInv
    <3> QED
      BY <3>1, <3>2
  <2> QED
    BY <2>1, <2>3, <2>4, ScheduledStaysScheduled DEF EntriesInv
<1>8. ASSUME NEW at \in {"publish", "register"}, NEW then \in {"register", "exited", "failed"},
             Deploys(at, then)
      PROVE  EntriesInv'
  <2>1. /\ main \in {"publish", "register"} /\ main' \in {"register", "exited", "failed"}
        /\ UNCHANGED <<situation, entries, current>>
    BY <1>8 DEF Deploys, world, schedule
  <2> QED
    BY <1>8, <2>1, HowFar, EntriesLeftAlone
<1>9. CASE AppNamesFails
  <2>1. /\ main = "names" /\ main' = "failed" /\ UNCHANGED <<situation, entries, current>>
        /\ Standing
    BY <1>9 DEF AppNamesFails, world, schedule, survey, Standing
  <2> QED
    BY <2>1, EntriesLeftAlone
<1>10. CASE UNCHANGED vars
  <2>1. UNCHANGED <<situation, entries, current, main>> /\ Standing
    BY <1>10 DEF vars, world, schedule, survey, Standing
  <2> QED
    BY <2>1, EntriesLeftAlone
<1> QED
  BY <1>1, <1>2, <1>3, <1>4, <1>5, <1>6, <1>7, <1>8, <1>9, <1>10
     DEF Next, MainStep, Publish, RegisterWithCron, Finished

LEMMA Inductive == IInv /\ [Next]_vars => IInv'
<1> SUFFICES ASSUME IInv, [Next]_vars
             PROVE  IInv'
  OBVIOUS
<1>1. TypeOK' /\ AppsInv' /\ LoopInv' /\ EntriesInv'
  BY TypesInductive, AppsInvKept, LoopInvKept, EntriesInvKept DEF IInv
<1>2. UNCHANGED situation
  BY DEF Next, AppsStep, ListClusters, ListClustersFails, CloudProviderFails,
         ReadServerGroups, ReadServerGroupsFails, AddCluster, NewApp, Close,
         MainStep, StartApps, AppNamesFails, Receive, LeaveLoop, Sent, Drained, SkipApp,
         ScheduleApp, Handled, Publish, RegisterWithCron, Deploys, Finished, vars, world
<1> QED
  BY <1>1, <1>2 DEF IInv

---------------------------------------------------------------------------
(***************************************************************************)
(* The command panics only on an application that its document divides by  *)
(* stack and that has a name nobody can take apart.  It dies of a request  *)
(* for clusters only, and after it has left the loop only when more        *)
(* applications than max-apps could be surveyed.                           *)
(***************************************************************************)
THEOREM DeathsAreCaused == Spec => DeathsHaveACause
<1> DEFINE Cause ==
      /\ main' = "panic" /\ main # "panic" =>
           /\ \E cm \in situation[current.name].document : Enabled(cm) /\ cm.grouping = "stack"
           /\ \E p \in PlacesOf(current.name) : ~Parses(p.cluster)
      /\ main' = "fatal" /\ main # "fatal" =>
           /\ Fails("clusters")
           /\ main \in {"publish", "register"} => Answering(surveyed) > maxApps
<1>1. IInv /\ [Next]_vars => [Cause]_vars
  <2> SUFFICES ASSUME IInv, Next
               PROVE  Cause
    OBVIOUS
  <2>1. CASE ScheduleApp
    BY <2>1, SchedulingAnApp DEF IInv
  <2>2. CASE ListClustersFails
    BY <2>2 DEF ListClustersFails, IInv, LoopInv
  <2>3. CASE ~ScheduleApp /\ ~ListClustersFails
    <3>1. AppsStep => main' = main
      BY <2>3 DEF AppsStep, ListClusters, CloudProviderFails,
                  ReadServerGroups, ReadServerGroupsFails, AddCluster, NewApp, Close
    <3>2. MainStep => main' \notin {"fatal", "panic"}
      BY <2>3 DEF MainStep, StartApps, AppNamesFails, Receive, LeaveLoop, Sent, Drained,
                  SkipApp, Handled, Publish, RegisterWithCron, Deploys
    <3>3. Finished => main' = main
      BY DEF Finished, vars
    <3> QED
      BY <3>1, <3>2, <3>3 DEF Next
  <2> QED
    BY <2>1, <2>2, <2>3
<1>2. DeathsHaveACause <=> [][Cause]_vars
  BY DEF DeathsHaveACause
<1> QED
  BY <1>1, <1>2, Initially, Inductive, PTL DEF Spec

(***************************************************************************)
(* Entries have the shape that a document asks for.                        *)
(***************************************************************************)
LEMMA EntriesKeepTheirShape ==
  ASSUME NamesAreGiven, IInv, EntriesAreAskedFor, [Next]_vars
  PROVE  EntriesAreAskedFor'
<1>1. CASE ScheduleApp
  <2>1. main = "config" /\ UNCHANGED situation
    BY <1>1 DEF ScheduleApp, Handled, world
  <2>2. PICK cfg \in AppConfigOf(current.name) :
          \A g \in entries' : g \in entries \/ g \in Groups(cfg)
    BY <1>1, SchedulingAnApp DEF IInv
  <2>3. ASSUME NEW g \in Groups(cfg)
        PROVE  \E cm \in situation[g.app].document : AskedFor(g, cm)
    BY <2>1, GroupsHaveTheShapeAskedFor, GroupsAreOfTheApplication DEF IInv, AppsInv
  <2> QED
    BY <2>1, <2>2, <2>3 DEF EntriesAreAskedFor
<1>2. ~ScheduleApp => UNCHANGED <<situation, entries>>
  BY DEF Next, AppsStep, ListClusters, ListClustersFails, CloudProviderFails,
         ReadServerGroups, ReadServerGroupsFails, AddCluster, NewApp, Close,
         MainStep, StartApps, AppNamesFails, Receive, LeaveLoop, Sent, Drained, SkipApp,
         Handled, Publish, RegisterWithCron, Deploys, Finished, vars, world, schedule
<1> QED
  BY <1>1, <1>2 DEF EntriesAreAskedFor

(***************************************************************************)
(* The published schedule has groups of the applications considered only,  *)
(* each divided as its document says, and all places of those that ask for *)
(* daily terminations, whatever fails for other applications.              *)
(***************************************************************************)
THEOREM OwnersGetWhatTheyAskedFor ==
  ASSUME NamesAreGiven
  PROVE  Spec => []OwnersGetTheirSchedule
<1>1. Init => EntriesAreAskedFor
  BY DEF Init, EntriesAreAskedFor
<1>2. IInv /\ EntriesAreAskedFor => OwnersGetTheirSchedule
  <2> SUFFICES ASSUME IInv, EntriesAreAskedFor, main \in {"publish", "register", "exited"}
               PROVE  OwnersGetTheirSchedule
    BY DEF OwnersGetTheirSchedule
  <2>1. ConsideredOf(Len(apps)) = ConsideredOf(surveyed)
    <3>1. /\ surveyed \in Nat /\ Len(apps) \in Nat /\ surveyed <= Len(apps) /\ maxApps \in Nat
      BY ListTypes DEF IInv, TypeOK
    <3>2. surveyed = Len(apps) \/ Answering(surveyed) > maxApps
      BY DEF IInv, AppsInv, LoopInv
    <3> QED
      BY <3>1, <3>2, NobodyElseIsConsidered
  <2>2. ASSUME NEW p \in Places, Parses(p.cluster),
               p.cluster.app \in ConsideredOf(Len(apps)), AsksDaily(p.cluster.app)
        PROVE  \E g \in entries : Contains(g, p.account, p.region, p.cluster)
    <3>1. IsScheduled(p.cluster.app)
      BY <2>1, <2>2 DEF IInv, EntriesInv
    <3> QED
      BY <2>2, <3>1 DEF IsScheduled, PlacesOf
  <2>3. \A g \in entries : /\ g.app \in ConsideredOf(Len(apps))
                           /\ \E cm \in situation[g.app].document : AskedFor(g, cm)
    BY <2>1 DEF IInv, EntriesInv, EntriesAreAskedFor
  <2> QED
    BY <2>2, <2>3 DEF OwnersGetTheirSchedule, AsksDaily
<1>3. IInv /\ EntriesAreAskedFor /\ [Next]_vars => IInv' /\ EntriesAreAskedFor'
  BY Inductive, EntriesKeepTheirShape
<1> QED
  BY <1>1, <1>2, <1>3, Initially, Inductive, PTL DEF Spec
=============================================================================
