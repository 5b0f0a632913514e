----------------------------- MODULE Selection -----------------------------
(***************************************************************************)
(* How an instance comes to be picked for termination.  In the morning the *)
(* scheduler surveys an application, one request to Spinnaker after the    *)
(* other (Spinnaker.GetApp), and divides what it saw into groups; later in *)
(* the day a run of "terminate" surveys the one group it was given, again  *)
(* request by request (eligible.Instances), and picks one instance.  All   *)
(* the while server groups come, go, are disabled and emptied, and the     *)
(* owner of the application edits its exceptions.                          *)
(*                                                                         *)
(* A server group has at most one instance here, and stands for it.        *)
(***************************************************************************)
EXTENDS Naturals, FiniteSets, InstanceGroups

CONSTANTS
  ServerGroups,  \* the server groups there may be: account, region, cluster, version
  AppName,
  Status,        \* how they may be at first
  Groupings,     \* the settings of the application that occur
  Exceptions,    \* the sets of exceptions that occur
  MaxChanges,    \* bound on the changes during the day
  MaxRuns        \* bound on the runs of terminate

Statuses == {"absent", "disabled", "empty", "up"}

ASSUME SelectionAssumption ==
  /\ \A s \in ServerGroups : s.cluster.app = AppName /\ Parses(s.cluster)
  /\ Status \subseteq Statuses
  /\ Groupings \subseteq {"app", "stack", "cluster"}
  /\ MaxChanges \in Nat /\ MaxRuns \in Nat

VARIABLES
  status,      \* the server groups, as Spinnaker has them
  config,      \* the chaosmonkey.AppConfig, as Spinnaker has it
  changes,     \* how often either has changed
  pc,          \* what Chaos Monkey does next
  todo,        \* the clusters still to be asked about
  app,         \* the deploy.App that GetApp is building
  groups,      \* the groups of the schedule
  group,       \* the group of the current run
  exceptions,  \* the exceptions the current run has read
  chosen,      \* the places to look for instances: account, cluster and region
  found,       \* the instances found there
  victims,     \* the picks of the day, each with its group
  runs

survey == <<app, groups>>
run == <<group, exceptions, chosen, found>>
vars == <<status, config, changes, pc, todo, survey, run, victims, runs>>

NoGroup == New(AppName, Blank, Blank, Blank, NoCluster)

Existing == {s \in ServerGroups : status[s] # "absent"}
Enabled == {s \in ServerGroups : status[s] \in {"empty", "up"}}

Place(s) == [account |-> s.account, cluster |-> s.cluster, region |-> s.region]

In(g, x) == Contains(g, x.account, x.region, x.cluster)

Barred(exs, x) == IsException(exs, x.account, x.cluster, x.region) \/ IsNeverEligible(x.cluster)

Accounts == {s.account : s \in ServerGroups}
ClusterNames == {s.cluster : s \in ServerGroups}
AllRegions == {s.region : s \in ServerGroups}

TypeOK ==
  /\ status \in [ServerGroups -> Statuses]
  /\ config \in [grouping: Groupings, regionsAreIndependent: BOOLEAN, exceptions: Exceptions]
  /\ changes \in 0 .. MaxChanges
  /\ pc \in {"survey", "asgs", "scheduled", "clusters", "regions", "instances", "nothing"}
  /\ todo \subseteq [account: Accounts, cluster: ClusterNames]
  /\ app \in [name: {AppName}, accounts: SUBSET Accounts,
              clusters: SUBSET [account: Accounts, cluster: ClusterNames,
                                regions: SUBSET AllRegions]]
  /\ group \in groups \cup {NoGroup}
  /\ exceptions \in Exceptions \cup {{}}
  /\ chosen \subseteq {Place(s) : s \in ServerGroups}
  /\ \A x \in chosen : In(group, x) /\ ~Barred(exceptions, x)
  /\ found \subseteq ServerGroups
  /\ \A v \in victims : v.instance \in ServerGroups /\ v.group \in groups
  /\ runs \in 0 .. MaxRuns

Init ==
  /\ status \in [ServerGroups -> Status]
  /\ config \in [grouping: Groupings, regionsAreIndependent: BOOLEAN, exceptions: Exceptions]
  /\ changes = 0
  /\ pc = "survey"
  /\ todo = {}
  /\ app = [name |-> AppName, accounts |-> {}, clusters |-> {}]
  /\ groups = {}
  /\ group = NoGroup
  /\ exceptions = {}
  /\ chosen = {}
  /\ found = {}
  /\ victims = {}
  /\ runs = 0

---------------------------------------------------------------------------
(* The surroundings. *)

Deploy(s, st) ==
  /\ changes < MaxChanges
  /\ changes' = changes + 1
  /\ status' = [status EXCEPT ![s] = st]
  /\ UNCHANGED <<config, pc, todo, survey, run, victims, runs>>

\* The owner edits the exceptions; the grouping stays what it is for the day.
Edit(exs) ==
  /\ changes < MaxChanges
  /\ changes' = changes + 1
  /\ config' = [config EXCEPT !.exceptions = exs]
  /\ UNCHANGED <<status, pc, todo, survey, run, victims, runs>>

---------------------------------------------------------------------------
(* The scheduler: GetApp, NewApp and EligibleInstanceGroups. *)

\* The cloud provider of every account is known, or the application is skipped.
ListClusters ==
  /\ pc = "survey"
  /\ todo' = {[account |-> s.account, cluster |-> s.cluster] : s \in Existing}
  /\ app' = [app EXCEPT !.accounts = {s.account : s \in Existing}]
  /\ pc' = "asgs"
  /\ UNCHANGED <<status, config, changes, groups, run, victims, runs>>

AddCluster(c, regions) ==
  /\ pc = "asgs"
  /\ c \in todo
  /\ todo' = todo \ {c}
  /\ app' = [app EXCEPT !.clusters = @ \cup
               {[account |-> c.account, cluster |-> c.cluster, regions |-> regions]}]
  /\ UNCHANGED <<status, config, changes, pc, groups, run, victims, runs>>

ServerGroupsOf(c) == {s \in Existing : s.account = c.account /\ s.cluster = c.cluster}

ReadServerGroups(c) == AddCluster(c, {s.region : s \in ServerGroupsOf(c) \cap Enabled})

\* A warning is logged; the cluster stays in the application, without regions.
ReadServerGroupsFails(c) == AddCluster(c, {})

Group ==
  /\ pc = "asgs"
  /\ todo = {}
  /\ groups' = EligibleInstanceGroups(app, config.grouping, config.regionsAreIndependent)
  /\ pc' = "scheduled"
  /\ UNCHANGED <<status, config, changes, todo, app, run, victims, runs>>

---------------------------------------------------------------------------
(* A run: doTerminate up to the pick, eligible.Instances in detail. *)

\* ConfGetter.Get
GetConfig(g) ==
  /\ pc = "scheduled"
  /\ runs < MaxRuns
  /\ g \in groups
  /\ runs' = runs + 1
  /\ group' = g
  /\ exceptions' = config.exceptions
  /\ chosen' = {}
  /\ found' = {}
  /\ pc' = "clusters"
  /\ UNCHANGED <<status, config, changes, todo, survey, victims>>

GetClusterNames ==
  /\ pc = "clusters"
  /\ todo' = {[account |-> s.account, cluster |-> s.cluster] :
                s \in {x \in Existing : x.account = group.account}}
  /\ pc' = "regions"
  /\ UNCHANGED <<status, config, changes, survey, run, victims, runs>>

\* regions: the region of the group, if the cluster is deployed there, or all.
Regions(deployed) == IF AnyRegion(group) THEN deployed ELSE deployed \cap {group.region}

Choose(c, places) ==
  /\ pc = "regions"
  /\ c \in todo
  /\ todo' = todo \ {c}
  /\ chosen' = chosen \cup places
  /\ UNCHANGED <<status, config, changes, pc, survey, group, exceptions, found, victims, runs>>

\* Disabled server groups count for the regions of a cluster here.
PlacesOf(c) ==
  {[account |-> c.account, cluster |-> c.cluster, region |-> r] :
     r \in Regions({s.region : s \in ServerGroupsOf(c)})}

\* A mistake: clusters outside the group are not filtered out.
GetRegionNamesUnfiltered(c) ==
  Choose(c, {x \in PlacesOf(c) : ~Barred(exceptions, x)})

GetRegionNames(c) ==
  Choose(c, {x \in PlacesOf(c) : ~Barred(exceptions, x) /\ In(group, x)})

RegionsRead ==
  /\ pc = "regions"
  /\ todo = {}
  /\ pc' = "instances"
  /\ UNCHANGED <<status, config, changes, todo, survey, run, victims, runs>>

EnabledAt(x) == {s \in Enabled : Place(s) = x}

\* One of the enabled server groups of the place is its current one.
GetInstanceIDs(x) ==
  /\ pc = "instances"
  /\ x \in chosen
  /\ \E s \in EnabledAt(x) :
       found' = found \cup (IF status[s] = "up" THEN {s} ELSE {})
  /\ chosen' = chosen \ {x}
  /\ UNCHANGED <<status, config, changes, pc, todo, survey, group, exceptions, victims, runs>>

\* There is no enabled server group any more: an error, which ends the search.
NoCurrentServerGroup(x) ==
  /\ pc = "instances"
  /\ x \in chosen
  /\ EnabledAt(x) = {}
  /\ pc' = "nothing"
  /\ UNCHANGED <<status, config, changes, todo, survey, run, victims, runs>>

PickRandomInstance ==
  /\ pc = "instances"
  /\ chosen = {}
  /\ found # {}
  /\ \E s \in found : victims' = victims \cup {[instance |-> s, group |-> group]}
  /\ pc' = "scheduled"
  /\ UNCHANGED <<status, config, changes, todo, survey, run, runs>>

NothingFound ==
  /\ pc = "instances"
  /\ chosen = {}
  /\ found = {}
  /\ pc' = "nothing"
  /\ UNCHANGED <<status, config, changes, todo, survey, run, victims, runs>>

EndRun ==
  /\ pc = "nothing"
  /\ pc' = "scheduled"
  /\ UNCHANGED <<status, config, changes, todo, survey, run, victims, runs>>

\* Any request may fail, which ends the run.
RequestFails ==
  /\ pc \in {"clusters", "regions", "instances"}
  /\ pc' = "scheduled"
  /\ UNCHANGED <<status, config, changes, todo, survey, run, victims, runs>>

Next ==
  \/ \E s \in ServerGroups, st \in Statuses : Deploy(s, st)
  \/ \E exs \in Exceptions : Edit(exs)
  \/ ListClusters
  \/ \E c \in todo : ReadServerGroups(c) \/ ReadServerGroupsFails(c) \/ GetRegionNames(c)
  \/ Group
  \/ \E g \in groups : GetConfig(g)
  \/ GetClusterNames \/ RegionsRead
  \/ \E x \in chosen : GetInstanceIDs(x) \/ NoCurrentServerGroup(x)
  \/ PickRandomInstance \/ NothingFound \/ EndRun \/ RequestFails

Spec == Init /\ [][Next]_vars

---------------------------------------------------------------------------
\* What Check makes of a pick; instance.StackName comes from the server group.
Request(s) ==
  [app |-> s.cluster.app, account |-> s.account, stack |-> s.cluster.stack,
   cluster |-> s.cluster, region |-> s.region, grouping |-> config.grouping,
   regionsAreIndependent |-> config.regionsAreIndependent]

(***************************************************************************)
(* The scheduler and the Checker mean the same by a group: two picks count *)
(* as terminations of one group in the query of Check exactly when one and *)
(* the same group of the schedule led to them.  A kill for one group never *)
(* uses up the minimum time of another, nor do two kills of one group miss *)
(* each other, however the deployment changed in between.                  *)
(***************************************************************************)
SchedulesMatchChecks ==
  \A v, w \in victims :
     SameGroup(Request(v.instance), Request(w.instance)) <=> v.group = w.group

LastPart(cluster) == IF cluster.detail # Blank THEN cluster.detail ELSE cluster.stack

InForceAllDay == {ex \in UNION Exceptions : \A exs \in Exceptions : ex \in exs}

(***************************************************************************)
(* docs/Configuring-behavior-via-Spinnaker.md: an instance is picked only  *)
(* when it is in the group that was scheduled, and none is picked that the *)
(* exceptions in force all day or the suffix of its cluster protect.       *)
(***************************************************************************)
VictimsAreFairGame ==
  \A v \in victims :
     /\ In(v.group, v.instance)
     /\ LastPart(v.instance.cluster) \notin NeverEligibleSuffixes
     /\ \A ex \in InForceAllDay :
          ~Matches(ex, v.instance.account, v.instance.cluster, v.instance.region)

\* The survey came across every place that is running now.
Surveyed ==
  /\ pc = "scheduled"
  /\ \A s \in Enabled : \E c \in Clusters(app, s.account) :
       c.cluster = s.cluster /\ s.region \in c.regions

(***************************************************************************)
(* Every running instance of an application belongs to a group of its      *)
(* schedule: no part of the application is left out of the experiment by   *)
(* the way it is divided.                                                  *)
(***************************************************************************)
NobodyIsForgotten ==
  Surveyed => \A s \in ServerGroups : status[s] = "up" => \E g \in groups : In(g, s)

(***************************************************************************)
(* No two groups of a schedule share an instance, whatever happened while  *)
(* the application was surveyed.                                           *)
(***************************************************************************)
GroupsAreDisjoint ==
  \A g, h \in groups : \A s \in ServerGroups : In(g, s) /\ In(h, s) => g = h
=============================================================================
