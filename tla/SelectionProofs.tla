-------------------------- MODULE SelectionProofs --------------------------
(***************************************************************************)
(* Proofs about Selection, for any server groups, settings and exceptions  *)
(* and any number of changes and runs: its types; that the three places    *)
(* that say what a group is agree; that the groups of a schedule are       *)
(* disjoint and leave nothing out; and that what is protected all day is   *)
(* never picked.                                                           *)
(***************************************************************************)
EXTENDS Selection, InstanceGroupsProofs, TLAPS

(***************************************************************************)
(* The query of Check takes two server groups for the same group exactly   *)
(* when the scheduler does.                                                *)
(***************************************************************************)
LEMMA QueriesMeanTheSame ==
  ASSUME config.grouping \in {"app", "stack", "cluster"},
         config.regionsAreIndependent \in BOOLEAN,
         NEW x \in ServerGroups, NEW y \in ServerGroups
  PROVE  SameGroup(Request(x), Request(y)) <=>
           GroupFor(AppName, config.grouping, config.regionsAreIndependent, x)
             = GroupFor(AppName, config.grouping, config.regionsAreIndependent, y)
<1> DEFINE G(z) == GroupFor(AppName, config.grouping, config.regionsAreIndependent, z)
<1>1. SameGroup(Request(x), Request(y)) <=>
        /\ x.account = y.account
        /\ config.grouping = "stack" => x.cluster.stack = y.cluster.stack
        /\ config.grouping = "cluster" => x.cluster = y.cluster
        /\ config.regionsAreIndependent => x.region = y.region
  <2>1. x.cluster.app = AppName /\ y.cluster.app = AppName
    BY SelectionAssumption
  <2> QED
    BY <2>1 DEF SameGroup, Request
<1>2. ASSUME NEW z
      PROVE  /\ G(z).account = z.account
             /\ G(z).region = IF config.regionsAreIndependent THEN z.region ELSE Blank
             /\ G(z).stack = IF config.grouping = "stack" THEN z.cluster.stack ELSE Blank
             /\ G(z).cluster = IF config.grouping = "cluster" THEN z.cluster ELSE NoCluster
  BY NewFields DEF GroupFor
<1>3. G(x) = G(y) =>
        /\ x.account = y.account
        /\ config.grouping = "stack" => x.cluster.stack = y.cluster.stack
        /\ config.grouping = "cluster" => x.cluster = y.cluster
        /\ config.regionsAreIndependent => x.region = y.region
  <2>1. /\ G(x).account = x.account /\ G(y).account = y.account
        /\ config.regionsAreIndependent => G(x).region = x.region /\ G(y).region = y.region
        /\ config.grouping = "stack" => G(x).stack = x.cluster.stack /\ G(y).stack = y.cluster.stack
        /\ config.grouping = "cluster" => G(x).cluster = x.cluster /\ G(y).cluster = y.cluster
    BY <1>2
  <2> HIDE DEF G
  <2> QED
    BY <2>1
<1>4. /\ x.account = y.account
      /\ config.grouping = "stack" => x.cluster.stack = y.cluster.stack
      /\ config.grouping = "cluster" => x.cluster = y.cluster
      /\ config.regionsAreIndependent => x.region = y.region
      => G(x) = G(y)
  BY DEF GroupFor
<1> QED
  BY <1>1, <1>3, <1>4

---------------------------------------------------------------------------
Planning == pc \in {"survey", "asgs"}

(***************************************************************************)
(* Before the schedule is made there is nothing to run, and nobody ran.    *)
(***************************************************************************)
SurveyComesFirst ==
  Planning => groups = {} /\ group = NoGroup /\ chosen = {} /\ found = {} /\ victims = {}

(***************************************************************************)
(* The accounts of the clusters are known, and the schedule is what the    *)
(* survey and the setting of the application make it.                      *)
(***************************************************************************)
GroupsFollowTheSurvey ==
  /\ pc = "survey" => app.clusters = {}
  /\ pc = "asgs" => \A c \in todo : c.account \in app.accounts
  /\ \A c \in app.clusters : c.account \in app.accounts
  /\ ~Planning =>
       groups = EligibleInstanceGroups(app, config.grouping, config.regionsAreIndependent)

(***************************************************************************)
(* A run has a group of the schedule and exceptions; what it has found is  *)
(* in that group and not protected by those exceptions; and what it picked *)
(* is not protected by anything that is in force all day.                  *)
(***************************************************************************)
Protected(s) ==
  \/ IsNeverEligible(s.cluster)
  \/ \E ex \in InForceAllDay : Matches(ex, s.account, s.cluster, s.region)

NothingProtectedIsFound ==
  /\ pc \in {"clusters", "regions", "instances", "nothing"} =>
       group \in groups /\ exceptions \in Exceptions
  /\ \A s \in found : In(group, s) /\ ~Barred(exceptions, s)
  /\ \A v \in victims : In(v.group, v.instance) /\ ~Protected(v.instance)

IInv == TypeOK /\ SurveyComesFirst /\ GroupsFollowTheSurvey /\ NothingProtectedIsFound

LEMMA Initially == Init => IInv
<1> SUFFICES ASSUME Init
             PROVE  IInv
  OBVIOUS
<1>1. TypeOK
  BY SelectionAssumption DEF Init, TypeOK
<1>2. SurveyComesFirst /\ GroupsFollowTheSurvey /\ NothingProtectedIsFound
  BY DEF Init, SurveyComesFirst, GroupsFollowTheSurvey, NothingProtectedIsFound, Planning
<1> QED
  BY <1>1, <1>2 DEF IInv

LEMMA SurroundingsKeep ==
  ASSUME IInv, (\E s \in ServerGroups, st \in Statuses : Deploy(s, st))
                 \/ (\E exs \in Exceptions : Edit(exs)) \/ UNCHANGED vars
  PROVE  IInv'
<1>1. /\ status' \in [ServerGroups -> Statuses]
      /\ config' \in [grouping: Groupings, regionsAreIndependent: BOOLEAN, exceptions: Exceptions]
      /\ config'.grouping = config.grouping
      /\ config'.regionsAreIndependent = config.regionsAreIndependent
      /\ changes' \in 0 .. MaxChanges
      /\ UNCHANGED <<pc, todo, app, groups, group, exceptions, chosen, found, victims, runs>>
  BY SelectionAssumption DEF IInv, TypeOK, Deploy, Edit, vars, survey, run
<1>2. TypeOK'
  BY <1>1 DEF IInv, TypeOK, Barred
<1>3. SurveyComesFirst' /\ GroupsFollowTheSurvey'
  BY <1>1 DEF IInv, SurveyComesFirst, GroupsFollowTheSurvey, Planning
<1>4. NothingProtectedIsFound'
  BY <1>1 DEF IInv, NothingProtectedIsFound
<1> QED
  BY <1>2, <1>3, <1>4 DEF IInv

LEMMA Listing ==
  ASSUME IInv, ListClusters
  PROVE  IInv'
<1> USE DEF IInv, Planning, ListClusters, survey, run
<1>1. /\ app'.name = app.name /\ app'.clusters = app.clusters
      /\ app'.accounts = {s.account : s \in Existing}
      /\ app' \in [name: {AppName}, accounts: SUBSET Accounts,
                   clusters: SUBSET [account: Accounts, cluster: ClusterNames,
                                     regions: SUBSET AllRegions]]
  BY DEF TypeOK, Existing, Accounts
<1>2. todo' \subseteq [account: Accounts, cluster: ClusterNames]
  BY DEF Existing, Accounts, ClusterNames
<1>3. TypeOK'
  BY <1>1, <1>2 DEF TypeOK, Barred
<1>4. SurveyComesFirst' /\ NothingProtectedIsFound'
  BY DEF SurveyComesFirst, NothingProtectedIsFound
<1>5. GroupsFollowTheSurvey'
  BY <1>1 DEF GroupsFollowTheSurvey
<1> QED
  BY <1>3, <1>4, <1>5

LEMMA Adding ==
  ASSUME IInv, NEW c \in todo, ReadServerGroups(c) \/ ReadServerGroupsFails(c)
  PROVE  IInv'
<1>1. PICK regions \in SUBSET AllRegions : AddCluster(c, regions)
  BY DEF ReadServerGroups, ReadServerGroupsFails, ServerGroupsOf, Existing, Enabled, AllRegions
<1> DEFINE entry == [account |-> c.account, cluster |-> c.cluster, regions |-> regions]
<1> USE <1>1 DEF IInv, Planning, AddCluster, survey, run
<1>2. entry \in [account: Accounts, cluster: ClusterNames, regions: SUBSET AllRegions]
  BY DEF TypeOK
<1>3. /\ app'.name = app.name /\ app'.accounts = app.accounts
      /\ app'.clusters = app.clusters \cup {entry}
      /\ app' \in [name: {AppName}, accounts: SUBSET Accounts,
                   clusters: SUBSET [account: Accounts, cluster: ClusterNames,
                                     regions: SUBSET AllRegions]]
  BY <1>2 DEF TypeOK
<1>4. TypeOK'
  BY <1>3 DEF TypeOK, Barred
<1>5. SurveyComesFirst' /\ NothingProtectedIsFound'
  BY DEF SurveyComesFirst, NothingProtectedIsFound
<1>6. GroupsFollowTheSurvey'
  BY <1>3 DEF GroupsFollowTheSurvey
<1> QED
  BY <1>4, <1>5, <1>6

LEMMA Grouping ==
  ASSUME IInv, Group
  PROVE  IInv'
<1> USE DEF IInv, Planning, Group, run
<1>1. TypeOK'
  BY DEF TypeOK, Barred, SurveyComesFirst
<1>2. SurveyComesFirst' /\ NothingProtectedIsFound'
  BY DEF SurveyComesFirst, NothingProtectedIsFound
<1>3. GroupsFollowTheSurvey'
  BY DEF GroupsFollowTheSurvey
<1> QED
  BY <1>1, <1>2, <1>3

LEMMA StartingARun ==
  ASSUME IInv, NEW g \in groups, GetConfig(g)
  PROVE  IInv'
<1> USE DEF IInv, Planning, GetConfig, survey
<1>1. TypeOK'
  BY SelectionAssumption DEF TypeOK
<1>2. SurveyComesFirst' /\ NothingProtectedIsFound'
  BY DEF SurveyComesFirst, NothingProtectedIsFound, TypeOK
<1>3. GroupsFollowTheSurvey'
  BY DEF GroupsFollowTheSurvey
<1> QED
  BY <1>1, <1>2, <1>3

(***************************************************************************)
(* The steps of a run that change neither the survey nor what was found.   *)
(***************************************************************************)
LEMMA GoingOn ==
  ASSUME IInv,
         GetClusterNames \/ RegionsRead \/ NothingFound \/ EndRun \/ RequestFails
           \/ \E x \in chosen : NoCurrentServerGroup(x)
  PROVE  IInv'
<1>1. /\ ~Planning'
      /\ pc \in {"clusters", "regions", "instances", "nothing"}
      /\ pc' \in {"scheduled", "regions", "instances", "nothing"}
      /\ todo' \subseteq [account: Accounts, cluster: ClusterNames]
      /\ UNCHANGED <<status, config, changes, app, groups, group, exceptions, chosen, found,
                     victims, runs>>
  <2>1. CASE GetClusterNames
    BY <2>1 DEF GetClusterNames, Planning, survey, run, Accounts, ClusterNames, Existing
  <2>2. CASE ~GetClusterNames
    BY <2>2 DEF RegionsRead, NothingFound, EndRun, RequestFails, NoCurrentServerGroup,
       Planning, survey, run, IInv, TypeOK
  <2> QED
    BY <2>1, <2>2
<1>2. TypeOK'
  BY <1>1 DEF IInv, TypeOK, Barred
<1>3. SurveyComesFirst' /\ GroupsFollowTheSurvey' /\ NothingProtectedIsFound'
  BY <1>1 DEF IInv, SurveyComesFirst, GroupsFollowTheSurvey, NothingProtectedIsFound, Planning
<1> QED
  BY <1>2, <1>3 DEF IInv

LEMMA Choosing ==
  ASSUME IInv, NEW c \in todo, GetRegionNames(c)
  PROVE  IInv'
<1> DEFINE places == {x \in PlacesOf(c) : ~Barred(exceptions, x) /\ In(group, x)}
<1>1. /\ pc = "regions"
      /\ todo' \subseteq todo
      /\ chosen' = chosen \cup places
      /\ UNCHANGED <<status, config, changes, pc, app, groups, group, exceptions, found, victims, runs>>
  BY DEF GetRegionNames, Choose, survey
<1>2. places \subseteq {Place(s) : s \in ServerGroups}
  BY DEF PlacesOf, Regions, ServerGroupsOf, Existing, Place
<1>3. TypeOK'
  BY <1>1, <1>2 DEF IInv, TypeOK, Barred
<1>4. SurveyComesFirst' /\ GroupsFollowTheSurvey'
  BY <1>1 DEF IInv, SurveyComesFirst, GroupsFollowTheSurvey, Planning
<1>5. NothingProtectedIsFound'
  BY <1>1 DEF IInv, NothingProtectedIsFound
<1> QED
  BY <1>3, <1>4, <1>5 DEF IInv

LEMMA Finding ==
  ASSUME IInv, NEW x \in chosen, GetInstanceIDs(x)
  PROVE  IInv'
<1>1. PICK s \in EnabledAt(x) : found' = found \cup (IF status[s] = "up" THEN {s} ELSE {})
  BY DEF GetInstanceIDs
<1>2. /\ pc = "instances"
      /\ chosen' \subseteq chosen
      /\ UNCHANGED <<status, config, changes, pc, todo, app, groups, group, exceptions, victims, runs>>
  BY DEF GetInstanceIDs, survey
<1>3. s \in ServerGroups /\ In(group, s) /\ ~Barred(exceptions, s)
  <2>1. s \in ServerGroups /\ Place(s) = x
    BY DEF EnabledAt, Enabled
  <2>2. In(group, x) /\ ~Barred(exceptions, x)
    BY DEF IInv, TypeOK
  <2>3. x.account = s.account /\ x.cluster = s.cluster /\ x.region = s.region
    BY <2>1 DEF Place
  <2> QED
    BY <2>1, <2>2, <2>3 DEF In, Barred
<1>4. TypeOK'
  BY <1>1, <1>2, <1>3 DEF IInv, TypeOK
<1>5. SurveyComesFirst' /\ GroupsFollowTheSurvey'
  BY <1>2 DEF IInv, SurveyComesFirst, GroupsFollowTheSurvey, Planning
<1>6. NothingProtectedIsFound'
  BY <1>1, <1>2, <1>3 DEF IInv, NothingProtectedIsFound
<1> QED
  BY <1>4, <1>5, <1>6 DEF IInv

LEMMA Picking ==
  ASSUME IInv, PickRandomInstance
  PROVE  IInv'
<1>1. PICK s \in found : victims' = victims \cup {[instance |-> s, group |-> group]}
  BY DEF PickRandomInstance
<1>2. /\ pc = "instances" /\ pc' = "scheduled"
      /\ UNCHANGED <<status, config, changes, todo, app, groups, group, exceptions, chosen, found, runs>>
  BY DEF PickRandomInstance, survey, run
<1>3. s \in ServerGroups /\ In(group, s)
  BY DEF IInv, TypeOK, NothingProtectedIsFound
<1>4. ~Protected(s)
  <2>1. exceptions \in Exceptions /\ ~Barred(exceptions, s)
    BY <1>2 DEF IInv, NothingProtectedIsFound
  <2> QED
    BY <2>1 DEF Barred, IsException, Protected, InForceAllDay
<1>5. group \in groups
  BY <1>2 DEF IInv, NothingProtectedIsFound
<1>6. TypeOK'
  BY <1>1, <1>2, <1>3, <1>5 DEF IInv, TypeOK
<1>7. SurveyComesFirst' /\ GroupsFollowTheSurvey'
  BY <1>2 DEF IInv, SurveyComesFirst, GroupsFollowTheSurvey, Planning
<1>8. NothingProtectedIsFound'
  BY <1>1, <1>2, <1>3, <1>4 DEF IInv, NothingProtectedIsFound
<1> QED
  BY <1>6, <1>7, <1>8 DEF IInv

LEMMA Inductive ==
  ASSUME IInv, [Next]_vars
  PROVE  IInv'
<1>1. CASE (\E s \in ServerGroups, st \in Statuses : Deploy(s, st))
             \/ (\E exs \in Exceptions : Edit(exs)) \/ UNCHANGED vars
  BY <1>1, SurroundingsKeep
<1>2. CASE ListClusters \/ Group
  BY <1>2, Listing, Grouping
<1>3. ASSUME NEW c \in todo, ReadServerGroups(c) \/ ReadServerGroupsFails(c) \/ GetRegionNames(c)
      PROVE  IInv'
  BY <1>3, Adding, Choosing
<1>4. ASSUME NEW g \in groups, GetConfig(g)
      PROVE  IInv'
  BY <1>4, StartingARun
<1>5. CASE GetClusterNames \/ RegionsRead \/ NothingFound \/ EndRun \/ RequestFails
             \/ \E x \in chosen : NoCurrentServerGroup(x)
  BY <1>5, GoingOn
<1>6. ASSUME NEW x \in chosen, GetInstanceIDs(x)
      PROVE  IInv'
  BY <1>6, Finding
<1>7. CASE PickRandomInstance
  BY <1>7, Picking
<1> QED
  BY <1>1, <1>2, <1>3, <1>4, <1>5, <1>6, <1>7 DEF Next

---------------------------------------------------------------------------
(***************************************************************************)
(* The variables keep their types; what a run means to search is in its    *)
(* group and not barred by what it has read.                               *)
(***************************************************************************)
THEOREM TypeCorrect == Spec => []TypeOK
<1>1. IInv => TypeOK
  BY DEF IInv
<1> QED
  BY <1>1, Initially, Inductive, PTL DEF Spec

(***************************************************************************)
(* An instance is picked only in the group that was scheduled, and never   *)
(* when its cluster or an exception in force all day protects it, however  *)
(* the deployment and the other exceptions change meanwhile.               *)
(***************************************************************************)
THEOREM ProtectionHolds == Spec => []VictimsAreFairGame
<1>1. IInv => VictimsAreFairGame
  BY DEF IInv, NothingProtectedIsFound, Protected, VictimsAreFairGame, IsNeverEligible, LastPart
<1> QED
  BY <1>1, Initially, Inductive, PTL DEF Spec

(***************************************************************************)
(* When the survey came across everything that is running, every running   *)
(* instance belongs to a group of the schedule.                            *)
(***************************************************************************)
THEOREM ScheduleIsComplete == Spec => []NobodyIsForgotten
<1>1. IInv => NobodyIsForgotten
  <2> SUFFICES ASSUME IInv, Surveyed, NEW s \in ServerGroups, status[s] = "up"
               PROVE  \E g \in groups : In(g, s)
    BY DEF NobodyIsForgotten
  <2>1. PICK c \in Clusters(app, s.account) : c.cluster = s.cluster /\ s.region \in c.regions
    BY DEF Surveyed, Enabled
  <2>2. c \in app.clusters /\ c.account = s.account /\ s.account \in app.accounts
    BY <2>1 DEF Clusters, IInv, GroupsFollowTheSurvey
  <2>3. s.cluster.app = app.name /\ Parses(s.cluster)
    BY SelectionAssumption DEF IInv, TypeOK
  <2>4. /\ groups = EligibleInstanceGroups(app, config.grouping, config.regionsAreIndependent)
        /\ config.grouping \in {"app", "stack", "cluster"}
        /\ config.regionsAreIndependent \in BOOLEAN
    BY SelectionAssumption DEF IInv, TypeOK, GroupsFollowTheSurvey, Surveyed, Planning
  <2> QED
    BY <2>1, <2>2, <2>3, <2>4, EveryMemberHasAGroup DEF In
<1> QED
  BY <1>1, Initially, Inductive, PTL DEF Spec

---------------------------------------------------------------------------
(***************************************************************************)
(* From here on names are not blank.  A group of the schedule means any    *)
(* region, or any stack, by a blank one, so that a cluster without a stack *)
(* makes a group that contains the others when groups are stacks.          *)
(***************************************************************************)
NamesAreGiven ==
  \A s \in ServerGroups : /\ s.region # Blank
                          /\ s.cluster # NoCluster
                          /\ "stack" \in Groupings => s.cluster.stack # Blank

LEMMA TheGroupOfAnInstance ==
  ASSUME IInv, NamesAreGiven, NEW g \in groups, NEW s, In(g, s)
  PROVE  g = GroupFor(AppName, config.grouping, config.regionsAreIndependent, s)
<1>1. /\ g \in EligibleInstanceGroups(app, config.grouping, config.regionsAreIndependent)
      /\ config.grouping \in Groupings /\ config.grouping \in {"app", "stack", "cluster"}
      /\ config.regionsAreIndependent \in BOOLEAN
      /\ app.name = AppName
  BY SelectionAssumption DEF IInv, TypeOK, SurveyComesFirst, GroupsFollowTheSurvey
<1>2. \A c \in app.clusters : /\ c.cluster # NoCluster
                              /\ config.grouping = "stack" => c.cluster.stack # Blank
                              /\ Blank \notin c.regions
  <2> SUFFICES ASSUME NEW c \in app.clusters
               PROVE  /\ c.cluster # NoCluster
                      /\ config.grouping = "stack" => c.cluster.stack # Blank
                      /\ Blank \notin c.regions
    OBVIOUS
  <2>1. c.cluster \in ClusterNames /\ c.regions \subseteq AllRegions
    BY DEF IInv, TypeOK
  <2> QED
    BY <1>1, <2>1 DEF NamesAreGiven, ClusterNames, AllRegions
<1> QED
  BY <1>1, <1>2, TheGroupOfAMember DEF In

(***************************************************************************)
(* No two groups of a schedule share an instance, however the survey went. *)
(***************************************************************************)
THEOREM GroupsDoNotOverlap ==
  ASSUME NamesAreGiven
  PROVE  Spec => []GroupsAreDisjoint
<1>1. IInv => GroupsAreDisjoint
  BY TheGroupOfAnInstance DEF GroupsAreDisjoint
<1> QED
  BY <1>1, Initially, Inductive, PTL DEF Spec

(***************************************************************************)
(* The scheduler, the search for an instance and the query of the Checker  *)
(* mean the same by a group.                                               *)
(***************************************************************************)
THEOREM ChecksMatchTheSchedule ==
  ASSUME NamesAreGiven
  PROVE  Spec => []SchedulesMatchChecks
<1>1. IInv => SchedulesMatchChecks
  <2> SUFFICES ASSUME IInv, NEW v \in victims, NEW w \in victims
               PROVE  SameGroup(Request(v.instance), Request(w.instance)) <=> v.group = w.group
    BY DEF SchedulesMatchChecks
  <2>1. /\ v.instance \in ServerGroups /\ v.group \in groups /\ In(v.group, v.instance)
        /\ w.instance \in ServerGroups /\ w.group \in groups /\ In(w.group, w.instance)
    BY DEF IInv, TypeOK, NothingProtectedIsFound
  <2>2. /\ v.group = GroupFor(AppName, config.grouping, config.regionsAreIndependent, v.instance)
        /\ w.group = GroupFor(AppName, config.grouping, config.regionsAreIndependent, w.instance)
    BY <2>1, TheGroupOfAnInstance
  <2>3. config.grouping \in {"app", "stack", "cluster"} /\ config.regionsAreIndependent \in BOOLEAN
    BY SelectionAssumption DEF IInv, TypeOK
  <2> QED
    BY <2>1, <2>2, <2>3, QueriesMeanTheSame
<1> QED
  BY <1>1, Initially, Inductive, PTL DEF Spec
=============================================================================
