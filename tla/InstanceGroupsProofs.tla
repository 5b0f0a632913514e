------------------------ MODULE InstanceGroupsProofs ------------------------
(***************************************************************************)
(* Lemmas about the groups that EligibleInstanceGroups returns: what they  *)
(* are made of, that the group of something can be told from it, and that  *)
(* everything the application has is in one.  The proofs of Selection and  *)
(* of Population rest on them.                                             *)
(***************************************************************************)
EXTENDS InstanceGroups, TLAPS

(***************************************************************************)
(* The group that something belongs to, by what it is and how the          *)
(* application is divided.                                                 *)
(***************************************************************************)
GroupFor(name, grouping, independent, x) ==
  New(name, x.account, IF independent THEN x.region ELSE Blank,
      IF grouping = "stack" THEN x.cluster.stack ELSE Blank,
      IF grouping = "cluster" THEN x.cluster ELSE NoCluster)

(***************************************************************************)
(* New has no more in it than its arguments.                               *)
(***************************************************************************)
LEMMA NewFields ==
  ASSUME NEW n, NEW a, NEW r, NEW s, NEW c
  PROVE  /\ New(n, a, r, s, c).app = n /\ New(n, a, r, s, c).account = a
         /\ New(n, a, r, s, c).region = r /\ New(n, a, r, s, c).stack = s
         /\ New(n, a, r, s, c).cluster = c
  BY DEF New

(***************************************************************************)
(* Each group that EligibleInstanceGroups returns is the group of a        *)
(* cluster of the application in one of its regions, except that grouping  *)
(* by application may return an account without any.                       *)
(***************************************************************************)
LEMMA GroupsComeFromClusters ==
  ASSUME NEW a, NEW grouping \in {"app", "stack", "cluster"}, NEW independent \in BOOLEAN,
         NEW g \in EligibleInstanceGroups(a, grouping, independent)
  PROVE  \E account, region, stack, cluster :
            /\ g = New(a.name, account, region, stack, cluster)
            /\ IF independent THEN \E c \in a.clusters : region \in c.regions ELSE region = Blank
            /\ IF grouping = "stack" THEN \E c \in a.clusters : stack = c.cluster.stack
                                     ELSE stack = Blank
            /\ IF grouping = "cluster" THEN \E c \in a.clusters : cluster = c.cluster
                                       ELSE cluster = NoCluster
<1> USE DEF EligibleInstanceGroups
<1>1. CASE independent /\ grouping = "app"
  <2>1. PICK x \in a.accounts : \E r \in RegionNames(a, x) :
          g = New(a.name, x, r, Blank, NoCluster)
    BY <1>1 DEF AppIndep
  <2> QED
    BY <1>1, <2>1 DEF RegionNames, Clusters
<1>2. CASE independent /\ grouping = "stack"
  <2>1. PICK c \in a.clusters : \E r \in c.regions :
          g = New(a.name, c.account, r, c.cluster.stack, NoCluster)
    BY <1>2 DEF StackIndep
  <2> QED
    BY <1>2, <2>1
<1>3. CASE independent /\ grouping = "cluster"
  <2>1. PICK c \in a.clusters : \E r \in c.regions :
          g = New(a.name, c.account, r, Blank, c.cluster)
    BY <1>3 DEF ClusterIndep
  <2> QED
    BY <1>3, <2>1
<1>4. CASE ~independent /\ grouping = "app"
  <2>1. PICK x \in a.accounts : g = New(a.name, x, Blank, Blank, NoCluster)
    BY <1>4 DEF AppDep
  <2> QED
    BY <1>4, <2>1
<1>5. CASE ~independent /\ grouping = "stack"
  <2>1. PICK x \in a.accounts : \E s \in StackNames(a, x) :
          g = New(a.name, x, Blank, s, NoCluster)
    BY <1>5 DEF StackDep
  <2> QED
    BY <1>5, <2>1 DEF StackNames, Clusters
<1>6. CASE ~independent /\ grouping = "cluster"
  <2>1. PICK c \in a.clusters : g = New(a.name, c.account, Blank, Blank, c.cluster)
    BY <1>6 DEF ClusterDep
  <2> QED
    BY <1>6, <2>1
<1> QED
  BY <1>1, <1>2, <1>3, <1>4, <1>5, <1>6

(***************************************************************************)
(* What grp.Contains takes to be in a group of the schedule belongs to no  *)
(* other: the group can be told from it.  This needs regions, and stacks   *)
(* where groups are stacks, to have names, as a Blank is not compared.     *)
(***************************************************************************)
LEMMA TheGroupOfAMember ==
  ASSUME NEW a, NEW grouping \in {"app", "stack", "cluster"}, NEW independent \in BOOLEAN,
         NEW g \in EligibleInstanceGroups(a, grouping, independent),
         \A c \in a.clusters : /\ c.cluster # NoCluster
                               /\ grouping = "stack" => c.cluster.stack # Blank
                               /\ Blank \notin c.regions,
         NEW x, Contains(g, x.account, x.region, x.cluster)
  PROVE  g = GroupFor(a.name, grouping, independent, x)
<1>1. PICK account, region, stack, cluster :
        /\ g = New(a.name, account, region, stack, cluster)
        /\ IF independent THEN \E c \in a.clusters : region \in c.regions ELSE region = Blank
        /\ IF grouping = "stack" THEN \E c \in a.clusters : stack = c.cluster.stack
                                 ELSE stack = Blank
        /\ IF grouping = "cluster" THEN \E c \in a.clusters : cluster = c.cluster
                                   ELSE cluster = NoCluster
  BY GroupsComeFromClusters
<1>2. /\ g.account = account /\ g.region = region /\ g.stack = stack /\ g.cluster = cluster
  BY <1>1, NewFields
<1>3. account = x.account
  BY <1>2 DEF Contains
<1>4. region = IF independent THEN x.region ELSE Blank
  BY <1>1, <1>2 DEF Contains, AnyRegion
<1>5. stack = IF grouping = "stack" THEN x.cluster.stack ELSE Blank
  BY <1>1, <1>2 DEF Contains, AnyStack
<1>6. cluster = IF grouping = "cluster" THEN x.cluster ELSE NoCluster
  BY <1>1, <1>2 DEF Contains, AnyCluster
<1> QED
  BY <1>1, <1>3, <1>4, <1>5, <1>6 DEF GroupFor

(***************************************************************************)
(* What the application has somewhere belongs to a group of the schedule,  *)
(* if its name can be taken apart.                                         *)
(***************************************************************************)
LEMMA EveryMemberHasAGroup ==
  ASSUME NEW a, NEW grouping \in {"app", "stack", "cluster"}, NEW independent \in BOOLEAN,
         NEW x, x.account \in a.accounts, x.cluster.app = a.name, Parses(x.cluster),
         NEW c \in a.clusters, c.account = x.account, c.cluster = x.cluster, x.region \in c.regions
  PROVE  \E g \in EligibleInstanceGroups(a, grouping, independent) :
           Contains(g, x.account, x.region, x.cluster)
<1> DEFINE g == GroupFor(a.name, grouping, independent, x)
<1>1. Contains(g, x.account, x.region, x.cluster)
  <2>1. /\ g.app = a.name /\ g.account = x.account
        /\ g.region = IF independent THEN x.region ELSE Blank
        /\ g.stack = IF grouping = "stack" THEN x.cluster.stack ELSE Blank
        /\ g.cluster = IF grouping = "cluster" THEN x.cluster ELSE NoCluster
    BY NewFields DEF GroupFor
  <2> HIDE DEF g
  <2> QED
    BY <2>1 DEF Contains, AnyRegion, AnyStack, AnyCluster
<1>2. g \in EligibleInstanceGroups(a, grouping, independent)
  <2> USE DEF EligibleInstanceGroups, GroupFor
  <2>0. c \in Clusters(a, x.account)
    BY DEF Clusters
  <2>1. CASE independent /\ grouping = "app"
    <3>1. x.region \in RegionNames(a, x.account)
      BY <2>0 DEF RegionNames
    <3>2. New(a.name, x.account, x.region, Blank, NoCluster) \in AppIndep(a)
      BY <3>1 DEF AppIndep
    <3> QED
      BY <2>1, <3>2
  <2>2. CASE independent /\ grouping = "stack"
    <3>1. New(a.name, c.account, x.region, c.cluster.stack, NoCluster) \in StackIndep(a)
      BY DEF StackIndep
    <3> QED
      BY <2>2, <3>1
  <2>3. CASE independent /\ grouping = "cluster"
    <3>1. New(a.name, c.account, x.region, Blank, c.cluster) \in ClusterIndep(a)
      BY DEF ClusterIndep
    <3> QED
      BY <2>3, <3>1
  <2>4. CASE ~independent /\ grouping = "app"
    <3>1. New(a.name, x.account, Blank, Blank, NoCluster) \in AppDep(a)
      BY DEF AppDep
    <3> QED
      BY <2>4, <3>1
  <2>5. CASE ~independent /\ grouping = "stack"
    <3>1. x.cluster.stack \in StackNames(a, x.account)
      BY <2>0 DEF StackNames
    <3>2. New(a.name, x.account, Blank, x.cluster.stack, NoCluster) \in StackDep(a)
      BY <3>1 DEF StackDep
    <3> QED
      BY <2>5, <3>2
  <2>6. CASE ~independent /\ grouping = "cluster"
    <3>1. New(a.name, c.account, Blank, Blank, c.cluster) \in ClusterDep(a)
      BY DEF ClusterDep
    <3> QED
      BY <2>6, <3>1
  <2> QED
    BY <2>1, <2>2, <2>3, <2>4, <2>5, <2>6
<1> QED
  BY <1>1, <1>2
=============================================================================
