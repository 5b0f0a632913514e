--------------------------- MODULE InstanceGroups ---------------------------
(***************************************************************************)
(* What a group of instances is, in the three places that say so: how the  *)
(* scheduler divides an application into groups (deploy, grp.New), which   *)
(* clusters a group on a command line contains (grp.Contains), and which   *)
(* recorded terminations the query of mysql.Check takes for terminations   *)
(* of the same group.                                                      *)
(*                                                                         *)
(* A cluster is the record of the parts frigga.Parse finds in its name,    *)
(* app-stack-detail; a part that is missing is Blank.  A name that         *)
(* frigga.Parse cannot take apart has Garbled for its stack.               *)
(***************************************************************************)

Blank == ""

Garbled == "?"

Parses(cluster) == cluster.stack # Garbled

NoCluster == [app |-> Blank, stack |-> Blank, detail |-> Blank]

\* grp.New: a Blank stands for any region, stack or cluster.
New(app, account, region, stack, cluster) ==
  [app |-> app, account |-> account, region |-> region, stack |-> stack, cluster |-> cluster]

AnyRegion(g) == g.region = Blank
AnyStack(g) == g.stack = Blank
AnyCluster(g) == g.cluster = NoCluster

\* A mistake: the stack of the cluster is not looked at.
ContainsAnyStack(g, account, region, cluster) ==
  /\ Parses(cluster)
  /\ cluster.app = g.app
  /\ account = g.account
  /\ AnyRegion(g) \/ region = g.region
  /\ AnyCluster(g) \/ cluster = g.cluster

Contains(g, account, region, cluster) ==
  /\ Parses(cluster)
  /\ cluster.app = g.app
  /\ account = g.account
  /\ AnyRegion(g) \/ region = g.region
  /\ AnyStack(g) \/ cluster.stack = g.stack
  /\ AnyCluster(g) \/ cluster = g.cluster

---------------------------------------------------------------------------
(* A deploy.App: its name, its accounts, and its clusters with the account *)
(* of each and the regions in which it has an enabled server group.        *)

Clusters(app, account) == {c \in app.clusters : c.account = account}

\* A mistake: a region counts only if every cluster is deployed there.
RegionNamesShared(app, account) ==
  {r \in UNION {c.regions : c \in Clusters(app, account)} :
     \A c \in Clusters(app, account) : r \in c.regions}

RegionNames(app, account) == UNION {c.regions : c \in Clusters(app, account)}

StackNames(app, account) == {c.cluster.stack : c \in Clusters(app, account)}

\* Cluster.StackName panics on a name that cannot be parsed: to divide an application
\* by stack, it is called for every cluster, with or without regions.
StackNamePanics(app, grouping) ==
  grouping = "stack" /\ \E c \in app.clusters : ~Parses(c.cluster)

AppIndep(app) ==
  UNION {{New(app.name, a, r, Blank, NoCluster) : r \in RegionNames(app, a)} : a \in app.accounts}

AppDep(app) == {New(app.name, a, Blank, Blank, NoCluster) : a \in app.accounts}

StackIndep(app) ==
  UNION {{New(app.name, c.account, r, c.cluster.stack, NoCluster) : r \in c.regions} :
           c \in app.clusters}

StackDep(app) ==
  UNION {{New(app.name, a, Blank, s, NoCluster) : s \in StackNames(app, a)} : a \in app.accounts}

\* A mistake: the region is left out of the group.
ClusterIndepRegionless(app) ==
  UNION {{New(app.name, c.account, Blank, Blank, c.cluster) : r \in c.regions} : c \in app.clusters}

ClusterIndep(app) ==
  UNION {{New(app.name, c.account, r, Blank, c.cluster) : r \in c.regions} : c \in app.clusters}

ClusterDep(app) == {New(app.name, c.account, Blank, Blank, c.cluster) : c \in app.clusters}

\* For an application that it does not panic on.
EligibleInstanceGroups(app, grouping, regionsAreIndependent) ==
  IF regionsAreIndependent
  THEN CASE grouping = "app"     -> AppIndep(app)
         [] grouping = "stack"   -> StackIndep(app)
         [] grouping = "cluster" -> ClusterIndep(app)
  ELSE CASE grouping = "app"     -> AppDep(app)
         [] grouping = "stack"   -> StackDep(app)
         [] grouping = "cluster" -> ClusterDep(app)

---------------------------------------------------------------------------
(* The WHERE clause of respectsMinTimeBetweenKills, but for the time.      *)

\* A mistake: an application grouped by stack is compared cluster by cluster.
SameGroupStackAsCluster(r, q) ==
  /\ r.app = q.app
  /\ r.account = q.account
  /\ q.grouping \in {"stack", "cluster"} => r.cluster = q.cluster
  /\ q.regionsAreIndependent => r.region = q.region

SameGroup(r, q) ==
  /\ r.app = q.app
  /\ r.account = q.account
  /\ q.grouping = "stack" => r.stack = q.stack
  /\ q.grouping = "cluster" => r.cluster = q.cluster
  /\ q.regionsAreIndependent => r.region = q.region

---------------------------------------------------------------------------
(* What is never terminated. *)

FieldMatches(field, value) == field = "*" \/ field = value

Matches(ex, account, cluster, region) ==
  /\ FieldMatches(ex.account, account)
  /\ FieldMatches(ex.stack, cluster.stack)
  /\ FieldMatches(ex.detail, cluster.detail)
  /\ FieldMatches(ex.region, region)

IsException(exs, account, cluster, region) ==
  \E ex \in exs : Matches(ex, account, cluster, region)

NeverEligibleSuffixes == {"canary", "baseline", "citrus", "citrusproxy"}

\* A mistake: the details of a cluster are not looked at.
IsNeverEligibleByStack(cluster) == cluster.stack \in NeverEligibleSuffixes

\* The last part of the name; stacks and details are single words here.
IsNeverEligible(cluster) ==
  \/ cluster.detail \in NeverEligibleSuffixes
  \/ cluster.detail = Blank /\ cluster.stack \in NeverEligibleSuffixes
=============================================================================
