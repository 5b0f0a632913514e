----------------------------- MODULE Population -----------------------------
(***************************************************************************)
(* The command "schedule" up to the crontab, as the two goroutines it      *)
(* consists of.  Spinnaker.Apps surveys one application after the other    *)
(* and sends each over an unbuffered channel; Schedule.Populate receives   *)
(* them, asks for the configuration of each and schedules its groups,      *)
(* until the channel is closed or max-apps applications have been handled. *)
(* It then goes on to publish the schedule and write the crontab while     *)
(* Apps, which nobody stops, may still be at work.                         *)
(*                                                                         *)
(* A request is made once, so which of them fail is decided beforehand.    *)
(* Termination times are those of DailySchedule and left out here, and so  *)
(* are the panics for hours and locations that do not make sense.          *)
(***************************************************************************)
EXTENDS Integers, FiniteSets, Sequences, InstanceGroups, AppConfig

CONSTANTS
  Applications,
  Places,        \* where they run: account, region and cluster
  Situations,    \* what Spinnaker has on each application, and what fails
  Lists,         \* the lists of applications there may be to schedule
  Limits         \* the values of chaosmonkey.max_apps

\* A situation is a function on Applications: the document, and the request
\* that fails: for the clusters, the provider of an account, the server
\* groups of some cluster, the configuration, or none.
Requests == {"none", "clusters", "provider", "asgs", "config"}

\* There may be no document; a missing time is the empty set.
IsDocument(d) ==
  /\ \A cm, other \in d : cm = other
  /\ \A cm \in d : cm.regionsAreIndependent \in BOOLEAN /\ cm.mean \subseteq Int

IsSituation(s) ==
  \A a \in Applications : s[a].fails \in Requests /\ IsDocument(s[a].document)

ASSUME PopulationAssumption ==
  /\ \A p \in Places : p.cluster.app \in Applications
  /\ \A s \in Situations : IsSituation(s)
  /\ Lists \subseteq Seq(Applications)
  /\ Limits \subseteq Nat

VARIABLES
  situation,
  maxApps,
  apps,       \* the names of the applications
  surveyed,   \* how many of them Apps is done with
  producer,   \* what Apps does next
  app,        \* the deploy.App it is building
  todo,       \* the clusters it has still to ask about
  main,       \* what the command does next
  i,          \* the applications Populate has counted
  current,    \* the one it has received
  entries     \* the groups that are scheduled

world == <<situation, maxApps>>
survey == <<surveyed, producer, app, todo>>
schedule == <<i, current, entries>>
vars == <<world, apps, survey, main, schedule>>

NoApp == [name |-> Blank, accounts |-> {}, clusters |-> {}]

Alive == main \notin {"exited", "failed", "fatal", "panic"}

Fails(request) == situation[apps[surveyed + 1]].fails = request

PlacesOf(a) == {p \in Places : p.cluster.app = a}

Accounts == {p.account : p \in Places}
ClusterNames == {p.cluster : p \in Places}
AllRegions == {p.region : p \in Places}

DeployApp ==
  [name: Applications \cup {Blank},
   accounts: SUBSET Accounts,
   clusters: SUBSET [account: Accounts, cluster: ClusterNames, regions: SUBSET AllRegions]]

TypeOK ==
  /\ IsSituation(situation) /\ maxApps \in Limits /\ apps \in Lists
  /\ surveyed \in 0 .. Len(apps)
  /\ producer \in {"idle", "next", "asgs", "send", "closed"}
  /\ app \in DeployApp
  /\ producer \in {"asgs", "send"} => surveyed < Len(apps) /\ app.name = apps[surveyed + 1]
  /\ todo \subseteq [account: Accounts, cluster: ClusterNames]
  /\ producer # "asgs" => todo = {}
  /\ main \in {"names", "receive", "config", "publish", "register",
               "exited", "failed", "fatal", "panic"}
  /\ main = "names" => producer = "idle"
  /\ i \in Nat /\ i <= maxApps /\ i <= surveyed
  /\ current \in DeployApp
  /\ main = "config" => i > 0 /\ current.name \in Applications
  /\ \A g \in entries : g.app \in Applications

Init ==
  /\ situation \in Situations
  /\ maxApps \in Limits
  /\ apps \in Lists
  /\ surveyed = 0
  /\ producer = "idle"
  /\ app = NoApp
  /\ todo = {}
  /\ main = "names"
  /\ i = 0
  /\ current = NoApp
  /\ entries = {}

---------------------------------------------------------------------------
(* Populate up to the loop.  An empty list is asked for again.             *)

StartApps ==
  /\ main = "names"
  /\ IF apps = <<>> THEN apps' \in Lists ELSE apps' = apps
  /\ main' = "receive"
  /\ producer' = "next"
  /\ UNCHANGED <<world, surveyed, app, todo, schedule>>

AppNamesFails ==
  /\ main = "names"
  /\ apps = <<>>
  /\ main' = "failed"
  /\ UNCHANGED <<world, apps, survey, schedule>>

---------------------------------------------------------------------------
(* Apps and GetApp. *)

ListClusters ==
  /\ Alive /\ producer = "next"
  /\ surveyed < Len(apps)
  /\ ~Fails("clusters")
  /\ LET here == PlacesOf(apps[surveyed + 1]) IN
       /\ todo' = {[account |-> p.account, cluster |-> p.cluster] : p \in here}
       /\ app' = [name |-> apps[surveyed + 1],
                  accounts |-> {p.account : p \in here},
                  clusters |-> {}]
  /\ producer' = "asgs"
  /\ UNCHANGED <<world, apps, surveyed, main, schedule>>

\* log.Fatalln ends the process, whatever the other goroutine is doing.
ListClustersFails ==
  /\ Alive /\ producer = "next"
  /\ surveyed < Len(apps)
  /\ Fails("clusters")
  /\ main' = "fatal"
  /\ UNCHANGED <<world, apps, survey, schedule>>

\* A mistake: the other applications are skipped as well.
CloudProviderEndsApps ==
  /\ Alive /\ producer = "asgs"
  /\ app.accounts # {} /\ Fails("provider")
  /\ surveyed' = Len(apps)
  /\ app' = NoApp
  /\ todo' = {}
  /\ producer' = "next"
  /\ UNCHANGED <<world, apps, main, schedule>>

CloudProviderFails ==
  /\ Alive /\ producer = "asgs"
  /\ app.accounts # {} /\ Fails("provider")
  /\ surveyed' = surveyed + 1
  /\ app' = NoApp
  /\ todo' = {}
  /\ producer' = "next"
  /\ UNCHANGED <<world, apps, main, schedule>>

AddCluster(c, regions) ==
  /\ Alive /\ producer = "asgs"
  /\ ~Fails("provider")
  /\ c \in todo
  /\ todo' = todo \ {c}
  /\ app' = [app EXCEPT !.clusters = @ \cup
               {[account |-> c.account, cluster |-> c.cluster, regions |-> regions]}]
  /\ UNCHANGED <<world, apps, surveyed, producer, main, schedule>>

ReadServerGroups(c) ==
  AddCluster(c, {p.region : p \in {q \in Places : q.account = c.account /\ q.cluster = c.cluster}})

\* A warning is logged; the cluster stays in the application, without regions.
ReadServerGroupsFails(c) == Fails("asgs") /\ AddCluster(c, {})

NewApp ==
  /\ Alive /\ producer = "asgs"
  /\ todo = {}
  /\ app.accounts = {} \/ ~Fails("provider")
  /\ producer' = "send"
  /\ UNCHANGED <<world, apps, surveyed, app, todo, main, schedule>>

Close ==
  /\ Alive /\ producer = "next"
  /\ surveyed = Len(apps)
  /\ producer' = "closed"
  /\ UNCHANGED <<world, apps, surveyed, app, todo, main, schedule>>

---------------------------------------------------------------------------
(* The channel and the loop of Populate. *)

\* c <- app meets range c; the application is dropped when the maximum is reached.
Sent ==
  /\ main = "receive" /\ producer = "send"
  /\ surveyed' = surveyed + 1
  /\ app' = NoApp
  /\ producer' = "next"
  /\ UNCHANGED <<world, apps, todo, entries>>

\* A mistake: one application too many.
ReceiveOneMore ==
  /\ Sent
  /\ i <= maxApps
  /\ i' = i + 1
  /\ current' = app
  /\ main' = "config"

Receive ==
  /\ Sent
  /\ i < maxApps
  /\ i' = i + 1
  /\ current' = app
  /\ main' = "config"

\* A mistake: the maximum is looked at before the next application is received.
LeaveLoopUnasked ==
  /\ main = "receive"
  /\ i >= maxApps
  /\ main' = "publish"
  /\ UNCHANGED <<world, apps, survey, schedule>>

LeaveLoop ==
  /\ Sent
  /\ i >= maxApps
  /\ main' = "publish"
  /\ UNCHANGED <<i, current>>

Drained ==
  /\ main = "receive" /\ producer = "closed"
  /\ main' = "publish"
  /\ UNCHANGED <<world, apps, survey, schedule>>

AppConfigOf(a) ==
  IF situation[a].fails = "config" THEN {} ELSE FromJSON(situation[a].document)

Handled ==
  /\ main = "config"
  /\ current' = NoApp
  /\ UNCHANGED <<world, apps, survey, i>>

\* A mistake: a configuration that cannot be had is asked for again.
SkipAppLater ==
  /\ main = "config"
  /\ AppConfigOf(current.name) = {}
  /\ UNCHANGED vars

SkipApp ==
  /\ Handled
  /\ AppConfigOf(current.name) = {}
  /\ main' = "receive"
  /\ UNCHANGED entries

\* shouldKillInstance: the sample is below 1, so a mean of one day kills for sure.
Coins(groups, mean) == {chosen \in SUBSET groups : mean = 1 => chosen = groups}

Groups(cfg) ==
  IF cfg.enabled
  THEN EligibleInstanceGroups(current, cfg.grouping, cfg.regionsAreIndependent)
  ELSE {}

\* The stack of a cluster cannot be told, or the odds of a group.
Panics(cfg) ==
  \/ cfg.enabled /\ StackNamePanics(current, cfg.grouping)
  \/ Groups(cfg) # {} /\ cfg.mean <= 0

\* doScheduleApp
ScheduleApp ==
  /\ Handled
  /\ \E cfg \in AppConfigOf(current.name) :
       IF Panics(cfg)
       THEN main' = "panic" /\ UNCHANGED entries
       ELSE /\ \E chosen \in Coins(Groups(cfg), cfg.mean) : entries' = entries \cup chosen
            /\ main' = "receive"

---------------------------------------------------------------------------
(* deploySchedule.  The default constrainer leaves the schedule as it is.  *)

Deploys(at, then) ==
  /\ main = at
  /\ main' = then
  /\ UNCHANGED <<world, apps, survey, schedule>>

Publish == Deploys("publish", "register") \/ Deploys("publish", "failed")

RegisterWithCron == Deploys("register", "exited") \/ Deploys("register", "failed")

Finished == ~Alive /\ UNCHANGED vars

---------------------------------------------------------------------------
AppsStep ==
  \/ ListClusters \/ ListClustersFails \/ CloudProviderFails
  \/ \E c \in todo : ReadServerGroups(c) \/ ReadServerGroupsFails(c)
  \/ NewApp \/ Close

MainStep ==
  \/ StartApps \/ AppNamesFails
  \/ Receive \/ LeaveLoop \/ Drained
  \/ SkipApp \/ ScheduleApp
  \/ Publish \/ RegisterWithCron

Next == AppsStep \/ MainStep \/ Finished

\* Requests are answered, and the scheduler of Go runs both goroutines.
Spec == Init /\ [][Next]_vars /\ WF_vars(AppsStep) /\ WF_vars(MainStep)

---------------------------------------------------------------------------
\* The application reaches the channel, if the process does not die of it.
Answers(a) == situation[a].fails = "provider" => PlacesOf(a) = {}

Answering(n) == Cardinality({k \in 1 .. n : Answers(apps[k])})

\* Those of the first n applications that are among the first max-apps to reach it.
ConsideredOf(n) ==
  {apps[k] : k \in {l \in 1 .. n : Answers(apps[l]) /\ Answering(l) <= maxApps}}

\* The group is of the shape that the document of its application asks for.
AskedFor(g, cm) ==
  /\ TRUE \in cm.enabled
  /\ AnyCluster(g) <=> cm.grouping # "cluster"
  /\ AnyStack(g) <=> cm.grouping # "stack"
  /\ AnyRegion(g) <=> ~cm.regionsAreIndependent

\* The document asks for a termination from every group on every working day.
Daily(cm) ==
  /\ cm.enabled = {TRUE} /\ cm.mean = {1} /\ cm.min # {}
  /\ cm.grouping \in {"app", "stack", "cluster"}
  /\ cm.exceptions = {}

(***************************************************************************)
(* The schedule that is published is what the owners asked for: it has     *)
(* groups of the first max-apps applications that can be surveyed only,    *)
(* divided the way the document of the application says, and where a       *)
(* document asks for daily terminations every place the application runs   *)
(* in, if its name can be parsed, is in one.  An application with a        *)
(* failing request or an unusable document costs the others nothing.       *)
(***************************************************************************)
OwnersGetTheirSchedule ==
  main \in {"publish", "register", "exited"} =>
    /\ \A g \in entries :
         /\ g.app \in ConsideredOf(Len(apps))
         /\ \E cm \in situation[g.app].document : AskedFor(g, cm)
    /\ \A p \in Places :
         LET a == p.cluster.app IN
           /\ Parses(p.cluster)
           /\ a \in ConsideredOf(Len(apps))
           /\ situation[a].fails = "none"
           /\ \E cm \in situation[a].document : Daily(cm)
           => \E g \in entries : Contains(g, p.account, p.region, p.cluster)

(***************************************************************************)
(* What ends the scheduling of all applications.  The command panics only  *)
(* on an application that is divided by stack and has a cluster with a     *)
(* name that cannot be parsed, never on a document alone.  The goroutine   *)
(* of Apps ends it on a request for clusters only; and when it does so     *)
(* after the loop has ended, with the schedule published perhaps and the   *)
(* crontab not written, more than max-apps applications had been surveyed. *)
(* Without a limit that cuts the list short, publishing is safe from it.   *)
(***************************************************************************)
DeathsHaveACause ==
  [][/\ main' = "panic" /\ main # "panic" =>
          /\ \E cm \in situation[current.name].document : Enabled(cm) /\ cm.grouping = "stack"
          /\ \E p \in PlacesOf(current.name) : ~Parses(p.cluster)
     /\ main' = "fatal" /\ main # "fatal" =>
          /\ Fails("clusters")
          /\ main \in {"publish", "register"} => Answering(surveyed) > maxApps]_vars

(***************************************************************************)
(* The command ends: neither goroutine waits for the other for ever,       *)
(* although Apps may be left waiting for a receiver that has gone.         *)
(***************************************************************************)
CommandEnds == <>(main \in {"exited", "failed", "fatal", "panic"})
=============================================================================
