---------------------------- MODULE MCSelection ----------------------------
(* Instances of Selection for TLC. *)
EXTENDS Selection

Cluster(stack, detail) == [app |-> "foo", stack |-> stack, detail |-> detail]

ServerGroup(account, region, stack, detail, version) ==
  [account |-> account, region |-> region, cluster |-> Cluster(stack, detail), version |-> version]

\* Two accounts with a cluster in two regions each, a red/black push of one of them under
\* way, and a canary of another stack.
WithCanary ==
  {ServerGroup("prod", "east", "crit", Blank, 1),
   ServerGroup("prod", "west", "crit", Blank, 1),
   ServerGroup("prod", "west", "crit", Blank, 2),
   ServerGroup("prod", "west", "beta", "canary", 1),
   ServerGroup("test", "east", "crit", Blank, 1),
   ServerGroup("test", "west", "crit", Blank, 1)}

Optout(account, stack, detail, region) ==
  [account |-> account, stack |-> stack, detail |-> detail, region |-> region]

\* The exception of a region is there all day, that of the whole account is not.
StandingException ==
  {{Optout("test", "crit", Blank, "west")},
   {Optout("test", "crit", Blank, "west"), Optout("test", "*", "*", "*")}}
=============================================================================
