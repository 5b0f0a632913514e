---------------------------- MODULE MCPopulation ----------------------------
(* Instances of Population for TLC. *)
EXTENDS Population, TLC

Cluster(a, stack) == [app |-> a, stack |-> stack, detail |-> Blank]

Place(account, region, cluster) == [account |-> account, region |-> region, cluster |-> cluster]

\* The first application has two accounts, two regions and two stacks, and the last
\* one a cluster with a name that cannot be parsed.
SmallCloud ==
  {Place("prod", "east", Cluster("foo", "crit")),
   Place("prod", "west", Cluster("foo", "beta")),
   Place("test", "west", Cluster("foo", "crit")),
   Place("prod", "east", Cluster("bar", "crit")),
   Place("test", "east", Cluster("baz", "crit")),
   Place("test", "west", Cluster("baz", Garbled))}

TwoLists == {<<>>, <<"foo", "bar", "baz">>}

Attribute(enabled, mean, min, grouping, independent, exceptions) ==
  [enabled |-> enabled, mean |-> mean, min |-> min, grouping |-> grouping,
   regionsAreIndependent |-> independent, exceptions |-> exceptions]

Optout(account, region) == [account |-> account, stack |-> "*", detail |-> "*", region |-> region]

Plain == {Attribute({TRUE}, {1}, {1}, "cluster", TRUE, {})}

Off == {Attribute({FALSE}, {}, {}, "", FALSE, {})}

\* Every document with each of its fields missing, zero, odd or as it should be.
AllDocuments ==
  {{}} \cup
  {{Attribute(e, m, n, g, r, x)} :
     e \in {{}, {TRUE}, {FALSE}},
     m \in {{}, {0}, {1}, {2}},
     n \in {{}, {1}},
     g \in {"", "app", "stack", "cluster", "clutser"},
     r \in BOOLEAN,
     x \in {{}, {Optout("prod", "*")}, {Optout("", "*")}, {Optout("prod", "")}}}

On(document, fails) == [document |-> document, fails |-> fails]

Divided(grouping, independent) == {Attribute({TRUE}, {1}, {1}, grouping, independent, {})}

\* One application with any document, the others plain; the one with the odd name
\* divided in any way; and any request failing for any application, all of them plain
\* or off.
ManySituations ==
  {("foo" :> On(d, "none") @@ "bar" :> On(Plain, "none") @@ "baz" :> On(Plain, "none")) :
     d \in AllDocuments}
  \cup
  {("foo" :> On(Plain, "none") @@ "bar" :> On(Plain, "none") @@ "baz" :> On(Divided(g, r), "none")) :
     g \in KnownGroupings, r \in BOOLEAN}
  \cup
  [Applications -> {On(d, f) : d \in {Plain, Off}, f \in Requests}]
=============================================================================
