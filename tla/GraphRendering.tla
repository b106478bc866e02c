--------------------------- MODULE GraphRendering ---------------------------
(***************************************************************************)
(* The 3D view of the graph, which is changed step by step to follow the   *)
(* data (web/components/GraphView.svelte, web/lib/graphReconcile.ts,       *)
(* nodeRenderer.ts, clustering.ts, graphFilters.ts).                       *)
(*                                                                         *)
(* Of what a node looks like, its status and its warning ring are kept:    *)
(* one depends on the node, the other on what it depends on.  The engine   *)
(* that draws is external: it drops the objects of nodes that are gone     *)
(* when it is given new data, and builds those of new nodes later.         *)
(***************************************************************************)
EXTENDS FiniteSets, Naturals

CONSTANTS
  Services,      \* identities of nodes
  Dependencies,  \* pairs of a node and one it may depend on
  Project,       \* the project of each node
  Host           \* and its host

VARIABLES
  data,      \* the graph: nodes, the ones that are well, links
  mounted,   \* the view is shown
  snapshot,  \* currentSnapshot
  drawn,     \* node objects: function from nodes to looks
  rings,     \* warningRings, by node
  scope,     \* the projects the filter lets through
  clusters, hostClusters,  \* clusterMap, hostClusterMap
  framed     \* nothing changed since the last animation frame

vars == <<data, mounted, snapshot, drawn, rings, scope, clusters, hostClusters,
          framed>>

Projects == {Project[n] : n \in Services}
Hosts == {Host[n] : n \in Services}

Graphs ==
  {g \in [nodes : SUBSET Services, well : SUBSET Services, links : SUBSET Dependencies] :
     g.well \subseteq g.nodes /\ \A l \in g.links : {l[1], l[2]} \subseteq g.nodes}

\* hasBrokenDependency
HasBrokenDependency(n, g) == \E l \in g.links : l[1] = n /\ l[2] \in g.nodes \ g.well

\* buildNodeObject: what a node looks like in a graph.
Look(n, g) ==
  [well |-> n \in g.well, ring |-> n \in g.well /\ HasBrokenDependency(n, g)]

-----------------------------------------------------------------------------
(* What has changed: diffGraphSnapshot.                                    *)

Added(old, new) == new.nodes \ old.nodes
StatusChanged(old, new) == {n \in old.nodes \cap new.nodes : (n \in old.well) # (n \in new.well)}
LinksChanged(old, new) == old.links # new.links
NeedsGraphDataUpdate(old, new) == old.nodes # new.nodes \/ LinksChanged(old, new)

\* Defect: the nodes that depend on a changed one are not refreshed.
MutNodesToRefresh(old, new) ==
  IF LinksChanged(old, new) THEN new.nodes ELSE StatusChanged(old, new)

NodesToRefresh(old, new) ==
  IF LinksChanged(old, new) THEN new.nodes
  ELSE StatusChanged(old, new)
         \cup {l[1] : l \in {x \in new.links : x[2] \in StatusChanged(old, new)}}

-----------------------------------------------------------------------------
(* Graph and view.                                                         *)

\* refreshNodeObject, for the ones that are drawn.
Refreshed(g) ==
  [n \in DOMAIN drawn \cap g.nodes |->
     IF n \in NodesToRefresh(snapshot, g) THEN Look(n, g) ELSE drawn[n]]

\* syncWarningRingsFromGraph
Rings(objects) == {n \in DOMAIN objects : objects[n].ring}

\* The effect on data.
Reconcile(g) ==
  LET changed == NeedsGraphDataUpdate(snapshot, g) \/ StatusChanged(snapshot, g) # {}
  IN /\ snapshot' = g
     /\ drawn' = IF changed THEN Refreshed(g) ELSE drawn
     /\ rings' = IF changed THEN Rings(Refreshed(g)) ELSE rings

SetData(g) ==
  /\ g # data /\ data' = g /\ framed' = FALSE
  /\ IF mounted THEN Reconcile(g) ELSE UNCHANGED <<snapshot, drawn, rings>>
  /\ UNCHANGED <<mounted, scope, clusters, hostClusters>>

\* The engine builds an object, with the data of that moment.
BuildNodeObject(n) ==
  /\ mounted /\ n \in data.nodes \ DOMAIN drawn
  /\ drawn' = [m \in DOMAIN drawn \cup {n} |-> IF m = n THEN Look(n, data) ELSE drawn[m]]
  /\ rings' = rings \cup {m \in {n} : Look(m, data).ring}
  /\ framed' = FALSE
  /\ UNCHANGED <<data, mounted, snapshot, scope, clusters, hostClusters>>

Mount ==
  /\ ~mounted /\ mounted' = TRUE
  /\ snapshot' = data
  /\ UNCHANGED <<data, drawn, rings, scope, clusters, hostClusters, framed>>

\* cleanupAllClusters: the clusters are kept outside the view.
Unmount ==
  /\ mounted /\ mounted' = FALSE
  /\ clusters' = {} /\ hostClusters' = {} /\ drawn' = <<>> /\ rings' = {} /\ framed' = FALSE
  /\ UNCHANGED <<data, snapshot, scope>>

SetScope(projects) ==
  /\ scope' = projects /\ framed' = FALSE
  /\ UNCHANGED <<data, mounted, snapshot, drawn, rings, clusters, hostClusters>>

-----------------------------------------------------------------------------
(* Clusters, for each frame.                                               *)

\* isNodeVisible
Visible == {n \in data.nodes : Project[n] \in scope}

OfProject(p) == {n \in Visible : Project[n] = p}
SeenHosts == {Host[n] : n \in Visible}

\* updateClusters: a cluster of a project is added or moved for two members, and
\* those of fewer are removed; one of a host, when there are several hosts.
AnimationFrame ==
  /\ mounted
  /\ LET large == {p \in Projects : Cardinality(OfProject(p)) >= 2}
         stale == {p \in clusters : Cardinality(OfProject(p)) < 2}
         several == Cardinality(SeenHosts) > 1
     IN /\ clusters' = (clusters \cup large) \ stale
        /\ hostClusters' =
             (hostClusters \cup {h \in SeenHosts : several})
               \ {h \in hostClusters : ~several \/ h \notin SeenHosts}
  /\ framed' = TRUE
  /\ UNCHANGED <<data, mounted, snapshot, drawn, rings, scope>>

-----------------------------------------------------------------------------
Init ==
  /\ data = [nodes |-> {}, well |-> {}, links |-> {}]
  /\ mounted = TRUE /\ snapshot = data /\ drawn = <<>> /\ rings = {}
  /\ scope = Projects /\ clusters = {} /\ hostClusters = {} /\ framed = FALSE

Next ==
  \/ \E g \in Graphs : SetData(g)
  \/ \E n \in Services : BuildNodeObject(n)
  \/ Mount \/ Unmount \/ \E ps \in SUBSET Projects : SetScope(ps)
  \/ AnimationFrame

Spec == Init /\ [][Next]_vars

-----------------------------------------------------------------------------
(* Properties.                                                             *)

TypeOK ==
  /\ {data, snapshot} \subseteq Graphs /\ mounted \in BOOLEAN /\ framed \in BOOLEAN
  /\ DOMAIN drawn \subseteq Services /\ rings \subseteq Services
  /\ scope \subseteq Projects /\ clusters \subseteq Projects /\ hostClusters \subseteq Hosts

\* The view that is changed step by step is the one a rebuild from the data would
\* give: every object looks as its node, and its dependencies, are; the rings that
\* pulse are those of the objects; the clusters are those of the frame, and none
\* is left when the view is closed (web/components/GraphView.svelte, nodeRenderer.ts).
ViewIsOfData ==
  /\ DOMAIN drawn \subseteq data.nodes
  /\ \A n \in DOMAIN drawn : drawn[n] = Look(n, data)
  /\ rings = Rings(drawn)
  /\ framed => clusters = {p \in Projects : Cardinality(OfProject(p)) >= 2}
  /\ framed => hostClusters = {h \in SeenHosts : Cardinality(SeenHosts) > 1}
  /\ ~mounted => clusters = {} /\ hostClusters = {}
=============================================================================
