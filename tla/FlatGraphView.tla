---------------------------- MODULE FlatGraphView ----------------------------
(***************************************************************************)
(* The 2D view of the graph (plugins/official/graph-view-2d/): where the   *)
(* cards are put (layout.ts), and what the view shows and highlights       *)
(* (GraphView.svelte, View.svelte) as the host sends it states and the     *)
(* user chooses nodes, networks and the impact view.                       *)
(*                                                                         *)
(* The host decides on graph, selection and filters: it may send any.  Of  *)
(* the camera only what last moved it is kept.                             *)
(***************************************************************************)
EXTENDS FiniteSets, Naturals, Sequences

CONSTANTS
  Ids,      \* the nodes, in the order of their names
  Groups,   \* pairs of a source and a scope, in the order of their keys
  Graphs,   \* records of nodes (functions from ids) and dependencies (pairs)
  Filters,  \* records of a scope ("" for all) and the statuses let through
  None

VARIABLES
  snapshot,  \* [graph, selected, filter], None before the first
  network,   \* selectedNetwork
  impact,    \* impactMode
  sized,     \* the container has a size
  fitted,
  camera     \* what moved it last, and the cards it was to show

vars == <<snapshot, network, impact, sized, fitted, camera>>

CardWidth == 208
CardHeight == 94
ColumnGap == 88
RowGap == 44
GroupGap == 72
Padding == 36

Nodes(graph) == DOMAIN graph.nodes
GroupOf(graph, n) == <<graph.nodes[n].source, graph.nodes[n].scope>>
Largest(S) == CHOOSE x \in S : \A y \in S : y <= x

\* The members of S in the order of a sequence.
InOrder(seq, S) ==
  LET kept[i \in 0..Len(seq)] ==
        IF i = 0 THEN <<>>
        ELSE IF seq[i] \in S THEN Append(kept[i - 1], seq[i]) ELSE kept[i - 1]
  IN kept[Len(seq)]

-----------------------------------------------------------------------------
(* Layout: layoutGraph2d.                                                  *)

\* The members of a group, sorted.
Members(graph, shown, group) ==
  InOrder(Ids, {n \in shown : GroupOf(graph, n) = group})

\* outgoing
Targets(graph, members) ==
  [n \in members |-> {m \in members \ {n} : <<n, m>> \in graph.dependencies}]

\* One turn of the loop over the queue: a node is queued once all its sources are done.
Turn(targets, at, walk) ==
  IF at > Len(walk.queue) THEN walk
  ELSE LET current == walk.queue[at]
           incoming == [n \in DOMAIN targets |->
                          walk.incoming[n] - IF n \in targets[current] THEN 1 ELSE 0]
           ranks == [n \in DOMAIN targets |->
                       IF n \in targets[current]
                         THEN Largest({walk.ranks[n], walk.ranks[current] + 1})
                         ELSE walk.ranks[n]]
           ready == InOrder(Ids, {n \in targets[current] : incoming[n] = 0})
       IN [queue |-> walk.queue \o ready, incoming |-> incoming, ranks |-> ranks]

\* The whole of it: a node is queued once, so there are no more turns than nodes.
Drain(targets) ==
  LET incoming == [n \in DOMAIN targets |->
                     Cardinality({m \in DOMAIN targets : n \in targets[m]})]
      walk[at \in 0..Len(Ids)] ==
        IF at = 0
          THEN [queue |-> InOrder(Ids, {n \in DOMAIN targets : incoming[n] = 0}),
                incoming |-> incoming,
                ranks |-> [n \in DOMAIN targets |-> 0]]
          ELSE Turn(targets, at, walk[at - 1])
  IN walk[Len(Ids)]

\* Defect: what is left on a cycle keeps the rank it was given on the way.
MutRanks(targets) == Drain(targets).ranks

\* The rank of each node; of a node that is never reached, 0.
Ranks(targets) ==
  LET end == Drain(targets)
  IN [n \in DOMAIN targets |-> IF end.incoming[n] > 0 THEN 0 ELSE end.ranks[n]]

\* At most four columns, and no more than the square root, rounded up.
GridColumns(count) ==
  CHOOSE c \in 1..4 : (c = 4 \/ c * c >= count) /\ \A d \in 1..(c - 1) : d * d < count

\* The columns of the members of a group, by their place in it.
Columns(graph, members) ==
  LET targets == Targets(graph, {members[i] : i \in DOMAIN members})
      ranks == Ranks(targets)
      chained == \E n \in DOMAIN targets : targets[n] # {}
  IN [i \in DOMAIN members |->
        IF chained THEN ranks[members[i]] % 4
        ELSE (i - 1) % GridColumns(Len(members))]

RowOf(columns, i) == Cardinality({j \in 1..(i - 1) : columns[j] = columns[i]})

Height(columns) ==
  64 + Largest({RowOf(columns, i) + 1 : i \in DOMAIN columns}) * (CardHeight + RowGap)

Width(columns) ==
  LET count == Largest({columns[i] : i \in DOMAIN columns}) + 1
  IN 2 * Padding + count * CardWidth + (count - 1) * ColumnGap

\* Defect: the height of a group counts the gap between the groups only once.
MutTops(heights) ==
  [i \in 1..Len(heights) |-> IF i = 1 THEN 0 ELSE heights[i - 1] + GroupGap]

\* groupY, for each group in turn.
Tops(heights) ==
  LET top[i \in 1..Len(heights)] ==
        IF i = 1 THEN 0 ELSE top[i - 1] + heights[i - 1] + GroupGap
  IN top

\* Places of cards and outlines of groups.
Layout(graph, shown) ==
  LET groups == InOrder(Groups, {GroupOf(graph, n) : n \in shown})
      members == [i \in 1..Len(groups) |-> Members(graph, shown, groups[i])]
      columns == [i \in 1..Len(groups) |-> Columns(graph, members[i])]
      tops == Tops([i \in 1..Len(groups) |-> Height(columns[i])])
      Of(n) == CHOOSE i \in DOMAIN groups : groups[i] = GroupOf(graph, n)
      At(n) == CHOOSE k \in DOMAIN members[Of(n)] : members[Of(n)][k] = n
  IN [cards |-> {[id |-> n,
                  x |-> Padding + columns[Of(n)][At(n)] * (CardWidth + ColumnGap),
                  y |-> tops[Of(n)] + 64
                          + RowOf(columns[Of(n)], At(n)) * (CardHeight + RowGap)] : n \in shown},
      groups |-> [i \in DOMAIN groups |->
                    [group |-> groups[i], y |-> tops[i], width |-> Width(columns[i]),
                     height |-> Height(columns[i])]]]

-----------------------------------------------------------------------------
(* What is derived from the state.                                         *)

Graph(s) == IF s = None THEN [nodes |-> <<>>, dependencies |-> {}] ELSE s.graph

\* selectedNode: a node of the graph.
Selected(s) == IF s # None /\ s.selected \in Nodes(s.graph) THEN s.selected ELSE None

\* isNodeVisible: in scope, and of a status that is asked for.
IsNodeVisible(node, filter) ==
  /\ filter.scope \in {"", node.scope}
  /\ filter.statuses = {} \/ node.status \in filter.statuses

Scoped(s) == {n \in Nodes(Graph(s)) : IsNodeVisible(s.graph.nodes[n], s.filter)}

\* collectGraph2dNetworks: a network is one of a source.
NetworksOf(graph, n) == {<<graph.nodes[n].source, w>> : w \in graph.nodes[n].networks}
Networks(s) == UNION {NetworksOf(s.graph, n) : n \in Scoped(s)}
NetworkMembers(s, w) ==
  {n \in Scoped(s) : w[1] = s.graph.nodes[n].source /\ w[2] \in s.graph.nodes[n].networks}

\* visibleNodes
Visible == IF network \in Networks(snapshot) THEN NetworkMembers(snapshot, network)
           ELSE Scoped(snapshot)

\* computeImpactNodeIds: rounds over the links until nothing is added, so no more than nodes.
Dependents(ids, links) ==
  LET after[round \in 0..Len(Ids)] ==
        IF round = 0 THEN ids
        ELSE after[round - 1] \cup {l[1] : l \in {k \in links : k[2] \in after[round - 1]}}
  IN after[Len(Ids)]

ImpactIds ==
  IF impact /\ Selected(snapshot) # None
    THEN Dependents({Selected(snapshot)}, Graph(snapshot).dependencies) ELSE {}

\* relatedIds: what is not dimmed, everything when it is empty.
RelatedIds ==
  LET n == Selected(snapshot)
      links == Graph(snapshot).dependencies
  IN IF ImpactIds # {} THEN ImpactIds
     ELSE IF network \in Networks(snapshot) THEN NetworkMembers(snapshot, network)
     ELSE IF n = None THEN {}
     ELSE {n} \cup {l[2] : l \in {k \in links : k[1] = n}}
              \cup {l[1] : l \in {k \in links : k[2] = n}}
              \cup UNION {NetworkMembers(snapshot, w) :
                            w \in {v \in Networks(snapshot) : n \in NetworkMembers(snapshot, v)}}

-----------------------------------------------------------------------------
(* Steps: each ends with the effects of what it changed.                   *)

\* zoomToFit: nothing to fit to leaves the camera alone.
Fit(shown) == IF shown = {} \/ ~sized' THEN camera ELSE [by |-> "fit", on |-> shown]

\* Defect: an effect that forgets the impact view of a node that is gone.
MutImpactAfter(s, mode) == mode

\* The effect on selectedNode.
ImpactAfter(s, mode) == mode /\ Selected(s) # None

\* The effect on networks.
NetworkAfter(s, w) == IF w \in Networks(s) THEN w ELSE None

\* Defect: the view is fitted again for every state of the host.
MutAsksForFit(s, w) == TRUE

\* The effect on the filters and the network.
AsksForFit(s, w) ==
  \/ w # network
  \/ snapshot # None /\ s.filter # snapshot.filter

\* The effects, until they change nothing.
Effects(s, w, mode) ==
  LET shown == IF NetworkAfter(s, w) = None THEN Scoped(s) ELSE NetworkMembers(s, w)
      settled == Nodes(Graph(s)) # {} /\ (fitted \/ sized')
  IN /\ snapshot' = s
     /\ network' = NetworkAfter(s, w)
     /\ impact' = ImpactAfter(s, mode)
     /\ fitted' = settled
     /\ camera' = IF settled /\ (~fitted \/ AsksForFit(s, NetworkAfter(s, w)))
                    THEN Fit(shown) ELSE camera

\* The subscription of View: the host sends a state.
Subscribed(graph, n, filter) ==
  /\ n \in Nodes(graph) \cup {None}
  /\ UNCHANGED sized
  /\ Effects([graph |-> graph, selected |-> n, filter |-> filter], network, impact)

\* The observer of the container.
Resize == /\ ~sized /\ sized' = TRUE /\ snapshot # None /\ Effects(snapshot, network, impact)

\* A card: the choice itself is the host's.
ChooseNode(n) ==
  /\ n \in Visible /\ network # None /\ UNCHANGED sized
  /\ Effects(snapshot, None, impact)

Chip(w) ==
  /\ UNCHANGED sized
  /\ Effects(snapshot, IF network = w THEN None ELSE w, FALSE)

ChooseNetwork(w) == w \in Networks(snapshot) /\ Chip(w)

\* "All"
ResetNetwork ==
  /\ network # None /\ UNCHANGED sized
  /\ Effects(snapshot, None, impact)

ToggleImpactMode ==
  /\ Selected(snapshot) # None /\ UNCHANGED sized
  /\ Effects(snapshot, None, ~impact)

\* resetCamera
ResetCamera ==
  /\ snapshot # None /\ network' = None /\ impact' = FALSE
  /\ UNCHANGED <<snapshot, sized, fitted>>
  /\ camera' = Fit(Scoped(snapshot))

ZoomToFit ==
  /\ snapshot # None /\ UNCHANGED <<snapshot, network, impact, sized, fitted>>
  /\ camera' = Fit(Visible)

\* Panning, zooming, and centerOnNode.
MoveCamera ==
  /\ snapshot # None /\ camera' = [by |-> "user", on |-> {}]
  /\ UNCHANGED <<snapshot, network, impact, sized, fitted>>

CenterOnNode ==
  /\ Selected(snapshot) \in Visible /\ camera' = [by |-> "focus", on |-> {Selected(snapshot)}]
  /\ UNCHANGED <<snapshot, network, impact, sized, fitted>>

-----------------------------------------------------------------------------

Init ==
  /\ snapshot = None /\ network = None /\ impact = FALSE
  /\ sized = FALSE /\ fitted = FALSE /\ camera = [by |-> "none", on |-> {}]

Next ==
  \/ \E graph \in Graphs, filter \in Filters :
       \E n \in Nodes(graph) \cup {None} : Subscribed(graph, n, filter)
  \/ \E n \in Visible : ChooseNode(n)
  \/ \E w \in Networks(snapshot) : ChooseNetwork(w)
  \/ Resize \/ ResetNetwork \/ ToggleImpactMode \/ ResetCamera
  \/ ZoomToFit \/ MoveCamera \/ CenterOnNode

Spec == Init /\ [][Next]_vars

-----------------------------------------------------------------------------
(* Properties.                                                             *)

AllIds == {Ids[i] : i \in DOMAIN Ids}

TypeOK ==
  /\ snapshot = None
     \/ /\ snapshot.graph \in Graphs /\ snapshot.filter \in Filters
        /\ snapshot.selected \in AllIds \cup {None}
  /\ network = None \/ \E g \in Graphs : \E n \in Nodes(g) : network \in NetworksOf(g, n)
  /\ {impact, sized, fitted} \subseteq BOOLEAN
  /\ camera \in [by : {"none", "fit", "user", "focus"}, on : SUBSET AllIds]

\* No two cards overlap, and each is in the outline of its own group and of no other
\* (layout.ts:52).
CardsHaveRoom ==
  LET layout == Layout(Graph(snapshot), Visible)
  IN /\ \A c, d \in layout.cards : c # d =>
          \/ c.x >= d.x + CardWidth \/ d.x >= c.x + CardWidth
          \/ c.y >= d.y + CardHeight \/ d.y >= c.y + CardHeight
     /\ \A c \in layout.cards : \A i \in DOMAIN layout.groups :
          LET g == layout.groups[i]
          IN (GroupOf(snapshot.graph, c.id) = g.group) <=>
               /\ c.y >= g.y /\ c.y + CardHeight <= g.y + g.height
               /\ c.x + CardWidth <= g.width

Before(targets, n) == {m \in DOMAIN targets : n \in targets[m]}

\* A node comes one rank after the last of the nodes it is reached from, and in the first
\* column when it is on a cycle or behind one.
RanksFit(targets, ranks) ==
  LET Endless == UNION {S \in SUBSET DOMAIN targets :
                          \A m \in S : Before(targets, m) \cap S # {}}
  IN \A n \in DOMAIN targets :
       ranks[n] = IF n \in Endless \/ Before(targets, n) = {} THEN 0
                  ELSE 1 + Largest({ranks[m] : m \in Before(targets, n)})

\* The ranks of each group follow its dependencies, cycles apart (layout.ts:76).
RanksFollowDependencies ==
  LET shown == Visible
  IN \A i \in DOMAIN Groups :
       LET members == Members(Graph(snapshot), shown, Groups[i])
           targets == Targets(Graph(snapshot), {members[k] : k \in DOMAIN members})
       IN RanksFit(targets, Ranks(targets))

\* A network that is shown has members, the impact view has a node and shows no network,
\* and it highlights just the nodes that depend on that node, however far (GraphView.svelte:107).
HighlightIsMeant ==
  /\ network # None => network \in Networks(snapshot) /\ ~impact
  /\ impact =>
       LET n == Selected(snapshot)
           related == RelatedIds
           Closed(S) == \A l \in snapshot.graph.dependencies : l[2] \in S => l[1] \in S
       IN /\ n \in related /\ Closed(related)
          /\ \A S \in SUBSET Nodes(snapshot.graph) :
               n \in S /\ Closed(S) => related \subseteq S

FlatViewIsRight == CardsHaveRoom /\ RanksFollowDependencies /\ HighlightIsMeant

\* What the host sends does not move the camera unless the filters or the network change with
\* it, or the view was empty (GraphView.svelte:122).
CameraIsKept ==
  [][fitted /\ fitted' /\ snapshot # snapshot' /\ snapshot'.filter = snapshot.filter
       /\ network' = network
     => camera' = camera]_vars

=============================================================================
