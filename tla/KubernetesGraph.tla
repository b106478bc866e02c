--------------------------- MODULE KubernetesGraph --------------------------
(***************************************************************************)
(* The official Kubernetes plugin: the graph it draws of a cluster and the *)
(* actions on what is drawn (plugins/official/kubernetes/src/: resources/, *)
(* graph/, actions/).                                                      *)
(*                                                                         *)
(* The cluster is external: the objects that are there, each with its      *)
(* size (the replicas of a workload, the bounds of an autoscaler, 0 for    *)
(* the rest), and it may become any of Clusters while it is listed.  An    *)
(* object's labels and selector are sets; "of" is the workload it is part  *)
(* of, whatever its references say.  Refusals are the kinds that may not   *)
(* be listed.  MaxChanges bounds the changes, MaxActions the actions.      *)
(***************************************************************************)
EXTENDS Naturals, Sequences

CONSTANTS Objects, Clusters, Refusals, MaxChanges, MaxActions, None

VARIABLES
  cluster,  \* the sizes of the objects that are there
  changes,
  lists,    \* what was listed of each kind, None until it is; <<>> when not collecting
  refused,  \* the kinds that cannot be listed this time
  still,    \* history: the cluster has not changed since the collection began
  graph,    \* what is drawn: nodes with the size in their metadata, and links; or None
  last,     \* history: the last action
  actions   \* actions asked for

vars == <<cluster, changes, lists, refused, still, graph, last, actions>>

WorkloadKinds == {"Deployment", "StatefulSet", "DaemonSet"}
Kinds == WorkloadKinds \cup {"ReplicaSet", "Pod", "Service", "Ingress", "HPA"}

\* k8sId
NodeId(kind, ns, name) == <<kind, ns, name>>
IdOf(o) == NodeId(Objects[o].kind, Objects[o].ns, Objects[o].name)

-----------------------------------------------------------------------------
(* listResources: eight requests at once, each answered when it is.        *)

Collect ==
  /\ lists = <<>> /\ graph = None
  /\ lists' = [k \in Kinds |-> None] /\ refused' \in Refusals /\ still' = TRUE
  /\ UNCHANGED <<cluster, changes, graph, last, actions>>

OfKind(k) == {o \in DOMAIN cluster : Objects[o].kind = k}

\* listOrEmpty
List(k) ==
  /\ lists # <<>> /\ lists[k] = None
  /\ lists' = [lists EXCEPT ![k] =
                 IF k \in refused THEN <<>> ELSE [o \in OfKind(k) |-> cluster[o]]]
  /\ UNCHANGED <<cluster, changes, refused, still, graph, last, actions>>

-----------------------------------------------------------------------------
(* buildGraph                                                              *)

Listed(k) == DOMAIN lists[k]

Drawn == UNION {Listed(k) : k \in Kinds \ {"ReplicaSet"}}
DrawnWorkloads == {IdOf(o) : o \in UNION {Listed(k) : k \in WorkloadKinds}}

\* Defect: an owner that does not control the object counts when it comes first.
MutControllerOf(owners) == IF owners = <<>> THEN None ELSE Head(owners)

\* The first owner that controls the object, or the first, or None.
ControllerOf(owners) ==
  LET controlling == {i \in DOMAIN owners : owners[i].controller}
  IN IF controlling # {} THEN owners[CHOOSE i \in controlling : \A j \in controlling : i <= j]
     ELSE IF owners # <<>> THEN Head(owners) ELSE None

\* Defect: a ReplicaSet is known by its name, whatever its namespace.
MutReplicaSetOf(name, ns) == {r \in Listed("ReplicaSet") : Objects[r].name = name}

ReplicaSetOf(name, ns) ==
  {r \in Listed("ReplicaSet") : Objects[r].name = name /\ Objects[r].ns = ns}

\* The workload among the owners of an object, if it is of a kind that is drawn.
WorkloadOf(owner, ns) ==
  IF owner = None \/ owner.kind \notin WorkloadKinds THEN {} ELSE {NodeId(owner.kind, ns, owner.name)}

\* resolvePodOwner: a pod of a ReplicaSet belongs to the owner of that.
PodOwner(p) ==
  LET owner == ControllerOf(Objects[p].owners)
      ns == Objects[p].ns
  IN IF owner # None /\ owner.kind = "ReplicaSet"
     THEN UNION {WorkloadOf(ControllerOf(Objects[r].owners), ns) : r \in ReplicaSetOf(owner.name, ns)}
     ELSE WorkloadOf(owner, ns)

\* workloadPodLink
PodLinks ==
  {<<x[1], IdOf(x[2])>> : x \in {y \in DrawnWorkloads \X Listed("Pod") : y[1] \in PodOwner(y[2])}}

\* Defect: an autoscaler is linked to its target, drawn or not.
MutHpaLinks ==
  UNION {{<<IdOf(h), w>> : w \in WorkloadOf(Objects[h].target, Objects[h].ns)} : h \in Listed("HPA")}

\* resolveHpaTarget, hpaLink
HpaLinks ==
  UNION {{<<IdOf(h), w>> : w \in DrawnWorkloads \cap WorkloadOf(Objects[h].target, Objects[h].ns)} :
         h \in Listed("HPA")}

\* getPodsForService, matchesSelector: an empty selector selects nothing.
Selects(s, p) ==
  /\ Objects[s].ns = Objects[p].ns
  /\ Objects[s].selector # {} /\ Objects[s].selector \subseteq Objects[p].labels

ServiceLinks ==
  {<<IdOf(x[1]), IdOf(x[2])>> : x \in {y \in Listed("Service") \X Listed("Pod") : Selects(y[1], y[2])}}

\* ingressLink: to the services its rules name, drawn or not.
IngressLinks ==
  UNION {{<<IdOf(i), NodeId("Service", Objects[i].ns, name)>> : name \in Objects[i].backends} :
         i \in Listed("Ingress")}

\* Defect: the bounds of an autoscaler are given as a range, not as numbers.
MutBounds(h) == None

\* What the forms of a node's actions start from: the bounds of an autoscaler, the
\* replicas that are desired of a workload.
Bounds(h) == lists["HPA"][h]
DesiredReplicas(w) == lists[Objects[w].kind][w]

Metadata(o) ==
  CASE Objects[o].kind = "HPA" -> Bounds(o)
    [] Objects[o].kind \in WorkloadKinds -> DesiredReplicas(o)
    [] OTHER -> None

\* When every kind is refused the collection fails, and nothing is drawn.
BuildGraph ==
  /\ lists # <<>> /\ \A k \in Kinds : lists[k] # None
  /\ lists' = <<>>
  /\ graph' = IF refused = Kinds THEN None
              ELSE [nodes |-> [n \in {IdOf(o) : o \in Drawn} |->
                                 Metadata(CHOOSE o \in Drawn : IdOf(o) = n)],
                    links |-> PodLinks \cup HpaLinks \cup ServiceLinks \cup IngressLinks]
  /\ UNCHANGED <<cluster, changes, refused, still, last, actions>>

-----------------------------------------------------------------------------
(* The actions on a node (actions/index.ts).                               *)

\* Defect: a DaemonSet is offered to be scaled, which it cannot be.
MutOffered(kind) ==
  {"delete"} \cup (IF kind \in WorkloadKinds THEN {"restart", "scale"} ELSE {})
    \cup (IF kind = "HPA" THEN {"set_hpa_constraints"} ELSE {})

\* entityActions: the kinds each action is declared for.
Offered(kind) ==
  {"delete"} \cup (IF kind \in WorkloadKinds THEN {"restart"} ELSE {})
    \cup (IF kind \in {"Deployment", "StatefulSet"} THEN {"scale"} ELSE {})
    \cup (IF kind = "HPA" THEN {"set_hpa_constraints"} ELSE {})

\* What execute() of an action accepts: bounds of 0 count as missing.
Accepted(kind, action, input) ==
  \/ action = "delete"
  \/ action = "restart" /\ kind \in WorkloadKinds
  \/ action = "scale" /\ kind \in {"Deployment", "StatefulSet"}
  \/ action = "set_hpa_constraints" /\ kind = "HPA" /\ input # 0

\* numericMetadata: what the form proposes.
Default(n) == IF graph.nodes[n] = None THEN 1 ELSE graph.nodes[n]

\* The objects of the cluster after the action was sent for those of a node.  A restart
\* makes the cluster roll out pods, which is a change of the cluster.
Patched(there, action, input) ==
  CASE action = "restart" -> cluster
    [] action = "delete" -> [o \in DOMAIN cluster \ there |-> cluster[o]]
    [] OTHER -> [o \in DOMAIN cluster |-> IF o \in there THEN input ELSE cluster[o]]

\* runResourceAction: the object of the node may not be there any more.
RunAction(n, action, input) ==
  /\ graph # None /\ actions < MaxActions /\ actions' = actions + 1
  /\ LET accepted == Accepted(n[1], action, input)
     IN /\ cluster' = IF accepted THEN Patched({o \in DOMAIN cluster : IdOf(o) = n}, action, input)
                      ELSE cluster
        /\ last' = [node |-> n, action |-> action, accepted |-> accepted,
                    proposed |-> input = Default(n), current |-> still /\ actions = 0,
                    kept |-> cluster' = cluster]
  /\ UNCHANGED <<changes, lists, refused, still, graph>>

-----------------------------------------------------------------------------
\* The cluster is changed by someone else.
Change(c) ==
  /\ changes < MaxChanges /\ changes' = changes + 1
  /\ c # cluster /\ cluster' = c /\ still' = FALSE
  /\ UNCHANGED <<lists, refused, graph, last, actions>>

Init ==
  /\ cluster \in Clusters /\ changes = 0
  /\ lists = <<>> /\ refused = {} /\ still = TRUE /\ graph = None /\ last = None /\ actions = 0

Next ==
  \/ Collect \/ BuildGraph
  \/ \E k \in Kinds : List(k)
  \/ \E c \in Clusters : Change(c)
  \/ /\ graph # None
     /\ \E n \in DOMAIN graph.nodes, action \in {"restart", "scale", "set_hpa_constraints", "delete"} :
          \E input \in {0, Default(n)} : RunAction(n, action, input)

Spec == Init /\ [][Next]_vars

-----------------------------------------------------------------------------
TypeOK ==
  /\ DOMAIN cluster \subseteq DOMAIN Objects /\ changes \in 0..MaxChanges
  /\ refused \subseteq Kinds /\ still \in BOOLEAN /\ actions \in 0..MaxActions
  /\ lists # <<>> => DOMAIN lists = Kinds

\* Links are between what is drawn, except those of an ingress, whose services may be
\* missing.
LinksAreDrawn ==
  \A l \in graph.links :
    /\ l[1] \in DOMAIN graph.nodes
    /\ l[2] \in DOMAIN graph.nodes \/ l[1][1] = "Ingress"

\* A pod is drawn with the workload it is part of and with no other, however its lists
\* and those of its owners were taken.
PodsHaveTheirWorkload ==
  \A l \in graph.links :
    l[1][1] \in WorkloadKinds =>
      \E p \in DOMAIN Objects : IdOf(p) = l[2] /\ Objects[p].of # None /\ IdOf(Objects[p].of) = l[1]

\* What was drawn of a cluster that did not change, and refused nothing, is all of it.
AllIsDrawn ==
  still /\ refused = {} /\ actions = 0 =>
    /\ DOMAIN graph.nodes = {IdOf(o) : o \in {p \in DOMAIN cluster : Objects[p].kind # "ReplicaSet"}}
    /\ \A p \in OfKind("Pod") :
         Objects[p].of \in DOMAIN cluster => <<IdOf(Objects[p].of), IdOf(p)>> \in graph.links

\* What is offered is accepted, nothing else is, and a form that is sent as it was
\* proposed changes no object whose node is up to date.
ActionsFit ==
  last # None =>
    /\ last.accepted => last.action \in Offered(last.node[1])
    /\ last.action \in Offered(last.node[1]) /\ last.proposed /\ last.current =>
         last.accepted
    /\ last.proposed /\ last.current /\ last.action # "delete" => last.kept

GraphIsOfCluster ==
  /\ graph # None => LinksAreDrawn /\ PodsHaveTheirWorkload /\ AllIsDrawn
  /\ ActionsFit

=============================================================================
