---------------------------- MODULE PluginParts ----------------------------
(***************************************************************************)
(* The parts that bring plugins to the server and ask them: what a plugin  *)
(* is configured with, catalogs, the loader, what is asked of providers    *)
(* and how their connections and projects are shown, and the panels where  *)
(* plugins and catalogs are managed and environments compared; and the     *)
(* official plugins for endpoints, clusters and the 2D view.  Each is an   *)
(* instance of its module, with variables of its own.                      *)
(***************************************************************************)
EXTENDS Naturals, Sequences, FiniteSets

CONSTANTS
  None,
  ConfigVersions, ConfigValues, SecretNames,   \* PluginStores
  CipherKeys, Torn, MaxStoreOps, MaxEvents,
  MaxEndpoints, MaxProbes, MaxListChanges,     \* EndpointMonitor
  MaxProcesses, EndpointIds, EndpointUrls,
  CatalogKeys, MaxReleases,                    \* PluginCatalogs
  MaxChanges,                                  \* PluginLoading
  HostNames, Daemons,                          \* EntityOperations
  MaxPolls, MaxConnectionOps, MaxToggles,      \* ConnectionsPanel
  Slots, MaxTimers, MaxOutside,                \* ComposeProjects
  PanelValues, PanelSources, MaxManagerOps,    \* PluginManager
  ComparedGraphs,                              \* EnvironmentCompare
  FlatIds, FlatGroups, FlatGraphs, FlatFilters,  \* FlatGraphView
  ClusterObjects, ClusterStates, RefusedKinds, \* KubernetesGraph
  MaxClusterChanges, MaxNodeActions

VARIABLES
  declared, running, configs, approval, events, failed, cipher, storeFile, storeOps,
  storeCount, saved, lossy,
  savedEndpoints, monitorPhase, storageRead, endpoints, observed, checkTimer, mutations,
  refreshers, flight, changesAsked, processes, answered,
  uploaded, served, besides, stored, addedCatalog, install, installed, pinned, unlisted,
  disk, managed, policy, pass, plugins, strays, consented, used, undeclared, changes,
  hosts, addedHosts, enabled, operation, elsewhere,
  activeProviders, toggled, conns, lists, form, polls, polled, connectionOps,
  connectionCount, connectionsBehind,
  containers, cache, requests, outside, destroyed, projectsShown, pending,
  projectsLoading, refreshes,
  serverHas, managerShown, draft, managerLoading, flags, review, catalogForm, managerOps,
  managerCount, typedInput, vetted, managerBehind,
  there, chosen, comparing, comparison,
  flatSnapshot, network, impact, sized, fitted, camera,
  cluster, clusterChanges, kindLists, refused, still, clusterGraph, lastAction, nodeActions,
  metricsNow, podSnapshot, inFlight, podFetches, podCallers, podAnswer

\* Files of a plugin: two that ask for a process, and one for the server's own.  Whatever
\* their plugin.json asks for, the manifests of their modules claim all permissions.
LoaderPermissions == {"x", "y"}
Content(asks, declares, offers, isolated) ==
  [id |-> "p", asks |-> asks, claims |-> LoaderPermissions, declares |-> declares, offers |-> offers,
   isolated |-> isolated]
Inside == Content({"x"}, {"m", "u"}, {"u"}, FALSE)
PluginFiles == {Content({}, {"m"}, {"m", "u"}, TRUE), Content({"x", "y"}, {"u"}, {"m", "u"}, TRUE), Inside}

\* Two connections, of two providers.
OwnProvider == [h1 |-> "d", h2 |-> "k"]

Stores == INSTANCE PluginStores WITH Versions <- ConfigVersions, Secrets <- SecretNames,
  Values <- ConfigValues, Ciphers <- CipherKeys, MaxOps <- MaxStoreOps, version <- declared,
  file <- storeFile, ops <- storeOps, count <- storeCount
Checks == INSTANCE EndpointMonitor WITH Ids <- EndpointIds, Urls <- EndpointUrls,
  MaxOps <- MaxListChanges, MaxRuns <- MaxProcesses,
  saved <- savedEndpoints, phase <- monitorPhase, loaded <- storageRead, timer <- checkTimer,
  callers <- refreshers, asked <- changesAsked, runs <- processes
Catalogs == INSTANCE PluginCatalogs WITH Keys <- CatalogKeys, adding <- addedCatalog
Loader == INSTANCE PluginLoading WITH Dirs <- {"d1", "d2"}, Home <- "d1", Ids <- {"p"},
  Permissions <- LoaderPermissions, Capabilities <- {"m", "u"}, Late <- {"u"}, Contents <- PluginFiles,
  index <- managed
Entities == INSTANCE EntityOperations WITH Hosts <- HostNames,
  Plugins <- <<"p1", "p2">>, adding <- addedHosts,
  request <- operation, strayed <- elsewhere
Connections == INSTANCE ConnectionsPanel WITH Providers <- {"d", "k"}, Owner <- OwnProvider,
  MaxOps <- MaxConnectionOps, active <- activeProviders, ops <- connectionOps,
  count <- connectionCount, behind <- connectionsBehind
Projects == INSTANCE ComposeProjects WITH Containers <- {"c", "d"},
  Project <- [c |-> "p", d |-> "p"], Labelled <- {"p"}, state <- containers,
  shown <- projectsShown, loading <- projectsLoading
Manager == INSTANCE PluginManager WITH Values <- PanelValues, Sources <- PanelSources,
  MaxOps <- MaxManagerOps, server <- serverHas, shown <- managerShown,
  loading <- managerLoading, adding <- catalogForm, ops <- managerOps,
  count <- managerCount, typed <- typedInput, behind <- managerBehind
Compare == INSTANCE EnvironmentCompare WITH Sources <- {"a", "b"},
  Snapshots <- ComparedGraphs, shown <- comparison
Flat == INSTANCE FlatGraphView WITH Ids <- FlatIds, Groups <- FlatGroups,
  Graphs <- FlatGraphs, Filters <- FlatFilters, snapshot <- flatSnapshot
Cluster == INSTANCE KubernetesGraph WITH Objects <- ClusterObjects,
  Clusters <- ClusterStates, Refusals <- RefusedKinds, MaxChanges <- MaxClusterChanges,
  MaxActions <- MaxNodeActions, changes <- clusterChanges, lists <- kindLists,
  graph <- clusterGraph, last <- lastAction, actions <- nodeActions
Metrics == INSTANCE PodMetrics WITH Pods <- {"p", "q"}, Ttl <- 2, MaxNow <- 4,
  now <- metricsNow, snapshot <- podSnapshot, fetches <- podFetches, callers <- podCallers,
  answer <- podAnswer

-----------------------------------------------------------------------------
(* What the data are that the constants stand for.                         *)

\* A list that names nothing twice.
IsListing(s) ==
  /\ s \in Seq({s[i] : i \in DOMAIN s})
  /\ \A i, j \in DOMAIN s : s[i] = s[j] => i = j

\* Compared are lists of services.
IsService(s) ==
  /\ s = [project |-> s.project, name |-> s.name, image |-> s.image, status |-> s.status,
          ports |-> s.ports]
  /\ s.image = [name |-> s.image.name, tag |-> s.image.tag]
  /\ s.ports \in Seq({s.ports[i] : i \in DOMAIN s.ports})
ComparedAreServices ==
  \A g \in ComparedGraphs :
    g \in Seq({g[i] : i \in DOMAIN g}) /\ \A i \in DOMAIN g : IsService(g[i])

\* The nodes of a graph are of those that are listed, its dependencies are between its
\* nodes, and the groups of its nodes are listed.
FlatGraphsAreSound ==
  /\ IsListing(FlatIds) /\ IsListing(FlatGroups)
  /\ \A g \in FlatGraphs :
       /\ Flat!Nodes(g) \subseteq Flat!AllIds
       /\ g.dependencies \subseteq Flat!Nodes(g) \X Flat!Nodes(g)
       /\ \A n \in Flat!Nodes(g) : \E i \in DOMAIN FlatGroups : FlatGroups[i] = Flat!GroupOf(g, n)

\* What the API server says of objects: a name is of one object of its kind in its
\* namespace, and one owner at most controls an object.
ObjectsAreSound ==
  LET O == ClusterObjects
  IN /\ None \notin DOMAIN O \cup Nat
     /\ \A o, p \in DOMAIN O : Cluster!IdOf(o) = Cluster!IdOf(p) => o = p
     /\ \A o \in DOMAIN O :
          /\ O[o].kind \in Cluster!Kinds /\ O[o].of \in DOMAIN O \cup {None}
          /\ O[o].owners \in Seq({O[o].owners[i] : i \in DOMAIN O[o].owners})
          /\ \A i, j \in DOMAIN O[o].owners :
               /\ O[o].owners[i] # None /\ O[o].owners[i].controller \in BOOLEAN
               /\ O[o].owners[i].controller /\ O[o].owners[j].controller => i = j

\* The owner of an object that controls it, or the first when none does.
Controls(w, o) ==
  LET owners == ClusterObjects[o].owners
  IN \E i \in DOMAIN owners :
       /\ w = owners[i]
       /\ w.controller \/ (i = 1 /\ \A j \in DOMAIN owners : ~owners[j].controller)
IsPartOf(o, w) ==
  LET O == ClusterObjects
  IN O[o].of # None /\ Cluster!IdOf(O[o].of) = Cluster!NodeId(w.kind, O[o].ns, w.name)
ReplicaSetsOf(w, o) ==
  {r \in DOMAIN ClusterObjects : /\ ClusterObjects[r].kind = "ReplicaSet"
                                 /\ ClusterObjects[r].name = w.name
                                 /\ ClusterObjects[r].ns = ClusterObjects[o].ns}

\* Whatever controls an object is of the workload the object is part of; and what is part
\* of a workload is controlled by it, or by a replica set of it.
OwnersAreSound ==
  LET O == ClusterObjects
  IN \A o \in DOMAIN O :
       /\ \A i \in DOMAIN O[o].owners :
            LET w == O[o].owners[i]
            IN Controls(w, o) =>
                 /\ w.kind \in Cluster!WorkloadKinds => IsPartOf(o, w)
                 /\ w.kind = "ReplicaSet" => \A r \in ReplicaSetsOf(w, o) : O[o].of = O[r].of
       /\ O[o].kind \in {"Pod", "ReplicaSet"} /\ O[o].of # None =>
            \E i \in DOMAIN O[o].owners :
              LET w == O[o].owners[i]
              IN /\ Controls(w, o)
                 /\ w.kind \in Cluster!WorkloadKinds \/ (w.kind = "ReplicaSet" /\ O[o].kind = "Pod")

\* A cluster has some of the objects, and the replica set of a pod as long as the workload
\* the pod is part of.
ClustersAreSound ==
  LET O == ClusterObjects
  IN \A c \in ClusterStates :
       /\ DOMAIN c \subseteq DOMAIN O /\ c = [o \in DOMAIN c |-> c[o]]
       /\ \A o \in DOMAIN c : c[o] \in Nat /\ (O[o].kind = "HPA" => c[o] # 0)
       /\ \A o \in DOMAIN c : \A i \in DOMAIN O[o].owners :
            LET w == O[o].owners[i]
            IN Controls(w, o) /\ w.kind = "ReplicaSet" /\ O[o].of \in DOMAIN c =>
                 ReplicaSetsOf(w, o) \cap DOMAIN c # {}

\* What the proofs need of the constants: there is a release, a probe, a value and a
\* catalog; None and Torn are no values of the code's; the sets that stand for data are finite;
\* and graphs and clusters are what they are above.
ASSUME PluginAssumption ==
  /\ {MaxEvents, MaxStoreOps, MaxEndpoints} \subseteq Nat
  /\ {MaxReleases, MaxProbes} \subseteq Nat \ {0}
  /\ None \notin Slots /\ None \notin Projects!RequestSet
  /\ Torn \notin Seq(Nat) /\ Torn \notin Stores!Configurations
  /\ Torn \notin Stores!SecretFiles /\ Torn \notin Stores!Approvals
  /\ IsFiniteSet(EndpointIds) /\ IsFiniteSet(Checks!Endpoint)
  /\ EndpointIds \cap {"start", "timer"} = {}
  /\ None \notin PanelValues /\ PanelValues # {} /\ PanelSources # {}
  /\ ComparedAreServices /\ FlatGraphsAreSound
  /\ ObjectsAreSound /\ OwnersAreSound /\ ClustersAreSound

\* A bound is a number, and what an API server refuses are kinds.
ASSUME LimitsAssumption ==
  /\ {MaxChanges, MaxPolls, MaxConnectionOps, MaxToggles, MaxOutside, MaxManagerOps,
       MaxClusterChanges, MaxNodeActions} \subseteq Nat
  /\ RefusedKinds \subseteq SUBSET Cluster!Kinds

storesVars ==
  <<declared, running, configs, approval, events, failed, cipher, storeFile, storeOps,
    storeCount, saved, lossy>>
endpointVars ==
  <<savedEndpoints, monitorPhase, storageRead, endpoints, observed, checkTimer, mutations,
    refreshers, flight, changesAsked, processes, answered>>
catalogVars ==
  <<uploaded, served, besides, stored, addedCatalog, install, installed, pinned, unlisted>>
loaderVars ==
  <<disk, managed, policy, pass, plugins, strays, consented, used, undeclared, changes>>
entityVars == <<hosts, addedHosts, enabled, operation, elsewhere>>
connectionVars ==
  <<activeProviders, toggled, conns, lists, form, polls, polled, connectionOps,
    connectionCount, connectionsBehind>>
projectVars ==
  <<containers, cache, requests, outside, destroyed, projectsShown, pending,
    projectsLoading, refreshes>>
managerVars ==
  <<serverHas, managerShown, draft, managerLoading, flags, review, catalogForm, managerOps,
    managerCount, typedInput, vetted, managerBehind>>
compareVars == <<there, chosen, comparing, comparison>>
flatVars == <<flatSnapshot, network, impact, sized, fitted, camera>>
clusterVars ==
  <<cluster, clusterChanges, kindLists, refused, still, clusterGraph, lastAction, nodeActions>>
podVars == <<metricsNow, podSnapshot, inFlight, podFetches, podCallers, podAnswer>>

=============================================================================
