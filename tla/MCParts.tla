------------------------------- MODULE MCParts ------------------------------
(***************************************************************************)
(* The parts of the system for TLC: what the server keeps and sends, how   *)
(* plugins come to it and are asked, what the official plugins do, and     *)
(* what a browser tab makes of it.  They do not touch each other's state,  *)
(* so a behaviour is one of one part, chosen at the beginning, and the     *)
(* others stay in an initial state of theirs.                              *)
(***************************************************************************)
EXTENDS ServerParts, PluginParts

CONSTANTS
  Window, MaxBytes, MaxFrames, MaxSaid,        \* FlightRecorder
  w1, w2,                                      \* of Workloads
  n1, n2                                       \* of GraphNodes

VARIABLES
  part,
  now, segments, bytes, frames, recorded       \* FlightRecorder

\* The recording of what is sent to the tabs, by either half.
Recorder == INSTANCE FlightRecorder WITH said <- recorded
recorderVars == <<now, segments, bytes, frames, recorded>>

ASSUME RecorderAssumption == {Window, MaxBytes, MaxFrames, MaxSaid} \subseteq Nat

-----------------------------------------------------------------------------
(* The values of constants.                                                *)

\* Two services that may depend on each other, of one project on two hosts.
Depend == {<<n1, n2>>, <<n2, n1>>}
OneProject == [n \in GraphNodes |-> "p"]
TwoHosts == [n \in GraphNodes |-> IF n = n1 THEN "a" ELSE "b"]

\* A container and a pod, which come and go: two graphs of the server, one of a file, and
\* the recording in the file.
MCReplayNodes == {"container", "pod"}
MCReplayListings == <<MCReplayNodes, {"container"}, {"pod"}>>
InFile(about) == [about |-> about, of |-> 3]
MCReplayFiles ==
  {[initial |-> [n \in {"pod"} |-> [of |-> 3, cpu |-> 0]],
    frames |-> <<InFile("pod"), InFile("event")>>]}

\* Graphs of two services at most, with one name in two projects, or in one.
Service(project, tag, state, ports) ==
  [project |-> project, name |-> "x", image |-> [name |-> "i", tag |-> tag],
   status |-> state, ports |-> ports]
MCComparedGraphs ==
  {<<>>, <<Service("p", None, "up", <<1, 2>>)>>,
   <<Service("p", "latest", "up", <<2, 1>>), Service("q", "1", "up", <<1>>)>>,
   <<Service("q", "1", "up", <<1>>), Service("q", "1", "down", <<1>>)>>}

\* Graphs of the 2D view: none, one of three groups that share a network, a chain of more
\* than four columns, and a cycle with what leads to it and what is behind it.
FlatNode(source, group, networks, state) ==
  [source |-> source, scope |-> group, networks |-> networks, status |-> state]
Plain(ids) == [n \in ids |-> FlatNode("l", "p", {}, "running")]
MCFlatGraphs ==
  {[nodes |-> <<>>, dependencies |-> {}],
   [nodes |-> [a |-> FlatNode("l", "p", {"n"}, "running"),
               b |-> FlatNode("l", "q", {"n", "o"}, "stopped"),
               c |-> FlatNode("h", "q", {"n"}, "running")],
    dependencies |-> {<<"a", "b">>, <<"b", "c">>}],
   [nodes |-> Plain({"a", "b", "c", "d", "e"}),
    dependencies |-> {<<"a", "b">>, <<"b", "c">>, <<"c", "d">>, <<"d", "e">>, <<"a", "e">>}],
   [nodes |-> Plain({"a", "b", "c", "d"}),
    dependencies |-> {<<"a", "b">>, <<"b", "c">>, <<"c", "b">>, <<"c", "d">>}]}
MCFlatIds == <<"a", "b", "c", "d", "e">>
MCFlatGroups == <<<<"h", "q">>, <<"l", "p">>, <<"l", "q">>>>
MCFlatFilters ==
  {[scope |-> "", statuses |-> {}], [scope |-> "p", statuses |-> {"running"}]}

\* A cluster with two namespaces that use the same names, a pod with an owner that does not
\* control it, a service without a selector, and an ingress with a service that is missing;
\* the same without a workload, and after a rollout.
Object(type, ns, name, owners, of) ==
  [kind |-> type, ns |-> ns, name |-> name, owners |-> owners, of |-> of,
   labels |-> {"x"}, selector |-> {}, backends |-> {}, target |-> None]
OwnedBy(type, name, controls) == [kind |-> type, name |-> name, controller |-> controls]
MCClusterObjects ==
  [web |-> Object("Deployment", "a", "web", <<>>, None),
   agent |-> Object("DaemonSet", "a", "web", <<>>, None),
   db |-> Object("StatefulSet", "b", "db", <<>>, None),
   api |-> Object("Deployment", "b", "api", <<>>, None),
   spare |-> Object("Deployment", "a", "api", <<>>, None),
   webSet |-> Object("ReplicaSet", "a", "r", <<OwnedBy("Deployment", "web", TRUE)>>, "web"),
   newSet |-> Object("ReplicaSet", "a", "s", <<OwnedBy("Deployment", "web", FALSE)>>, "web"),
   apiSet |-> Object("ReplicaSet", "b", "r", <<OwnedBy("Deployment", "api", TRUE)>>, "api"),
   webPod |-> Object("Pod", "a", "p",
                     <<OwnedBy("DaemonSet", "web", FALSE), OwnedBy("ReplicaSet", "r", TRUE)>>, "web"),
   newPod |-> Object("Pod", "a", "q", <<OwnedBy("ReplicaSet", "s", TRUE)>>, "web"),
   agentPod |-> Object("Pod", "a", "w", <<OwnedBy("DaemonSet", "web", TRUE)>>, "agent"),
   apiPod |-> Object("Pod", "b", "p", <<OwnedBy("ReplicaSet", "r", TRUE)>>, "api"),
   barePod |-> Object("Pod", "b", "q", <<>>, None),
   front |-> [Object("Service", "a", "f", <<>>, None) EXCEPT !.selector = {"x"}],
   outer |-> Object("Service", "b", "o", <<>>, None),
   door |-> [Object("Ingress", "a", "i", <<>>, None) EXCEPT !.backends = {"f", "gone"}],
   scaler |-> [Object("HPA", "a", "h", <<>>, None)
                 EXCEPT !.target = [kind |-> "Deployment", name |-> "web"]]]
Before ==
  {"web", "agent", "db", "api", "spare", "webSet", "apiSet", "webPod", "agentPod", "apiPod",
   "barePod", "front", "outer", "door", "scaler"}
After == (Before \ {"webPod"}) \cup {"newSet", "newPod"}
SizesOf(all) ==
  [o \in all |-> IF o = "scaler" THEN 2 ELSE IF o \in {"web", "api", "agent"} THEN 1 ELSE 0]
MCClusterStates == {SizesOf(Before), SizesOf(After), SizesOf(Before \ {"web", "outer"})}
AllKinds == {MCClusterObjects[o].kind : o \in DOMAIN MCClusterObjects}
MCRefusedKinds == {{}, {"Deployment"}, {"ReplicaSet"}, AllKinds}

\* The variables of the server's streams and its process, of its monitor, of what is
\* kept, of what has a clock, of plugins, of a tab, of what it shows of a node, and of
\* its panels; and those of the official plugins.
lifeVars == <<sessionVars, processVars>>
monitorVars == <<alertVars, exitVars, stopped>>
keptVars == <<accessVars, marketVars, storageVars, storesVars>>
timedVars == <<recorderVars, historyVars>>
pluginVars == <<catalogVars, loaderVars, entityVars>>
clientVars == <<tabVars, replayVars, gateVars>>
shownVars == <<panelVars, frameVars, viewVars, flatVars>>
panelsVars == <<managerVars, connectionVars, compareVars, projectVars, webhookVars>>
serverVars == <<lifeVars, monitorVars, keptVars, timedVars, pluginVars>>
officialVars == <<endpointVars, clusterVars, podVars>>
vars == <<part, serverVars, clientVars, shownVars, panelsVars, officialVars>>

-----------------------------------------------------------------------------
Init ==
  /\ part \in {"sessions", "alerts", "exits", "access", "market", "storage", "recorder",
               "history", "catalogs", "loader", "entities", "tab", "replay", "panel",
               "frames", "view", "flat", "stores", "process", "manager", "connections",
               "compare", "projects", "webhooks", "gate", "endpoints", "cluster", "metrics"}
  /\ Sessions!Init /\ Alerts!Init /\ Exits!Init /\ Recorder!Init /\ History!Init
  /\ Entities!Init /\ Replay!Init /\ Panel!Init /\ Frames!Init /\ View!Init
  /\ Flat!Init /\ Manager!Init /\ Compare!Init /\ Metrics!Init
  \* One initial state of these will do while they are not looked at.  The access has a
  \* proxy or a read-only token.
  /\ Access!Init /\ ~(env.proxy /\ env.readOnly)
  /\ part # "access" => env.proxy /\ ~env.pinned /\ config = Nil
  /\ Market!Init
  /\ part # "market" => index = 0
  /\ Storage!Init
  /\ part # "storage" => \A k \in Keys : legacy[k] = 0 /\ files[k] = 0
  /\ Catalogs!Init
  /\ part # "catalogs" => besides = (CHOOSE k \in CatalogKeys : TRUE)
  \* One of the directories is half the story.
  /\ Loader!Init /\ disk["d2"] \in {None, Inside}
  /\ part # "loader" => policy = {} /\ \A d \in {"d1", "d2"} : disk[d] = None
  /\ Tab!Init
  /\ part # "tab" => server = "open"
  /\ Stores!Init
  /\ part # "stores" => declared = (CHOOSE v \in ConfigVersions : TRUE)
  /\ Process!Init
  /\ part # "process" => valid
  /\ Connections!Init
  /\ part # "connections" => conns = {}
  /\ Projects!Init
  /\ part # "projects" => \A c \in {"c", "d"} : containers[c] = "running"
  /\ Webhooks!Init
  /\ part # "webhooks" =>
       storedWebhook = [url |-> Nil, selection |-> 1] /\ ~byEnvironment /\ selection = 1
  /\ Gate!Init
  /\ part # "gate" =>
       gateServer.token = Nil /\ gateServer.declined /\ gateServer.closed
  \* No endpoints at first, or one.
  /\ Checks!Init /\ savedEndpoints \in {{}, {[id |-> "e", url |-> "u"]}}
  /\ part # "endpoints" => savedEndpoints = {}
  /\ Cluster!Init
  /\ part # "cluster" => cluster = SizesOf(Before)

MonitorNext ==
  /\ \/ part = "alerts" /\ Alerts!Next /\ UNCHANGED exitVars
     \/ part = "exits" /\ Exits!Next /\ UNCHANGED alertVars
  /\ UNCHANGED <<lifeVars, keptVars, timedVars, pluginVars>>

KeptNext ==
  /\ \/ part = "access" /\ Access!Next /\ UNCHANGED <<marketVars, storageVars, storesVars>>
     \/ part = "market" /\ Market!Next /\ UNCHANGED <<accessVars, storageVars, storesVars>>
     \/ part = "storage" /\ Storage!Next /\ UNCHANGED <<accessVars, marketVars, storesVars>>
     \/ part = "stores" /\ Stores!Next /\ UNCHANGED <<accessVars, marketVars, storageVars>>
  /\ UNCHANGED <<lifeVars, monitorVars, timedVars, pluginVars>>

TimedNext ==
  /\ \/ part = "recorder" /\ Recorder!Next /\ UNCHANGED historyVars
     \/ part = "history" /\ History!Next /\ UNCHANGED recorderVars
  /\ UNCHANGED <<lifeVars, monitorVars, keptVars, pluginVars>>

PluginNext ==
  /\ \/ part = "catalogs" /\ Catalogs!Next /\ UNCHANGED <<loaderVars, entityVars>>
     \/ part = "loader" /\ Loader!Next /\ UNCHANGED <<catalogVars, entityVars>>
     \/ part = "entities" /\ Entities!Next /\ UNCHANGED <<catalogVars, loaderVars>>
  /\ UNCHANGED <<lifeVars, monitorVars, keptVars, timedVars>>

LifeNext ==
  /\ \/ part = "sessions" /\ Sessions!Next /\ UNCHANGED processVars
     \/ part = "process" /\ Process!Next /\ UNCHANGED sessionVars
  /\ UNCHANGED <<monitorVars, keptVars, timedVars, pluginVars>>

ServerNext ==
  /\ LifeNext \/ MonitorNext \/ KeptNext \/ TimedNext \/ PluginNext
  /\ UNCHANGED <<clientVars, shownVars, panelsVars, officialVars>>

ClientNext ==
  /\ \/ part = "tab" /\ Tab!Next /\ UNCHANGED <<replayVars, gateVars>>
     \/ part = "replay" /\ Replay!Next /\ UNCHANGED <<tabVars, gateVars>>
     \/ part = "gate" /\ Gate!Next /\ UNCHANGED <<tabVars, replayVars>>
  /\ UNCHANGED <<serverVars, shownVars, panelsVars, officialVars>>

ShownNext ==
  /\ \/ part = "panel" /\ Panel!Next /\ UNCHANGED <<frameVars, viewVars, flatVars>>
     \/ part = "frames" /\ Frames!Next /\ UNCHANGED <<panelVars, viewVars, flatVars>>
     \/ part = "view" /\ View!Next /\ UNCHANGED <<panelVars, frameVars, flatVars>>
     \/ part = "flat" /\ Flat!Next /\ UNCHANGED <<panelVars, frameVars, viewVars>>
  /\ UNCHANGED <<serverVars, clientVars, panelsVars, officialVars>>

PanelsNext ==
  /\ \/ /\ part = "manager" /\ Manager!Next
        /\ UNCHANGED <<connectionVars, compareVars, projectVars, webhookVars>>
     \/ /\ part = "connections" /\ Connections!Next
        /\ UNCHANGED <<managerVars, compareVars, projectVars, webhookVars>>
     \/ /\ part = "compare" /\ Compare!Next
        /\ UNCHANGED <<managerVars, connectionVars, projectVars, webhookVars>>
     \/ /\ part = "projects" /\ Projects!Next
        /\ UNCHANGED <<managerVars, connectionVars, compareVars, webhookVars>>
     \/ /\ part = "webhooks" /\ Webhooks!Next
        /\ UNCHANGED <<managerVars, connectionVars, compareVars, projectVars>>
  /\ UNCHANGED <<serverVars, clientVars, shownVars, officialVars>>

OfficialNext ==
  /\ \/ part = "endpoints" /\ Checks!Next /\ UNCHANGED <<clusterVars, podVars>>
     \/ part = "cluster" /\ Cluster!Next /\ UNCHANGED <<endpointVars, podVars>>
     \/ part = "metrics" /\ Metrics!Next /\ UNCHANGED <<endpointVars, clusterVars>>
  /\ UNCHANGED <<serverVars, clientVars, shownVars, panelsVars>>

Next ==
  UNCHANGED part /\ (ServerNext \/ ClientNext \/ ShownNext \/ PanelsNext \/ OfficialNext)

Spec == Init /\ [][Next]_vars

-----------------------------------------------------------------------------
(* The properties of the parts, stated in their modules.                   *)

\* The variables of the part that is looked at are of their types.
TypesOK ==
  /\ part = "sessions" => Sessions!TypeOK
  /\ part = "alerts" => Alerts!TypeOK
  /\ part = "exits" => Exits!TypeOK
  /\ part = "access" => Access!TypeOK
  /\ part = "market" => Market!TypeOK
  /\ part = "storage" => Storage!TypeOK
  /\ part = "recorder" => Recorder!TypeOK
  /\ part = "history" => History!TypeOK
  /\ part = "catalogs" => Catalogs!TypeOK
  /\ part = "loader" => Loader!TypeOK
  /\ part = "entities" => Entities!TypeOK
  /\ part = "tab" => Tab!TypeOK
  /\ part = "replay" => Replay!TypeOK
  /\ part = "panel" => Panel!TypeOK
  /\ part = "frames" => Frames!TypeOK
  /\ part = "view" => View!TypeOK
  /\ part = "flat" => Flat!TypeOK
  /\ part = "stores" => Stores!TypeOK
  /\ part = "process" => Process!TypeOK
  /\ part = "manager" => Manager!TypeOK
  /\ part = "connections" => Connections!TypeOK
  /\ part = "compare" => Compare!TypeOK
  /\ part = "projects" => Projects!TypeOK
  /\ part = "webhooks" => Webhooks!TypeOK
  /\ part = "gate" => Gate!TypeOK
  /\ part = "endpoints" => Checks!TypeOK
  /\ part = "cluster" => Cluster!TypeOK
  /\ part = "metrics" => Metrics!TypeOK

\* No log or exec stream runs that its client's entry does not name, and the stop of
\* a stopped stream reaches the worker; a server that ends has closed what it had started,
\* and an endpoints plugin that was stopped checks nothing any more (server/websocket.ts,
\* processSandboxWorker.ts, server/index.ts, plugins/official/endpoints/plugin.mjs).
EndsCleanly ==
  /\ part = "sessions" => Sessions!NothingIsForgotten /\ Sessions!StopsArrive
  /\ part = "process" => Process!ExitIsClean
  /\ part = "endpoints" => Checks!StopEnds

\* A client hears nothing of a stream that was stopped, and its camera is not moved by
\* news (server/websocket.ts, graph-view-2d/GraphView.svelte).
NothingUnasked == Sessions!StoppedIsSilent /\ Flat!CameraIsKept

\* What was alerted last is what is, and each exit of a workload is reported, and once
\* (server/monitor.ts, server/webhookEvents.ts).
AlertsAreTrue == Alerts!AlertsAreCurrent /\ Exits!ExitsAreReportedOnce

\* A token that is replaced gives no access any more (server/auth.ts, authRoutes.ts).
AccessEndsWithToken == part = "access" => Access!AccessEndsWithToken

\* A failed install or update leaves everything as it was, and no failure and no
\* crash costs the last copy of a plugin (plugins/marketplace.ts, install.ts).
PluginsSurvive == Market!FailureRestores /\ Market!PluginIsNotLost

\* What a plugin stored is what it reads, through migrations and updates, and what it is
\* configured with is what was saved last; an endpoint whose addition was answered is stored
\* and checked (plugins/storage.ts, configStore.ts, plugins/official/endpoints/plugin.mjs).
StorageSurvives ==
  /\ part = "storage" => Storage!StorageSurvives
  /\ part = "stores" => Stores!StoresKeep
  /\ part = "endpoints" => Checks!EndpointsAreWatched

\* The clip is the longest that fits the limits, and a clean shutdown saves the
\* samples; the metrics of a pod are of a snapshot that was fresh when they were asked for
\* (server/flightRecorder.ts, metricHistory.ts, plugins/official/kubernetes/src/resources/metrics.ts).
HistoryIsKept ==
  /\ part = "recorder" => Recorder!ClipIsLongest
  /\ part = "history" => History!ShutdownSaves
  /\ part = "metrics" => Metrics!MetricsAreFresh

\* What is installed of an added catalog is what its entry described, signed with a
\* key it was pinned to (plugins/catalog.ts).
InstalledIsTrusted == part = "catalogs" => Catalogs!InstalledIsTrusted

\* A loaded plugin does what it declares, with permissions someone gave it
\* (plugins/loader.ts, hostApi.ts).
ActsAsAgreed == part = "loader" => Loader!ActsAsAgreed

\* An operation is carried out by the provider, and on the daemon, it is meant for; the
\* panel of connections shows and drafts what belongs together; and an action on a compose
\* project that reports success has done it (docker/, registryProviders.ts, HostManager.svelte).
ReachesItsOwner ==
  /\ part = "entities" => Entities!ReachesItsOwner
  /\ part = "connections" => Connections!ConnectionsFit
  /\ part = "projects" => Projects!ProjectsAreTrue

\* A locked tab has no session, and a session its socket and its subscription; the gate and
\* the security panel show how the server is secured, as far as they can know; a replay
\* shows the nodes, the events and the stats that the recording tells at the scrubber's
\* position (ReplayOwnsGraph says what else it may show); and panels show what the server
\* has, and keep what is typed, once their requests are answered (web/App.svelte,
\* web/components/).
TabIsConsistent ==
  /\ part = "tab" => Tab!SessionFollowsGate
  /\ part = "replay" => Replay!ReplayOwnsGraph
  /\ part = "gate" => Gate!StoreFits
  /\ part = "manager" => Manager!PanelSettles
  /\ part = "webhooks" => Webhooks!WebhookEditsAreKept

\* The sidebar, and the panels and frames of plugins, show and change what is of the
\* selected node (web/components/Sidebar.svelte, PluginFrame.svelte).
ShowsItsNode ==
  /\ part = "panel" => Panel!PanelIsOfNode
  /\ part = "frames" => Frames!FrameIsOfNode

\* The graph that is drawn, in either view, is the graph that is known, the graph of a cluster
\* links what belongs together, and a comparison finds just what differs
\* (web/components/GraphView.svelte, graph-view-2d/, kubernetes/src/graph/, compare.ts).
ViewIsOfData ==
  /\ part = "view" => View!ViewIsOfData
  /\ part = "flat" => Flat!FlatViewIsRight
  /\ part = "compare" => Compare!ComparesAll
  /\ part = "cluster" => Cluster!GraphIsOfCluster

=============================================================================
