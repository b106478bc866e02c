# DockScope in TLA+

A verification project for DockScope, the container dashboard of this repository: TLA+ modules for the
parts of the server, its plugins and its web client whose correctness depends on the order of events, TLC
runs on small instances, and TLAPS proofs for every value of the constants. Paths below are relative to the
repository's `src/` directory unless they begin with `docs/`.

- [1. The system](#1-the-system)
- [2. Plan](#2-plan)
- [3. Modules and how they correspond to the code](#3-modules-and-how-they-correspond-to-the-code)
- [4. Runs: bounds, fairness, results](#4-runs-bounds-fairness-results)
- [5. Proofs](#5-proofs)
- [6. What the checks say about the code](#6-what-the-checks-say-about-the-code)
- [7. Not modelled, and why](#7-not-modelled-and-why)

Running: `tlc -config <run>.cfg <module>.tla` for a run, with the module section 4 names, and
`tlapm <Component>_proofs.tla` for the proofs.

## 1. The system

DockScope is one Node.js process: a web server, a monitor that polls sources of workloads, a registry of
plugins (some of which run in child processes), and the delivery of alerts to a webhook. Browser tabs show
what it knows, live over a WebSocket. It is single threaded, so a handler runs undisturbed between two
`await`s; everything that can go wrong by order goes wrong at an `await`, at a callback (timer, message,
process exit) or at a crash. No handler takes a lock, and only a few files have a queue of writes. The same
holds for a tab, whose effects and event handlers run between the answers of its requests.

| Component | State it keeps | Operations | What makes it correct |
|---|---|---|---|
| Plugin registry (`core/plugin-contract/registry.ts`), state store (`plugins/stateStore.ts`), set-up (`plugins/internal.ts`) | maps `plugins`, `runtime`, `crashHistory`, `configs`; `plugin-state.json` with a write queue | register, start, stop, enable, disable, reload, unregister, configure, crash report, startAll, stopAll | status and enabled flag agree; a quarantine is sticky, stopped, persisted; what an operator was told survives a restart |
| Process sandbox (`plugins/processSandbox.ts`, `processSandboxWorker.ts`) | current child, pending requests, descriptor, initialization, streams | initialize, request, start, stop, dispose, health, streams, exec; crash, timeout, stderr limit | every call is settled once; a crash rejects what is in flight and nothing else; no process and no stream is left behind |
| Plugin loader and host API (`plugins/loader.ts`, `hostApi.ts`, `core/plugin-contract/manifest.ts`) | loaded plugins, grants, contracts | discover, load, reload, register | a plugin does what it declares, with permissions someone gave it |
| Providers and dispatch (`core/plugin-contract/registryProviders.ts`, `registryInteractions.ts`) | none of its own | who answers for an entity, a project, a connection | an operation reaches the provider and the daemon it is meant for |
| Plugin stores (`plugins/configStore.ts`, `secretStore.ts`, `approvalStore.ts`, `eventStore.ts`) | one file each, written whole, no queue | read, change, write | the registry runs with what was saved |
| Marketplace, install, storage (`plugins/marketplace.ts`, `install.ts`, `package.ts`, `storage.ts`) | install directory, index file, snapshots, data directories | install, update, uninstall, rollback, migration | directory and index agree after a crash; a failed operation restores the previous plugin; data survive |
| Catalogs (`plugins/catalog*.ts`) | catalogs with their pinned keys | add, verify, aggregate, find an entry | what is installed is what a trusted entry described |
| Webhook delivery (`server/webhooks.ts`) | queue, the drain, cooldowns with timers, dedup | notifyAlert, enqueue, drain, retry, stop | one request at a time, in order; nothing stranded, nothing after stop; the latest state is sent |
| Webhook settings (`server/webhookSettings.ts`) | configuration, its file, current notifier, chain of updates | open, update, stop | the file and the configuration in service agree over failures and crashes; the old notifier is silent |
| Monitor (`server/monitor.ts`, `webhookEvents.ts`, `anomaly.ts`, `core/sources/*`) | cached graph, refresh flag, event watchers, active anomalies, terminations | refreshGraph, refreshStats, events, start, stop | a refresh is never blocked forever; nothing is watched after stop; what was alerted last is what is |
| WebSocket (`server/websocket.ts`, `wsMessages.ts`) | log and exec stream per client | subscribe, unsubscribe, exec, close | a stream is stopped when its client leaves or replaces it |
| Authentication (`server/auth.ts`, `authStore.ts`, `authRoutes.ts`) | token file, runtime configuration, sessions, accepted tokens | setup, rotate, remove, remind, sign in | a replaced token gives no access; the token survives a restart |
| Metric history, flight recorder (`server/metricHistory.ts`, `flightRecorder.ts`) | series, segments, byte and frame counts | record, query, prune, flush, close | budgets hold; counters match contents; the last samples are written |
| Docker source (`docker/*`) | map of hosts, cache of compose projects | add and remove hosts, act on containers and projects | an action that reports success has done what was asked |
| Endpoints plugin (`plugins/official/endpoints/plugin.mjs`) | list of endpoints in its storage, queue of changes, checks under way, timer | add, remove, check, start, stop | what is answered is stored and, when added, checked; the checks go on until the stop, and end with it |
| Kubernetes plugin (`plugins/official/kubernetes/src/`) | cached pod metrics; everything else is asked anew | collect a graph, offer and run actions, metrics | every link leads to the workload it belongs to; forms propose what is, actions set what was asked; metrics are fresh |
| Process (`cli.ts`, `server/index.ts`, `tls.ts`) | what was started | start, listen, signals, shutdown | the end leaves nothing running that was started |
| Web client (`web/stores/*`, `web/lib/*`, `web/components/*`) and the 2D view (`plugins/official/graph-view-2d/`) | session, graph, replay, selection, dialogs and their drafts | live updates, recording, replay, selection, forms | live data and replay are never mixed; a panel shows what is of its node; a form keeps what is typed |

Interactions. Routes and WebSocket handlers call the registry. The registry calls a plugin object, which
for an isolated plugin is a sandbox; the sandbox reports crashes back to `recordRuntimeCrash` by a callback.
The registry saves to the stores, which a restart reads. The marketplace changes directories and asks the
registry to replace what runs. The monitor reads graphs through the registry and passes alerts to the
webhook settings, which pass them to the current notifier, to the flight recorder and to the clients.
Shutdown (`server/index.ts:295-320`) stops monitor, history, webhooks, sockets and plugins in that order
while the server still answers.

`PROJECT.json` lists the hazards: the lines where an order of events can hurt, and the properties that
would notice. Some are in the models and break nothing that the repository promises, so that no property is
about them, or one excludes them by name: a stop that overtakes `startLogStream` (`processSandboxWorker.ts:568`),
overlapping subscriptions of one client (`websocket.ts:81`), a refresh under way at the monitor's stop
(`monitor.ts:439`), a second setup that takes over the first (`authStore.ts:69`), unqueued saves of secrets and
configurations (`secretStore.ts:90`), hosts added under one name (`hosts.ts:97`) and a listing that saw a
project before it was destroyed (`projects.ts:117`). Overlapping actions of one plugin (`marketplace.ts:237`)
are not modelled.

## 2. Plan

Most important first. 1-12 are done.

1. **PluginLifecycle** (+ `_proofs`): the registry, its state file and restarts.
2. **ProcessSandbox** (+ `_proofs`), and **FailStopService**, what its callers rely on, which it
   implements.
3. **WebhookNotifier** (+ `_proofs`): coalescing, queue, drain.
4. **WebhookSettings** (+ `_proofs`): composes with 3 by what a notifier is from outside (stopped or not,
   its drain running or not).
5. **StreamSessions**: streams of `websocket.ts` over those of the sandbox and its worker.
6. **Monitor** (+ `_proofs`), **WorkloadAlerts**, **TerminationAlerts**: refreshes and watchers; the
   transitions that are alerted; exits and their diagnoses.
7. **AccessControl**: the token file without a queue, sessions, accepted tokens.
8. Plugins on the disk: **PluginMarketplace**, **PluginStorage**, **PluginCatalogs**, **PluginLoading**,
   **PluginStores**.
9. The server's other keepers and its process: **FlightRecorder**, **MetricHistory**, **EntityOperations**,
   **ComposeProjects**, **ServerProcess**.
10. The web client: **TabSession**, **ReplayClient**, **AccessPanels**, **SidebarPanel**, **PluginFrames**,
    **GraphRendering**, **FlatGraphView**, **PluginManager**, **ConnectionsPanel**, **EnvironmentCompare**,
    **WebhookPanel**.
11. The official plugins that do more than translate: **EndpointMonitor**, **KubernetesGraph**,
    **PodMetrics**.
12. **ServerParts_proofs**, **PluginParts_proofs**, **MCParts_proofs**: the parts of the server, of the
    plugins and of the tab.
13. Two actions of the marketplace at once; two plugins in the lifecycle; liveness of the reconnecting tab
    (it rests on timers that are never cancelled but by the session's end).

Modules that are proved about declare no RECURSIVE operator and state invariants as conjunctions of named
parts. Those whose instances are proved about together (28 of them) define the few helpers on sequences and
sets that they need themselves, as functions on prefixes where they recur: every instance copies what its
module extends, and the provers pay for a library in each of them.

## 3. Modules and how they correspond to the code

A handler is cut at its awaits: the code between two awaits is one action, and what follows a settled
promise in the same turn of the event loop belongs to the action that settles it. A call in flight is a
record with its position and the values it keeps across the await. Definitions named `Mut...` are
deliberate defects that are no part of any specification; each property is shown to detect one of them.

### PluginLifecycle

One external plugin. Variables: `plugins` and `runtime` (is it in the maps, and its status and flag),
`crashHistory` (the number of crashes inside the window; the code has no limit of it, the model counts no
further than to the threshold, which tells apart all that `recordRuntimeCrash` does), `process` and `wants` (the plugin
object in the map: no process, an idle one, a running one; `pluginStarted`), `stored` and `writeQueue`
(`plugin-state.json` and the queued writes of the state store), `stale` (the last write failed, its caller
was told), `announced` (`runtime.quarantined` was published for the quarantine in force, which a second
crash report may still be writing), `call` (the calls in flight), and the ghost `late`: the registry holds a
flag that was set without a write after it, by a start that overwrites a disable or by an install that
overtakes one.

The action for each request takes the handler up to its first await (`EnablePlugin`, `DisablePlugin`,
`ReloadPlugin`, `UnregisterPlugin`, `StopAll`, `UpdatePluginConfig`, `InstallPlugin`); the awaits end with
`StopSucceeds/Fails`, `ConfigureSucceeds`, `StartSucceeds/Fails`, `ApplyReturns`, `ReloadSucceeds/Fails`,
`InstallReady/Fails` and `WriteSucceeds/Fails`, each with the rest of the handler up to its next await.
`snap` in a call is the entry it read and will write back. `RecordRuntimeCrash` is the exit of the process
with the rejection of everything pending on it (`doomed`) and the crash report; `Restart` is a stop of the
server at any point and its next start from the state file. `current` becomes false when the plugin object
a call waits for is replaced or removed.

Abstracted: configuration values, timestamps, error texts; a crash time is inside or outside the window.
Left out: crash reports of an object that was replaced (its process is not tracked any more), concurrent
installs and an install during a reload, marketplace updates and installs over an installed plugin
(PluginMarketplace). An in-process plugin whose `stop` throws is taken to be as it was. Requests come
after `startAll`, because the server listens after it (`server/index.ts:156`).

### ProcessSandbox and FailStopService

Variables are the sandbox's fields: `child`, `descriptor`, `step` (the request `this.initializing` waits
for: initialize, then a replayed configure and start), `pluginStarted`, `disposed`, `restartCount`; the
processes spawned so far with their state (connected, closing, gone), whether the plugin is loaded in the
current worker, and the calls: waiting for the initialization, or pending on a process. `HandleCrash`,
`Terminate` and `DisposeProcess` are the methods of those names; `Exit` is the exit or error event of any
process, also one that was given up before. `Close` lets `child.connected` become false before the exit
event; whether the system does that is chosen once, in `closesEarly`, and three properties are claimed of
the other systems only (section 6).

`FailStopService` states what callers may rely on: a call is open until it is settled; it is served by at
most one process; when the process goes everything open is settled in the same step; the next process
starts with nothing in flight. `ProcessSandbox!IsFailStop` says that the sandbox implements it, `life`
being the child and `server` the process a request was sent to.

Left out: streams and exec sessions (StreamSessions), host calls, log and event messages,
none of which settles a request or changes the child.

### WebhookNotifier

`order` and `cooldown` are the `cooldowns` map (insertion order and entries), `orphan` an entry that was
replaced in the map while its timer had not fired, `queue`, `drain`, `running` and `aborted` the fields of
the delivery. Alerts are numbered as they reach the queue. `drain` tells a returned `drain()` from its
`finally` callback, the gap the code's comment speaks of. `reported` and `passedOn` are ghosts, and so is
`lost`: the keys of which an eviction dropped the waiting state, or an overtaken timer will send an older
one, until their next state is sent at once.

Time is what the code compares: the window of a key is open or over. An alert may be handled after the
window has ended and before the timer set for that end has run, but not a whole window later. A payload over
the limit is one of the ways `Enqueue` changes nothing. Filters and duplicates change nothing and are
not modelled as steps.

### WebhookSettings

`waiting` and `update` are the chain of promises `pending`: the updates that have not begun and the step
of the one that runs (writing, renamed, stopping). `current`, `sending` and `aborted` are the notifiers:
which is in service, whose drain runs, which were stopped. `file` and `config` are the stored and the
served configuration, `closing` and `awaited` the progress of `stop()`, `up` whether the server runs;
`Exit` may happen anywhere, `Open` reads the file again. The removal of the temporary file after a rename
is assumed not to fail. With `DOCKSCOPE_WEBHOOK_URL` set every update is refused; that case has no state
to check. Alerts that arrive while the old notifier is awaited are dropped, which docs/api.md announces
("Settings changes or shutdown discard queued/coalesced alerts").

### StreamSessions

One client, through `websocket.ts`, the sandbox and the worker. A stream is numbered by the request that asks
for it; `handler` is where the handler of its message is (looking for a provider, waiting for the start),
`logStream` and `execStream` the client's entries, `streams` and `request` the maps of the sandbox, `worker`
the stream's state in the worker, `toWorker` and `toParent` the two FIFO channels. `overlap` and `missed` are
ghosts: a message of the same kind, or the close, fell into an await of the handler (`websocket.ts:67, 90`);
a stop overtook the provider in the worker (`processSandboxWorker.ts:556`). `NothingIsForgotten` and
`StopsArrive` except just those, which are weaknesses of the code (section 6).

### Monitor, WorkloadAlerts, TerminationAlerts

**Monitor** has the refresh flag with who waits for it, intervals, the debounced timer, connection checks in
flight, `eventWatchers`, and what became of each watcher. A refresh returns with any set of sources that
answered, because each answer is raced with a timer of five seconds. **WorkloadAlerts** follows one workload
of one source through refreshes, statistics whose analysis is awaited per metric, and the baselines of
`webhookEvents.ts`. **TerminationAlerts** follows the lives of one workload: die, stop and start events that
may repeat or be lost, the correlation window, the diagnoses under way, and the eviction of the oldest entry.
Left out: the arithmetic of the anomaly detector (any verdict may come), the contents of the graph.

### AccessControl, AccessPanels, TabSession

**AccessControl** cuts the three routes that write the token file into reading, the truncation that
`writeFile` begins with, filling and what follows; `requests` has a place for each request under way.
Sessions carry the token they were issued under, which the code does not keep, and the
properties are about. **AccessPanels** is a page: gate, security panel and store, with requests and status
checks that are handled in one step and answered in another while other clients change the token. An entry
and what the server makes of it (trimmed) differ. **TabSession** is the session that the gate starts and
stops, its socket with reconnects, and the log subscription.

### PluginMarketplace, PluginStorage, PluginCatalogs, PluginLoading, PluginStores

**PluginMarketplace** is one install, update or uninstall at a time: `act` is its position with what it
remembers; every step may fail and the rollback runs, every step may be the last before a crash; a copy that
is not complete is `Partial`. **PluginStorage** is the data directory of one plugin with the migration from
the legacy place, marker and copies apart. **PluginCatalogs** has a publisher that uploads, publishes and
changes keys between any two reads of a request. **PluginLoading** has files that change between the read of
`plugin.json`, the import and a later process; a module has a manifest of its own. `policy` is what the
environment grants to all plugins: any set of permissions, the same one as long as the server runs. **PluginStores** has the
unqueued read-change-write of four files; `lossy` is a ghost: two operations met on one file, or the server
was killed while it wrote one.

### FlightRecorder, MetricHistory, EntityOperations, ComposeProjects, ServerProcess

**FlightRecorder** keeps segments and counters, with small limits; **MetricHistory** series, the writer at
work and the shutdown. **EntityOperations** asks the providers it found at its start, one after the other,
while hosts and plugins come and go; a container may exist under the same id on several daemons.
**ComposeProjects** has listings and actions that look once and then work through what they saw, and the
panel that starts them. **ServerProcess** has the stages of the start, ports, signals and any two shutdowns
beside each other.

### ReplayClient, SidebarPanel, PluginFrames, GraphRendering, FlatGraphView

In **ReplayClient** `Merge` is `mergeGraphData`: nodes on the screen keep their stats, and pods that are not
sent any more stay as terminating until the prune timer (`Expire`). A recording is its first graph and frames
of three kinds, graphs, events and stats, which `After` applies one after the other to what is on the screen.
`Shows` says what is claimed of a replay: the nodes of the graph last told until the scrubber's position, with
their descriptions, no others but pods that leave; the events told until then; and the stats of a node from the
last frame with any, as long as the graphs told since have it. Not claimed is what the code does not do. Where
the recording has no stats of a node yet, those of the live view or of a later position stay on the screen, and
so do pods for the time of their leaving, although a rewind is to "rebuild state from the start"
(`recorder.svelte.ts:222`): `mergeGraphData` keeps both, also over the end of the replay. One recording is made
in a behaviour, other recordings come from files; `Measured` are the nodes that have stats. The limit of 200
events on the screen, anomalies and diagnostics are left out.

In the other modules a value is represented by the graph, or the node, it is of; so "shows what is of the
selected node" can be stated. An effect of Svelte runs before anything else can happen and is part of the action that triggers it.
Every request answers in its own time, aborted ones included. **GraphRendering** keeps the objects that the
3D view changes step by step; `Look(n, data)` is what a rebuild would give. **FlatGraphView** has the layout
of `layout.ts` as operators, over graphs with cycles, chains longer than a row and shared networks, and what
selection, networks, impact view and camera make of the states the host sends.

### PluginManager, ConnectionsPanel, EnvironmentCompare, WebhookPanel

The dialogs: `server` (or `stored`, `conns`) is what the server has, `shown` what the panel last loaded, and
requests are records on their way. `behind` is a ghost: requests crossed or failed since everything was
loaded, after which the panels may be out of date until they load again. **EnvironmentCompare** also has
`compareEnvironments` as an operator, compared with a definition of "the same service".

### EndpointMonitor, KubernetesGraph, PodMetrics

**EndpointMonitor** is the process of the endpoints plugin over its storage: `mutations` is the queue of
changes, the first of them under way, `callers` who is in `refresh()`, and `flight` the checks that the
callers share. The process may be killed between any two steps and is started again with what is stored.
**KubernetesGraph** lists the kinds one after the other while the cluster changes; each list may be refused,
as a service account without the right to it finds. `BuildGraph` is `graph/index.ts`, over clusters in which
namespaces use the same names and owners are gone; `RunAction` is a change through a form that `Offered`
proposed. **PodMetrics** has the snapshot, the fetch that callers join, and a clock.

### ServerParts, PluginParts, MCParts

Twenty-eight of these modules touch no state of each other, so they share one run: `part` chooses at the
beginning which one behaves, and the others stay in an initial state. **ServerParts** has the instances that
know no plugin: StreamSessions, ServerProcess, WorkloadAlerts, TerminationAlerts, AccessControl,
PluginMarketplace, PluginStorage, and of the tab TabSession, ReplayClient, AccessPanels, WebhookPanel,
SidebarPanel, PluginFrames, GraphRendering, and MetricHistory. **PluginParts** has those that load, configure
and ask plugins, and the official plugins: PluginStores, EndpointMonitor, PluginCatalogs, PluginLoading,
EntityOperations, ConnectionsPanel, ComposeProjects, PluginManager, EnvironmentCompare, FlatGraphView,
KubernetesGraph, PodMetrics. **MCParts**, which extends both, has FlightRecorder, the steps, the properties,
and the graphs, environments and clusters that `parts.cfg` gives to the constants. In `ServerParts`, which
knows no plugin, `Nil` stands for what is `None` in the modules of the tab. Each invariant of `MCParts` is a
conjunction over the parts that it is about.

## 4. Runs: bounds, fairness, results

| Run (module) | Properties | Instance | Shows |
|---|---|---|---|
| `lifecycle` (MCPluginLifecycle) | EnabledIsStored, StatusMatchesEnabled, AnnouncedQuarantineIsStored, CrashesQuarantine, QuarantineIsSticky | 2 calls, 1 report, threshold 2 | overlapping requests, crash reports and restarts; the state file agrees with the registry, and as many crashes as the threshold quarantine the plugin |
| `sandbox` (ProcessSandbox) | TypeOK, OneProcess, PendingIsCurrent, ProcessIsKept, IsFailStop, EveryCallSettles | 2 calls, 3 processes, timers fair | requests, processes, the abstract service; nothing is left behind or unanswered |
| `webhook` (WebhookNotifier) | TypeOK, OneDrain, InOrder, NothingAfterStop, QueueEmpties, LatestStateIsSent | 2 keys, 1 cooldown, queue 2, 4 alerts, 2 attempts, deliveries fair | delivery at its limits, coalescing with evictions and late timers, shutdown, progress |
| `settings` (WebhookSettings) | TypeOK, OldIsSilent, ServesItsFile, SilentOnceClosed, StopReturns | 2 URLs, 2 waiting updates, 5 notifiers, fair | changes, failures, crashes, shutdown and its end |
| `monitor` (Monitor) | TypeOK, WatchedOnce, StopEndsWatching, WatchedAgain | 2 sources, 3 watchers, 1 connection check, fair | refreshes, watchers that fail, checks and shutdown interleave; a connected source is watched again |
| `parts` (MCParts) | TypesOK, and the thirteen of the next table | 28 modules, one at a time | each component with its own hazards |

| Property of `parts` | Is |
|---|---|
| EndsCleanly | StreamSessions `NothingIsForgotten`, `StopsArrive`; ServerProcess `ExitIsClean`; EndpointMonitor `StopEnds` |
| NothingUnasked | StreamSessions `StoppedIsSilent`; FlatGraphView `CameraIsKept` |
| AlertsAreTrue | WorkloadAlerts `AlertsAreCurrent`; TerminationAlerts `ExitsAreReportedOnce` |
| AccessEndsWithToken | AccessControl |
| PluginsSurvive | PluginMarketplace `FailureRestores`, `PluginIsNotLost` |
| StorageSurvives | PluginStorage; PluginStores `StoresKeep`; EndpointMonitor `EndpointsAreWatched` |
| HistoryIsKept | FlightRecorder `ClipIsLongest`; MetricHistory `ShutdownSaves`; PodMetrics `MetricsAreFresh` |
| InstalledIsTrusted | PluginCatalogs |
| ActsAsAgreed | PluginLoading |
| ReachesItsOwner | EntityOperations; ConnectionsPanel `ConnectionsFit`; ComposeProjects `ProjectsAreTrue` |
| TabIsConsistent | TabSession `SessionFollowsGate`; ReplayClient `ReplayOwnsGraph`; AccessPanels `StoreFits`; PluginManager `PanelSettles`; WebhookPanel `WebhookEditsAreKept` |
| ShowsItsNode | SidebarPanel `PanelIsOfNode`; PluginFrames `FrameIsOfNode` |
| ViewIsOfData | GraphRendering; FlatGraphView `FlatViewIsRight`; EnvironmentCompare `ComparesAll`; KubernetesGraph `GraphIsOfCluster` |

The other runs expect a violation; section 6 says what each shows. `sessions_crash` and `access_restart`
check StreamSessions and AccessControl themselves.

Why the bounds are enough. *Lifecycle*: the handlers have at most three awaits, share one entry, and
interact pairwise (one writes back what another changed); two calls and one report reach every pair, and a
call slot is used again and again. The threshold is 2, the smallest at which one crash does not quarantine;
it is 3 in the code, and the proofs hold for any. *Sandbox*: three processes are one that is gone or
closing, the current one and its successor; two calls are one that waits or is pending and one that comes,
and each slot is used again. *Notifier*: a queue of two has a head, a tail and a refused alert (the fourth,
with one under way); two attempts are one retry and the last; one cooldown for two keys forces an
eviction at every change of key. *Settings*: two URLs tell old from new, two waiting updates are one that
`stop()` finds and one that comes after it. *Monitor*: two sources tell one that is watched from one that
is not; three watchers are one for each and one that has failed and not closed yet.

*Parts*: two of what can be confused (streams, tokens, keys, nodes, hosts, catalogs' keys, versions,
directories) and two of what can overlap (requests, lives, loads, shutdowns); one message of a worker waits
to be handled, beside what waits in the other direction; a recorder of five bytes and three frames over four
messages reaches each of its limits; a replay has a
recording of at most two frames, which may be of any kinds, or one from a file, over a container, a pod with
stats and three graphs, with both or one of them, so that a rewind finds other graphs, stats and events on the
screen than it began with; one attempt is the last before the lockout; a port and one more are the
first and the last. Two endpoints are allowed and one is checked at a time, so a third is refused and a
second waits; a second process is the one after a kill or a stop. The cluster has two namespaces with the
same names, and none, one or all of its lists are refused. The clock of the metrics ends at twice their
lifetime. The access part has a proxy or a read-only token, not both, because neither branch of
`authenticateRequest` looks at the other. Initial states that a part does not need to tell apart are reduced
to one while other parts are looked at.

Bounds that stop behaviours (`MaxSpawns`, `MaxAlerts`, `MaxNotifiers`, `MaxStreams`, `MaxOps` and the like)
are named in the guards, and those runs do not check deadlock; the lifecycle runs do. Symmetry over calls is
used in `lifecycle` and in violation runs whose definitions do not tell calls apart, and never in a run with
a liveness property; `parts` uses none.

Fairness. It is stated for the runs whose properties include liveness. *Sandbox*: only the timers of requests
are fair, since `setTimeout` fires; neither the worker nor a process owes anything, so `EveryCallSettles` is
due to the timers alone. *Notifier*: the drain is fair, because a request is answered, aborted or times out
after 5 seconds, a wait ends and a promise callback runs; alerts and `stop()` are not. That the queue empties
rests on the bounded number of alerts; that each alert leaves it follows with `InOrder`. *Settings*: file
operations settle, callbacks run, and an aborted request ends, so the drain of a stopped notifier ends;
updates, alerts and crashes are not fair. *Monitor*: the interval ticks, a refresh returns (its timers fire),
and a stream that has failed closes; sources, checks and the shutdown owe nothing. `parts` has no liveness.

## 5. Proofs

Every theorem holds for all values of the constants under the assumptions the modules name
(`LifecycleAssumption`, `SandboxAssumption`, `NotifierAssumption`, `SettingsAssumption`, `UrlAssumption`,
`MonitorAssumption`, `ServerAssumption`, `BoundsAssumption`, `PluginAssumption`, `LimitsAssumption`,
`RecorderAssumption`). They say that bounds are numbers, that a recording in a file is not longer than those
that are made, that there is a version, a graph to show, a release, a probe, a key, a value and a catalog to choose
in the panel, that what an API server refuses are kinds of objects, that `None`, `Nil` and `Torn` are no
values of the code's, and that sets that stand for data are
finite. TLC evaluates each of them in a run. Where constants are the data that a part is given,
`PluginAssumption` says what the code takes them to be:

- `ComparedAreServices`: an environment is a list of services with a project, name, image, status and ports.
- `FlatGraphsAreSound`: the lists of ids and groups name nothing twice (they are sorted keys of maps), a graph's
  dependencies are between its nodes (the server makes links between nodes it has, and `layout.ts:69` skips the
  rest), and the groups of its nodes are listed.
- `ObjectsAreSound`: what the API server of Kubernetes guarantees, that a name is of one object of its kind in
  its namespace and that at most one owner of an object is its controller.
- `OwnersAreSound`, `ClustersAreSound`: what its controllers do. The controlling owner of a pod is the
  workload that the pod is part of or a replica set of that workload, and that replica set is there as long as
  the pod and the workload are. Other owners, owners that are gone and objects of equal names in other
  namespaces are as they come.

Components with a run of their own have a proof module of their own, where `Invariance` is
`Spec => []IInv`, by one lemma per action or group of actions, and the properties follow.

- **PluginLifecycle_proofs**: `TypeCorrect`, `StatusAgrees`, `FlagIsStored`, `AnnouncedIsStored` and the
  action properties `QuarantineSticks` and `CrashesAreCounted` (as
  many crashes as the threshold, whatever it is, quarantine the plugin, but for the exceptions the property
  names). That status and flag agree is not inductive, since `start()` and
  `stop()` write back older entries: `IInv` adds `SnapOK`, what a suspended call may hold (an enabled entry
  while starting, a started one while stopping, always a consistent one), and that a registered plugin has
  an entry. The other three rest on the queue of the state store: `QueueOK` says that each queued write has
  a call of its own that awaits it, and those of a quarantine say so; `QuarantineOK` that a quarantine which
  was published stays in the file whatever is queued; `SavedOK` that the last write of the queue, or else the
  file, is what the registry holds, unless a ghost (`late`, `stale`) says why not; `AnswersOK` and
  `ReportsOK` which entries the answers of a plugin and crash reports may still save.
- **ProcessSandbox_proofs**: `TypeCorrect`, `OneIsConnected`, `PendingOnTheChild`, the action property
  `ProcessKept`, and `Refinement`, that the sandbox implements `FailStopService`. `ensureInitialized` forks a
  process whenever the child is not connected or the descriptor is not set; that it never forks one beside a
  connected child rests on `LoadingOK`: before the descriptor arrives only the loader's call is there, and a
  connected child is being initialized for it. `CallsOK` says that without a child there are no calls,
  `ChildOK` that a child is connected where channels close with the exit, `CountOK` bounds the restarts. The
  refinement has one lemma per step of the service (`StopMaps`, `SettleMaps`, `PassMaps`, `OpenMaps`,
  `OpenFreshMaps`), to which each action is reduced.
- **WebhookNotifier_proofs**: `TypeCorrect`, `DrainIsAlone`, `DeliveredInOrder`, `LatestIsSent` and the
  action property `SilentAfterStop`, for any limits. `IInv` says that the drain that is not gone is the one
  `running` names, that numbers in the queue increase, are bounded by `numbered` and are greater than that
  of the alert under way, for which the queue must be typed; for `LatestIsSent`, that a key whose last state
  was not passed on has a cooldown that holds that state.
- **WebhookSettings_proofs**: `TypeCorrect`, `OldStaysSilent`, `FileIsServed`, `ClosedIsSilent`, for any URLs
  and any number of updates. `IInv` ties the step of the update to the file, to the notifiers that were
  stopped and to how far `stop()` has come.
- **Monitor_proofs**: `TypeCorrect`, `OneWatcher` and `StopEnds`, for any sources and watchers. A live
  watcher is that of its source's entry, which `syncEventWatchers` (`SyncOK`) and the end of a watcher
  (`ForgetOK`) keep; `Phases` says that the first refresh is over before there are intervals, so that a
  shutdown cannot find it under way, and `Stopping` what `late` remembers.

The parts that share the run `parts` have their lemmas in two modules, over the instances of
**ServerParts** and **PluginParts**, and their theorems in **MCParts_proofs**. A part `X` has an invariant
`XInv` with `X!Init => XInv` and `XInv /\ [X!Next] => XInv'`; since a step of `MCParts` is a step of one part
that leaves the others alone, the invariants of the parts are invariants of the whole. The proof of a part mentions no other part.

| Theorem of MCParts_proofs | Property | What the invariants of its parts add |
|---|---|---|
| `EndIsClean` | EndsCleanly | `SessionsInv`: what each channel between server and worker may hold of a stream, in which order, and where its stop is; `OneWaits`, that one handler of a kind waits at a time. `ProcessInv`: what runs at each stage of the start, and what a shutdown has closed when it is where it is. `ChecksInv`, below |
| `StoredIsKept` | StorageSurvives | `StorageInv`: a migration under way has published what it has done. `StoresInv`: until two operations meet on a file, what is under way is the last that was asked for. `ChecksInv`: only the first queued change is written, and who asked for checks finds its endpoint in them |
| `AlertsHold` | AlertsAreTrue | `ExitsInv`: an exit is reported or being diagnosed at most as often as it was entered |
| `TokenEndsAccess` | AccessEndsWithToken | `AccessInv`: sessions and remembered tokens are those of the token in force |
| `PluginsAreKept` | PluginsSurvive | `MarketInv`: which of three places has a whole copy at each step, and how far an action is from what it began with |
| `OnlyTrustedInstalled` | InstalledIsTrusted | `CatalogsInv`: the keys an install and an addition go on with were pinned or are the ones they saw |
| `AgreedIsDone` | ActsAsAgreed | `LoaderInv`: grants, those a pass began with included, are of what was agreed to, with those of the environment; what is loaded next was checked against them |
| `OwnerIsReached` | ReachesItsOwner | `EntitiesInv`: who may be asked for what. `ConnectionsInv`: a draft is of the provider it is kept for; a request without another beside it sees the lists as they are. `ProjectsInv`: what is left for a request is as it saw it, and the rest is done, unless others changed the project |
| `TabHolds` | TabIsConsistent | `TabInv`: the check of a page that was just mounted is the only one and comes before any session. `ReplayInv`: a replay has applied the frames up to its position, and the screen is what `Shows` says of them; the frame that is applied next keeps that (`FrameShows`, by the kind of its message), and so do any number of them (`FramesGo`, by `Counting`), the start over any screen (`ResetShows`) and the prune timer (`ExpiryShows`). `GateInv`: all that is known of the server, on its way included, fits it unless it is known to be old. `WebhooksInv`: the form is the one the request was made of, and an answer says what the server had. `ManagerInv`: a request is alone until another one is made, and what it changes is shown once it is answered |
| `NodeIsShown` | ShowsItsNode | `PanelInv`: what is loaded, offered, read and typed is of the selected node; a terminal is open only while it is mounted. `FramesInv`: a frame is there for the shown node only, with its query and its replies |
| `RecordsAreKept` | HistoryIsKept | `RecorderInv`: the segments tile the end of what was said, each from a graph to the next, from the first graph that is within the three limits, and both counters are of them. `HistoryInv`: the last writer writes what is in memory, and nothing is sampled beside it. `MetricsInv`: the fetch under way is the one that is joined, and who waits asked before it ends |
| `ViewShowsData` | ViewIsOfData | `ViewInv`: the snapshot that a refresh is compared with is the graph the objects were made for. `CompareInv`: what is shown is the comparison of two graphs as they were found. `ClusterInv`: each list is of what the cluster had when its kind was asked for, and nodes and owners are of those lists. `FlatInv`: the graph is one the host sent and a network that is shown is one of it; that cards, ranks and highlights are right is proved of the layout of every graph |
| `UnaskedIsNothing` | NothingUnasked | `SilenceInv`: a stream that was stopped is not in the map of the sandbox any more |
| `TypesHold` | TypesOK | for each part its type invariant, beside the invariant above that it needs; see below |

They hold for any number of streams, signals, versions, requests, keys, nodes, queries and so on; the sets of names
that `ServerParts` and `PluginParts` write out (two plugin directories, two connections, two containers of a
project, the tokens typed at the gate) are as they stand there. `UnaskedIsNothing` is an action property; that
a state of the host does not move the camera follows from the steps themselves.

The operators of these parts compute with data of any size, and what they compute is proved by induction,
which the library states with operator parameters that the provers cannot instantiate. `LeastNumber` (a set
of numbers has a least member, from `WFMin` and `NatLessThanWellFounded`) and `Counting` (a set of numbers
with 0 and the successors of its members has them all) take its place: the set of the prefixes of which a
statement holds is given to `Counting`, as in `RunningExists`, and `Recursion` does it once for the functions
on prefixes. So are proved the sums and the pruning of the recorder; the walk of `layout.ts` (`WalkInv`: what
is counted for a node are its sources that had no turn, nodes without any are queued behind their sources,
and ranks follow the turns), which gives every node off a cycle the rank after the last one before it; the
stacking of the groups; the growth of the impact view to a closed set in as many rounds as there are nodes;
and that ports which are the same in any order have the same elements, as often.

`TypesHold` says of all 28 parts that they stay within their types, and the types say more than of what
kind a value is: that a client hears no more answers than it asked for, that no request is under way without
a place or a number of its own, that counters stay within their bounds, that what is listed, selected or
remembered is there. Where a type is not inductive, the lemmas of the part strengthen it: what a channel still
holds is counted with what was heard, by the number of copies of each message; the numbers of requests are
those up to the last, so that a new one is not among those under way and no more are under way than numbers
were given; the elements that `Only` keeps are proved, by `Recursion`, to be of its argument and no more than
those. The lemmas follow those on the properties, in the same modules, and the history, the recording and
the requests for entities have theirs in MCParts_proofs.

Only model-checked: the liveness properties (`EveryCallSettles`, `QueueEmpties`, `StopReturns`,
`WatchedAgain`), which are beyond the proof system with their fairness. Every invariant and every action
property of the passing runs is a theorem.

## 6. What the checks say about the code

Six runs check a statement of the documentation or of a comment and find a behaviour of the code that
contradicts it. `PROJECT.json` "findings" quotes the lines.

- `lifecycle_disable_while_starting`: a plugin disabled while it is being started ends up started and
  enabled (`start()` writes back the entry it read), while the state file says disabled. The same write-back
  makes `listPlugins` return a plugin uninstalled meanwhile, and, when the plugin object was replaced
  meanwhile, brings a quarantined plugin back to started.
- `lifecycle_disable_after_failure`: a rejected configuration change marks a running plugin failed, and
  `stop()` ignores plugins that are not started, so disabling it leaves it running.
- `lifecycle_reinstall_after_quarantine`: after an uninstall and an install of a quarantined plugin the
  quarantine is still in the state file and returns with the next start of the server.
- `sandbox_respawn`: the descriptor outlives the process, so a second operation after a crash reaches the
  fresh worker before its plugin is loaded and is refused.
- `sessions_crash`: a plugin process that crashes while an exec session is being opened destroys a stream
  nobody listens to, whose error is uncaught and ends the server.
- `access_restart`: two overlapping changes of the token file leave it different from the token in force.

`QuarantineIsSticky`, `EnabledIsStored`, `LatestStateIsSent`, `NothingIsForgotten`, `StopsArrive`,
`StopEndsWatching`, `PanelSettles`, `StoresKeep` and others hold where a known cause is excluded, by a ghost
that the property names. What the modelling showed of those causes, and of the code around them:

*Alerts.* A webhook timer that fires late sends the older state after the newer one (`webhooks.ts:280`). A
channel that closes before the exit of its process lets a new call spawn a successor, and the exit then
rejects nothing (`processSandbox.ts:370`, the systems with `closesEarly`). A diagnosis that takes long reports
"stopped" after "started" of the next life.

*Streams.* Of two overlapping subscriptions of one client, the first is never stopped (`websocket.ts:81`); a
stop that overtakes `startLogStream` in the worker finds nothing to stop; a crash while the start of a log
stream is pending reports the error twice; after `exec_exit` the socket stays open and "Reconnect" does
nothing (`SidebarExec.svelte:29`).

*Access.* A failing write of the token file is an unhandled rejection. Sockets that are open keep their role
after a rotation. The set-up trims the token (`authRoutes.ts:199`), signing in does not trim what is typed. A
status check that fails, or is out of date, can remove the gate without a session (`auth.svelte.ts:126`). The
security panel always says "updated" (`SecurityPanel.svelte:40`).

*Plugins.* `reloadHandler` loads every external plugin, with its process, to keep one (`internal.ts:105-132`);
the worker of a plugin that fails validation stays. `stopAll` skips loaded plugins that are disabled. Lists of
providers that are held over an await revive the process of a plugin disabled meanwhile. The host API checks
the permissions of `plugin.json`, review and registry show the module's manifest. An update that renames
configuration keys makes the plugin unloadable before its migration command can run
(`docs/plugin-operations.md:59-68`). Two unqueued saves of the secrets or configurations lose one; a kill in
the middle of one loses all. A crash between the renames of an install leaves an index that names a directory
that is not there; a failed rollback removes the directory with the backup; the review shows one entry and
the install reads the catalog again (`docs/plugins.md:641`); a catalog removed during an install is loaded
unverified.

*Docker.* `addHost` replaces a host that was added during its ping (`hosts.ts:97`). `down` of a project never
listed loses it, `up` of one that does not exist reports success, and so do `down` and `destroy` without
compose files. A listing that is under way during `destroy` brings the project back into the cache.

*Official plugins.* A storage read of the endpoints plugin that fails once is remembered, so each later start
in the same process fails as well (`endpoints/plugin.mjs:112`). A link of an ingress may lead to a service
that is not drawn (`graph/index.ts:53`); the client drops it (`web/lib/graphMerge.ts:20`).

*Process.* A second signal runs a second `close()`; its failure exits with 1 in the middle of the first. A
request may start a plugin again after `stopAll`. A port that is free when it is tested may be taken when the
server listens. Without the frontend's development server the process exits without closing plugins.

*Web client.* Starting or rewinding a replay merges the recording's first graph into what is shown: stats from
before stay where the recording has none yet, and pods of the live graph leave gradually
(`recorder.svelte.ts:222`, `graphMerge.ts:44-98`). A recording started right after a replay takes the old graph as its baseline. A fetch that is
late shows an older graph until the next broadcast. An action that removes its node closes whichever node is
selected when its answer comes (`Sidebar.svelte:149`). Polling every five seconds aborts slower queries of
plugin panels. The first graph with nothing visible marks the 2D view as fitted. A save of the webhook
dialog overwrites what another client saved; drafts of the plugin panel are lost when any answer loads.
Comparing treats `host:5000/img` as tagged.

## 7. Not modelled, and why

`PROJECT.json` lists every component with what is left out of it. Two actions of the marketplace at once,
several plugins in one registry, several clients of one stream server, and bundled optional plugins are
combinations that the models do not have. Left out for good: validation of the fields of manifests,
configurations, UI documents and messages (pure functions of their input), signatures and archives as such,
the Docker adapters and the logs, exec sessions and inspection of the Kubernetes plugin (translations of
external APIs), what a probe of an endpoint finds and how that is shown, the arithmetic of the anomaly
detector, TLS, origin checks and routes without state, rendering, animation and layout of the web client
beyond what section 3 names, the command line, scaffolding and scripts.
