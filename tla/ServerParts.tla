---------------------------- MODULE ServerParts ----------------------------
(***************************************************************************)
(* The parts of the server that know no plugin: its streams, its process,  *)
(* the alerts and exits of its monitor, its metrics, its access, and the   *)
(* files it keeps of plugins and for them; and what of a tab faces them:   *)
(* its session, the gate, the form of the webhook, the replay, the graph,  *)
(* the sidebar and the frames of plugins.  Each is an instance of its      *)
(* module, with variables of its own; alerts and exits share the stop of   *)
(* the monitor.                                                            *)
(***************************************************************************)
EXTENDS Naturals, Sequences, FiniteSets

CONSTANTS
  MaxStreams, MaxData, MaxWaiting,             \* StreamSessions
  MaxPort, MaxSignals,                         \* ServerProcess
  MaxLives, MaxWindows,                        \* TerminationAlerts
  Workloads, MaxSeries, Retention, MaxTime,    \* MetricHistory
  AccessTokens, MaxRequests,                   \* AccessControl
  MaxSessions, MaxAttempts,
  MaxVersions,                                 \* PluginMarketplace
  Keys, MaxValue,                              \* PluginStorage
  Nil,                                         \* what a tab does not have
  LogTargets, MaxChecks,                       \* TabSession
  MaxVersion, MaxClip, ReplayNodes,            \* ReplayClient
  ReplayPods, ReplayMeasured, ReplayListings,
  ReplayFiles,
  GateReader, MaxGateEvents,                   \* AccessPanels
  HookUrls, HookSelections,                    \* WebhookPanel
  GraphNodes, Streaming,                       \* SidebarPanel
  Links, ProjectOf, HostOf,                    \* GraphRendering
  MaxLoads, MaxQueries, MaxMessages            \* PluginFrames

VARIABLES
  asked, wsOpen, kind, handler, logStream, execStream, streams, request, stoppedStreams,
  toWorker, toParent, worker, said, heard, alive, overlap, missed,
  valid, startStage, port, taken, upParts, handlers, closes, signals, revived, outcome,
  node, stage, active, connected, health, stopped, anomalyAlert, healthAlert, connAlert,
  life, terminations, diagnosing, reports, windows,
  historyNow, series, historyFile, writing, phase, clean,
  env, config, file, sessions, issued, verified, failures, fileRequests,
  catalog, act, dir, index, registered, leftover, trouble,
  legacy, files, marker, op, expected,
  server, checks, submit, auth, session, ws, timer, logs, sent,
  version, screen, fetches, recording, clip, loading, replaying, playing, position, applied,
  gateEnv, gateServer, gateEvents, known, dismissed, securityOpen, gate, security,
  gateRequest, gateCheck,
  storedWebhook, byEnvironment, status, url, selection, saveRequest, saveFailed,
  confirming, wanted, typedUrl, alone,
  shownNode, role, inReplay, tab, offered, details, load, late, dialog, acting,
  stream, reading, read, term, socket, strayed,
  context, present, operator, showsReplay, panel, frame, posted, hostQuery, replies,
  invoking, mixed,
  data, mounted, snapshot, drawn, rings, scope, clusters, hostClusters, framed

\* What is typed at the gate, and what the server makes of it.
GateEntries == {"o", "a padded o"}
GateTrimmed == [entry \in GateEntries |-> "o"]

Sessions == INSTANCE StreamSessions WITH stopped <- stoppedStreams
Process == INSTANCE ServerProcess WITH stage <- startStage, parts <- upParts, None <- "none"
Alerts == INSTANCE WorkloadAlerts
Exits == INSTANCE TerminationAlerts
History == INSTANCE MetricHistory WITH file <- historyFile, now <- historyNow
Access == INSTANCE AccessControl WITH Tokens <- AccessTokens, None <- Nil, requests <- fileRequests
Market == INSTANCE PluginMarketplace
Storage == INSTANCE PluginStorage
Tab == INSTANCE TabSession WITH Targets <- LogTargets, None <- Nil
Replay == INSTANCE ReplayClient WITH MaxFrames <- MaxClip, Nodes <- ReplayNodes,
  Pods <- ReplayPods, Measured <- ReplayMeasured, Listings <- ReplayListings,
  Files <- ReplayFiles, Nothing <- Nil
Gate == INSTANCE AccessPanels WITH Entries <- GateEntries, Trimmed <- GateTrimmed,
  Reader <- GateReader, MaxEvents <- MaxGateEvents, None <- Nil, env <- gateEnv,
  server <- gateServer, events <- gateEvents, auth <- known, panelOpen <- securityOpen,
  panel <- security, request <- gateRequest, check <- gateCheck
Webhooks == INSTANCE WebhookPanel WITH Urls <- HookUrls, Selections <- HookSelections,
  None <- Nil, stored <- storedWebhook, managed <- byEnvironment, request <- saveRequest,
  failed <- saveFailed, typed <- typedUrl
Panel == INSTANCE SidebarPanel WITH Nodes <- GraphNodes, Executable <- Streaming, None <- Nil,
  replaying <- inReplay
Frames == INSTANCE PluginFrames WITH Nodes <- GraphNodes, MaxFrames <- MaxLoads, None <- Nil,
  replaying <- showsReplay
View == INSTANCE GraphRendering WITH Services <- GraphNodes, Dependencies <- Links,
  Project <- ProjectOf, Host <- HostOf

\* The graphs and the recordings of the replay: what is listed and measured are nodes.
ASSUME ReplayAssumption ==
  /\ {MaxVersion, MaxClip} \subseteq Nat \ {0}
  /\ {"graph", "event"} \cap ReplayNodes = {} /\ ReplayMeasured \subseteq ReplayNodes
  /\ ReplayListings \in Seq(SUBSET ReplayNodes) /\ MaxVersion <= Len(ReplayListings)
  /\ Nil \notin Replay!Recordings /\ ReplayFiles \subseteq Replay!Recordings
  /\ \A r \in ReplayFiles : Len(r.frames) <= MaxClip

\* What the proofs need of the constants: there is a version of a plugin, a key and a
\* graph to show, a graph has so many nodes, and a request of a form is something.
ASSUME ServerAssumption ==
  /\ {MaxStreams, MaxPort, MaxSignals, MaxLives, MaxWindows, MaxValue} \subseteq Nat
  /\ MaxVersions \in Nat \ {0}
  /\ Keys # {} /\ IsFiniteSet(GraphNodes)
  /\ Nil \notin Webhooks!RequestSet \cup Access!Request

\* A bound is a number.
ASSUME BoundsAssumption ==
  {MaxData, MaxWaiting, MaxSeries, Retention, MaxTime, MaxRequests, MaxSessions, MaxAttempts,
   MaxGateEvents, MaxLoads, MaxQueries} \subseteq Nat

sessionVars ==
  <<asked, wsOpen, kind, handler, logStream, execStream, streams, request, stoppedStreams,
    toWorker, toParent, worker, said, heard, alive, overlap, missed>>
processVars ==
  <<valid, startStage, port, taken, upParts, handlers, closes, signals, revived, outcome>>
alertVars == <<node, stage, active, connected, health, anomalyAlert, healthAlert, connAlert>>
exitVars == <<life, terminations, diagnosing, reports, windows>>
historyVars == <<historyNow, series, historyFile, writing, phase, clean>>
accessVars == <<env, config, file, sessions, issued, verified, failures, fileRequests>>
marketVars == <<catalog, act, dir, index, registered, leftover, trouble>>
storageVars == <<legacy, files, marker, op, expected>>
tabVars == <<server, checks, submit, auth, session, ws, timer, logs, sent>>
replayVars ==
  <<version, screen, fetches, recording, clip, loading, replaying, playing, position, applied>>
gateVars ==
  <<gateEnv, gateServer, gateEvents, known, dismissed, securityOpen, gate, security,
    gateRequest, gateCheck>>
webhookVars ==
  <<storedWebhook, byEnvironment, status, url, selection, saveRequest, saveFailed,
    confirming, wanted, typedUrl, alone>>
panelVars ==
  <<shownNode, role, inReplay, tab, offered, details, load, late, dialog, acting,
    stream, reading, read, term, socket, strayed>>
frameVars ==
  <<context, present, operator, showsReplay, panel, frame, posted, hostQuery, replies,
    invoking, mixed>>
viewVars == <<data, mounted, snapshot, drawn, rings, scope, clusters, hostClusters, framed>>

=============================================================================
