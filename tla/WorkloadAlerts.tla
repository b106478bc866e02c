--------------------------- MODULE WorkloadAlerts ---------------------------
(***************************************************************************)
(* What the monitor alerts about one workload of one source: anomalies of  *)
(* its metrics (server/monitor.ts, with one analyzer), and the health and  *)
(* connectivity transitions of server/webhookEvents.ts.                    *)
(*                                                                         *)
(* A refresh of the graph is one step, at its return.  The statistics of   *)
(* the workload are fetched meanwhile: getStats and each analysis are      *)
(* awaited, and refreshes fall in between.                                 *)
(***************************************************************************)
EXTENDS Naturals

VARIABLES
  node,        \* the workload in cachedGraph: absent, idle or running
  stage,       \* what refreshStats awaits for the workload
  active,      \* activeAnomalies of the workload
  connected,   \* WebhookTransitions.connected of the source
  health,      \* WebhookTransitions.health of the workload; "unknown" for none
  stopped,
  \* What was alerted, to be compared with what is.
  anomalyAlert,  \* the last alert per metric since the workload is followed
  healthAlert,   \* the last health alert since a baseline, or that baseline
  connAlert      \* the same for the connection

vars == <<node, stage, active, connected, health, stopped, anomalyAlert, healthAlert,
          connAlert>>

Metrics == {"cpu", "memory"}
Reported == {"healthy", "unhealthy"}
Healths == Reported \cup {"starting"}

-----------------------------------------------------------------------------
(* observe() of WebhookTransitions: what a collection says of the source.  *)

\* A connection that was not known before is a baseline.
ObserveConnection(c) ==
  /\ connected' = c
  /\ connAlert' = IF connected = "unknown" \/ connected # c THEN c ELSE connAlert

\* Defect: a reported health does not replace the one before.
MutObserveHealth(h) ==
  /\ health' = IF health = "unknown" \/ h \notin Reported THEN h ELSE health
  /\ healthAlert' = IF \/ "unknown" \in {health, h}
                       \/ health # h /\ h \in Reported THEN h ELSE healthAlert

\* A workload that was not in the last successful snapshot starts a new baseline.
ObserveHealth(h) ==
  /\ health' = h
  /\ healthAlert' = IF \/ "unknown" \in {health, h}
                       \/ health # h /\ h \in Reported THEN h ELSE healthAlert

\* The source is not in the collection: its plugin is gone.
ForgetSource ==
  /\ connected' = "unknown" /\ connAlert' = "unknown"
  /\ health' = "unknown" /\ healthAlert' = "unknown"

ForgetAnomalies ==
  /\ active' = {}
  /\ anomalyAlert' = [m \in Metrics |-> "none"]

-----------------------------------------------------------------------------
(* refreshGraph returns.                                                   *)

\* The source has answered, and the workload is there with health h.
Present(n, h) ==
  /\ ~stopped
  /\ node' = n
  /\ ObserveConnection("yes")
  /\ ObserveHealth(h)
  /\ UNCHANGED <<stage, active, stopped, anomalyAlert>>

\* The source has answered without the workload.
Absent ==
  /\ ~stopped
  /\ node' = "absent"
  /\ ObserveConnection("yes")
  /\ ObserveHealth("unknown")
  /\ ForgetAnomalies
  /\ UNCHANGED <<stage, stopped>>

\* The source has failed: its nodes leave the graph, what is known of them stays.
Outage ==
  /\ ~stopped
  /\ node' = "absent"
  /\ ObserveConnection("no")
  /\ UNCHANGED <<stage, active, health, stopped, anomalyAlert, healthAlert>>

SourceRemoved ==
  /\ ~stopped
  /\ node' = "absent"
  /\ ForgetSource
  /\ ForgetAnomalies
  /\ UNCHANGED <<stage, stopped>>

-----------------------------------------------------------------------------
(* refreshStats: one at a time, and it takes the nodes of its beginning.    *)

RefreshStats ==
  /\ stage = "idle" /\ node = "running"
  /\ stage' = "stats"
  /\ UNCHANGED <<node, active, connected, health, stopped, anomalyAlert, healthAlert, connAlert>>

\* getStats returns; or it fails, an analysis fails, or the timer is first.
StatsReturn ==
  /\ stage = "stats" /\ stage' = "cpu"
  /\ UNCHANGED <<node, active, connected, health, stopped, anomalyAlert, healthAlert, connAlert>>

StatsFail ==
  /\ stage # "idle" /\ stage' = "idle"
  /\ UNCHANGED <<node, active, connected, health, stopped, anomalyAlert, healthAlert, connAlert>>

\* Defect: the finding is alerted and not entered.
MutAnalyzed(m, found) ==
  /\ active' = IF found THEN active ELSE active \ {m}
  /\ anomalyAlert' = [anomalyAlert EXCEPT ![m] =
       IF stopped \/ found = (m \in active) THEN @
       ELSE IF found THEN "raised" ELSE "recovered"]

\* detectAndBroadcastAnomaly after its await: the entry is made again if a
\* refresh has deleted it.
Analyzed(m, found) ==
  /\ active' = IF found THEN active \cup {m} ELSE active \ {m}
  /\ anomalyAlert' = [anomalyAlert EXCEPT ![m] =
       IF stopped \/ found = (m \in active) THEN @
       ELSE IF found THEN "raised" ELSE "recovered"]

\* Memory is analyzed for workloads with a limit.
AnalysisReturns(m, found) ==
  /\ stage = m
  /\ \/ stage' = "idle"
     \/ m = "cpu" /\ stage' = "memory"
  /\ Analyzed(m, found)
  /\ UNCHANGED <<node, connected, health, stopped, healthAlert, connAlert>>

Stop ==
  /\ ~stopped /\ stopped' = TRUE
  /\ UNCHANGED <<node, stage, active, connected, health, anomalyAlert, healthAlert, connAlert>>

-----------------------------------------------------------------------------
Init ==
  /\ node = "absent" /\ stage = "idle" /\ active = {}
  /\ connected = "unknown" /\ health = "unknown" /\ stopped = FALSE
  /\ anomalyAlert = [m \in Metrics |-> "none"]
  /\ healthAlert = "unknown" /\ connAlert = "unknown"

Next ==
  \/ \E n \in {"idle", "running"}, h \in Healths : Present(n, h)
  \/ Absent \/ Outage \/ SourceRemoved
  \/ RefreshStats \/ StatsReturn \/ StatsFail
  \/ \E m \in Metrics, found \in BOOLEAN : AnalysisReturns(m, found)
  \/ Stop

Spec == Init /\ [][Next]_vars

-----------------------------------------------------------------------------
(* Properties.                                                             *)

TypeOK ==
  /\ node \in {"absent", "idle", "running"}
  /\ stage \in {"idle", "stats"} \cup Metrics
  /\ active \subseteq Metrics
  /\ connected \in {"unknown", "yes", "no"} /\ connAlert \in {"unknown", "yes", "no"}
  /\ health \in Healths \cup {"unknown"} /\ healthAlert \in Healths \cup {"unknown"}
  /\ anomalyAlert \in [Metrics -> {"none", "raised", "recovered"}]
  /\ stopped \in BOOLEAN

\* What was alerted last is what is: an anomaly is active as long as its last
\* alert is not a recovery, also when a refresh forgot the workload during the
\* analysis; a reported health or connection that differs from the baseline was
\* alerted, through any sequence of outages and other healths.
AlertsAreCurrent ==
  ~stopped =>
    /\ \A m \in Metrics : m \in active <=> anomalyAlert[m] = "raised"
    /\ health \in Reported => healthAlert = health
    /\ connected = connAlert

=============================================================================
