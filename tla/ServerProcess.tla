---------------------------- MODULE ServerProcess ---------------------------
(***************************************************************************)
(* The server's process: its port, its startup, the signals that end it    *)
(* and the order in which it ends (cli.ts, server/index.ts, tls.ts).       *)
(*                                                                         *)
(* A second signal during a shutdown begins a second one beside the first, *)
(* until the handlers are removed; then a signal kills.  There is one      *)
(* plugin with a process of its own.  A request may start it again as long *)
(* as the server listens.  Ports are numbered from the requested one, and  *)
(* MaxPort is the code's limit of 20 more; MaxSignals bounds the signals.  *)
(***************************************************************************)
EXTENDS Naturals

CONSTANTS MaxPort, MaxSignals, None

VARIABLES
  valid,     \* the token, the proxy, the webhook and the certificate can be used
  stage,     \* of the startup
  port, taken,  \* the port to listen on, and those of other processes
  parts,     \* what runs
  handlers,  \* signals begin a shutdown
  closes,    \* shutdowns under way: numbers with where they are
  signals,   \* how many signals have come
  revived,   \* history: a request started the plugin during a shutdown
  outcome    \* how the process has ended, by its exit code

vars == <<valid, stage, port, taken, parts, handlers, closes, signals, revived, outcome>>

Set(part, to) == parts' = [parts EXCEPT ![part] = to]
At(c, at) == closes' = [closes EXCEPT ![c] = at]
Exit(code) == outcome' = code /\ UNCHANGED <<stage, parts, handlers, closes>>

\* The shutdown after a failed listen() has number 0; the others are of signals.
Settles(c, code) ==
  IF c > 0 THEN Exit(code)
  ELSE stage' = "failed" /\ At(c, "done") /\ UNCHANGED <<parts, handlers, outcome>>

-----------------------------------------------------------------------------
(* Startup.                                                                *)

\* isPortInUse: a port that does not answer in time is taken for free, and so is one
\* that is in use on other addresses only; it may be asked not to check.
CheckPort(free) ==
  /\ stage = "port" /\ (port \notin taken => free)
  /\ IF free THEN stage' = "config" /\ UNCHANGED <<port, outcome>>
     ELSE IF port < MaxPort THEN port' = port + 1 /\ UNCHANGED <<stage, outcome>>
     ELSE outcome' = "error" /\ UNCHANGED <<stage, port>>
  /\ UNCHANGED <<valid, taken, parts, handlers, closes, signals, revived>>

\* Everything that may be refused is read before anything is started.
Configure ==
  /\ stage = "config"
  /\ stage' = IF valid THEN "plugins" ELSE "failed"
  /\ UNCHANGED <<valid, port, taken, parts, handlers, closes, signals, revived, outcome>>

\* startAll keeps on when a plugin does not start; its process stays.
StartAll(ok) ==
  /\ stage = "plugins" /\ stage' = "history"
  /\ parts' = [parts EXCEPT !.worker = "on", !.plugin = IF ok THEN "started" ELSE "failed"]
  /\ UNCHANGED <<valid, port, taken, handlers, closes, signals, revived, outcome>>

LoadHistory ==
  /\ stage = "history" /\ stage' = "frontend"
  /\ parts' = [parts EXCEPT !.history = "on", !.sockets = "on"]
  /\ UNCHANGED <<valid, port, taken, handlers, closes, signals, revived, outcome>>

\* In development the frontend may be missing, which ends the process.
SetupFrontend(ok) ==
  /\ stage = "frontend"
  /\ IF ok THEN stage' = "monitor" /\ UNCHANGED <<parts, handlers, closes, outcome>> ELSE Exit("error")
  /\ UNCHANGED <<valid, port, taken, signals, revived>>

StartMonitor ==
  /\ stage = "monitor" /\ stage' = "listen"
  /\ Set("monitor", "on") /\ handlers' = TRUE
  /\ UNCHANGED <<valid, port, taken, closes, signals, revived, outcome>>

\* Defect: a server that cannot listen is given up as it is.
MutListen ==
  /\ stage = "listen"
  /\ IF port \in taken THEN stage' = "failed" /\ UNCHANGED parts
     ELSE stage' = "up" /\ Set("listener", "on")
  /\ UNCHANGED <<valid, port, taken, handlers, closes, signals, revived, outcome>>

\* The port may have been taken since; then all is closed that was started.
Listen ==
  /\ stage = "listen"
  /\ IF port \in taken THEN stage' = "closing" /\ Set("monitor", "off") /\ At(0, "history")
     ELSE stage' = "up" /\ Set("listener", "on") /\ UNCHANGED closes
  /\ UNCHANGED <<valid, port, taken, handlers, signals, revived, outcome>>

\* main: the process of a failed startup ends, with code 1, when nothing keeps it.
EndFailed ==
  /\ stage = "failed" /\ \A c \in DOMAIN closes : closes[c] \in {"none", "done"}
  /\ \A p \in {"worker", "history", "monitor", "listener"} : parts[p] = "off"
  /\ Exit("error") /\ UNCHANGED <<valid, port, taken, signals, revived>>

-----------------------------------------------------------------------------
(* Shutdown.                                                               *)

\* shutdown and the beginning of close
Signal ==
  /\ signals < MaxSignals /\ signals' = signals + 1
  /\ IF handlers
     THEN At(signals', "history") /\ Set("monitor", "off") /\ UNCHANGED <<stage, handlers, outcome>>
     ELSE Exit("killed")
  /\ UNCHANGED <<valid, port, taken, revived>>

HistoryCloses(c) ==
  /\ closes[c] = "history" /\ At(c, "webhooks") /\ Set("history", "off")
  /\ UNCHANGED <<valid, stage, port, taken, handlers, signals, revived, outcome>>

\* closeWebSocketClients is begun, which fails when the sockets are closed already.
WebhooksStop(c) ==
  /\ closes[c] = "webhooks"
  /\ IF parts.sockets = "off" THEN Settles(c, "error")
     ELSE /\ At(c, "sockets") /\ handlers' = FALSE
          /\ parts' = [parts EXCEPT !.webhooks = "off", !.sockets = "closing"]
          /\ UNCHANGED <<stage, outcome>>
  /\ UNCHANGED <<valid, port, taken, signals, revived>>

\* The last client has gone, or was terminated after a second; all that wait go on.
SocketsClose ==
  /\ parts.sockets = "closing" /\ Set("sockets", "off")
  /\ closes' = [c \in DOMAIN closes |-> IF closes[c] = "sockets" THEN "plugins" ELSE closes[c]]
  /\ UNCHANGED <<valid, stage, port, taken, handlers, signals, revived, outcome>>

\* Defect: the plugin counts as stopped as soon as it is asked.
MutStop(c) ==
  /\ closes[c] = "plugins"
  /\ IF parts.plugin = "started" THEN At(c, "stopping") /\ Set("plugin", "stopped")
     ELSE At(c, "server") /\ UNCHANGED parts
  /\ UNCHANGED <<valid, stage, port, taken, handlers, signals, revived, outcome>>

\* stopAll: a plugin is stopped that is started, also while another shutdown waits for it.
Stop(c) ==
  /\ closes[c] = "plugins"
  /\ At(c, IF parts.plugin = "started" THEN "stopping" ELSE "server")
  /\ UNCHANGED <<valid, stage, port, taken, parts, handlers, signals, revived, outcome>>

\* Its process ends either way; the stop fails when another one has ended it.
Stopped(c) ==
  /\ closes[c] = "stopping" /\ At(c, "server")
  /\ \E status \in IF parts.worker = "on" THEN {"stopped", "failed"} ELSE {"failed"} :
       parts' = [parts EXCEPT !.worker = "off", !.plugin = status]
  /\ UNCHANGED <<valid, stage, port, taken, handlers, signals, revived, outcome>>

\* A server that does not listen, or not any more, is not waited for.
CloseServer(c) ==
  /\ closes[c] = "server"
  /\ IF parts.listener = "on"
     THEN At(c, "serving") /\ Set("listener", "closing") /\ UNCHANGED <<stage, handlers, outcome>>
     ELSE Settles(c, "success")
  /\ UNCHANGED <<valid, port, taken, signals, revived>>

\* The last request has been answered.
ServerCloses(c) ==
  /\ closes[c] = "serving" /\ Settles(c, "success")
  /\ UNCHANGED <<valid, port, taken, signals, revived>>

-----------------------------------------------------------------------------
(* Others.                                                                 *)

\* Another process listens on a port.
Bind(p) ==
  /\ stage # "up" /\ p \notin taken /\ taken' = taken \cup {p}
  /\ UNCHANGED <<valid, stage, port, parts, handlers, closes, signals, revived, outcome>>

\* A request enables or reloads the plugin.
Request ==
  /\ parts.listener # "off" /\ parts.plugin # "started"
  /\ parts' = [parts EXCEPT !.worker = "on", !.plugin = "started"]
  /\ revived' = (revived \/ signals > 0)
  /\ UNCHANGED <<valid, stage, port, taken, handlers, closes, signals, outcome>>

-----------------------------------------------------------------------------
Init ==
  /\ valid \in BOOLEAN /\ stage = "port" /\ port = 0 /\ taken = {}
  /\ parts = [worker |-> "off", plugin |-> "registered", history |-> "off", webhooks |-> "on",
              sockets |-> "off", monitor |-> "off", listener |-> "off"]
  /\ handlers = FALSE /\ closes = [c \in 0..MaxSignals |-> "none"]
  /\ signals = 0 /\ revived = FALSE /\ outcome = None

Next ==
  /\ outcome = None
  /\ \/ \E b \in BOOLEAN : CheckPort(b) \/ StartAll(b) \/ SetupFrontend(b)
     \/ Configure \/ LoadHistory \/ StartMonitor \/ Listen \/ EndFailed
     \/ Signal \/ SocketsClose \/ Request
     \/ \E c \in 0..MaxSignals :
          \/ HistoryCloses(c) \/ WebhooksStop(c) \/ Stop(c)
          \/ Stopped(c) \/ CloseServer(c) \/ ServerCloses(c)
     \/ \E p \in 0..MaxPort : Bind(p)

Spec == Init /\ [][Next]_vars

-----------------------------------------------------------------------------
(* Properties.                                                             *)

TypeOK ==
  /\ valid \in BOOLEAN /\ handlers \in BOOLEAN /\ revived \in BOOLEAN
  /\ stage \in {"port", "config", "plugins", "history", "frontend", "monitor", "listen",
                "closing", "up", "failed"}
  /\ port \in 0..MaxPort /\ taken \subseteq 0..MaxPort /\ signals \in 0..MaxSignals
  /\ \A p \in DOMAIN parts \ {"plugin"} : parts[p] \in {"off", "on", "closing"}
  /\ parts.plugin \in {"registered", "started", "stopped", "failed"}
  /\ outcome \in {None, "success", "error", "killed"}

\* Nothing is left that was started: the samples are saved, the webhooks silent, the
\* clients gone, and the plugin's process ended, unless it never started properly or a
\* request has started it since.
AllClosed ==
  /\ parts.monitor = "off" /\ parts.history = "off" /\ parts.sockets = "off"
  /\ parts.listener # "on"
  /\ parts.worker = "off" \/ parts.plugin = "failed" \/ revived

\* However many shutdowns run beside each other and wherever they meet, exit code 0
\* means that all is closed; one shutdown alone does not fail; a startup that fails,
\* of which nothing is closed twice, has closed all it started, and one that is
\* refused has started nothing (server/index.ts: close, failListen, startServer).
ExitIsClean ==
  /\ outcome = "success" => AllClosed /\ parts.webhooks = "off"
  /\ outcome = "error" /\ signals <= 1 => stage \in {"port", "frontend", "closing", "failed"}
  /\ stage = "failed" /\ signals = 0 => AllClosed
  /\ ~valid => parts.worker = "off"
=============================================================================
