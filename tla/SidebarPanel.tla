---------------------------- MODULE SidebarPanel ----------------------------
(***************************************************************************)
(* The panel of the selected node: what it loads, the actions it offers,   *)
(* its log and exec tabs (web/components/Sidebar.svelte, EntityActionDialog *)
(* and sidebar/SidebarExec.svelte, web/lib/sidebarApi.ts).                  *)
(*                                                                         *)
(* A value is represented by the node it is of.  An effect runs before     *)
(* anything else can happen, so it is part of the action that triggers it. *)
(* Every request answers in its own time, the aborted ones included: late  *)
(* keeps the last of those.  The nodes in Streaming stream their logs, the *)
(* others' are read; those in Executable offer a terminal.                 *)
(***************************************************************************)
CONSTANTS Nodes, Streaming, Executable, None

VARIABLES
  shownNode,  \* node: the selected one
  role,
  replaying,  \* docker.replayMode
  tab,        \* activeTab
  offered,    \* entityActions and entityOperations
  details,    \* stats and inspect
  load,       \* the load that is not aborted, and its step
  late,       \* an aborted one
  dialog,     \* actionDialog
  acting,     \* actionPending: the target of the action
  stream,     \* the log subscription
  reading,    \* the request for logs
  read,       \* fetchedLogs
  term,       \* the terminal of the exec tab
  socket,     \* its ws
  strayed     \* history: pairs of a node and another one whose it was given

panelVars == <<shownNode, role, replaying, tab, offered, details, load, late, dialog>>
logVars == <<stream, reading, read>>
execVars == <<term, socket>>
vars == <<panelVars, acting, logVars, execVars, strayed>>

NoLoad == [of |-> None, step |-> "none"]
NoSocket == [of |-> None, at |-> "closed"]
CanMutate == role = "operator"

Supports(ops, t) ==
  \/ t = "info"
  \/ t = "logs" /\ ops # None
  \/ t = "exec" /\ ops \in Executable /\ role = "operator"

\* What is noted when something of node m is used for node n.
Stray(n, m) == strayed' = strayed \cup (IF n = m THEN {} ELSE {<<n, m>>})

-----------------------------------------------------------------------------
(* Effects.                                                                *)

\* The node or the mode changed: everything is reset and loaded again.
Reset ==
  /\ offered' = None /\ details' = None /\ dialog' = None
  /\ late' = IF load = NoLoad THEN late ELSE load
  /\ load' = IF shownNode' = None \/ replaying' THEN NoLoad
             ELSE [of |-> shownNode', step |-> "capabilities"]

\* Logs are followed where the node can, and read where it cannot.
LogEffect ==
  LET open == tab' = "logs" /\ offered' # None /\ ~replaying'
      other == <<shownNode, replaying>>' # <<shownNode, replaying>>
      again == other \/ <<tab, offered>>' # <<tab, offered>>
      reads == open /\ offered' \notin Streaming
  IN /\ stream' = IF open /\ ~reads THEN shownNode' ELSE None
     /\ reading' = IF ~again THEN reading ELSE IF reads THEN shownNode' ELSE None
     /\ read' = IF other \/ (again /\ reads) THEN None ELSE read

Mounted == tab = "exec" /\ shownNode # None

\* Defect: the connection is kept when the node changes.
MutReconnect == UNCHANGED <<term, socket>>

\* Another node in an open terminal.
Reconnect ==
  /\ UNCHANGED term
  /\ socket' = IF socket # NoSocket /\ term # "loading"
               THEN [of |-> None, at |-> "connecting"] ELSE NoSocket

\* onMount and onDestroy of SidebarExec, and its effect.
ExecEffect ==
  IF ~Mounted' THEN term' = "unmounted" /\ socket' = NoSocket
  ELSE IF ~Mounted THEN term' = "loading" /\ UNCHANGED socket
  ELSE IF shownNode' # shownNode THEN Reconnect
  ELSE UNCHANGED execVars

Effects == LogEffect /\ ExecEffect

-----------------------------------------------------------------------------
(* Selection, role, mode and tab.                                          *)

Select(n) ==
  /\ n # shownNode
  /\ shownNode' = n
  /\ UNCHANGED <<role, replaying, tab, acting, strayed>> /\ Reset
  /\ Effects

ChangeRole ==
  /\ role' = IF role = "operator" THEN "reader" ELSE "operator"
  /\ tab' = IF role' = "reader" /\ tab = "exec" THEN "info" ELSE tab
  /\ dialog' = IF role' = "reader" THEN None ELSE dialog
  /\ UNCHANGED <<shownNode, replaying, offered, details, load, late, acting, strayed>>
  /\ Effects

ToggleReplay ==
  /\ replaying' = ~replaying
  /\ tab' = IF replaying' /\ shownNode # None THEN "info" ELSE tab
  /\ UNCHANGED <<shownNode, role, acting, strayed>> /\ Reset
  /\ Effects

OpenTab(t) ==
  /\ shownNode # None /\ t # tab
  /\ t = "info" \/ (~replaying /\ Supports(offered, t))
  /\ tab' = t
  /\ UNCHANGED <<shownNode, role, replaying, offered, details, load, late, dialog, acting, strayed>>
  /\ Effects

-----------------------------------------------------------------------------
(* Loading.                                                                *)

\* Defect: the answers of an aborted load are shown.
MutSignal(aborted) == FALSE

\* controller.signal.aborted
Signal(aborted) == aborted

Loaded(aborted) == IF aborted THEN late ELSE load

\* The load goes to its next step, or is over.
Proceed(aborted, next) ==
  IF aborted THEN late' = next /\ UNCHANGED load ELSE load' = next /\ UNCHANGED late

\* loadEntityCapabilities has answered, loadEntitySidebarData asks on.
CapabilitiesLoaded(aborted) ==
  LET l == Loaded(aborted)
  IN /\ l.step = "capabilities"
     /\ IF Signal(aborted)
        THEN Proceed(aborted, NoLoad) /\ UNCHANGED <<offered, tab>>
        ELSE /\ Proceed(aborted, [l EXCEPT !.step = "data"])
             /\ offered' = l.of
             /\ tab' = IF Supports(l.of, tab) THEN tab ELSE "info"
     /\ UNCHANGED <<shownNode, role, replaying, details, dialog, acting, strayed>>
     /\ Effects

DataLoaded(aborted) ==
  LET l == Loaded(aborted)
  IN /\ l.step = "data"
     /\ Proceed(aborted, NoLoad)
     /\ details' = IF Signal(aborted) THEN details ELSE l.of
     /\ UNCHANGED <<shownNode, role, replaying, tab, offered, dialog, acting, logVars, execVars, strayed>>

\* What is optional fails to nothing, the rest clears the panel; an aborted load is silent.
LoadFails ==
  /\ load # NoLoad
  /\ load' = NoLoad /\ details' = None /\ offered' = None
  /\ UNCHANGED <<shownNode, role, replaying, tab, late, dialog, acting, strayed>>
  /\ Effects

\* getEntityLogs
LogsRead(ok) ==
  /\ reading # None
  /\ read' = (IF ok THEN reading ELSE None) /\ reading' = None
  /\ UNCHANGED <<panelVars, acting, stream, execVars, strayed>>

-----------------------------------------------------------------------------
(* Actions of the node.                                                    *)

\* requestEntityAction, of an action that is to be confirmed.
AskAction ==
  /\ CanMutate /\ acting = None /\ offered # None
  /\ dialog' = offered
  /\ UNCHANGED <<shownNode, role, replaying, tab, offered, details, load, late, acting, logVars, execVars, strayed>>

\* executeEntityAction: of an action of node m, at once or confirmed.
RunAction(m) ==
  /\ m # None /\ m \in {offered, dialog}
  /\ CanMutate /\ acting = None /\ shownNode # None
  /\ acting' = shownNode /\ Stray(shownNode, m)
  /\ UNCHANGED <<panelVars, logVars, execVars>>

\* The dialog closes, and after a removal the panel, whatever it shows by now.
ActionRan(removed) ==
  /\ acting # None /\ acting' = None
  /\ UNCHANGED <<role, replaying, tab, strayed>>
  /\ IF removed THEN shownNode' = None /\ Reset /\ Effects
     ELSE dialog' = None /\ UNCHANGED <<shownNode, offered, details, load, late, logVars, execVars>>

ActionFailed ==
  /\ acting # None /\ acting' = None
  /\ UNCHANGED <<panelVars, logVars, execVars, strayed>>

CancelDialog ==
  /\ dialog # None /\ acting = None
  /\ dialog' = None
  /\ UNCHANGED <<shownNode, role, replaying, tab, offered, details, load, late, acting, logVars, execVars, strayed>>

-----------------------------------------------------------------------------
(* The terminal.                                                           *)

Connecting == socket' = [of |-> None, at |-> "connecting"]

TerminalLoads(ok) ==
  /\ term = "loading"
  /\ IF ok THEN term' = "ready" /\ Connecting ELSE term' = "failed" /\ UNCHANGED socket
  /\ UNCHANGED <<panelVars, acting, logVars, strayed>>

\* The button; the socket of a session that has ended is still open.
Connect ==
  /\ term \in {"ready", "failed"} /\ socket = NoSocket
  /\ Connecting
  /\ UNCHANGED <<panelVars, acting, logVars, term, strayed>>

\* onopen: the session is that of the node shown now.
Opened ==
  /\ socket.at = "connecting"
  /\ socket' = [of |-> shownNode, at |-> "open"]
  /\ UNCHANGED <<panelVars, acting, logVars, term, strayed>>

\* The button, or onclose.
Disconnect ==
  /\ socket # NoSocket
  /\ socket' = NoSocket
  /\ UNCHANGED <<panelVars, acting, logVars, term, strayed>>

\* What is typed goes to the socket in use, and what it sends is written; what
\* others still send is ignored.
TypeOrWrite ==
  /\ term = "ready" /\ socket.at = "open"
  /\ Stray(shownNode, socket.of)
  /\ UNCHANGED <<panelVars, acting, logVars, execVars>>

-----------------------------------------------------------------------------
Init ==
  /\ shownNode = None /\ role = "operator" /\ replaying = FALSE /\ tab = "info"
  /\ offered = None /\ details = None /\ load = NoLoad /\ late = NoLoad
  /\ dialog = None /\ acting = None /\ stream = None /\ reading = None /\ read = None
  /\ term = "unmounted" /\ socket = NoSocket /\ strayed = {}

Next ==
  \/ \E n \in Nodes \cup {None} : Select(n)
  \/ ChangeRole \/ ToggleReplay \/ \E t \in {"info", "logs", "exec"} : OpenTab(t)
  \/ \E aborted \in BOOLEAN : CapabilitiesLoaded(aborted) \/ DataLoaded(aborted)
  \/ LoadFails \/ \E ok \in BOOLEAN : LogsRead(ok) \/ TerminalLoads(ok) \/ ActionRan(ok)
  \/ AskAction \/ \E m \in {offered, dialog} : RunAction(m)
  \/ ActionFailed \/ CancelDialog
  \/ Connect \/ Opened \/ Disconnect \/ TypeOrWrite

Spec == Init /\ [][Next]_vars

-----------------------------------------------------------------------------
(* Properties.                                                             *)

TypeOK ==
  /\ {shownNode, offered, details, dialog, acting, stream, reading, read} \subseteq Nodes \cup {None}
  /\ role \in {"operator", "reader"} /\ replaying \in BOOLEAN
  /\ tab \in {"info", "logs", "exec"}
  /\ {load.step, late.step} \subseteq {"none", "capabilities", "data"}
  /\ term \in {"unmounted", "loading", "ready", "failed"}
  /\ socket.at \in {"closed", "connecting", "open"} /\ strayed \subseteq Nodes \X Nodes

\* However selections, answers, roles and the replay follow each other, the panel
\* shows what is of the selected node and nothing in a replay, its actions, what is
\* typed and what a terminal writes are of the node shown, and a reader has neither
\* a dialog nor a terminal (web/components/Sidebar.svelte, sidebar/SidebarExec.svelte).
PanelIsOfNode ==
  /\ {offered, details, dialog, stream, reading, read} \subseteq {None, shownNode}
  /\ replaying => offered = None /\ details = None /\ dialog = None /\ stream = None
  /\ strayed = {}
  /\ role = "reader" => dialog = None /\ socket = NoSocket
=============================================================================
