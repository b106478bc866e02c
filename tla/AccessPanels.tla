---------------------------- MODULE AccessPanels ----------------------------
(***************************************************************************)
(* The access token as one page of the dashboard sees it: the gate that    *)
(* asks for it or offers to set it (web/components/TokenGate.svelte), the  *)
(* security panel (SecurityPanel.svelte), their store                      *)
(* (web/stores/auth.svelte.ts), and what the routes of                     *)
(* server/authRoutes.ts answer.  No proxy signs people in.                 *)
(*                                                                         *)
(* A request is handled in one step and its answer taken in another; a     *)
(* check of the status may be under way at the same time, and other        *)
(* clients change the token.  An answer, and what the page made of it, is  *)
(* fresh until something changes at the server.  MaxEvents bounds the      *)
(* requests and checks of the page and the changes made by others.         *)
(***************************************************************************)
EXTENDS Naturals

CONSTANTS
  Entries,    \* what may be typed, long enough for the page, and twice the same
  Trimmed,    \* what the server makes of an entry when it becomes the token
  Reader,     \* the read-only token
  MaxEvents,
  None

VARIABLES
  env,        \* pinned, readOnly: what the environment configures
  server,     \* [token, declined, closed, mine], mine the role of the page's cookie
  events,     \* requests, checks and outside changes so far
  auth,       \* the store: what a status says, and whether there was one
  dismissed, panelOpen,
  gate,       \* what the gate's fields hold, None while it cannot be submitted
  panel,      \* the same of the panel's, and is removal to be confirmed?
  request,    \* what the page asks for (submitting), of at most one
  check       \* the status check

vars == <<env, server, events, auth, dismissed, panelOpen, gate, panel, request, check>>

Tokens == {Trimmed[entry] : entry \in Entries}

NoStatus == [required |-> FALSE, role |-> "none", setup |-> "declined", fresh |-> FALSE]
NoRequest == [at |-> "none", by |-> "none", kind |-> "none", entry |-> None, status |-> NoStatus]
NoCheck == [at |-> "none", status |-> NoStatus]
EmptyPanel == [typed |-> None, removing |-> FALSE]

Counted == events < MaxEvents /\ events' = events + 1

-----------------------------------------------------------------------------
(* The server.                                                             *)

\* The setup window only closes for other machines.
SetupAvailability(s) ==
  IF s.token # None THEN "configured"
  ELSE IF s.closed THEN "window-closed"
  ELSE IF s.declined THEN "declined" ELSE "available"

CanSetToken(s) == SetupAvailability(s) \in {"available", "declined"}

\* Without a token everybody is an operator.
AccessRole(s) == IF s.token = None THEN "operator" ELSE s.mine

\* Defect: the session that comes with the answer is not on its request yet.
MutStatusPayload(s, role) ==
  [required |-> s.token # None, role |-> AccessRole(server), setup |-> SetupAvailability(s),
   fresh |-> TRUE]

\* What every route answers.
StatusPayload(s, role) ==
  [required |-> s.token # None, role |-> role, setup |-> SetupAvailability(s), fresh |-> TRUE]

\* POST /api/auth/setup: the one who sets it is signed in, and nobody else.
Setup(entry) ==
  /\ ~env.pinned
  /\ server.token = None => CanSetToken(server)
  /\ server' = [server EXCEPT !.token = Trimmed[entry], !.declined = FALSE, !.mine = "operator"]

\* DELETE /api/auth/token
ClearToken ==
  /\ ~env.pinned /\ ~env.readOnly
  /\ server' = [server EXCEPT !.token = None, !.mine = "none"]

\* POST /api/auth/reminder
Remind(declined) == server' = [server EXCEPT !.declined = declined]

\* POST /api/auth/session: what is typed is not trimmed.
SignIn(entry) ==
  LET role == IF entry = server.token THEN "operator"
              ELSE IF env.readOnly /\ entry = Reader THEN "reader" ELSE "none"
  IN IF server.token = None THEN UNCHANGED server
     ELSE role # "none" /\ server' = [server EXCEPT !.mine = role]

\* The routes, past requireConfiguredOperator.
Handled ==
  \/ request.kind = "login" /\ SignIn(request.entry)
  \/ /\ AccessRole(server) = "operator"
     /\ \/ request.kind = "create" /\ Setup(request.entry)
        \/ request.kind = "remove" /\ ClearToken
        \/ request.kind = "decline" /\ Remind(TRUE)
        \/ request.kind = "remind" /\ Remind(FALSE)

\* What changes at the server makes old what was known of it.
Stale(status) == [status EXCEPT !.fresh = status.fresh /\ server' = server]

-----------------------------------------------------------------------------
(* The store and its requests.                                             *)

GateMode(a, gone) ==
  IF ~a.resolved THEN "none"
  ELSE IF a.required THEN IF a.role = "none" THEN "login" ELSE "none"
  ELSE IF a.setup = "available" /\ ~gone THEN "setup" ELSE "none"

Mode == GateMode(auth, dismissed)

Apply(status) ==
  auth' = [resolved |-> TRUE, required |-> status.required, role |-> status.role,
           setup |-> status.setup, fresh |-> status.fresh]

\* Another gate is another component, with empty fields.
KeepsGate(gone) == gate' = IF GateMode(auth', gone) = Mode THEN gate ELSE None

Send(by, kind, entry) ==
  /\ request.at = "none"
  /\ request' = [NoRequest EXCEPT !.at = "sent", !.by = by, !.kind = kind, !.entry = entry]
  /\ Counted
  /\ UNCHANGED <<env, server, auth, dismissed, panelOpen, gate, panel, check>>

\* The server handles it, and the answer arrives or is lost; or it refuses, or is down.
Serve ==
  /\ request.at = "sent"
  /\ \/ /\ Handled
        /\ \/ request' = [request EXCEPT !.at = "answered",
                            !.status = StatusPayload(server', AccessRole(server'))]
           \/ request' = [request EXCEPT !.at = "failed"]
     \/ UNCHANGED server /\ request' = [request EXCEPT !.at = "failed"]
  /\ auth' = Stale(auth) /\ check' = [check EXCEPT !.status = Stale(check.status)]
  /\ UNCHANGED <<env, events, dismissed, panelOpen, gate, panel>>

\* submitToken, createToken, clearToken and setReminderDeclined have their answer.
Answered ==
  /\ request.at = "answered" /\ request' = NoRequest
  /\ Apply(request.status)
  /\ dismissed' = (dismissed \/ request.kind = "remove")
  /\ IF request.by = "gate" THEN gate' = None ELSE KeepsGate(dismissed')
  /\ panel' = IF request.kind \in {"create", "remove"} /\ request.by = "panel" THEN EmptyPanel
              ELSE panel
  /\ UNCHANGED <<env, server, events, panelOpen, check>>

\* They fail: the role is lost by a failed sign-in only.  A 401 also asks for a check.
Failed ==
  /\ request.at = "failed" /\ request' = NoRequest
  /\ auth' = IF request.kind = "login" THEN [auth EXCEPT !.role = "none", !.fresh = FALSE] ELSE auth
  /\ KeepsGate(dismissed)
  /\ UNCHANGED <<env, server, events, dismissed, panelOpen, panel, check>>

\* recheckAuth: an API call is not authorized, or the socket is refused.
CheckAuth ==
  /\ auth.resolved /\ auth.role # "none" /\ check = NoCheck
  /\ check' = [check EXCEPT !.at = "sent"]
  /\ Counted
  /\ UNCHANGED <<env, server, auth, dismissed, panelOpen, gate, panel, request>>

\* A server that does not answer counts as one without a token.
ServeCheck ==
  /\ check.at = "sent"
  /\ check' = [at |-> "answered",
               status |-> StatusPayload(server, AccessRole(server))]
     \/ check' = [at |-> "answered", status |-> [NoStatus EXCEPT !.role = "operator"]]
  /\ UNCHANGED <<env, server, events, auth, dismissed, panelOpen, gate, panel, request>>

Checked ==
  /\ check.at = "answered" /\ check' = NoCheck
  /\ Apply(check.status) /\ UNCHANGED dismissed /\ KeepsGate(dismissed)
  /\ UNCHANGED <<env, server, events, panelOpen, panel, request>>

-----------------------------------------------------------------------------
(* The gate, over everything else.                                         *)

TypeAtGate(entry) ==
  /\ Mode # "none" /\ request.at = "none" /\ gate # entry
  /\ gate' = entry
  /\ UNCHANGED <<env, server, events, auth, dismissed, panelOpen, panel, request, check>>

Submit ==
  /\ Mode # "none" /\ gate # None
  /\ Send("gate", IF Mode = "setup" THEN "create" ELSE "login", gate)

\* "Not now"
DismissSetup ==
  /\ Mode = "setup" /\ request.at = "none"
  /\ dismissed' = TRUE /\ gate' = None
  /\ UNCHANGED <<env, server, events, auth, panelOpen, panel, request, check>>

(* The panel, when there is no gate over it.                               *)

OpenPanel ==
  /\ auth.resolved /\ Mode = "none" /\ ~panelOpen /\ panelOpen' = TRUE
  /\ UNCHANGED <<env, server, events, auth, dismissed, gate, panel, request, check>>

ClosePanel ==
  /\ Mode = "none" /\ panelOpen /\ panelOpen' = FALSE /\ panel' = EmptyPanel
  /\ request' = IF request.by = "panel" THEN [request EXCEPT !.by = "a closed panel"] ELSE request
  /\ UNCHANGED <<env, server, events, auth, dismissed, gate, check>>

\* A reader sees no form, and neither does anybody when the token is pinned.
Editable == Mode = "none" /\ panelOpen /\ auth.role = "operator" /\ ~env.pinned

TypeInPanel(entry) ==
  /\ Editable /\ request.at = "none" /\ panel.typed # entry
  /\ panel' = [panel EXCEPT !.typed = entry]
  /\ UNCHANGED <<env, server, events, auth, dismissed, panelOpen, gate, request, check>>

Save == Editable /\ panel.typed # None /\ Send("panel", "create", panel.typed)

ConfirmRemoval(removing) ==
  /\ Editable /\ auth.required /\ panel.removing # removing
  /\ panel' = [panel EXCEPT !.removing = removing]
  /\ UNCHANGED <<env, server, events, auth, dismissed, panelOpen, gate, request, check>>

Remove == Editable /\ auth.required /\ panel.removing /\ Send("panel", "remove", None)

ToggleReminder ==
  /\ Editable /\ ~auth.required
  /\ Send("panel", IF auth.setup = "declined" THEN "remind" ELSE "decline", None)

-----------------------------------------------------------------------------
(* Other clients set or remove the token, or decline; the server starts    *)
(* again; the setup window closes.                                         *)

Outside ==
  /\ Counted
  /\ \/ /\ ~env.pinned
        /\ \E t \in Tokens : server' = [server EXCEPT !.token = t, !.mine = "none",
                                                     !.declined = FALSE]
     \/ ~env.pinned /\ ~env.readOnly /\ server' = [server EXCEPT !.token = None, !.mine = "none"]
     \/ \E declined \in BOOLEAN : server' = [server EXCEPT !.declined = declined]
     \/ server' = [server EXCEPT !.mine = "none", !.closed = FALSE]
     \/ server' = [server EXCEPT !.closed = TRUE]
  /\ auth' = Stale(auth) /\ check' = [check EXCEPT !.status = Stale(check.status)]
  /\ request' = [request EXCEPT !.status = Stale(request.status)]
  /\ UNCHANGED <<env, dismissed, panelOpen, gate, panel>>

\* The page is mounted, and the first check is under way.
Init ==
  /\ env \in [pinned : BOOLEAN, readOnly : BOOLEAN]
  /\ server \in [token : Tokens \cup {None}, declined : BOOLEAN, closed : BOOLEAN,
                 mine : {"none", "reader", "operator"}]
  /\ env.pinned \/ env.readOnly => server.token # None
  /\ server.token = None => server.mine = "none"
  /\ server.mine = "reader" => env.readOnly
  /\ events = 0 /\ dismissed = FALSE /\ panelOpen = FALSE
  /\ auth = [resolved |-> FALSE, required |-> FALSE, role |-> "none", setup |-> "declined",
             fresh |-> FALSE]
  /\ gate = None /\ panel = EmptyPanel /\ request = NoRequest
  /\ check = [NoCheck EXCEPT !.at = "sent"]

Next ==
  \/ Serve \/ Answered \/ Failed \/ CheckAuth \/ ServeCheck \/ Checked
  \/ \E entry \in Entries \cup {None} : TypeAtGate(entry) \/ TypeInPanel(entry)
  \/ Submit \/ DismissSetup \/ OpenPanel \/ ClosePanel \/ Save
  \/ \E removing \in BOOLEAN : ConfirmRemoval(removing)
  \/ Remove \/ ToggleReminder \/ Outside

Spec == Init /\ [][Next]_vars

-----------------------------------------------------------------------------
(* Properties.                                                             *)

TypeOK ==
  /\ server.token \in Tokens \cup {None}
  /\ {server.mine, auth.role} \subseteq {"none", "reader", "operator"}
  /\ {gate, panel.typed, request.entry} \subseteq Entries \cup {None}
  /\ request.at \in {"none", "sent", "answered", "failed"}
  /\ check.at \in {"none", "sent", "answered"}
  /\ events \in 0..MaxEvents

\* When nothing has changed since the last answer the page took, it shows what the server
\* would answer now: it is locked out exactly when it is, and offers setup only where a token
\* can be set (auth.svelte.ts:99).
StoreFits ==
  auth.fresh =>
    /\ auth.required = (server.token # None)
    /\ auth.role = AccessRole(server)
    /\ auth.setup = SetupAvailability(server)
    /\ Mode = "setup" => CanSetToken(server)

=============================================================================
