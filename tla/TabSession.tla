---------------------------- MODULE TabSession -----------------------------
(***************************************************************************)
(* One browser tab: its login gate (web/stores/auth.svelte.ts), the        *)
(* session it starts and stops (web/App.svelte), and the WebSocket of the  *)
(* session with its reconnects and its log subscription                    *)
(* (web/stores/docker.svelte.ts).                                          *)
(*                                                                         *)
(* The server is external: it has a token or not, knows the cookie of the  *)
(* tab or not, and may be down.  A status check is answered in one step    *)
(* and applied in another, so that its answer may be out of date.  At most *)
(* MaxChecks checks are under way.                                         *)
(***************************************************************************)
EXTENDS Naturals

CONSTANTS Targets, MaxChecks, None

VARIABLES
  server,   \* what the server would answer: "down", "open", "in" (signed in), "out"
  checks,   \* the status checks under way: a function of their number
  submit,   \* the sign-in under way: "none", "sent", "in", "open", "refused"
  auth,     \* the store: [resolved, required, authenticated]
  session,  \* is the session started (cleanupDocker)?
  ws,       \* the socket: "none", "connecting", "open"
  timer,    \* is a reconnect scheduled?
  logs,     \* the target whose logs the tab wants
  sent      \* what the connection subscribes to, from the messages sent over it

vars == <<server, checks, submit, auth, session, ws, timer, logs, sent>>

Checks == 1..MaxChecks
NoCheck == [kind |-> "none", answer |-> "none"]
Answers == {"down", "open", "in", "out"}

\* gateMode, of the login gate.
Locked == auth.resolved /\ auth.required /\ ~auth.authenticated

-----------------------------------------------------------------------------
(* Socket and subscription.                                                *)

Socket == <<ws, timer, sent>>

\* What connect, initDocker and its clean-up do to the socket.
Connects == ws' = "connecting" /\ timer' = FALSE /\ sent' = None
Disconnects == ws' = "none" /\ timer' = FALSE /\ sent' = None

\* startSession: nothing when there is one.
Starts == session' = TRUE /\ (IF session THEN UNCHANGED Socket ELSE Connects)

Stops == session' = FALSE /\ (IF session THEN Disconnects ELSE UNCHANGED Socket)

\* Defect: a new connection does not subscribe again.
MutOpened ==
  /\ ws = "connecting" /\ server \in {"open", "in"}
  /\ ws' = "open" /\ sent' = None
  /\ UNCHANGED <<server, checks, submit, auth, session, timer, logs>>

\* onopen: the log subscription is sent again.
Opened ==
  /\ ws = "connecting" /\ server \in {"open", "in"}
  /\ ws' = "open" /\ sent' = logs
  /\ UNCHANGED <<server, checks, submit, auth, session, timer, logs>>

\* recheckAuth, of a tab that takes itself for signed in.
Rechecks ==
  IF auth.authenticated /\ \E k \in Checks : checks[k] = NoCheck
  THEN LET k == CHOOSE k \in Checks : checks[k] = NoCheck
       IN checks' = [checks EXCEPT ![k] = [kind |-> "recheck", answer |-> "none"]]
  ELSE UNCHANGED checks

\* onclose, of a socket that was open, or was refused or dropped before it opened.
Closed ==
  /\ ws # "none"
  /\ ws' = "none" /\ sent' = None /\ timer' = TRUE
  /\ IF ws = "connecting" THEN Rechecks ELSE UNCHANGED checks
  /\ UNCHANGED <<server, submit, auth, session, logs>>

\* The reconnect timer.
Reconnect ==
  /\ timer /\ timer' = FALSE
  /\ IF ws = "none" THEN ws' = "connecting" /\ sent' = None ELSE UNCHANGED <<ws, sent>>
  /\ UNCHANGED <<server, checks, submit, auth, session, logs>>

\* subscribeLogs and unsubscribeLogs, also when the target starts again.
Subscribe(target) ==
  /\ logs' = target
  /\ sent' = IF ws = "open" THEN target ELSE sent
  /\ UNCHANGED <<server, checks, submit, auth, session, ws, timer>>

-----------------------------------------------------------------------------
(* The gate.                                                               *)

ServerAnswers(k) ==
  /\ checks[k] # NoCheck /\ checks[k].answer = "none"
  /\ checks' = [checks EXCEPT ![k].answer = server]
  /\ UNCHANGED <<server, submit, auth, session, Socket, logs>>

\* checkAuth has its answer (an error counts as a server without a token); then the
\* page that was just mounted starts the session, and a recheck that finds the tab
\* locked out stops it.
Checked(k) ==
  /\ checks[k].answer # "none"
  /\ checks' = [checks EXCEPT ![k] = NoCheck]
  /\ auth' = [resolved |-> TRUE, required |-> checks[k].answer \in {"in", "out"},
              authenticated |-> checks[k].answer # "out"]
  /\ CASE checks[k].answer # "out" /\ checks[k].kind = "mount" -> Starts
       [] checks[k].answer = "out" /\ checks[k].kind = "recheck" -> Stops
       [] OTHER -> UNCHANGED <<session, Socket>>
  /\ UNCHANGED <<server, submit, logs>>

\* An API call is answered with 401.
Unauthorized ==
  /\ session /\ server = "out"
  /\ Rechecks
  /\ UNCHANGED <<server, submit, auth, session, Socket, logs>>

\* submitToken, from the gate.
Submit ==
  /\ Locked /\ submit = "none"
  /\ submit' = "sent"
  /\ UNCHANGED <<server, checks, auth, session, Socket, logs>>

\* The server takes the token, and sets the cookie, or refuses.
Verify ==
  /\ submit = "sent"
  /\ \/ server \in {"in", "out"} /\ submit' = "in" /\ server' = "in"
     \/ server = "open" /\ submit' = "open" /\ UNCHANGED server
     \/ submit' = "refused" /\ UNCHANGED server
  /\ UNCHANGED <<checks, auth, session, Socket, logs>>

\* Then the gate is done, and the session starts; or the gate stays.
Submitted ==
  /\ submit \in {"in", "open", "refused"} /\ submit' = "none"
  /\ IF submit = "refused"
     THEN auth' = [auth EXCEPT !.authenticated = FALSE] /\ UNCHANGED <<session, Socket>>
     ELSE auth' = [auth EXCEPT !.required = (submit = "in"), !.authenticated = TRUE] /\ Starts
  /\ UNCHANGED <<server, checks, logs>>

\* The server restarts, forgets its sessions, or its token is changed elsewhere.
ServerChanges(answer) ==
  /\ answer # server
  /\ server' = answer
  /\ UNCHANGED <<checks, submit, auth, session, Socket, logs>>

-----------------------------------------------------------------------------
\* The page is mounted: the first check is under way.
Init ==
  /\ server \in Answers
  /\ checks = [k \in Checks |-> IF k = 1 THEN [kind |-> "mount", answer |-> "none"] ELSE NoCheck]
  /\ submit = "none"
  /\ auth = [resolved |-> FALSE, required |-> FALSE, authenticated |-> TRUE]
  /\ session = FALSE /\ ws = "none" /\ timer = FALSE
  /\ logs = None /\ sent = None

Next ==
  \/ Opened \/ Closed \/ Reconnect \/ Unauthorized \/ Submit \/ Verify \/ Submitted
  \/ \E k \in Checks : ServerAnswers(k) \/ Checked(k)
  \/ \E target \in Targets \cup {None} : Subscribe(target)
  \/ \E answer \in Answers : ServerChanges(answer)

Spec == Init /\ [][Next]_vars

-----------------------------------------------------------------------------
(* Properties.                                                             *)

TypeOK ==
  /\ server \in Answers /\ submit \in {"none", "sent", "in", "open", "refused"}
  /\ \A k \in Checks : checks[k].kind \in {"none", "mount", "recheck"}
  /\ ws \in {"none", "connecting", "open"} /\ timer \in BOOLEAN /\ session \in BOOLEAN
  /\ {logs, sent} \subseteq Targets \cup {None}

\* App.svelte:157: a tab that is locked out is not reconnecting behind the prompt;
\* otherwise a session has a socket, or is to have one soon; and what the connection
\* subscribes to is what the tab wants, whichever came first.
SessionFollowsGate ==
  /\ Locked => ~session
  /\ session <=> ws # "none" \/ timer
  /\ ws = "open" => sent = logs

=============================================================================
