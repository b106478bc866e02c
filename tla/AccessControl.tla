--------------------------- MODULE AccessControl ---------------------------
(***************************************************************************)
(* The access token, browser sessions and the token file: server/auth.ts,  *)
(* server/authStore.ts and server/authRoutes.ts.                           *)
(*                                                                         *)
(* Three routes change the token file, each by reading it and writing it   *)
(* whole, without a queue: setting the token, removing it, and the         *)
(* reminder.  Their awaits are steps here, and two requests interleave.    *)
(* Every other route is one step.  A session carries the token it was      *)
(* issued under, which the code does not keep; it is what the properties   *)
(* are about.                                                              *)
(*                                                                         *)
(* MaxRequests bounds the requests of these routes under way, MaxSessions  *)
(* the sessions issued, and MaxAttempts is the code's MAX_FAILED_ATTEMPTS, *)
(* of one source.                                                          *)
(***************************************************************************)
EXTENDS Naturals

CONSTANTS Tokens, MaxRequests, MaxSessions, MaxAttempts, None

VARIABLES
  env,        \* proxy, readOnly, pinned: what the environment configures
  config,     \* the token of the current AuthConfig; None when it has none
  file,       \* the token in the token file; None also when it cannot be read
  sessions,   \* SessionStore
  issued,     \* sessions issued so far
  verified,   \* VerifiedTokenCache: tokens that were accepted
  failures,   \* AttemptLimiter, for one source
  requests    \* of the three routes that write the file, each with a place

vars == <<env, config, file, sessions, issued, verified, failures, requests>>

Reader == "the read-only token"
Roles == {"operator", "reader"}
Files == Tokens \cup {None}
Routes == {"set", "remove", "remind"}
Writers == 1..MaxRequests
Request ==
  [route : Routes, at : {"reading", "writing", "filling", "written"},
   token : Tokens \cup {None}, state : Files]
InFlight == {i \in Writers : requests[i] # None}

-----------------------------------------------------------------------------
(* The decisions of auth.ts.                                               *)

Enabled == config # None

\* tokenAccessRole
TokenRole(t) == IF Enabled /\ t = config THEN "operator"
                ELSE IF env.readOnly /\ t = Reader THEN "reader" ELSE "none"

\* authenticateRequest: what a request carries is a proxy's header, the number
\* of a session, a bearer token.
Carried == [proxy : BOOLEAN, cookie : 0..MaxSessions, bearer : Tokens \cup {Reader, None}]
AccessRole(r) ==
  IF env.proxy /\ r.proxy THEN "operator"
  ELSE IF ~Enabled THEN IF env.proxy THEN "none" ELSE "operator"
  ELSE IF \E s \in sessions : s.id = r.cookie
    THEN (CHOOSE s \in sessions : s.id = r.cookie).role
  ELSE IF r.bearer \in verified
    THEN IF r.bearer = Reader THEN "reader" ELSE "operator"
  ELSE TokenRole(r.bearer)

\* requireConfiguredOperator
MayConfigure(r) == (~Enabled /\ ~env.proxy) \/ AccessRole(r) = "operator"

-----------------------------------------------------------------------------
(* The routes that write the file: reading, writing, what follows.         *)

\* POST /api/auth/setup (without a token in force it asks for the setup window or
\* the own machine, which always may), DELETE /api/auth/token, and POST
\* /api/auth/reminder, whose flag only decides what the dashboard shows.
Accept(i, route, t) ==
  /\ i \notin InFlight
  /\ route # "remind" => ~env.pinned
  /\ route = "set" => t # None /\ (Enabled \/ ~env.proxy)
  /\ route = "remove" => ~env.readOnly
  /\ route # "set" => t = None
  /\ \E r \in Carried : MayConfigure(r)
  /\ requests' = [requests EXCEPT ![i] = [route |-> route, at |-> "reading", token |-> t,
                                         state |-> None]]
  /\ UNCHANGED <<env, config, file, sessions, issued, verified, failures>>

Ends(i) == requests' = [requests EXCEPT ![i] = None]
Changed(q) == IF q.route = "remind" THEN file ELSE q.token

Read(i) ==
  /\ requests[i].at = "reading"
  /\ requests' = [requests EXCEPT ![i].at = "writing", ![i].state = Changed(requests[i])]
  /\ UNCHANGED <<env, config, file, sessions, issued, verified, failures>>

\* writeFile empties the file, which read() takes for no token, and then fills it.
Truncate(i) ==
  /\ requests[i].at = "writing"
  /\ file' = None
  /\ requests' = [requests EXCEPT ![i].at = "filling"]
  /\ UNCHANGED <<env, config, sessions, issued, verified, failures>>

Fill(i) ==
  /\ requests[i].at = "filling"
  /\ file' = requests[i].state
  /\ requests' = [requests EXCEPT ![i].at = "written"]
  /\ UNCHANGED <<env, config, sessions, issued, verified, failures>>

\* Defect: the cache of accepted tokens outlives the token.
MutContinue(i) ==
  LET q == requests[i] IN
  /\ q.at = "written" /\ Ends(i)
  /\ config' = IF q.route = "remind" THEN config ELSE q.token
  /\ sessions' = IF q.route = "remind" THEN sessions ELSE {}
  /\ UNCHANGED <<env, file, issued, verified, failures>>

\* The write has returned.  A new token ends every session and signs in the one
\* who set it.
Continue(i) ==
  LET q == requests[i] IN
  /\ q.at = "written" /\ Ends(i)
  /\ IF q.route = "remind" THEN UNCHANGED <<config, sessions, issued, verified>>
     ELSE /\ config' = q.token
          /\ verified' = {}
          /\ IF q.route = "set" /\ issued < MaxSessions
             THEN /\ issued' = issued + 1
                  /\ sessions' = {[id |-> issued + 1, role |-> "operator", under |-> q.token]}
             ELSE sessions' = {} /\ UNCHANGED issued
  /\ UNCHANGED <<env, file, failures>>

-----------------------------------------------------------------------------
(* The other routes.                                                       *)

\* POST /api/auth/session with a token that is valid, or not.
SignIn(t) ==
  /\ Enabled /\ failures < MaxAttempts /\ issued < MaxSessions
  /\ TokenRole(t) # "none"
  /\ failures' = 0
  /\ issued' = issued + 1
  /\ sessions' = sessions \cup {[id |-> issued + 1, role |-> TokenRole(t), under |-> config]}
  /\ UNCHANGED <<env, config, file, verified, requests>>

SignInFails ==
  /\ Enabled /\ failures < MaxAttempts
  /\ failures' = failures + 1
  /\ UNCHANGED <<env, config, file, sessions, issued, verified, requests>>

LockoutEnds ==
  /\ failures > 0 /\ failures' = 0
  /\ UNCHANGED <<env, config, file, sessions, issued, verified, requests>>

\* DELETE /api/auth/session, or the session is found expired.
EndSession(s) ==
  /\ sessions' = sessions \ {s}
  /\ UNCHANGED <<env, config, file, issued, verified, failures, requests>>

\* Any other request, or the upgrade of a socket: a bearer token that is
\* accepted is remembered.
ApiRequest(t) ==
  /\ Enabled /\ t \notin verified /\ TokenRole(t) # "none"
  /\ verified' = verified \cup {t}
  /\ UNCHANGED <<env, config, file, sessions, issued, failures, requests>>

\* The server is killed at any point (a write that fails does it too: nothing
\* handles the rejection), and started again: resolveAuthConfig.
\* (With a read-only token and no other it refuses to start, until one is set
\* in the environment: a different configuration.)
Restart ==
  /\ ~env.pinned
  /\ env.readOnly => file # None
  /\ config' = file
  /\ sessions' = {} /\ verified' = {} /\ failures' = 0
  /\ requests' = [i \in Writers |-> None]
  /\ UNCHANGED <<env, file, issued>>

-----------------------------------------------------------------------------
Init ==
  /\ env \in [proxy : BOOLEAN, readOnly : BOOLEAN, pinned : BOOLEAN]
  /\ file \in Files
  /\ config \in IF env.pinned THEN Tokens ELSE {file}
  /\ env.readOnly => config # None
  /\ sessions = {} /\ issued = 0 /\ verified = {} /\ failures = 0
  /\ requests = [i \in Writers |-> None]

Next ==
  \/ \E i \in Writers, route \in Routes, t \in Tokens \cup {None} : Accept(i, route, t)
  \/ \E i \in InFlight : Read(i) \/ Truncate(i) \/ Fill(i) \/ Continue(i)
  \/ \E t \in Tokens \cup {Reader} : SignIn(t) \/ ApiRequest(t)
  \/ SignInFails \/ LockoutEnds \/ Restart
  \/ \E s \in sessions : EndSession(s)

Spec == Init /\ [][Next]_vars

-----------------------------------------------------------------------------
(* Properties.                                                             *)

TypeOK ==
  /\ config \in Tokens \cup {None} /\ file \in Files
  /\ sessions \subseteq [id : 1..MaxSessions, role : Roles, under : Tokens]
  /\ issued \in 0..MaxSessions /\ failures \in 0..MaxAttempts
  /\ verified \subseteq Tokens \cup {Reader}
  /\ requests \in [Writers -> Request \cup {None}]

\* authRoutes.ts:221, "anyone holding a session issued under the previous token
\* loses it": once a token is configured, whatever gives access as operator is
\* the proxy, that token, or a session issued under it, in any order of
\* overlapping changes, sign-ins and accepted bearer tokens.
AccessEndsWithToken ==
  Enabled =>
    \A r \in Carried : AccessRole(r) = "operator" =>
      \/ env.proxy /\ r.proxy
      \/ r.bearer = config
      \/ \E s \in sessions : s.id = r.cookie /\ s.under = config

\* authStore.ts:9, "a token set through the first-run screen has to survive a
\* restart": when no request is under way, the file holds the token in force.
TokenSurvivesRestart ==
  ~env.pinned /\ InFlight = {} => file = config

=============================================================================
