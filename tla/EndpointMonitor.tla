--------------------------- MODULE EndpointMonitor --------------------------
(***************************************************************************)
(* The official plugin that checks HTTP endpoints                          *)
(* (plugins/official/endpoints/plugin.mjs): its list, which is kept in the *)
(* plugin's storage, the queue of changes to it, and the checks, which the *)
(* start, a timer and every added endpoint ask for.                        *)
(*                                                                         *)
(* The plugin runs in a process of its own, which may be killed at any     *)
(* time; a stop is followed by the end of the process.  What a check finds *)
(* is not kept, only that there is an observation; whether that is old     *)
(* enough to be due again is left open.  A rejected input is the url None. *)
(* MaxEndpoints is 16 and MaxProbes 4 in the code; MaxOps bounds the       *)
(* changes asked for and MaxRuns the processes.                            *)
(***************************************************************************)
EXTENDS Naturals, FiniteSets, Sequences

CONSTANTS Ids, Urls, MaxEndpoints, MaxProbes, MaxOps, MaxRuns, None

VARIABLES
  saved,      \* the endpoints in the storage
  phase,      \* of the process: off, starting, failed, up, stopping, stopped
  loaded,     \* has the storage been read?
  endpoints, observed,
  timer,      \* is the timer of the next checks set?
  mutations,  \* queue of changes, the first of them under way
  callers,    \* who is in refresh(): "start", "timer", or the id that was added
  flight,     \* the checks under way, or None
  asked,      \* changes asked for
  runs,       \* processes started
  answered    \* history: endpoints whose addition was answered by a running plugin

listVars == <<saved, loaded, endpoints, mutations, asked>>
checkVars == <<observed, timer, callers, flight, answered>>
vars == <<listVars, checkVars, phase, runs>>

Endpoint == [id : Ids, url : Urls]
IdsOf(es) == {e.id : e \in es}
stopped == phase \in {"stopping", "stopped"}

-----------------------------------------------------------------------------
(* The list.                                                               *)

\* load, which start() awaits in its refresh, so that all others find it done.  A
\* failure is kept as well: the start fails.
Load(ok) ==
  /\ phase \in {"starting", "stopping"} /\ "start" \in callers /\ ~loaded
  /\ IF ok THEN loaded' = TRUE /\ endpoints' = saved /\ UNCHANGED <<callers, phase>>
     ELSE /\ callers' = callers \ {"start"} /\ UNCHANGED <<loaded, endpoints>>
          /\ phase' = IF stopped THEN phase ELSE "failed"
  /\ UNCHANGED <<saved, mutations, asked, observed, timer, flight, answered, runs>>

\* An id that nothing refers to any more
Fresh(i) ==
  /\ i \notin IdsOf(saved \cup endpoints) \cup observed \cup callers \cup answered
  /\ \A m \in DOMAIN mutations : mutations[m].id # i
  /\ flight # None => i \notin flight.left \cup flight.probing

Ask(kind, id, url) ==
  /\ phase = "up" /\ asked < MaxOps /\ asked' = asked + 1
  /\ mutations' = Append(mutations, [kind |-> kind, id |-> id, url |-> url, at |-> "queued"])
  /\ UNCHANGED <<saved, loaded, endpoints, checkVars, phase, runs>>

\* Any fresh id will do.
AddConnection(url) ==
  /\ \E i \in Ids : Fresh(i)
  /\ Ask("add", CHOOSE i \in Ids : Fresh(i), url)

RemoveConnection(id) == Ask("remove", id, None)

\* What the list is to be.
Changed(m) ==
  IF m.kind = "add" THEN endpoints \cup {[id |-> m.id, url |-> m.url]}
  ELSE {e \in endpoints : e.id # m.id}

\* Defect: a list that is full takes one more.
MutAcceptable(m) ==
  IF m.kind = "remove" THEN m.id \in IdsOf(endpoints)
  ELSE /\ m.url # None
       /\ Cardinality(endpoints) <= MaxEndpoints
       /\ \A e \in endpoints : e.url # m.url

Acceptable(m) ==
  IF m.kind = "remove" THEN m.id \in IdsOf(endpoints)
  ELSE /\ m.url # None
       /\ Cardinality(endpoints) < MaxEndpoints
       /\ \A e \in endpoints : e.url # m.url

\* The first change is checked against the list, and fails or begins to write.
BeginMutation ==
  /\ mutations # <<>> /\ Head(mutations).at = "queued"
  /\ mutations' = IF Acceptable(Head(mutations)) THEN [mutations EXCEPT ![1].at = "writing"]
                  ELSE Tail(mutations)
  /\ UNCHANGED <<saved, loaded, endpoints, asked, checkVars, phase, runs>>

\* writeStorage
Write(ok) ==
  /\ mutations # <<>> /\ Head(mutations).at = "writing"
  /\ IF ok THEN saved' = Changed(Head(mutations)) /\ mutations' = [mutations EXCEPT ![1].at = "written"]
     ELSE UNCHANGED saved /\ mutations' = Tail(mutations)
  /\ UNCHANGED <<loaded, endpoints, asked, checkVars, phase, runs>>

\* Defect: the observation of a removed endpoint stays.
MutEndMutation ==
  /\ mutations # <<>> /\ Head(mutations).at = "written"
  /\ LET m == Head(mutations)
     IN /\ endpoints' = Changed(m)
        /\ callers' = IF m.kind = "add" THEN callers \cup {m.id} ELSE callers
        /\ answered' = answered \ {m.id}
  /\ mutations' = Tail(mutations)
  /\ UNCHANGED <<saved, loaded, asked, observed, timer, flight, phase, runs>>

\* The list is the new one.  What was added is checked before that is answered.
EndMutation ==
  /\ mutations # <<>> /\ Head(mutations).at = "written"
  /\ LET m == Head(mutations)
     IN /\ endpoints' = Changed(m)
        /\ observed' = observed \ {m.id}
        /\ callers' = IF m.kind = "add" THEN callers \cup {m.id} ELSE callers
        /\ answered' = answered \ {m.id}
  /\ mutations' = Tail(mutations)
  /\ UNCHANGED <<saved, loaded, asked, timer, flight, phase, runs>>

-----------------------------------------------------------------------------
(* The checks.                                                             *)

\* Defect: a timer is set whether or not the plugin is stopped.
MutReturns(c) ==
  /\ callers' = callers \ {c}
  /\ timer' = (timer \/ c \in {"start", "timer"})
  /\ answered' = IF c \in Ids /\ ~stopped THEN answered \cup {c} ELSE answered
  /\ phase' = IF c = "start" /\ ~stopped THEN "up" ELSE phase

\* refresh() returns to the start, which is done then, to the timer or to an addition.
Returns(c) ==
  /\ callers' = callers \ {c}
  /\ timer' = (timer \/ (~stopped /\ c \in {"start", "timer"}))
  /\ answered' = IF c \in Ids /\ ~stopped THEN answered \cup {c} ELSE answered
  /\ phase' = IF c = "start" /\ ~stopped THEN "up" ELSE phase

\* Those never checked are due, and those whose observation has got old.
Due == {d \in SUBSET IdsOf(endpoints) : IdsOf(endpoints) \ observed \subseteq d}

\* Defect: a caller that finds checks under way waits for them, and for no others.
MutRefresh(c) ==
  /\ c \in callers /\ loaded
  /\ \/ /\ IF flight # None THEN flight.owner # c ELSE stopped \/ {} \in Due
        /\ Returns(c) /\ UNCHANGED flight
     \/ /\ ~stopped /\ flight = None
        /\ \E d \in Due \ {{}} : \E first \in SUBSET d :
             /\ Cardinality(first) = IF Cardinality(d) < MaxProbes THEN Cardinality(d) ELSE MaxProbes
             /\ flight' = [left |-> d \ first, probing |-> first, owner |-> c]
        /\ UNCHANGED <<callers, timer, answered, phase>>
  /\ UNCHANGED <<listVars, observed, runs>>

\* refresh: waits while checks are under way, then looks again at what is due.
Refresh(c) ==
  /\ c \in callers /\ loaded /\ (flight # None => flight.owner # c)
  /\ \/ /\ stopped \/ flight = None
        /\ ~stopped => {} \in Due
        /\ Returns(c) /\ UNCHANGED flight
     \/ /\ ~stopped /\ flight = None
        /\ \E d \in Due \ {{}} : \E first \in SUBSET d :
             /\ Cardinality(first) = IF Cardinality(d) < MaxProbes THEN Cardinality(d) ELSE MaxProbes
             /\ flight' = [left |-> d \ first, probing |-> first, owner |-> c]
        /\ UNCHANGED <<callers, timer, answered, phase>>
  /\ UNCHANGED <<listVars, observed, runs>>

\* Defect: what a check found is kept although the endpoint has been removed.
MutObserved(i) == IF stopped THEN observed ELSE observed \cup {i}

Observed(i) == IF ~stopped /\ i \in IdsOf(endpoints) THEN observed \cup {i} ELSE observed

\* A probe is answered, fails, runs into its deadline or is aborted; the next begins.
ProbeEnds(i) ==
  /\ flight # None /\ i \in flight.probing
  /\ observed' = Observed(i)
  /\ LET rest == flight.probing \ {i}
     IN flight' \in
          IF stopped \/ flight.left = {} THEN {[flight EXCEPT !.probing = rest]}
          ELSE {[flight EXCEPT !.probing = rest \cup {j}, !.left = @ \ {j}] : j \in flight.left}
  /\ UNCHANGED <<listVars, timer, callers, answered, phase, runs>>

FlightEnds ==
  /\ flight # None /\ flight.probing = {}
  /\ flight' = None /\ Returns(flight.owner)
  /\ UNCHANGED <<listVars, observed, runs>>

TimerFires ==
  /\ timer /\ timer' = FALSE /\ callers' = callers \cup {"timer"}
  /\ UNCHANGED <<listVars, observed, flight, answered, phase, runs>>

-----------------------------------------------------------------------------
(* The process.                                                            *)

Start ==
  /\ phase = "off" /\ runs < MaxRuns /\ runs' = runs + 1
  /\ phase' = "starting" /\ callers' = {"start"}
  /\ UNCHANGED <<listVars, observed, timer, flight, answered>>

\* stop: aborts the probes and waits for the checks under way.
Stop ==
  /\ phase \in {"starting", "up"} /\ phase' = "stopping" /\ timer' = FALSE
  /\ UNCHANGED <<listVars, observed, callers, flight, answered, runs>>

StopReturns ==
  /\ phase = "stopping" /\ flight = None /\ phase' = "stopped"
  /\ UNCHANGED <<listVars, checkVars, runs>>

\* The end of the process
Kill ==
  /\ phase # "off" /\ phase' = "off"
  /\ loaded' = FALSE /\ endpoints' = {} /\ mutations' = <<>>
  /\ observed' = {} /\ timer' = FALSE /\ callers' = {} /\ flight' = None /\ answered' = {}
  /\ UNCHANGED <<saved, asked, runs>>

Init ==
  /\ saved \in {es \in SUBSET Endpoint :
                  /\ Cardinality(es) <= MaxEndpoints
                  /\ \A e, f \in es : e.id = f.id \/ e.url = f.url => e = f}
  /\ phase = "off" /\ loaded = FALSE /\ endpoints = {} /\ observed = {} /\ timer = FALSE
  /\ mutations = <<>> /\ callers = {} /\ flight = None /\ asked = 0 /\ runs = 0
  /\ answered = {}

Next ==
  \/ \E ok \in BOOLEAN : Load(ok) \/ Write(ok)
  \/ \E id \in Ids : RemoveConnection(id)
  \/ \E url \in Urls \cup {None} : AddConnection(url)
  \/ BeginMutation \/ EndMutation
  \/ \E c \in callers : Refresh(c)
  \/ \E i \in Ids : ProbeEnds(i)
  \/ FlightEnds \/ TimerFires \/ Start \/ Stop \/ StopReturns \/ Kill

Spec == Init /\ [][Next]_vars

-----------------------------------------------------------------------------
TypeOK ==
  /\ saved \subseteq Endpoint /\ endpoints \subseteq Endpoint /\ observed \subseteq Ids
  /\ phase \in {"off", "starting", "failed", "up", "stopping", "stopped"}
  /\ loaded \in BOOLEAN /\ timer \in BOOLEAN /\ callers \subseteq Ids \cup {"start", "timer"}
  /\ \A m \in DOMAIN mutations : mutations[m].at \in {"queued", "writing", "written"}
  /\ flight # None => flight.left \cup flight.probing \subseteq Ids /\ flight.owner \in callers

\* The list is the stored one, but for a change that was written and is about to
\* return; no url is twice in it, it is within the limit, and what was observed is of it.
EndpointsAreKept ==
  /\ loaded =>
       \/ endpoints = saved
       \/ mutations # <<>> /\ Head(mutations).at = "written" /\ saved = Changed(Head(mutations))
  /\ Cardinality(saved) <= MaxEndpoints
  /\ \A e, f \in saved : e.url = f.url => e = f
  /\ observed \subseteq IdsOf(endpoints)

\* An endpoint has been checked when its addition is answered, whatever checks were
\* under way when it came.
AddedIsChecked == \A i \in answered \cap IdsOf(endpoints) : i \in observed

\* A plugin that is up has one timer set or one refresh of it under way.
ChecksGoOn == phase = "up" => (timer <=> "timer" \notin callers)

EndpointsAreWatched == EndpointsAreKept /\ AddedIsChecked /\ ChecksGoOn

\* No check is under way and none will begin when stop() has returned.
StopEnds == phase = "stopped" => flight = None /\ ~timer

=============================================================================
