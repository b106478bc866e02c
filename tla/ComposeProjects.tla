--------------------------- MODULE ComposeProjects ---------------------------
(***************************************************************************)
(* Compose projects: listing them and acting on one (docker/projects.ts),  *)
(* and the panel that does (web/components/ProjectManager.svelte).         *)
(*                                                                         *)
(* A request looks at the containers once and then works through what it   *)
(* saw, while others than DockScope may change containers.  There is one   *)
(* panel, and it stays open.                                               *)
(* The Docker daemon and its compose command are external: an operation    *)
(* on a container fails when there is nothing to change, and compose may   *)
(* fail having changed some containers.                                    *)
(***************************************************************************)
EXTENDS FiniteSets, Naturals

CONSTANTS
  Containers,  \* containers there may be
  Project,     \* the project of each
  Labelled,    \* projects whose containers name their compose files
  Slots,       \* requests under way at a time
  MaxTimers,   \* refreshes that wait
  MaxOutside,  \* changes by others
  None

VARIABLES
  state,      \* of the containers: "running", "stopped" or "gone"
  cache,      \* the projects in projectCache
  requests,   \* the requests under way, and None for a free slot
  outside,    \* changes by others so far
  destroyed,  \* projects destroyed and not seen or started since
  shown,      \* projects in the panel: function to the running and the stopped
  pending,    \* pendingAction: the slot of its request
  loading,
  refreshes   \* timers that will fetch

vars == <<state, cache, requests, outside, destroyed, shown, pending, loading, refreshes>>

Projects == {Project[c] : c \in Containers}
Actions == {"up", "down", "destroy", "stop", "start", "restart"}
Compose == {"up", "down", "destroy"}

Of(p) == {c \in Containers : Project[c] = p}
There(s) == {c \in Containers : s[c] # "gone"}
Running(s) == {c \in Containers : s[c] = "running"}

\* A request: what was asked, how far it is, the containers as it saw them and those left to
\* do, whether it succeeded, and whether the project has been changed by others.
RequestSet ==
  [kind : Actions \cup {"list"}, project : Projects \cup {None},
   phase : {"asked", "seen", "ran", "answered"},
   seen : [Containers -> {"running", "stopped", "gone"}], left : SUBSET Containers,
   ok : BOOLEAN, disturbed : BOOLEAN]

InFlight == {i \in Slots : requests[i] # None}
Listings == {i \in InFlight : requests[i].kind = "list"}

-----------------------------------------------------------------------------
(* Requests.                                                               *)

Request(kind, p) ==
  [kind |-> kind, project |-> p, phase |-> "asked",
   seen |-> [c \in Containers |-> "gone"], left |-> {}, ok |-> FALSE, disturbed |-> FALSE]

Send(i, kind, p) ==
  /\ i \notin InFlight
  /\ requests' = [requests EXCEPT ![i] = Request(kind, p)]

\* Containers of a project change, which disturbs the other requests about it.
Change(s, by) ==
  LET touched == {Project[c] : c \in {d \in Containers : s[d] # state[d]}}
  IN /\ state' = s
     /\ destroyed' = destroyed \ {p \in touched : \E c \in Of(p) : s[c] # "gone"}
     /\ requests' = [i \in Slots |->
          IF i = by[1] THEN by[2]
          ELSE IF i \in InFlight /\ requests[i].phase # "asked"
                    /\ requests[i].project \in touched
            THEN [requests[i] EXCEPT !.disturbed = TRUE]
          ELSE requests[i]]

Advance(i, request) == requests' = [requests EXCEPT ![i] = request]

\* listContainers, of all or of the project.
See(i) ==
  /\ requests[i].phase = "asked"
  /\ Advance(i, [requests[i] EXCEPT !.phase = "seen", !.seen = state,
                   !.left = Of(requests[i].project) \cap There(state)])
  /\ UNCHANGED <<state, cache, outside, destroyed, shown, pending, loading, refreshes>>

\* cacheProjectMeta
CacheProjectMeta(s) == cache \cup {p \in Labelled : Of(p) \cap There(s) # {}}

\* The projects with their counts: live ones, and those of the cache.
Listed(s, known) ==
  [p \in known \cup {q \in Projects : Of(q) \cap There(s) # {}} |->
     [running |-> Cardinality(Of(p) \cap Running(s)),
      stopped |-> Cardinality(Of(p) \cap (There(s) \ Running(s)))]]

\* listComposeProjects
List(i) ==
  LET r == requests[i]
  IN /\ r.kind = "list" /\ r.phase = "seen"
     /\ cache' = CacheProjectMeta(r.seen)
     /\ Advance(i, [r EXCEPT !.phase = "answered", !.ok = TRUE])
     /\ UNCHANGED <<state, outside, destroyed, shown, pending, loading, refreshes>>

\* getComposeCommand: from the labels of what was seen, or from the cache.
ComposeKnown(r) ==
  \/ r.project \in cache
  \/ r.project \in Labelled /\ Of(r.project) \cap There(r.seen) # {}

\* What compose makes of the containers.
Wanted(r) == [c \in Containers |->
  IF Project[c] # r.project THEN state[c] ELSE IF r.kind = "up" THEN "running" ELSE "gone"]

RunCompose(i) ==
  LET r == requests[i]
  IN /\ r.kind \in Compose /\ r.phase = "seen" /\ ComposeKnown(r)
     /\ \/ Change(Wanted(r), <<i, [r EXCEPT !.phase = "ran"]>>)
        \/ \E part \in SUBSET Of(r.project) :
             Change([c \in Containers |-> IF c \in part THEN Wanted(r)[c] ELSE state[c]],
                    <<i, [r EXCEPT !.phase = "answered"]>>)
     /\ UNCHANGED <<cache, outside, shown, pending, loading, refreshes>>

\* Defect: what is destroyed stays in the cache.
MutForgotten(r) == {}

\* projectCache.delete
Forgotten(r) == IF r.kind = "destroy" THEN {r.project} ELSE {}

ComposeRan(i) ==
  LET r == requests[i]
      seen == \E j \in Listings : requests[j].phase = "seen"
                 /\ Of(r.project) \cap There(requests[j].seen) # {}
  IN /\ r.phase = "ran"
     /\ Advance(i, [r EXCEPT !.phase = "answered", !.ok = TRUE])
     /\ cache' = cache \ Forgotten(r)
     /\ destroyed' = IF r.kind = "destroy" /\ ~seen /\ Of(r.project) \cap There(state) = {}
                       THEN destroyed \cup {r.project} ELSE destroyed
     /\ UNCHANGED <<state, outside, shown, pending, loading, refreshes>>

\* Without compose files "up" starts the containers; the others change nothing.
NoCompose(i) ==
  LET r == requests[i]
  IN /\ r.kind \in {"down", "destroy"} /\ r.phase = "seen" /\ ~ComposeKnown(r)
     /\ Advance(i, [r EXCEPT !.phase = "answered", !.ok = TRUE])
     /\ UNCHANGED <<state, cache, outside, destroyed, shown, pending, loading, refreshes>>

\* The containers the loop does something to, by the state they were seen in.
Concerned(r, c) ==
  IF r.kind \in {"stop", "restart"} THEN r.seen[c] = "running" ELSE r.seen[c] # "running"

Loops(r) == r.kind \in {"stop", "start", "restart"} \/ (r.kind = "up" /\ ~ComposeKnown(r))

\* stop, start and restart of a container: when there is nothing to change, an error.
Possible(r, c) ==
  CASE state[c] = "gone" -> FALSE
    [] r.kind = "stop" -> state[c] = "running"
    [] r.kind = "restart" -> TRUE
    [] OTHER -> state[c] = "stopped"

StepContainer(i, c) ==
  LET r == requests[i]
      after == IF r.kind = "stop" THEN "stopped" ELSE "running"
  IN /\ Loops(r) /\ r.phase = "seen" /\ c \in r.left
     /\ IF ~Concerned(r, c)
          THEN Change(state, <<i, [r EXCEPT !.left = @ \ {c}]>>)
          ELSE \/ /\ Possible(r, c)
                  /\ Change([state EXCEPT ![c] = after], <<i, [r EXCEPT !.left = @ \ {c}]>>)
               \/ Change(state, <<i, [r EXCEPT !.phase = "answered"]>>)
     /\ UNCHANGED <<cache, outside, shown, pending, loading, refreshes>>

EndLoop(i) ==
  LET r == requests[i]
  IN /\ Loops(r) /\ r.phase = "seen" /\ r.left = {}
     /\ Advance(i, [r EXCEPT !.phase = "answered", !.ok = TRUE])
     /\ UNCHANGED <<state, cache, outside, destroyed, shown, pending, loading, refreshes>>

-----------------------------------------------------------------------------
(* The panel.                                                              *)

\* fetchProjects, when the panel opens and for each timer.
FetchProjects(i) ==
  /\ refreshes > 0 /\ refreshes' = refreshes - 1
  /\ Send(i, "list", None) /\ loading' = TRUE
  /\ UNCHANGED <<state, cache, outside, destroyed, shown, pending>>

\* An older answer may come after a newer one, a fetch that fails empties the list, and
\* the first of two to end ends the loading.
Fetched(i) ==
  LET r == requests[i]
  IN /\ r.kind = "list" /\ r.phase = "answered"
     /\ shown' \in {Listed(r.seen, cache), <<>>}
     /\ loading' = FALSE
     /\ Advance(i, None)
     /\ UNCHANGED <<state, cache, outside, destroyed, pending, refreshes>>

\* The buttons for a project by what is shown of it.
Offered(p) ==
  {"destroy"} \cup IF shown[p].running > 0 THEN {"restart", "stop", "down"}
                   ELSE IF shown[p].stopped > 0 THEN {"up", "down"} ELSE {"up"}

\* The buttons are disabled during an action, and not shown while the list is loading.
Enabled == pending = None /\ ~loading

DoAction(i, p, action) ==
  /\ Enabled /\ p \in DOMAIN shown /\ action \in Offered(p) /\ refreshes < MaxTimers
  /\ Send(i, action, p)
  /\ pending' = i
  /\ UNCHANGED <<state, cache, outside, destroyed, shown, loading, refreshes>>

\* Defect: a failing action leaves the panel waiting.
MutPendingAfter(r) == IF r.ok THEN None ELSE pending

\* finally
PendingAfter(r) == None

ActionDone(i) ==
  LET r == requests[i]
  IN /\ r.kind # "list" /\ r.phase = "answered"
     /\ pending' = PendingAfter(r)
     /\ refreshes' = refreshes + IF r.ok THEN 1 ELSE 0
     /\ Advance(i, None)
     /\ UNCHANGED <<state, cache, outside, destroyed, shown, loading>>

\* A container starts, stops or goes without DockScope.
OutsideChange(c, s) ==
  /\ outside < MaxOutside /\ outside' = outside + 1 /\ state[c] # s
  /\ Change([state EXCEPT ![c] = s], <<None, None>>)
  /\ UNCHANGED <<cache, shown, pending, loading, refreshes>>

-----------------------------------------------------------------------------

Init ==
  /\ state \in [Containers -> {"running", "stopped"}]
  /\ cache = {} /\ requests = [i \in Slots |-> None]
  /\ outside = 0 /\ destroyed = {}
  /\ shown = <<>> /\ pending = None /\ loading = TRUE /\ refreshes = 1

Next ==
  \/ \E i \in Slots :
       \/ FetchProjects(i)
       \/ \E p \in Projects, action \in Actions : DoAction(i, p, action)
  \/ \E i \in InFlight :
       \/ See(i) \/ List(i) \/ RunCompose(i) \/ ComposeRan(i) \/ NoCompose(i) \/ EndLoop(i)
       \/ \E c \in requests[i].left : StepContainer(i, c)
       \/ Fetched(i) \/ ActionDone(i)
  \/ \E c \in Containers, s \in {"running", "stopped", "gone"} : OutsideChange(c, s)

Spec == Init /\ [][Next]_vars

-----------------------------------------------------------------------------
(* Properties.                                                             *)

TypeOK ==
  /\ state \in [Containers -> {"running", "stopped", "gone"}]
  /\ cache \subseteq Labelled /\ destroyed \subseteq Projects
  /\ requests \in [Slots -> RequestSet \cup {None}]
  /\ DOMAIN shown \subseteq Projects
  /\ pending \in Slots \cup {None}
  /\ loading \in BOOLEAN /\ outside \in 0..MaxOutside /\ refreshes \in Nat

\* A request that reports success, of which nobody disturbed the project since it looked, has
\* done what was asked to the containers it saw (projects.ts:92); "down" and "destroy" of a
\* project whose compose files are not known are not among those, they only say so.
DoneAsAsked ==
  \A i \in InFlight :
    LET r == requests[i]
        seen == Of(r.project) \cap There(r.seen)
    IN r.kind # "list" /\ r.phase = "answered" /\ r.ok /\ ~r.disturbed =>
         CASE r.kind = "stop" -> seen \cap Running(state) = {}
           [] r.kind = "start" -> seen \subseteq Running(state)
           [] r.kind = "restart" -> seen \cap Running(r.seen) \subseteq Running(state)
           [] r.kind = "up" -> seen \subseteq Running(state)
           [] OTHER -> seen \cap There(state) = {} \/ r.project \notin Labelled

\* A destroyed project is not listed again, unless a listing had seen it before it was
\* destroyed and ends after (projects.ts:15).
DestroyedIsForgotten ==
  \A i \in InFlight, p \in destroyed :
    p \notin cache /\ (requests[i].kind = "list" /\ requests[i].phase = "seen"
                         => Of(p) \cap There(requests[i].seen) = {})

\* The panel waits for an action just when one is under way, and for one at a time
\* (ProjectManager.svelte:43).
PanelWaits ==
  /\ {i \in InFlight : requests[i].kind # "list"}
       = {pending} \ {None}
  /\ loading => refreshes > 0 \/ Listings # {}

ProjectsAreTrue == DoneAsAsked /\ DestroyedIsForgotten /\ PanelWaits

=============================================================================
