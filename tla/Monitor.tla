------------------------------ MODULE Monitor ------------------------------
(***************************************************************************)
(* The server's monitor (server/monitor.ts): the refresh of the graph and  *)
(* the event watchers of the graph sources, against start(), the intervals *)
(* and stop().                                                             *)
(*                                                                         *)
(* A refresh asks every source (core/sources/collect.ts) and races each    *)
(* answer with a timer of five seconds, so it returns, with the sources    *)
(* that answered.  A refresh is skipped while one is in flight.  Each of   *)
(* start(), the graph interval and the connection checks goes on to        *)
(* syncEventWatchers when what it awaits has returned.                     *)
(*                                                                         *)
(* A watcher is one call of startEvents.  Its stream may report an error   *)
(* and later its close: both forget the watcher.  Numbers of watchers that *)
(* are over are used again.  MaxChecks bounds the connection checks in     *)
(* flight, which the code does not.                                        *)
(***************************************************************************)
EXTENDS Naturals, FiniteSets

CONSTANTS Sources, Watchers, MaxChecks

\* 0 stands for no watcher; start() checks the connections once.
ASSUME MonitorAssumption == Sources # {} /\ 0 \notin Watchers /\ MaxChecks \in Nat \ {0}

VARIABLES
  status,      \* what describe() of each source says; "absent" without plugin
  started,     \* has start() been called?
  intervals,   \* do the intervals run?
  timer,       \* is the debounced refreshTimer set?
  refresh,     \* for whom a refresh is in flight
  graph,       \* sources with nodes in cachedGraph
  checks,      \* refreshConnections() in flight
  eventWatchers, \* the watcher of each source; 0 for none
  watcher,     \* what became of each watcher, and of which source it is
  stopped,
  late         \* history: something that syncs the watchers was in flight at stop()

vars == <<status, started, intervals, timer, refresh, graph, checks, eventWatchers,
          watcher, stopped, late>>

Watcher(a, s) == [at |-> a, of |-> s]
Gone == Watcher("gone", CHOOSE s \in Sources : TRUE)
Refreshing == {"none", "start", "interval", "timer"}
Live(w) == watcher[w].at = "live"

-----------------------------------------------------------------------------
(* The parts handlers are made of.                                         *)

Listed == {s \in Sources : status[s] # "absent"}
Connected == {s \in Sources : status[s] = "connected"}
Watched == {s \in Sources : eventWatchers[s] # 0}

\* Defect: watchers are started as long as there is none.
MutSyncEventWatchers ==
  LET new == IF Watched = {} THEN Connected ELSE {}
      free == {w \in Watchers : watcher[w].at = "gone"}
  IN \E start \in [new -> free] :
       /\ \A s, t \in new : start[s] = start[t] => s = t
       /\ eventWatchers' = [s \in Sources |-> IF s \in new THEN start[s] ELSE eventWatchers[s]]
       /\ watcher' = [w \in Watchers |->
            IF \E s \in new : start[s] = w
              THEN Watcher("live", CHOOSE s \in new : start[s] = w)
            ELSE watcher[w]]

\* syncEventWatchers: stop and forget the watchers of sources that are gone or
\* not connected, and watch those that are connected and not watched.
SyncEventWatchers ==
  LET over == Watched \ Connected
      new == Connected \ Watched
      free == {w \in Watchers : watcher[w].at = "gone"}
  IN \E start \in [new -> free] :
       /\ \A s, t \in new : start[s] = start[t] => s = t
       /\ eventWatchers' = [s \in Sources |-> IF s \in over THEN 0
                              ELSE IF s \in new THEN start[s] ELSE eventWatchers[s]]
       /\ watcher' = [w \in Watchers |->
            IF \E s \in over : eventWatchers[s] = w
              THEN Gone
            ELSE IF \E s \in new : start[s] = w
              THEN Watcher("live", CHOOSE s \in new : start[s] = w)
            ELSE watcher[w]]

\* Defect: a watcher that ends deletes the entry of its source, whichever
\* watcher that is.
MutForgetWatcher(w) ==
  eventWatchers' = [eventWatchers EXCEPT ![watcher[w].of] = 0]

ForgetWatcher(w) ==
  eventWatchers' = [eventWatchers EXCEPT ![watcher[w].of] = IF @ = w THEN 0 ELSE @]

Same == UNCHANGED <<eventWatchers, watcher>>

-----------------------------------------------------------------------------
\* start(): it awaits the first refresh.
Start ==
  /\ ~started /\ ~stopped
  /\ started' = TRUE
  /\ refresh' = "start"
  /\ Same
  /\ UNCHANGED <<status, intervals, timer, graph, checks, stopped, late>>

\* Defect: the flag is not reset when the collection fails.
MutRefreshReturns(answered) ==
  /\ refresh # "none" /\ answered \subseteq Listed
  /\ refresh' = IF answered = {} THEN refresh ELSE "none"
  /\ graph' = IF stopped THEN graph ELSE answered
  /\ intervals' = (intervals \/ refresh = "start")
  /\ checks' = IF refresh = "start" THEN checks + 1 ELSE checks
  /\ IF refresh = "timer" THEN Same ELSE SyncEventWatchers
  /\ UNCHANGED <<status, started, timer, stopped, late>>

\* refreshGraph returns with the answers of the sources; a source that failed
\* has no nodes in the new graph.  After stop() the result is dropped, but who
\* waited goes on; start() sets the intervals and checks the connections.
RefreshReturns(answered) ==
  /\ refresh # "none" /\ answered \subseteq Listed
  /\ refresh' = "none"
  /\ graph' = IF stopped THEN graph ELSE answered
  /\ intervals' = (intervals \/ refresh = "start")
  /\ checks' = IF refresh = "start" THEN checks + 1 ELSE checks
  /\ IF refresh = "timer" THEN Same ELSE SyncEventWatchers
  /\ UNCHANGED <<status, started, timer, stopped, late>>

\* graphInterval: a refresh that is skipped returns at once.
GraphInterval ==
  /\ intervals
  /\ IF refresh # "none" \/ stopped
     THEN SyncEventWatchers /\ UNCHANGED refresh
     ELSE refresh' = "interval" /\ Same
  /\ UNCHANGED <<status, started, intervals, timer, graph, checks, stopped, late>>

\* debouncedRefreshGraph's timer.
RefreshTimer ==
  /\ timer /\ timer' = FALSE
  /\ refresh' = IF refresh # "none" \/ stopped THEN refresh ELSE "timer"
  /\ Same
  /\ UNCHANGED <<status, started, intervals, graph, checks, stopped, late>>

\* connectionStatusInterval.
ConnectionInterval ==
  /\ intervals /\ checks < MaxChecks
  /\ checks' = checks + 1
  /\ Same
  /\ UNCHANGED <<status, started, intervals, timer, refresh, graph, stopped, late>>

\* refreshConnections() has returned, or failed, which skips the rest.
ConnectionsChecked ==
  /\ checks > 0 /\ checks' = checks - 1
  /\ Same \/ SyncEventWatchers
  /\ UNCHANGED <<status, started, intervals, timer, refresh, graph, stopped, late>>

\* handleSourceEvent: one that changes the graph (re)sets the timer.
SourceEvent(w) ==
  /\ Live(w) /\ timer' = TRUE
  /\ Same
  /\ UNCHANGED <<status, started, intervals, refresh, graph, checks, stopped, late>>

\* The stream of a watcher fails, and its close may come later; or it closes.
WatcherFails(w) ==
  /\ Live(w)
  /\ \E a \in {Gone, Watcher("failed", watcher[w].of)} : watcher' = [watcher EXCEPT ![w] = a]
  /\ ForgetWatcher(w)
  /\ UNCHANGED <<status, started, intervals, timer, refresh, graph, checks, stopped, late>>

WatcherCloses(w) ==
  /\ watcher[w].at = "failed"
  /\ watcher' = [watcher EXCEPT ![w] = Gone]
  /\ ForgetWatcher(w)
  /\ UNCHANGED <<status, started, intervals, timer, refresh, graph, checks, stopped, late>>

\* Defect: the watchers are forgotten and go on.
MutStop ==
  /\ intervals /\ ~stopped
  /\ stopped' = TRUE /\ timer' = FALSE /\ intervals' = FALSE
  /\ late' = (checks > 0 \/ refresh = "interval")
  /\ eventWatchers' = [s \in Sources |-> 0]
  /\ UNCHANGED <<status, started, refresh, graph, checks, watcher>>

\* stop(): clear the timers, stop the watchers.  The server can be closed only
\* after start() has returned (server/index.ts:286).
Stop ==
  /\ intervals /\ ~stopped
  /\ stopped' = TRUE /\ timer' = FALSE /\ intervals' = FALSE
  /\ late' = (checks > 0 \/ refresh = "interval")
  /\ watcher' = [w \in Watchers |-> IF \E s \in Sources : eventWatchers[s] = w
                                    THEN Gone ELSE watcher[w]]
  /\ eventWatchers' = [s \in Sources |-> 0]
  /\ UNCHANGED <<status, started, refresh, graph, checks>>

\* A source connects or disconnects, its plugin is enabled or disabled.
StatusChanges(s, to) ==
  /\ status[s] # to
  /\ status' = [status EXCEPT ![s] = to]
  /\ Same
  /\ UNCHANGED <<started, intervals, timer, refresh, graph, checks, stopped, late>>

-----------------------------------------------------------------------------
States == {"absent", "connected", "disconnected"}

Init ==
  /\ status \in [Sources -> States]
  /\ started = FALSE /\ intervals = FALSE /\ timer = FALSE
  /\ refresh = "none" /\ graph = {} /\ checks = 0
  /\ eventWatchers = [s \in Sources |-> 0]
  /\ watcher = [w \in Watchers |-> Gone]
  /\ stopped = FALSE /\ late = FALSE

RefreshEnds == \E a \in SUBSET Sources : RefreshReturns(a)

Next ==
  \/ Start \/ RefreshEnds \/ GraphInterval \/ RefreshTimer \/ ConnectionInterval
  \/ ConnectionsChecked \/ Stop
  \/ \E w \in Watchers : SourceEvent(w) \/ WatcherFails(w) \/ WatcherCloses(w)
  \/ \E s \in Sources, to \in States : StatusChanges(s, to)

Spec == Init /\ [][Next]_vars

\* The interval ticks, the timers of a collection fire, and what was closed says so.
Fairness ==
  /\ WF_vars(GraphInterval)
  /\ WF_vars(RefreshEnds)
  /\ \A w \in Watchers : WF_vars(WatcherCloses(w))

FairSpec == Spec /\ Fairness

-----------------------------------------------------------------------------
(* Properties.                                                             *)

TypeOK ==
  /\ status \in [Sources -> States] /\ graph \subseteq Sources
  /\ refresh \in Refreshing /\ checks \in 0..MaxChecks
  /\ {started, intervals, timer, stopped, late} \subseteq BOOLEAN
  /\ eventWatchers \in [Sources -> Watchers \cup {0}]
  /\ watcher \in [Watchers -> [at : {"live", "failed", "gone"}, of : Sources]]

\* A watcher that delivers events is the one its source has in eventWatchers: no
\* event is handled twice (a second alert, a second diagnosis), and stop() and a
\* disabled plugin find every watcher there is, however late an old stream
\* reports its close.
WatchedOnce ==
  \A w \in Watchers : Live(w) => eventWatchers[watcher[w].of] = w

\* After stop() nothing is watched, unless a refresh of the interval or a
\* connection check was in flight: those go on to syncEventWatchers without
\* asking whether the monitor was stopped (monitor.ts:434, 440).
StopEndsWatching == stopped /\ ~late => \A w \in Watchers : ~Live(w)

\* A connected source that lost its watcher is watched again, although refreshes
\* are skipped while one is in flight and any source may fail or be slow.
WatchedAgain ==
  \A s \in Sources :
    started /\ s \in Connected \ Watched ~> s \in Watched \/ s \notin Connected \/ stopped

=============================================================================
