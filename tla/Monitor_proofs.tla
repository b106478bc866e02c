---------------------------- MODULE Monitor_proofs ---------------------------
(***************************************************************************)
(* For any sources and watchers: a source has one live watcher at most,    *)
(* the one in eventWatchers, and none outlives the shutdown unless a       *)
(* refresh or a check of the connections was under way.  The second rests  *)
(* on the order of start(): the intervals are set when the first refresh   *)
(* returns, so that a shutdown cannot find that refresh under way.         *)
(***************************************************************************)
EXTENDS Monitor, TLAPS

\* start(), the intervals and stop() follow each other.
Phases ==
  /\ ~started => /\ refresh = "none" /\ checks = 0
                 /\ ~intervals /\ ~timer /\ ~stopped
                 /\ \A w \in Watchers : ~Live(w)
  /\ refresh = "start" => checks = 0 /\ ~intervals /\ ~stopped
  /\ stopped => ~intervals

\* What could still watch a source after stop() is what late remembers.
Stopping ==
  stopped /\ ~late => /\ checks = 0 /\ refresh \in {"none", "timer"}
                      /\ \A w \in Watchers : ~Live(w)

IInv == TypeOK /\ WatchedOnce /\ Phases /\ Stopping

\* A source to which a watcher number that is over is given.
LEMMA GoneIsWatcher == Gone \in [at : {"live", "failed", "gone"}, of : Sources]
BY MonitorAssumption DEF Gone, Watcher

\* Watching the sources that are connected, and no others, keeps the types of the watchers
\* and that each source has the live ones in its entry.
LEMMA SyncOK ==
  ASSUME TypeOK, WatchedOnce, SyncEventWatchers
  PROVE  /\ eventWatchers' \in [Sources -> Watchers \cup {0}]
         /\ watcher' \in [Watchers -> [at : {"live", "failed", "gone"}, of : Sources]]
         /\ WatchedOnce'
<1>. DEFINE over == Watched \ Connected
            new == Connected \ Watched
            free == {w \in Watchers : watcher[w].at = "gone"}
<1>1. PICK start \in [new -> free] :
        /\ \A s, t \in new : start[s] = start[t] => s = t
        /\ eventWatchers' = [s \in Sources |-> IF s \in over THEN 0
                               ELSE IF s \in new THEN start[s] ELSE eventWatchers[s]]
        /\ watcher' = [w \in Watchers |->
             IF \E s \in over : eventWatchers[s] = w
               THEN Gone
             ELSE IF \E s \in new : start[s] = w
               THEN Watcher("live", CHOOSE s \in new : start[s] = w)
             ELSE watcher[w]]
  BY DEF SyncEventWatchers
<1>2. new \subseteq Sources /\ over \subseteq Sources
  BY DEF Connected, Watched
<1>3. eventWatchers' \in [Sources -> Watchers \cup {0}]
  BY <1>1, <1>2 DEF TypeOK
<1>4. \A s \in new : Watcher("live", s) \in [at : {"live", "failed", "gone"}, of : Sources]
  BY <1>2 DEF Watcher
<1>5. watcher' \in [Watchers -> [at : {"live", "failed", "gone"}, of : Sources]]
  BY <1>1, <1>4, GoneIsWatcher DEF TypeOK
<1>6. ASSUME NEW w \in Watchers, Live(w)' PROVE eventWatchers'[watcher'[w].of] = w
  <2>1. ~\E s \in over : eventWatchers[s] = w
    BY <1>1, <1>6 DEF Live, Gone, Watcher
  <2>2. CASE \E s \in new : start[s] = w
    <3>. DEFINE mine == CHOOSE s \in new : start[s] = w
    <3>1. mine \in new /\ start[mine] = w
      BY <2>2
    <3>2. watcher'[w].of = mine
      BY <1>1, <2>1, <2>2 DEF Watcher
    <3>. QED BY <1>1, <1>2, <3>1, <3>2
  <2>3. CASE ~\E s \in new : start[s] = w
    <3>1. watcher'[w] = watcher[w]
      BY <1>1, <2>1, <2>3
    <3>2. eventWatchers[watcher[w].of] = w
      BY <1>6, <3>1 DEF WatchedOnce, Live
    <3>3. watcher[w].of \in Sources
      BY DEF TypeOK
    <3>4. watcher[w].of \notin over /\ watcher[w].of \notin new
      BY <2>1, <3>2, <3>3, MonitorAssumption DEF Watched
    <3>. QED BY <1>1, <3>1, <3>2, <3>3, <3>4
  <2>. QED BY <2>2, <2>3
<1>. QED BY <1>3, <1>5, <1>6 DEF WatchedOnce

\* No watcher changes.
LEMMA SameOK ==
  ASSUME TypeOK, WatchedOnce, Same
  PROVE  /\ eventWatchers' \in [Sources -> Watchers \cup {0}]
         /\ watcher' \in [Watchers -> [at : {"live", "failed", "gone"}, of : Sources]]
         /\ WatchedOnce'
BY DEF TypeOK, WatchedOnce, Same, Live

\* A watcher that ends is forgotten by its own source only.
LEMMA ForgetOK ==
  ASSUME TypeOK, WatchedOnce, NEW w \in Watchers,
         NEW a \in {Gone, Watcher("failed", watcher[w].of)},
         watcher' = [watcher EXCEPT ![w] = a], ForgetWatcher(w)
  PROVE  /\ eventWatchers' \in [Sources -> Watchers \cup {0}]
         /\ watcher' \in [Watchers -> [at : {"live", "failed", "gone"}, of : Sources]]
         /\ WatchedOnce'
<1>1. watcher[w].of \in Sources
  BY DEF TypeOK
<1>2. a \in [at : {"live", "failed", "gone"}, of : Sources] /\ a.at # "live"
  BY <1>1, GoneIsWatcher DEF Gone, Watcher
<1>3. eventWatchers' \in [Sources -> Watchers \cup {0}]
  BY DEF TypeOK, ForgetWatcher
<1>4. watcher' \in [Watchers -> [at : {"live", "failed", "gone"}, of : Sources]]
  BY <1>2 DEF TypeOK
<1>5. ASSUME NEW v \in Watchers, Live(v)' PROVE eventWatchers'[watcher'[v].of] = v
  <2>1. v # w /\ watcher'[v] = watcher[v]
    BY <1>2, <1>5 DEF TypeOK, Live
  <2>2. eventWatchers[watcher[v].of] = v /\ watcher[v].of \in Sources
    BY <1>5, <2>1 DEF WatchedOnce, TypeOK, Live
  <2>. QED BY <2>1, <2>2 DEF TypeOK, ForgetWatcher
<1>. QED BY <1>3, <1>4, <1>5 DEF WatchedOnce

-----------------------------------------------------------------------------
\* The actions.

LEMMA InitOK == Init => IInv
<1>. SUFFICES ASSUME Init PROVE IInv
  OBVIOUS
<1>1. \A w \in Watchers : ~Live(w)
  BY DEF Init, Live, Gone, Watcher
<1>2. {started, intervals, timer, stopped, late} \subseteq BOOLEAN
  BY Zenon DEF Init
<1>3. TypeOK
  BY <1>2, GoneIsWatcher, MonitorAssumption DEF Init, TypeOK, Refreshing
<1>. QED BY <1>1, <1>3 DEF Init, IInv, WatchedOnce, Phases, Stopping

LEMMA StartOK ==
  ASSUME IInv, Start PROVE IInv'
<1>1. TypeOK' /\ WatchedOnce'
  BY SameOK DEF IInv, Start, TypeOK, Refreshing
<1>2. Phases' /\ Stopping'
  BY DEF IInv, Start, Phases, Stopping
<1>. QED BY <1>1, <1>2 DEF IInv

LEMMA RefreshOK ==
  ASSUME NEW answered, IInv, RefreshReturns(answered) PROVE IInv'
<1>1. /\ eventWatchers' \in [Sources -> Watchers \cup {0}]
      /\ watcher' \in [Watchers -> [at : {"live", "failed", "gone"}, of : Sources]]
      /\ WatchedOnce'
  BY SameOK, SyncOK DEF IInv, RefreshReturns
<1>2. TypeOK'
  <2>1. checks' \in 0..MaxChecks
    BY MonitorAssumption DEF IInv, TypeOK, Phases, RefreshReturns
  <2>2. graph' \subseteq Sources
    BY DEF IInv, TypeOK, RefreshReturns, Listed
  <2>3. {started, intervals, timer, stopped, late}' \subseteq BOOLEAN
    BY Zenon DEF IInv, TypeOK, RefreshReturns
  <2>4. status' \in [Sources -> States] /\ refresh' \in Refreshing
    BY DEF IInv, TypeOK, RefreshReturns, Refreshing
  <2>. QED BY <1>1, <2>1, <2>2, <2>3, <2>4 DEF TypeOK
<1>3. Phases'
  BY DEF IInv, Phases, RefreshReturns
<1>4. Stopping'
  BY DEF IInv, Phases, Stopping, RefreshReturns, Same, Live
<1>. QED BY <1>1, <1>2, <1>3, <1>4 DEF IInv

LEMMA IntervalOK ==
  ASSUME IInv, GraphInterval \/ RefreshTimer \/ ConnectionInterval PROVE IInv'
<1>1. /\ eventWatchers' \in [Sources -> Watchers \cup {0}]
      /\ watcher' \in [Watchers -> [at : {"live", "failed", "gone"}, of : Sources]]
      /\ WatchedOnce'
  BY SameOK, SyncOK DEF IInv, GraphInterval, RefreshTimer, ConnectionInterval
<1>2. CASE GraphInterval
  <2>1. TypeOK'
    BY <1>1, <1>2 DEF IInv, TypeOK, GraphInterval, Refreshing
  <2>. QED BY <1>1, <1>2, <2>1 DEF IInv, Phases, Stopping, GraphInterval
<1>3. CASE RefreshTimer
  <2>1. TypeOK'
    BY <1>1, <1>3 DEF IInv, TypeOK, RefreshTimer, Refreshing
  <2>. QED BY <1>1, <1>3, <2>1 DEF IInv, Phases, Stopping, RefreshTimer, Same, Live
<1>4. CASE ConnectionInterval
  <2>1. TypeOK'
    BY <1>1, <1>4, MonitorAssumption DEF IInv, TypeOK, ConnectionInterval
  <2>. QED BY <1>1, <1>4, <2>1 DEF IInv, Phases, Stopping, ConnectionInterval
<1>. QED BY <1>2, <1>3, <1>4

LEMMA CheckedOK ==
  ASSUME IInv, ConnectionsChecked PROVE IInv'
<1>1. /\ eventWatchers' \in [Sources -> Watchers \cup {0}]
      /\ watcher' \in [Watchers -> [at : {"live", "failed", "gone"}, of : Sources]]
      /\ WatchedOnce'
  BY SameOK, SyncOK DEF IInv, ConnectionsChecked
<1>2. TypeOK'
  BY <1>1, MonitorAssumption DEF IInv, TypeOK, ConnectionsChecked
<1>. QED BY <1>1, <1>2, MonitorAssumption DEF IInv, TypeOK, Phases, Stopping, ConnectionsChecked

LEMMA SourceEventOK ==
  ASSUME NEW w \in Watchers, IInv, SourceEvent(w) PROVE IInv'
<1>1. TypeOK' /\ WatchedOnce'
  BY SameOK DEF IInv, SourceEvent, TypeOK
<1>. QED BY <1>1 DEF IInv, Phases, Stopping, SourceEvent, Same, Live

\* A stream that fails or closes makes no other one live.
LEMMA EndsOK ==
  ASSUME NEW w \in Watchers, IInv, WatcherFails(w) \/ WatcherCloses(w) PROVE IInv'
<1>1. PICK a \in {Gone, Watcher("failed", watcher[w].of)} : watcher' = [watcher EXCEPT ![w] = a]
  BY DEF WatcherFails, WatcherCloses
<1>2. ForgetWatcher(w)
  BY DEF WatcherFails, WatcherCloses
<1>3. /\ eventWatchers' \in [Sources -> Watchers \cup {0}]
      /\ watcher' \in [Watchers -> [at : {"live", "failed", "gone"}, of : Sources]]
      /\ WatchedOnce'
  BY <1>1, <1>2, ForgetOK DEF IInv
<1>4. UNCHANGED <<status, started, intervals, timer, refresh, graph, checks, stopped, late>>
  BY DEF WatcherFails, WatcherCloses
<1>5. TypeOK'
  BY <1>3, <1>4 DEF IInv, TypeOK
<1>6. \A v \in Watchers : Live(v)' => Live(v)
  BY <1>1 DEF IInv, TypeOK, Live, Gone, Watcher
<1>. QED BY <1>3, <1>4, <1>5, <1>6 DEF IInv, Phases, Stopping

\* stop() ends every watcher there is: a live one is the one of its source.
LEMMA StopOK ==
  ASSUME IInv, Stop PROVE IInv'
<1>1. /\ watcher' = [w \in Watchers |-> IF \E s \in Sources : eventWatchers[s] = w
                                        THEN Gone ELSE watcher[w]]
      /\ eventWatchers' = [s \in Sources |-> 0]
  BY DEF Stop
<1>2. ASSUME NEW w \in Watchers PROVE ~Live(w)'
  <2>1. CASE \E s \in Sources : eventWatchers[s] = w
    BY <1>1, <2>1 DEF Live, Gone, Watcher
  <2>2. CASE ~\E s \in Sources : eventWatchers[s] = w
    BY <1>1, <2>2 DEF IInv, TypeOK, WatchedOnce, Live
  <2>. QED BY <2>1, <2>2
<1>3. TypeOK'
  <2>1. eventWatchers' \in [Sources -> Watchers \cup {0}]
    BY <1>1
  <2>2. watcher' \in [Watchers -> [at : {"live", "failed", "gone"}, of : Sources]]
    BY <1>1, GoneIsWatcher DEF IInv, TypeOK
  <2>3. late' \in BOOLEAN
    BY DEF Stop
  <2>4. started' \in BOOLEAN
    BY DEF IInv, TypeOK, Stop
  <2>5. {started, intervals, timer, stopped, late}' \subseteq BOOLEAN
    BY <2>3, <2>4, Zenon DEF Stop
  <2>. QED BY <2>1, <2>2, <2>5 DEF IInv, TypeOK, Stop
<1>4. WatchedOnce'
  BY <1>2 DEF WatchedOnce
<1>5. Phases'
  BY <1>2 DEF IInv, Phases, Stop
<1>6. Stopping'
  BY <1>2 DEF IInv, TypeOK, Phases, Stopping, Stop, Refreshing
<1>. QED BY <1>3, <1>4, <1>5, <1>6 DEF IInv

LEMMA StatusOK ==
  ASSUME NEW s \in Sources, NEW to \in States, IInv, StatusChanges(s, to) PROVE IInv'
<1>1. TypeOK' /\ WatchedOnce'
  BY SameOK DEF IInv, StatusChanges, TypeOK
<1>. QED BY <1>1 DEF IInv, Phases, Stopping, StatusChanges, Same, Live

-----------------------------------------------------------------------------
\* The invariant holds in every state.
THEOREM Invariance == Spec => []IInv
<1>1. IInv /\ [Next]_vars => IInv'
  <2>. SUFFICES ASSUME IInv, [Next]_vars PROVE IInv'
    OBVIOUS
  <2>1. CASE Start \/ Stop \/ ConnectionsChecked
    BY <2>1, StartOK, StopOK, CheckedOK
  <2>2. CASE GraphInterval \/ RefreshTimer \/ ConnectionInterval
    BY <2>2, IntervalOK
  <2>3. CASE RefreshEnds
    BY <2>3, RefreshOK DEF RefreshEnds
  <2>4. ASSUME NEW w \in Watchers, SourceEvent(w) \/ WatcherFails(w) \/ WatcherCloses(w)
        PROVE IInv'
    BY <2>4, SourceEventOK, EndsOK
  <2>5. ASSUME NEW s \in Sources, NEW to \in States, StatusChanges(s, to)
        PROVE IInv'
    BY <2>5, StatusOK
  <2>6. CASE UNCHANGED vars
    BY <2>6 DEF vars, IInv, TypeOK, WatchedOnce, Phases, Stopping, Live
  <2>. QED BY <2>1, <2>2, <2>3, <2>4, <2>5, <2>6 DEF Next
<1>. QED BY <1>1, InitOK, PTL DEF Spec

\* Type correctness of the monitor, the connection checks under way within their bound.
THEOREM TypeCorrect == Spec => []TypeOK
BY Invariance, PTL DEF IInv

\* Every live watcher is the one in eventWatchers of its source (monitor.ts:322-375).
THEOREM OneWatcher == Spec => []WatchedOnce
BY Invariance, PTL DEF IInv

\* stop() leaves no watcher, unless something that syncs the watchers was under way.
THEOREM StopEnds == Spec => []StopEndsWatching
<1>1. IInv => StopEndsWatching
  BY DEF IInv, Stopping, StopEndsWatching
<1>. QED BY <1>1, Invariance, PTL
=============================================================================
