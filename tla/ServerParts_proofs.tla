------------------------ MODULE ServerParts_proofs --------------------------
(***************************************************************************)
(* For any number of streams, signals, windows, requests, versions, keys   *)
(* and nodes: what the server holds, alerts, admits and keeps, and what a  *)
(* tab makes of it.  Each part has an inductive invariant, under the names *)
(* the part has in ServerParts; MCParts_proofs puts them together.  The    *)
(* lemmas on the types of the parts come last.                             *)
(***************************************************************************)
EXTENDS ServerParts, Integers, SequenceTheorems, FunctionTheorems,
  FiniteSetTheorems, TLAPS

-----------------------------------------------------------------------------
(* The samples of metrics.                                                 *)

\* What the last writer writes is what is in memory, and stays so: nothing is sampled after
\* the close, and the writer before it is over.
HistoryInv ==
  /\ phase = "flushing" => writing = series
  /\ History!ShutdownSaves

LEMMA HistoryBegins ==
  ASSUME History!Init PROVE HistoryInv
BY DEF History!Init, HistoryInv, History!ShutdownSaves

LEMMA HistoryGoesOn ==
  ASSUME HistoryInv, History!Next \/ UNCHANGED History!vars PROVE HistoryInv'
<1>1. ASSUME NEW w \in Workloads, History!Record(w) PROVE HistoryInv'
  BY <1>1 DEF History!Record, HistoryInv, History!ShutdownSaves
<1>2. CASE History!Flush \/ History!Close \/ History!LastFlush
  BY <1>2 DEF History!Flush, History!Close, History!LastFlush, HistoryInv, History!ShutdownSaves
<1>3. CASE History!Crash \/ History!Load
  BY <1>3 DEF History!Crash, History!Load, HistoryInv, History!ShutdownSaves
<1>4. ASSUME NEW ok \in BOOLEAN, History!WriteEnds(ok) PROVE HistoryInv'
  BY <1>4 DEF History!WriteEnds, HistoryInv, History!ShutdownSaves
<1>5. ASSUME NEW t \in History!Times, History!Clock(t) PROVE HistoryInv'
  BY <1>5 DEF History!Clock, HistoryInv, History!ShutdownSaves
<1>6. CASE UNCHANGED History!vars
  BY <1>6 DEF History!vars, HistoryInv, History!ShutdownSaves
<1>. QED BY <1>1, <1>2, <1>3, <1>4, <1>5, <1>6 DEF History!Next

-----------------------------------------------------------------------------
(* The graph that is drawn.                                                *)

\* The module counts as this one does.
LEMMA ViewConstants == IsFiniteSet(GraphNodes) /\ \A S : View!Cardinality(S) = Cardinality(S)
BY ServerAssumption DEF View!Cardinality, Cardinality

\* An object is as its node is; the snapshot is the graph that the objects were made for.
ViewInv ==
  /\ data \in View!Graphs /\ mounted \in BOOLEAN
  /\ mounted => snapshot = data
  /\ ~mounted => drawn = <<>>
  /\ clusters \subseteq View!Projects
  /\ View!ViewIsOfData

LEMMA ViewBegins ==
  ASSUME View!Init PROVE ViewInv
<1>1. data \in View!Graphs /\ mounted = TRUE /\ mounted \in BOOLEAN /\ snapshot = data
  BY DEF View!Init, View!Graphs
<1>2. DOMAIN drawn = {}
  BY DEF View!Init
<1>3. View!Rings(drawn) = {}
  BY <1>2 DEF View!Rings
<1>. QED BY <1>1, <1>2, <1>3 DEF View!Init, ViewInv, View!ViewIsOfData

\* A node that is not to be refreshed looks as it did.
LEMMA UnchangedLooksTheSame ==
  ASSUME NEW old \in View!Graphs, NEW g \in View!Graphs, NEW n \in old.nodes \cap g.nodes,
         n \notin View!NodesToRefresh(old, g)
  PROVE  View!Look(n, old) = View!Look(n, g)
<1>1. old.links = g.links
  BY DEF View!NodesToRefresh, View!LinksChanged
<1>2. n \notin View!StatusChanged(old, g) /\ \A l \in g.links : l[1] = n => l[2] \notin View!StatusChanged(old, g)
  BY <1>1 DEF View!NodesToRefresh, View!LinksChanged
<1>3. (n \in old.well) <=> (n \in g.well)
  BY <1>2 DEF View!StatusChanged
<1>4. \A l \in g.links : l[2] \in old.nodes /\ l[2] \in g.nodes
  BY <1>1 DEF View!Graphs
<1>5. \A l \in g.links : l[1] = n => (l[2] \in old.nodes \ old.well <=> l[2] \in g.nodes \ g.well)
  BY <1>2, <1>4 DEF View!StatusChanged
<1>6. View!HasBrokenDependency(n, old) <=> View!HasBrokenDependency(n, g)
  BY <1>1, <1>5 DEF View!HasBrokenDependency
<1>7. (n \in old.well) = (n \in g.well)
  BY <1>3
<1>8. (n \in old.well /\ View!HasBrokenDependency(n, old)) = (n \in g.well /\ View!HasBrokenDependency(n, g))
  BY <1>3, <1>6
<1>. QED BY <1>7, <1>8, Zenon DEF View!Look

\* Nothing looks different when neither nodes nor links nor a status changed.
LEMMA NothingChanged ==
  ASSUME NEW old \in View!Graphs, NEW g \in View!Graphs,
         ~View!NeedsGraphDataUpdate(old, g), View!StatusChanged(old, g) = {}
  PROVE  old.nodes = g.nodes /\ \A n \in g.nodes : View!Look(n, old) = View!Look(n, g)
<1>1. old.nodes = g.nodes /\ ~View!LinksChanged(old, g)
  BY DEF View!NeedsGraphDataUpdate
<1>2. View!NodesToRefresh(old, g) = {}
  BY <1>1 DEF View!NodesToRefresh
<1>. QED BY <1>1, <1>2, UnchangedLooksTheSame

\* The view that is reconciled has the objects of the new graph, as they look there.
LEMMA Reconciled ==
  ASSUME ViewInv, mounted, NEW g \in View!Graphs, View!Reconcile(g)
  PROVE  /\ DOMAIN drawn' \subseteq g.nodes /\ \A n \in DOMAIN drawn' : drawn'[n] = View!Look(n, g)
         /\ rings' = View!Rings(drawn') /\ snapshot' = g
<1>1. /\ data \in View!Graphs /\ snapshot = data /\ DOMAIN drawn \subseteq data.nodes /\ rings = View!Rings(drawn)
      /\ \A n \in DOMAIN drawn : drawn[n] = View!Look(n, data)
  BY DEF ViewInv, View!ViewIsOfData
<1>2. CASE View!NeedsGraphDataUpdate(snapshot, g) \/ View!StatusChanged(snapshot, g) # {}
  <2>1. drawn' = View!Refreshed(g) /\ rings' = View!Rings(View!Refreshed(g)) /\ snapshot' = g
    BY <1>2 DEF View!Reconcile
  <2>2. DOMAIN View!Refreshed(g) = DOMAIN drawn \cap g.nodes
    BY DEF View!Refreshed
  <2>3. \A n \in DOMAIN View!Refreshed(g) : View!Refreshed(g)[n] = View!Look(n, g)
    <3>1. TAKE n \in DOMAIN View!Refreshed(g)
    <3>2. n \in data.nodes \cap g.nodes /\ n \in DOMAIN drawn
      BY <1>1, <2>2
    <3>3. CASE n \in View!NodesToRefresh(snapshot, g)
      BY <3>2, <3>3, <2>2 DEF View!Refreshed
    <3>4. CASE n \notin View!NodesToRefresh(snapshot, g)
      <4>1. View!Look(n, data) = View!Look(n, g)
        BY <3>2, <3>4, <1>1, UnchangedLooksTheSame
      <4>2. View!Refreshed(g)[n] = drawn[n]
        BY <3>2, <3>4, <2>2 DEF View!Refreshed
      <4>. QED BY <1>1, <3>2, <4>1, <4>2
    <3>. QED BY <3>3, <3>4
  <2>. QED BY <2>1, <2>2, <2>3
<1>3. CASE ~(View!NeedsGraphDataUpdate(snapshot, g) \/ View!StatusChanged(snapshot, g) # {})
  <2>1. drawn' = drawn /\ rings' = rings /\ snapshot' = g
    BY <1>3 DEF View!Reconcile
  <2>. QED BY <1>1, <1>3, <2>1, NothingChanged
<1>. QED BY <1>2, <1>3

\* The counts of the projects are numbers.
LEMMA ProjectsAreCounted ==
  ASSUME ViewInv, NEW p PROVE Cardinality(View!OfProject(p)) \in Nat
<1>1. View!OfProject(p) \in SUBSET GraphNodes
  BY DEF ViewInv, View!Graphs, View!OfProject, View!Visible
<1>. QED BY <1>1, FS_Subset, FS_CardinalityType, ViewConstants

LEMMA ViewGoesOn ==
  ASSUME ViewInv, View!Next \/ UNCHANGED View!vars PROVE ViewInv'
<1>1. ASSUME NEW g \in View!Graphs, View!SetData(g) PROVE ViewInv'
  <2>1. data' = g /\ mounted' = mounted /\ framed' = FALSE
        /\ clusters' = clusters /\ hostClusters' = hostClusters
    BY <1>1 DEF View!SetData
  <2>2. CASE mounted
    BY <1>1, <2>1, <2>2, Reconciled DEF View!SetData, ViewInv, View!ViewIsOfData
  <2>3. CASE ~mounted
    <3>1. drawn' = drawn /\ rings' = rings /\ DOMAIN drawn = {} /\ rings' = View!Rings(drawn')
      BY <1>1, <2>3 DEF View!SetData, ViewInv, View!ViewIsOfData
    <3>. QED BY <2>1, <2>3, <3>1 DEF ViewInv, View!ViewIsOfData
  <2>. QED BY <2>2, <2>3
<1>2. ASSUME NEW n \in GraphNodes, View!BuildNodeObject(n) PROVE ViewInv'
  <2>1. /\ mounted /\ n \in data.nodes \ DOMAIN drawn /\ framed' = FALSE
        /\ UNCHANGED <<data, mounted, snapshot, scope, clusters, hostClusters>>
        /\ DOMAIN drawn' = DOMAIN drawn \cup {n} /\ drawn'[n] = View!Look(n, data)
        /\ \A m \in DOMAIN drawn : drawn'[m] = drawn[m]
    BY <1>2 DEF View!BuildNodeObject
  <2>2. rings' = View!Rings(drawn')
    <3>1. rings' = rings \cup {m \in {n} : View!Look(m, data).ring}
      BY <1>2 DEF View!BuildNodeObject
    <3>. QED BY <2>1, <3>1 DEF View!Rings, ViewInv, View!ViewIsOfData
  <2>. QED BY <2>1, <2>2 DEF ViewInv, View!ViewIsOfData
<1>3. CASE View!Mount
  BY <1>3 DEF View!Mount, ViewInv, View!ViewIsOfData, View!OfProject, View!SeenHosts, View!Visible
<1>4. CASE View!Unmount
  <2>1. /\ data' = data /\ mounted' = FALSE /\ clusters' = {} /\ hostClusters' = {} /\ framed' = FALSE
        /\ drawn' = <<>> /\ rings' = {} /\ DOMAIN drawn' = {}
    BY <1>4 DEF View!Unmount
  <2>2. View!Rings(drawn') = {}
    BY <2>1 DEF View!Rings
  <2>. QED BY <2>1, <2>2 DEF ViewInv, View!ViewIsOfData
<1>5. ASSUME NEW ps \in SUBSET View!Projects, View!SetScope(ps) PROVE ViewInv'
  BY <1>5 DEF View!SetScope, ViewInv, View!ViewIsOfData
<1>6. CASE View!AnimationFrame
  <2>1. UNCHANGED <<data, mounted, snapshot, drawn, rings, scope>> /\ mounted
    BY <1>6 DEF View!AnimationFrame
  <2>2. View!Visible' = View!Visible /\ View!SeenHosts' = View!SeenHosts /\ \A p : View!OfProject(p)' = View!OfProject(p)
    BY <2>1 DEF View!Visible, View!SeenHosts, View!OfProject
  <2>3. clusters' = {p \in View!Projects : Cardinality(View!OfProject(p)) >= 2}
    <3>1. clusters' = (clusters \cup {p \in View!Projects : Cardinality(View!OfProject(p)) >= 2})
                        \ {p \in clusters : Cardinality(View!OfProject(p)) < 2}
      BY <1>6, ViewConstants DEF View!AnimationFrame
    <3>2. \A p : Cardinality(View!OfProject(p)) \in Nat
      BY ProjectsAreCounted
    <3>3. clusters \subseteq View!Projects
      BY DEF ViewInv
    <3>. QED BY <3>1, <3>2, <3>3
  <2>4. hostClusters' = {h \in View!SeenHosts : Cardinality(View!SeenHosts) > 1}
    BY <1>6, ViewConstants DEF View!AnimationFrame
  <2>5. clusters' = {p \in View!Projects : Cardinality(View!OfProject(p)') >= 2}
    BY <2>2, <2>3
  <2>6. hostClusters' = {h \in View!SeenHosts' : Cardinality(View!SeenHosts') > 1}
    BY <2>2, <2>4
  <2>. QED BY <2>1, <2>5, <2>6, ViewConstants DEF ViewInv, View!ViewIsOfData
<1>7. CASE UNCHANGED View!vars
  BY <1>7 DEF View!vars, ViewInv, View!ViewIsOfData, View!OfProject, View!SeenHosts, View!Visible
<1>. QED BY <1>1, <1>2, <1>3, <1>4, <1>5, <1>6, <1>7 DEF View!Next

-----------------------------------------------------------------------------
(* The streams of plugins.                                                 *)

\* What the constants of this part are.
LEMMA SessionsConstants ==
  /\ MaxStreams \in Nat
BY ServerAssumption

\* The messages in the two directions, and those of one stream.
ToWorkerMessage == [type : {"start", "stop"}, stream : Sessions!Streams]
ToParentMessage == [type : {"result", "refused", "data", "end", "error"}, stream : Sessions!Streams]
StartOf(s) == {Sessions!Message("start", s)}
StopOf(s) == {Sessions!Message("stop", s)}
AnswersOf(s) == {Sessions!Message("result", s), Sessions!Message("refused", s)}
LastOf(s) == {Sessions!Message("end", s), Sessions!Message("error", s)}

\* A channel has a message of a set, has at most one, has those of one set before those
\* of another.
Has(q, M) == \E i \in 1..Len(q) : q[i] \in M
AtMostOne(q, M) == \A i, j \in 1..Len(q) : q[i] \in M /\ q[j] \in M => i = j
InOrder(q, M, N) == \A i, j \in 1..Len(q) : q[i] \in M /\ q[j] \in N => i < j

SessionsTyped ==
  /\ asked \in 0..MaxStreams
  /\ kind \in [Sessions!Streams -> Sessions!Kinds \cup {"none"}]
  /\ handler \in [Sessions!Streams -> Sessions!Waiting \cup {"none", "held", "failed"}]
  /\ worker \in [Sessions!Streams -> {"none", "starting", "open", "closed"}]
  /\ streams \subseteq Sessions!Streams /\ stoppedStreams \subseteq Sessions!Streams
  /\ toWorker \in Seq(ToWorkerMessage) /\ toParent \in Seq(ToParentMessage)

\* What a stream can be before it is opened.
Fresh(s) ==
  /\ s > asked => handler[s] = "none"
  /\ handler[s] # "none" => kind[s] \in Sessions!Kinds
  /\ handler[s] \in {"none", "finding"} =>
       /\ worker[s] = "none" /\ s \notin stoppedStreams /\ s \notin streams
       /\ ~Has(toWorker, StartOf(s))

\* A start is sent once, before the stop.
Sent(s) ==
  /\ Has(toWorker, StartOf(s)) => worker[s] = "none"
  /\ AtMostOne(toWorker, StartOf(s))
  /\ InOrder(toWorker, StartOf(s), StopOf(s))
  /\ Has(toWorker, StopOf(s)) => s \in stoppedStreams

\* An answer is given once, before the end.
Replied(s) ==
  /\ Has(toParent, AnswersOf(s)) => worker[s] \in {"open", "closed"}
  /\ AtMostOne(toParent, AnswersOf(s))
  /\ Has(toParent, LastOf(s)) => worker[s] = "closed"
  /\ InOrder(toParent, AnswersOf(s), LastOf(s))

\* The start request of a stream is on its way, or its answer.
Unanswered(s) ==
  Has(toWorker, StartOf(s)) \/ worker[s] = "starting" \/ Has(toParent, AnswersOf(s))

\* Until the answer an exec handler waits and a log handler is done.
Answered(s) ==
  /\ Unanswered(s) => handler[s] = IF kind[s] = "exec" THEN "opening" ELSE "held"
  /\ handler[s] = "opening" => Unanswered(s) /\ kind[s] = "exec"
  /\ s \in streams => handler[s] \in {"opening", "held"}

\* A stopped stream does not run in the worker, or its stop will arrive, or was missed.
StopReaches(s) ==
  s \in stoppedStreams =>
    \/ worker[s] = "closed" \/ s \in missed \/ Has(toWorker, StopOf(s))
    \/ worker[s] = "none" /\ ~Has(toWorker, StartOf(s))

EntriesFit ==
  /\ logStream # 0 => logStream \in Sessions!Streams /\ kind[logStream] = "log" /\ handler[logStream] = "held"
  /\ execStream # 0 =>
       execStream \in Sessions!Streams /\ kind[execStream] = "exec" /\ handler[execStream] = "held"

\* While no message has come during an await, one handler of a kind waits at a time,
\* and none while a stream of that kind is held.
OneWaits ==
  \A s, t \in Sessions!Streams :
    handler[s] \in Sessions!Waiting /\ kind[t] = kind[s] /\ kind[s] \notin overlap =>
      /\ handler[t] \in Sessions!Waiting => t = s
      /\ ~(t \in streams /\ handler[t] = "held")

SessionsInv ==
  /\ SessionsTyped /\ EntriesFit /\ OneWaits /\ Sessions!NothingIsForgotten
  /\ \A s \in Sessions!Streams : Fresh(s) /\ Sent(s) /\ Replied(s) /\ Answered(s) /\ StopReaches(s)

LEMMA AtTheEnd ==
  ASSUME NEW S, NEW q \in Seq(S), NEW m \in S, NEW M, NEW N
  PROVE  /\ Append(q, m) \in Seq(S)
         /\ Has(Append(q, m), M) <=> Has(q, M) \/ m \in M
         /\ AtMostOne(q, M) /\ (m \in M => ~Has(q, M)) => AtMostOne(Append(q, m), M)
         /\ InOrder(q, M, N) /\ (m \in M => ~Has(q, N) /\ m \notin N) => InOrder(Append(q, m), M, N)
<1>. DEFINE r == Append(q, m)
<1>1. /\ r \in Seq(S) /\ Len(r) = Len(q) + 1 /\ r[Len(q) + 1] = m
      /\ \A i \in 1..Len(q) : r[i] = q[i]
  BY AppendProperties
<1>2. Len(q) \in Nat
  BY LenProperties
<1>. HIDE DEF r
<1>3. \A i \in 1..Len(r) : i = Len(q) + 1 \/ i \in 1..Len(q)
  BY <1>1, <1>2
<1>4. Has(r, M) <=> Has(q, M) \/ m \in M
  BY <1>1, <1>2, <1>3 DEF Has
<1>5. AtMostOne(q, M) /\ (m \in M => ~Has(q, M)) => AtMostOne(r, M)
  BY <1>1, <1>2, <1>3 DEF Has, AtMostOne
<1>6. InOrder(q, M, N) /\ (m \in M => ~Has(q, N) /\ m \notin N) => InOrder(r, M, N)
  BY <1>1, <1>2, <1>3 DEF Has, InOrder
<1>. QED BY <1>1, <1>4, <1>5, <1>6 DEF r

LEMMA AtTheFront ==
  ASSUME NEW S, NEW q \in Seq(S), q # <<>>, NEW M, NEW N
  PROVE  /\ Tail(q) \in Seq(S) /\ Head(q) \in S
         /\ Has(q, M) <=> Head(q) \in M \/ Has(Tail(q), M)
         /\ AtMostOne(q, M) => AtMostOne(Tail(q), M) /\ (Head(q) \in M => ~Has(Tail(q), M))
         /\ InOrder(q, M, N) => InOrder(Tail(q), M, N) /\ (Head(q) \in N => ~Has(Tail(q), M))
<1>. DEFINE r == Tail(q)
<1>1. /\ r \in Seq(S) /\ Head(q) \in S /\ Len(r) = Len(q) - 1 /\ Head(q) = q[1]
      /\ \A i \in 1..Len(r) : r[i] = q[i + 1]
  BY HeadTailProperties
<1>2. Len(q) \in Nat /\ Len(q) > 0
  BY LenProperties, EmptySeq
<1>. HIDE DEF r
<1>3. /\ \A i \in 1..Len(q) : i # 1 => i - 1 \in 1..Len(r) /\ r[i - 1] = q[i]
      /\ \A i \in 1..Len(r) : i + 1 \in 1..Len(q) /\ i + 1 # 1
      /\ 1 \in 1..Len(q)
  BY <1>1, <1>2
<1>4. Has(q, M) <=> Head(q) \in M \/ Has(r, M)
  BY <1>1, <1>3 DEF Has
<1>5. AtMostOne(q, M) => AtMostOne(r, M) /\ (Head(q) \in M => ~Has(r, M))
  <2>1. ASSUME AtMostOne(q, M), NEW i \in 1..Len(r), NEW j \in 1..Len(r), r[i] \in M, r[j] \in M
        PROVE  i = j
    <3>1. i + 1 = j + 1
      BY <1>1, <1>3, <2>1 DEF AtMostOne
    <3>. QED BY <1>2, <3>1
  <2>2. ASSUME AtMostOne(q, M), Head(q) \in M, NEW i \in 1..Len(r), r[i] \in M PROVE FALSE
    BY <1>1, <1>3, <2>2 DEF AtMostOne
  <2>. QED BY <2>1, <2>2 DEF AtMostOne, Has
<1>6. InOrder(q, M, N) => InOrder(r, M, N) /\ (Head(q) \in N => ~Has(r, M))
  <2>1. ASSUME InOrder(q, M, N), NEW i \in 1..Len(r), NEW j \in 1..Len(r), r[i] \in M, r[j] \in N
        PROVE  i < j
    <3>1. i + 1 < j + 1
      BY <1>1, <1>3, <2>1 DEF InOrder
    <3>. QED BY <1>1, <1>2, <3>1
  <2>2. ASSUME InOrder(q, M, N), Head(q) \in N, NEW i \in 1..Len(r), r[i] \in M PROVE FALSE
    <3>1. i + 1 < 1
      BY <1>1, <1>3, <2>2 DEF InOrder
    <3>. QED BY <1>1, <1>2, <3>1
  <2>. QED BY <2>1, <2>2 DEF InOrder, Has
<1>. QED BY <1>1, <1>4, <1>5, <1>6 DEF r

\* No message is in an empty channel.
LEMMA NothingThere ==
  ASSUME NEW M, NEW N
  PROVE  ~Has(<<>>, M) /\ AtMostOne(<<>>, M) /\ InOrder(<<>>, M, N)
BY EmptySeq DEF Has, AtMostOne, InOrder

\* The messages of two streams are different ones.
LEMMA MessagesDiffer ==
  ASSUME NEW s, NEW u
  PROVE  /\ Sessions!Message("start", u) \in StartOf(s) <=> s = u
         /\ Sessions!Message("stop", u) \in StopOf(s) <=> s = u
         /\ Sessions!Message("start", u) \notin StopOf(s) /\ Sessions!Message("stop", u) \notin StartOf(s)
         /\ \A a \in {"result", "refused"} :
              (Sessions!Message(a, u) \in AnswersOf(s) <=> s = u) /\ Sessions!Message(a, u) \notin LastOf(s)
         /\ \A a \in {"end", "error"} :
              (Sessions!Message(a, u) \in LastOf(s) <=> s = u) /\ Sessions!Message(a, u) \notin AnswersOf(s)
         /\ Sessions!Message("data", u) \notin AnswersOf(s) \cup LastOf(s)
BY DEF Sessions!Message, StartOf, StopOf, AnswersOf, LastOf

LEMMA MessageOfHead ==
  ASSUME NEW m \in ToWorkerMessage \cup ToParentMessage, NEW s
  PROVE  /\ m = Sessions!Message(m.type, m.stream) /\ m.stream \in Sessions!Streams
         /\ m \in StartOf(s) <=> m.type = "start" /\ m.stream = s
         /\ m \in StopOf(s) <=> m.type = "stop" /\ m.stream = s
         /\ m \in AnswersOf(s) <=> m.type \in {"result", "refused"} /\ m.stream = s
         /\ m \in LastOf(s) <=> m.type \in {"end", "error"} /\ m.stream = s
BY DEF ToWorkerMessage, ToParentMessage, Sessions!Message, StartOf, StopOf, AnswersOf, LastOf

\* The stop functions of some streams, at most one of each kind, send their stops.
LEMMA OneStop ==
  ASSUME NEW q \in Seq(ToWorkerMessage), NEW of \in SUBSET Sessions!Streams, NEW one,
         \A s, u \in of : s = u,
         one = IF of = {} THEN <<>> ELSE <<Sessions!Message("stop", CHOOSE s \in of : TRUE)>>
  PROVE  /\ q \o one \in Seq(ToWorkerMessage)
         /\ \A s \in Sessions!Streams :
              /\ Has(q \o one, StopOf(s)) <=> Has(q, StopOf(s)) \/ s \in of
              /\ Has(q \o one, StartOf(s)) <=> Has(q, StartOf(s))
              /\ AtMostOne(q, StartOf(s)) => AtMostOne(q \o one, StartOf(s))
              /\ InOrder(q, StartOf(s), StopOf(s)) => InOrder(q \o one, StartOf(s), StopOf(s))
<1>1. CASE of = {}
  <2>1. q \o one = q
    BY <1>1, EmptySeq, ConcatProperties
  <2>. QED BY <1>1, <2>1
<1>2. CASE of # {}
  <2>1. PICK u \in of : u = (CHOOSE s \in of : TRUE)
    BY <1>2
  <2>2. DEFINE m == Sessions!Message("stop", u)
  <2>3. m \in ToWorkerMessage
    BY DEF Sessions!Message, ToWorkerMessage
  <2>4. q \o one = Append(q, m)
    <3>1. one = <<m>>
      BY <1>2, <2>1
    <3>2. m = Sessions!Message("stop", u)
      OBVIOUS
    <3>. HIDE DEF m
    <3>. QED BY <2>3, <3>1
  <2>5. ASSUME NEW s \in Sessions!Streams
        PROVE  (m \in StopOf(s) <=> s \in of) /\ m \notin StartOf(s)
    BY MessagesDiffer
  <2>. HIDE DEF m
  <2>6. Append(q, m) \in Seq(ToWorkerMessage)
    BY <2>3, AppendProperties
  <2>7. ASSUME NEW s \in Sessions!Streams
        PROVE  /\ Has(Append(q, m), StopOf(s)) <=> Has(q, StopOf(s)) \/ s \in of
               /\ Has(Append(q, m), StartOf(s)) <=> Has(q, StartOf(s))
               /\ AtMostOne(q, StartOf(s)) => AtMostOne(Append(q, m), StartOf(s))
               /\ InOrder(q, StartOf(s), StopOf(s)) => InOrder(Append(q, m), StartOf(s), StopOf(s))
    BY <2>3, <2>5, AtTheEnd
  <2>. QED BY <2>4, <2>6, <2>7
<1>. QED BY <1>1, <1>2

LEMMA StopsGo ==
  ASSUME SessionsTyped, NEW ss \in SUBSET Sessions!Streams, \A s \in ss : kind[s] \in Sessions!Kinds,
         \A s, u \in ss : kind[s] = kind[u] => s = u, Sessions!StopStreams(ss)
  PROVE  /\ stoppedStreams' = stoppedStreams \cup ss /\ streams' = streams \ ss
         /\ toWorker' \in Seq(ToWorkerMessage)
         /\ \A s \in Sessions!Streams :
              /\ Has(toWorker', StopOf(s)) <=> Has(toWorker, StopOf(s)) \/ s \in ss \ stoppedStreams
              /\ Has(toWorker', StartOf(s)) <=> Has(toWorker, StartOf(s))
              /\ AtMostOne(toWorker, StartOf(s)) => AtMostOne(toWorker', StartOf(s))
              /\ InOrder(toWorker, StartOf(s), StopOf(s)) => InOrder(toWorker', StartOf(s), StopOf(s))
<1>. DEFINE new == ss \ stoppedStreams
            of(k) == {s \in new : kind[s] = k}
            one(k) == IF of(k) = {} THEN <<>> ELSE <<Sessions!Message("stop", CHOOSE s \in of(k) : TRUE)>>
            q1 == toWorker \o one("log")
            q2 == q1 \o one("exec")
<1>1. stoppedStreams' = stoppedStreams \cup ss /\ streams' = streams \ ss /\ toWorker' = q2
  BY DEF Sessions!StopStreams
<1>2. ASSUME NEW k \in Sessions!Kinds
      PROVE  of(k) \in SUBSET Sessions!Streams /\ \A s, u \in of(k) : s = u
  OBVIOUS
<1>3. \A s \in Sessions!Streams : s \in new <=> s \in of("log") \/ s \in of("exec")
  BY DEF Sessions!Kinds
<1>4. "log" \in Sessions!Kinds /\ "exec" \in Sessions!Kinds /\ toWorker \in Seq(ToWorkerMessage)
  BY DEF Sessions!Kinds, SessionsTyped
<1>5. \A k \in Sessions!Kinds :
        one(k) = IF of(k) = {} THEN <<>> ELSE <<Sessions!Message("stop", CHOOSE s \in of(k) : TRUE)>>
  OBVIOUS
<1>6. new = ss \ stoppedStreams
  OBVIOUS
<1>. HIDE DEF one, of, new
<1>7. /\ q1 \in Seq(ToWorkerMessage)
      /\ \A s \in Sessions!Streams :
           /\ Has(q1, StopOf(s)) <=> Has(toWorker, StopOf(s)) \/ s \in of("log")
           /\ Has(q1, StartOf(s)) <=> Has(toWorker, StartOf(s))
           /\ AtMostOne(toWorker, StartOf(s)) => AtMostOne(q1, StartOf(s))
           /\ InOrder(toWorker, StartOf(s), StopOf(s)) => InOrder(q1, StartOf(s), StopOf(s))
  BY <1>2, <1>4, <1>5, OneStop
<1>8. q2 = q1 \o one("exec")
  OBVIOUS
<1>. HIDE DEF q1, q2
<1>9. /\ q2 \in Seq(ToWorkerMessage)
      /\ \A s \in Sessions!Streams :
           /\ Has(q2, StopOf(s)) <=> Has(q1, StopOf(s)) \/ s \in of("exec")
           /\ Has(q2, StartOf(s)) <=> Has(q1, StartOf(s))
           /\ AtMostOne(q1, StartOf(s)) => AtMostOne(q2, StartOf(s))
           /\ InOrder(q1, StartOf(s), StopOf(s)) => InOrder(q2, StartOf(s), StopOf(s))
  BY <1>2, <1>4, <1>5, <1>7, <1>8, OneStop
<1>10. /\ q2 \in Seq(ToWorkerMessage)
       /\ \A s \in Sessions!Streams :
            /\ Has(q2, StopOf(s)) <=> Has(toWorker, StopOf(s)) \/ s \in new
            /\ Has(q2, StartOf(s)) <=> Has(toWorker, StartOf(s))
            /\ AtMostOne(toWorker, StartOf(s)) => AtMostOne(q2, StartOf(s))
            /\ InOrder(toWorker, StartOf(s), StopOf(s)) => InOrder(q2, StartOf(s), StopOf(s))
  BY <1>3, <1>7, <1>9
<1>. QED BY <1>1, <1>6, <1>10

LEMMA SessionsBegin ==
  ASSUME Sessions!Init PROVE SessionsInv
<1>1. /\ asked = 0 /\ logStream = 0 /\ execStream = 0 /\ streams = {} /\ stoppedStreams = {}
      /\ toWorker = <<>> /\ toParent = <<>>
      /\ \A s \in Sessions!Streams : kind[s] = "none" /\ handler[s] = "none" /\ worker[s] = "none"
  BY DEF Sessions!Init
<1>2. SessionsTyped
  BY EmptySeq, SessionsConstants DEF Sessions!Init, SessionsTyped
<1>3. EntriesFit /\ OneWaits /\ Sessions!NothingIsForgotten
  BY <1>1 DEF EntriesFit, OneWaits, Sessions!NothingIsForgotten, Sessions!Waiting
<1>4. ASSUME NEW s \in Sessions!Streams
      PROVE  Fresh(s) /\ Sent(s) /\ Replied(s) /\ Answered(s) /\ StopReaches(s)
  BY <1>1, NothingThere DEF Fresh, Sent, Replied, Answered, Unanswered, StopReaches
<1>. QED BY <1>2, <1>3, <1>4 DEF SessionsInv

\* The entries of the client are streams it holds, and all of them as long as no message
\* has come during an await.
LEMMA EntriesAre ==
  ASSUME SessionsInv, NEW ks \in SUBSET Sessions!Kinds
  PROVE  /\ Sessions!Entries(ks) \in SUBSET Sessions!Streams
         /\ \A s \in Sessions!Entries(ks) : kind[s] \in ks /\ handler[s] = "held"
         /\ \A s, u \in Sessions!Entries(ks) : kind[s] = kind[u] => s = u
         /\ \A s \in streams : handler[s] = "held" /\ kind[s] \in ks \ overlap => s \in Sessions!Entries(ks)
<1>1. \A k \in Sessions!Kinds : Sessions!Entry(k) # 0 =>
        Sessions!Entry(k) \in Sessions!Streams /\ kind[Sessions!Entry(k)] = k /\ handler[Sessions!Entry(k)] = "held"
  BY DEF SessionsInv, EntriesFit, Sessions!Entry, Sessions!Kinds
<1>2. /\ \A s \in Sessions!Entries(ks) : s \in Sessions!Streams /\ kind[s] \in ks /\ handler[s] = "held" /\ s = Sessions!Entry(kind[s])
  BY <1>1 DEF Sessions!Entries
<1>3. ASSUME NEW s \in streams, handler[s] = "held",
             kind[s] \in ks \ overlap PROVE s \in Sessions!Entries(ks)
  <2>1. s = Sessions!Entry(kind[s]) /\ s \in Sessions!Streams
    BY <1>3 DEF SessionsInv, Sessions!NothingIsForgotten, SessionsTyped
  <2>2. s # 0
    BY <2>1, SessionsConstants DEF Sessions!Streams
  <2>. QED BY <1>3, <2>1, <2>2 DEF Sessions!Entries
<1>. QED BY <1>2, <1>3

\* What a stop leaves of a stream's way to the worker.
LEMMA StopsKeep ==
  ASSUME SessionsTyped, NEW ss \in SUBSET Sessions!Streams, \A s \in ss : kind[s] \in Sessions!Kinds,
         \A s, u \in ss : kind[s] = kind[u] => s = u, Sessions!StopStreams(ss),
         NEW s \in Sessions!Streams, Sent(s), StopReaches(s), worker' = worker, missed' = missed
  PROVE  Sent(s)' /\ StopReaches(s)'
<1>1. /\ stoppedStreams' = stoppedStreams \cup ss
      /\ Has(toWorker', StopOf(s)) <=> Has(toWorker, StopOf(s)) \/ s \in ss \ stoppedStreams
      /\ Has(toWorker', StartOf(s)) <=> Has(toWorker, StartOf(s))
      /\ AtMostOne(toWorker, StartOf(s)) => AtMostOne(toWorker', StartOf(s))
      /\ InOrder(toWorker, StartOf(s), StopOf(s)) => InOrder(toWorker', StartOf(s), StopOf(s))
  BY StopsGo
<1>2. Sent(s)'
  BY <1>1 DEF Sent
<1>3. StopReaches(s)'
  BY <1>1 DEF StopReaches
<1>. QED BY <1>2, <1>3

LEMMA AskStreamKeeps ==
  ASSUME SessionsInv, NEW k \in Sessions!Kinds, Sessions!Ask(k) PROVE SessionsInv'
<1>. DEFINE n == asked + 1
            ss == Sessions!Entries({k})
<1>. USE DEF SessionsInv
<1>1. /\ asked \in 0..MaxStreams /\ n \in Sessions!Streams /\ asked' = n /\ n > asked /\ asked \in Nat
      /\ kind' = [kind EXCEPT ![n] = k] /\ handler' = [handler EXCEPT ![n] = "finding"]
      /\ Sessions!StopStreams(ss) /\ Sessions!Forget({k}) /\ Sessions!Overlaps({k})
      /\ UNCHANGED <<toParent, worker, missed>>
  BY SessionsConstants DEF Sessions!Ask, SessionsTyped, Sessions!workerVars, Sessions!Streams
<1>2. /\ handler[n] = "none" /\ worker[n] = "none" /\ n \notin stoppedStreams /\ n \notin streams
      /\ ~Has(toWorker, StartOf(n))
  BY <1>1 DEF Fresh
<1>3. /\ ss \in SUBSET Sessions!Streams /\ n \notin ss
      /\ \A s \in ss : kind[s] = k /\ handler[s] = "held"
      /\ \A s, u \in ss : kind[s] = kind[u] => s = u
      /\ \A s \in streams : handler[s] = "held" /\ kind[s] = k /\ k \notin overlap => s \in ss
  <2>1. PICK ks \in SUBSET Sessions!Kinds : ks = {k}
    OBVIOUS
  <2>2. /\ ss \in SUBSET Sessions!Streams /\ \A s \in ss : kind[s] \in ks /\ handler[s] = "held"
        /\ \A s, u \in ss : kind[s] = kind[u] => s = u
        /\ \A s \in streams : handler[s] = "held" /\ kind[s] \in ks \ overlap => s \in ss
    BY <2>1, EntriesAre
  <2>. QED BY <1>2, <2>1, <2>2
<1>. HIDE DEF ss
<1>4. /\ stoppedStreams' = stoppedStreams \cup ss /\ streams' = streams \ ss /\ toWorker' \in Seq(ToWorkerMessage)
      /\ \A s \in Sessions!Streams : Has(toWorker', StartOf(s)) <=> Has(toWorker, StartOf(s))
  BY <1>1, <1>3, StopsGo
<1>5. /\ kind' \in [Sessions!Streams -> Sessions!Kinds \cup {"none"}] /\ kind'[n] = k
      /\ handler' \in [Sessions!Streams -> Sessions!Waiting \cup {"none", "held", "failed"}] /\ handler'[n] = "finding"
      /\ \A s \in Sessions!Streams : s # n => kind'[s] = kind[s] /\ handler'[s] = handler[s]
  BY <1>1 DEF SessionsTyped, Sessions!Waiting
<1>6. /\ overlap \subseteq overlap'
      /\ k \notin overlap' => \A s \in Sessions!Streams : ~(kind[s] = k /\ handler[s] \in Sessions!Waiting)
  BY <1>1 DEF Sessions!Overlaps
<1>. HIDE DEF n
<1>7. SessionsTyped'
  BY <1>1, <1>3, <1>4, <1>5 DEF SessionsTyped, Sessions!Streams
<1>8. ASSUME NEW s \in Sessions!Streams
      PROVE  (Fresh(s) /\ Sent(s) /\ Replied(s) /\ Answered(s) /\ StopReaches(s))'
  <2>1. Sent(s)' /\ StopReaches(s)'
    BY <1>1, <1>3, StopsKeep
  <2>2. Replied(s)'
    BY <1>1 DEF Replied
  <2>3. Unanswered(s)' <=> Unanswered(s)
    BY <1>1, <1>4 DEF Unanswered
  <2>4. Answered(s)'
    <3>1. CASE s = n
      <4>1. ~Unanswered(s)
        BY <1>2, <3>1 DEF Answered
      <4>. QED BY <1>2, <1>4, <1>5, <2>3, <3>1, <4>1 DEF Answered
    <3>2. CASE s # n
      BY <1>4, <1>5, <2>3, <3>2 DEF Answered
    <3>. QED BY <3>1, <3>2
  <2>5. s > n => s > asked
    BY <1>1 DEF n, Sessions!Streams
  <2>6. ~(n > n)
    BY <1>1 DEF Sessions!Streams
  <2>7. Fresh(s)'
    <3>1. CASE s = n
      BY <1>1, <1>2, <1>3, <1>4, <1>5, <2>6, <3>1 DEF Fresh
    <3>2. CASE s # n
      BY <1>1, <1>3, <1>4, <1>5, <2>5, <3>2 DEF Fresh
    <3>. QED BY <3>1, <3>2
  <2>. QED BY <2>1, <2>2, <2>4, <2>7
<1>9. EntriesFit'
  <2>1. logStream' \in {0, logStream} /\ execStream' \in {0, execStream}
    BY <1>1 DEF Sessions!Forget
  <2>. QED BY <1>2, <1>5, <2>1 DEF EntriesFit
<1>10. OneWaits'
  BY <1>1, <1>2, <1>3, <1>4, <1>5, <1>6 DEF OneWaits, Sessions!Waiting
<1>11. Sessions!NothingIsForgotten'
  <2>1. SUFFICES ASSUME NEW s \in streams', handler'[s] = "held", kind'[s] \notin overlap'
                 PROVE  Sessions!Entry(kind[s])' = s
    BY DEF Sessions!NothingIsForgotten
  <2>2. s # n /\ s \in streams /\ s \in Sessions!Streams /\ handler[s] = "held" /\ kind'[s] = kind[s] /\ s \notin ss
    BY <1>4, <1>5, <2>1 DEF SessionsTyped
  <2>3. kind[s] # k /\ kind[s] \in Sessions!Kinds
    BY <1>3, <1>6, <2>1, <2>2 DEF Fresh
  <2>4. Sessions!Entry(kind[s]) = s
    BY <1>6, <2>1, <2>2 DEF Sessions!NothingIsForgotten
  <2>. QED BY <1>1, <2>2, <2>3, <2>4 DEF Sessions!Entry, Sessions!Forget, Sessions!Kinds
<1>. QED BY <1>7, <1>8, <1>9, <1>10, <1>11

\* unsubscribe_logs, exec_stop and the close of the socket.
LEMMA ClientStopKeeps ==
  ASSUME SessionsInv, NEW ks \in SUBSET Sessions!Kinds, Sessions!StopStreams(Sessions!Entries(ks)),
         Sessions!Forget(ks), Sessions!Overlaps(ks),
         UNCHANGED <<asked, kind, handler, toParent, worker, missed>>
  PROVE  SessionsInv'
<1>. DEFINE ss == Sessions!Entries(ks)
<1>. USE DEF SessionsInv
<1>1. /\ ss \in SUBSET Sessions!Streams
      /\ \A s \in ss : kind[s] \in ks /\ handler[s] = "held"
      /\ \A s, u \in ss : kind[s] = kind[u] => s = u
      /\ \A s \in streams : handler[s] = "held" /\ kind[s] \in ks \ overlap => s \in ss
  BY EntriesAre
<1>2. Sessions!StopStreams(ss)
  OBVIOUS
<1>. HIDE DEF ss
<1>3. /\ stoppedStreams' = stoppedStreams \cup ss /\ streams' = streams \ ss /\ toWorker' \in Seq(ToWorkerMessage)
      /\ \A s \in Sessions!Streams : Has(toWorker', StartOf(s)) <=> Has(toWorker, StartOf(s))
  BY <1>1, <1>2, StopsGo
<1>4. /\ overlap \subseteq overlap'
      /\ \A k \in ks \ overlap' : \A s \in Sessions!Streams : ~(kind[s] = k /\ handler[s] \in Sessions!Waiting)
  BY DEF Sessions!Overlaps
<1>5. SessionsTyped'
  BY <1>1, <1>3 DEF SessionsTyped
<1>6. ASSUME NEW s \in Sessions!Streams
      PROVE  (Fresh(s) /\ Sent(s) /\ Replied(s) /\ Answered(s) /\ StopReaches(s))'
  <2>1. Sent(s)' /\ StopReaches(s)'
    BY <1>1, <1>2, StopsKeep
  <2>2. Replied(s)'
    BY DEF Replied
  <2>3. Unanswered(s)' <=> Unanswered(s)
    BY <1>3 DEF Unanswered
  <2>4. Answered(s)'
    BY <1>3, <2>3 DEF Answered
  <2>5. Fresh(s)'
    BY <1>1, <1>3 DEF Fresh
  <2>. QED BY <2>1, <2>2, <2>4, <2>5
<1>7. EntriesFit'
  <2>1. logStream' \in {0, logStream} /\ execStream' \in {0, execStream}
    BY DEF Sessions!Forget
  <2>. QED BY <2>1 DEF EntriesFit
<1>8. OneWaits'
  BY <1>3, <1>4 DEF OneWaits
<1>9. Sessions!NothingIsForgotten'
  <2>1. SUFFICES ASSUME NEW s \in streams', handler[s] = "held", kind[s] \notin overlap'
                 PROVE  Sessions!Entry(kind[s])' = s
    BY DEF Sessions!NothingIsForgotten
  <2>2. s \in streams /\ s \in Sessions!Streams /\ s \notin ss
    BY <1>3, <2>1 DEF SessionsTyped
  <2>3. kind[s] \notin ks /\ kind[s] \in Sessions!Kinds
    BY <1>1, <1>4, <2>1, <2>2 DEF Fresh
  <2>4. Sessions!Entry(kind[s]) = s
    BY <1>4, <2>1, <2>2 DEF Sessions!NothingIsForgotten
  <2>. QED BY <2>2, <2>3, <2>4 DEF Sessions!Entry, Sessions!Forget, Sessions!Kinds
<1>. QED BY <1>5, <1>6, <1>7, <1>8, <1>9

LEMMA OpenStreamKeeps ==
  ASSUME SessionsInv, NEW n \in Sessions!Streams, Sessions!OpenStream(n) PROVE SessionsInv'
<1>. DEFINE m == Sessions!Message("start", n)
<1>. USE DEF SessionsInv
<1>1. /\ handler[n] = "finding" /\ streams' = streams \cup {n} /\ toWorker' = Append(toWorker, m)
      /\ UNCHANGED <<asked, kind, execStream, stoppedStreams, toParent, worker, missed, overlap>>
  BY DEF Sessions!OpenStream, Sessions!workerVars
<1>2. PICK to \in {"held", "opening"} :
        /\ handler' = [handler EXCEPT ![n] = to]
        /\ to = (IF kind[n] = "exec" THEN "opening" ELSE "held")
        /\ kind[n] \in Sessions!Kinds
        /\ logStream' = IF kind[n] = "log" THEN n ELSE logStream
  BY DEF Sessions!OpenStream, Sessions!Kinds
<1>3. /\ worker[n] = "none" /\ n \notin stoppedStreams /\ n \notin streams /\ ~Has(toWorker, StartOf(n))
      /\ ~Unanswered(n) /\ ~Has(toWorker, StopOf(n)) /\ ~(n > asked)
  <2>1. /\ worker[n] = "none" /\ n \notin stoppedStreams /\ n \notin streams /\ ~Has(toWorker, StartOf(n))
        /\ ~(n > asked)
    BY <1>1 DEF Fresh
  <2>2. ~Unanswered(n)
    BY <1>1 DEF Answered
  <2>. QED BY <2>1, <2>2 DEF Sent
<1>4. /\ handler' \in [Sessions!Streams -> Sessions!Waiting \cup {"none", "held", "failed"}] /\ handler'[n] = to
      /\ \A s \in Sessions!Streams : s # n => handler'[s] = handler[s]
  BY <1>2 DEF SessionsTyped, Sessions!Waiting
<1>5. m \in ToWorkerMessage /\ \A s \in Sessions!Streams : (m \in StartOf(s) <=> s = n) /\ m \notin StopOf(s)
  BY MessagesDiffer DEF ToWorkerMessage, Sessions!Message
<1>. HIDE DEF m
<1>6. toWorker' \in Seq(ToWorkerMessage)
  BY <1>1, <1>5, AppendProperties DEF SessionsTyped
<1>7. ASSUME NEW s \in Sessions!Streams
      PROVE  /\ Has(toWorker', StartOf(s)) <=> Has(toWorker, StartOf(s)) \/ s = n
             /\ Has(toWorker', StopOf(s)) <=> Has(toWorker, StopOf(s))
             /\ AtMostOne(toWorker', StartOf(s))
             /\ InOrder(toWorker', StartOf(s), StopOf(s))
  <2>1. /\ Has(toWorker', StartOf(s)) <=> Has(toWorker, StartOf(s)) \/ m \in StartOf(s)
        /\ AtMostOne(toWorker, StartOf(s)) /\ (m \in StartOf(s) => ~Has(toWorker, StartOf(s))) =>
             AtMostOne(toWorker', StartOf(s))
        /\ InOrder(toWorker, StartOf(s), StopOf(s))
             /\ (m \in StartOf(s) => ~Has(toWorker, StopOf(s)) /\ m \notin StopOf(s)) =>
           InOrder(toWorker', StartOf(s), StopOf(s))
    BY <1>1, <1>5, AtTheEnd DEF SessionsTyped
  <2>2. Has(toWorker', StopOf(s)) <=> Has(toWorker, StopOf(s)) \/ m \in StopOf(s)
    BY <1>1, <1>5, AtTheEnd DEF SessionsTyped
  <2>. QED BY <1>3, <1>5, <2>1, <2>2 DEF Sent
<1>8. SessionsTyped'
  BY <1>1, <1>4, <1>6 DEF SessionsTyped
<1>9. ASSUME NEW s \in Sessions!Streams
      PROVE  (Fresh(s) /\ Sent(s) /\ Replied(s) /\ Answered(s) /\ StopReaches(s))'
  <2>1. Fresh(s)'
    BY <1>1, <1>2, <1>3, <1>4, <1>7 DEF Fresh
  <2>2. Sent(s)'
    BY <1>1, <1>3, <1>7 DEF Sent
  <2>3. Replied(s)'
    BY <1>1 DEF Replied
  <2>4. Unanswered(s)' <=> Unanswered(s) \/ s = n
    BY <1>1, <1>7 DEF Unanswered
  <2>5. Answered(s)'
    BY <1>1, <1>2, <1>4, <2>4 DEF Answered
  <2>6. StopReaches(s)'
    BY <1>1, <1>3, <1>7 DEF StopReaches
  <2>. QED BY <2>1, <2>2, <2>3, <2>5, <2>6
<1>10. EntriesFit'
  BY <1>1, <1>2, <1>4 DEF EntriesFit
<1>11. OneWaits'
  <2>1. SUFFICES ASSUME NEW s \in Sessions!Streams, NEW u \in Sessions!Streams, handler'[s] \in Sessions!Waiting,
                        kind[u] = kind[s], kind[s] \notin overlap
                 PROVE  /\ handler'[u] \in Sessions!Waiting => u = s
                        /\ ~(u \in streams' /\ handler'[u] = "held")
    BY <1>1 DEF OneWaits
  <2>2. \A x \in Sessions!Streams : handler'[x] \in Sessions!Waiting => handler[x] \in Sessions!Waiting
    BY <1>1, <1>4 DEF Sessions!Waiting
  <2>3. handler'[u] = "held" /\ u \in streams' /\ u = n => s # n
    BY <2>1 DEF Sessions!Waiting
  <2>. QED BY <1>1, <1>4, <2>1, <2>2, <2>3 DEF OneWaits, Sessions!Waiting
<1>12. Sessions!NothingIsForgotten'
  <2>1. SUFFICES ASSUME NEW s \in streams', handler'[s] = "held", kind[s] \notin overlap
                 PROVE  Sessions!Entry(kind[s])' = s
    BY <1>1 DEF Sessions!NothingIsForgotten
  <2>2. s \in Sessions!Streams
    BY <1>1, <2>1 DEF SessionsTyped
  <2>3. CASE s = n
    BY <1>1, <1>2, <1>4, <2>1, <2>3 DEF Sessions!Entry, Sessions!Kinds
  <2>4. CASE s # n
    <3>1. s \in streams /\ handler[s] = "held" /\ Sessions!Entry(kind[s]) = s
      BY <1>1, <1>4, <2>1, <2>2, <2>4 DEF Sessions!NothingIsForgotten
    <3>2. kind[n] # kind[s]
      BY <1>1, <2>1, <2>2, <3>1 DEF OneWaits, Sessions!Waiting
    <3>. QED BY <1>1, <1>2, <3>1, <3>2 DEF Sessions!Entry
  <2>. QED BY <2>3, <2>4
<1>. QED BY <1>8, <1>9, <1>10, <1>11, <1>12

LEMMA NoProviderKeeps ==
  ASSUME SessionsInv, NEW n \in Sessions!Streams, Sessions!NoProvider(n) PROVE SessionsInv'
<1>. USE DEF SessionsInv
<1>1. /\ handler[n] = "finding" /\ handler' = [handler EXCEPT ![n] = "failed"]
      /\ UNCHANGED <<asked, kind, logStream, execStream, streams, stoppedStreams, toWorker, toParent,
                     worker, missed, overlap>>
  BY DEF Sessions!NoProvider, Sessions!clientVars, Sessions!workerVars
<1>2. /\ handler' \in [Sessions!Streams -> Sessions!Waiting \cup {"none", "held", "failed"}] /\ handler'[n] = "failed"
      /\ \A s \in Sessions!Streams : s # n => handler'[s] = handler[s]
  BY <1>1 DEF SessionsTyped, Sessions!Waiting
<1>3. SessionsTyped'
  BY <1>1, <1>2 DEF SessionsTyped
<1>4. ASSUME NEW s \in Sessions!Streams
      PROVE  (Fresh(s) /\ Sent(s) /\ Replied(s) /\ Answered(s) /\ StopReaches(s))'
  <2>1. Fresh(s)' /\ Sent(s)' /\ Replied(s)' /\ StopReaches(s)'
    BY <1>1, <1>2 DEF Fresh, Sent, Replied, StopReaches
  <2>2. Unanswered(s)' <=> Unanswered(s)
    BY <1>1 DEF Unanswered
  <2>3. Answered(s)'
    BY <1>1, <1>2, <2>2 DEF Answered, Fresh
  <2>. QED BY <2>1, <2>3
<1>5. EntriesFit' /\ OneWaits'
  BY <1>1, <1>2 DEF EntriesFit, OneWaits, Sessions!Waiting
<1>6. Sessions!NothingIsForgotten'
  BY <1>1, <1>2 DEF Sessions!NothingIsForgotten, Sessions!Entry, SessionsTyped
<1>. QED BY <1>3, <1>4, <1>5, <1>6

LEMMA ClientSideKept ==
  ASSUME EntriesFit, OneWaits, Sessions!NothingIsForgotten,
         UNCHANGED <<logStream, execStream, kind, handler, streams, overlap>>
  PROVE  EntriesFit' /\ OneWaits' /\ Sessions!NothingIsForgotten'
BY DEF EntriesFit, OneWaits, Sessions!NothingIsForgotten, Sessions!Entry

\* What the worker has received.
LEMMA WorkerTakes ==
  ASSUME SessionsInv, Sessions!Received, NEW s \in Sessions!Streams
  PROVE  /\ toWorker' \in Seq(ToWorkerMessage) /\ Head(toWorker) \in ToWorkerMessage
         /\ Has(toWorker, StartOf(s)) <=>
              Head(toWorker) = Sessions!Message("start", s) \/ Has(toWorker', StartOf(s))
         /\ Has(toWorker, StopOf(s)) <=>
              Head(toWorker) = Sessions!Message("stop", s) \/ Has(toWorker', StopOf(s))
         /\ AtMostOne(toWorker', StartOf(s)) /\ InOrder(toWorker', StartOf(s), StopOf(s))
         /\ Head(toWorker) \in StartOf(s) \cup StopOf(s) => ~Has(toWorker', StartOf(s))
<1>1. toWorker \in Seq(ToWorkerMessage) /\ toWorker # <<>> /\ toWorker' = Tail(toWorker)
  BY DEF SessionsInv, SessionsTyped, Sessions!Received
<1>2. AtMostOne(toWorker, StartOf(s)) /\ InOrder(toWorker, StartOf(s), StopOf(s))
  BY DEF SessionsInv, Sent
<1>3. /\ toWorker' \in Seq(ToWorkerMessage) /\ Head(toWorker) \in ToWorkerMessage
      /\ Has(toWorker, StartOf(s)) <=> Head(toWorker) \in StartOf(s) \/ Has(toWorker', StartOf(s))
      /\ AtMostOne(toWorker', StartOf(s)) /\ (Head(toWorker) \in StartOf(s) => ~Has(toWorker', StartOf(s)))
      /\ InOrder(toWorker', StartOf(s), StopOf(s))
      /\ Head(toWorker) \in StopOf(s) => ~Has(toWorker', StartOf(s))
  BY <1>1, <1>2, AtTheFront
<1>4. Has(toWorker, StopOf(s)) <=> Head(toWorker) \in StopOf(s) \/ Has(toWorker', StopOf(s))
  BY <1>1, AtTheFront
<1>. QED BY <1>3, <1>4 DEF StartOf, StopOf

LEMMA WorkerStartKeeps ==
  ASSUME SessionsInv, Sessions!WorkerStart PROVE SessionsInv'
<1>. USE DEF SessionsInv
<1>1. /\ Sessions!Received /\ Head(toWorker).type = "start"
      /\ worker' = [worker EXCEPT ![Head(toWorker).stream] = "starting"]
      /\ UNCHANGED <<asked, logStream, execStream, kind, handler, streams, stoppedStreams, toParent,
                     missed, overlap>>
  BY DEF Sessions!WorkerStart, Sessions!Received, Sessions!clientVars
<1>2. Head(toWorker) \in ToWorkerMessage /\ toWorker' \in Seq(ToWorkerMessage)
  BY <1>1, HeadTailProperties DEF Sessions!Received, SessionsTyped
<1>3. PICK n \in Sessions!Streams : n = Head(toWorker).stream
  BY <1>2 DEF ToWorkerMessage
<1>4. /\ Head(toWorker) = Sessions!Message("start", n)
      /\ \A s \in Sessions!Streams : Head(toWorker) = Sessions!Message("start", s) <=> s = n
      /\ \A s \in Sessions!Streams : Head(toWorker) # Sessions!Message("stop", s)
  BY <1>1, <1>2, <1>3 DEF ToWorkerMessage, Sessions!Message
<1>5. /\ worker' \in [Sessions!Streams -> {"none", "starting", "open", "closed"}] /\ worker'[n] = "starting"
      /\ \A s \in Sessions!Streams : s # n => worker'[s] = worker[s]
  BY <1>1, <1>3 DEF SessionsTyped
<1>6. /\ Has(toWorker, StartOf(n)) /\ ~Has(toWorker', StartOf(n))
      /\ worker[n] = "none" /\ Unanswered(n)
  <2>1. Has(toWorker, StartOf(n)) /\ ~Has(toWorker', StartOf(n))
    BY <1>1, <1>4, WorkerTakes DEF StartOf
  <2>. QED BY <2>1 DEF Sent, Unanswered
<1>7. SessionsTyped' /\ EntriesFit' /\ OneWaits' /\ Sessions!NothingIsForgotten'
  BY <1>1, <1>2, <1>5, ClientSideKept DEF SessionsTyped
<1>8. ASSUME NEW s \in Sessions!Streams
      PROVE  (Fresh(s) /\ Sent(s) /\ Replied(s) /\ Answered(s) /\ StopReaches(s))'
  <2>1. /\ Has(toWorker, StartOf(s)) <=> s = n \/ Has(toWorker', StartOf(s))
        /\ Has(toWorker, StopOf(s)) <=> Has(toWorker', StopOf(s))
        /\ AtMostOne(toWorker', StartOf(s)) /\ InOrder(toWorker', StartOf(s), StopOf(s))
    BY <1>1, <1>4, WorkerTakes
  <2>2. Fresh(s)'
    BY <1>1, <1>5, <1>6, <2>1 DEF Fresh
  <2>3. Sent(s)'
    BY <1>1, <1>5, <1>6, <2>1 DEF Sent
  <2>4. Replied(s)'
    BY <1>1, <1>5, <1>6 DEF Replied
  <2>5. Unanswered(s)' <=> Unanswered(s)
    BY <1>1, <1>5, <1>6, <2>1 DEF Unanswered
  <2>6. Answered(s)'
    BY <1>1, <2>5 DEF Answered
  <2>7. StopReaches(s)'
    BY <1>1, <1>5, <1>6, <2>1 DEF StopReaches
  <2>. QED BY <2>2, <2>3, <2>4, <2>6, <2>7
<1>. QED BY <1>7, <1>8

LEMMA WorkerStopKeeps ==
  ASSUME SessionsInv, Sessions!WorkerStop PROVE SessionsInv'
<1>. USE DEF SessionsInv
<1>1. /\ Sessions!Received /\ Head(toWorker).type = "stop"
      /\ worker' = [worker EXCEPT ![Head(toWorker).stream] = IF @ = "open" THEN "closed" ELSE @]
      /\ missed' = IF worker[Head(toWorker).stream] = "starting"
                   THEN missed \cup {Head(toWorker).stream} ELSE missed
      /\ UNCHANGED <<asked, logStream, execStream, kind, handler, streams, stoppedStreams, toParent,
                     overlap>>
  BY DEF Sessions!WorkerStop, Sessions!Received, Sessions!clientVars
<1>2. Head(toWorker) \in ToWorkerMessage /\ toWorker' \in Seq(ToWorkerMessage)
  BY <1>1, HeadTailProperties DEF Sessions!Received, SessionsTyped
<1>3. PICK n \in Sessions!Streams : n = Head(toWorker).stream
  BY <1>2 DEF ToWorkerMessage
<1>4. /\ Head(toWorker) = Sessions!Message("stop", n)
      /\ \A s \in Sessions!Streams : Head(toWorker) = Sessions!Message("stop", s) <=> s = n
      /\ \A s \in Sessions!Streams : Head(toWorker) # Sessions!Message("start", s)
  BY <1>1, <1>2, <1>3 DEF ToWorkerMessage, Sessions!Message
<1>5. /\ worker' \in [Sessions!Streams -> {"none", "starting", "open", "closed"}]
      /\ worker'[n] = IF worker[n] = "open" THEN "closed" ELSE worker[n]
      /\ \A s \in Sessions!Streams : s # n => worker'[s] = worker[s]
      /\ missed \subseteq missed' /\ (worker[n] = "starting" => n \in missed')
  BY <1>1, <1>3 DEF SessionsTyped
<1>6. ~Has(toWorker', StartOf(n)) /\ Has(toWorker, StopOf(n)) /\ n \in stoppedStreams
  <2>1. ~Has(toWorker', StartOf(n)) /\ Has(toWorker, StopOf(n))
    BY <1>1, <1>4, WorkerTakes DEF StopOf
  <2>. QED BY <2>1 DEF Sent
<1>7. SessionsTyped' /\ EntriesFit' /\ OneWaits' /\ Sessions!NothingIsForgotten'
  BY <1>1, <1>2, <1>5, ClientSideKept DEF SessionsTyped
<1>8. ASSUME NEW s \in Sessions!Streams
      PROVE  (Fresh(s) /\ Sent(s) /\ Replied(s) /\ Answered(s) /\ StopReaches(s))'
  <2>1. /\ Has(toWorker, StartOf(s)) <=> Has(toWorker', StartOf(s))
        /\ Has(toWorker, StopOf(s)) <=> s = n \/ Has(toWorker', StopOf(s))
        /\ AtMostOne(toWorker', StartOf(s)) /\ InOrder(toWorker', StartOf(s), StopOf(s))
    BY <1>1, <1>4, WorkerTakes
  <2>2. Fresh(s)'
    BY <1>1, <1>5, <2>1 DEF Fresh
  <2>3. Sent(s)'
    BY <1>1, <1>5, <1>6, <2>1 DEF Sent
  <2>4. Replied(s)'
    BY <1>1, <1>5 DEF Replied
  <2>5. Unanswered(s)' <=> Unanswered(s)
    BY <1>1, <1>5, <2>1 DEF Unanswered
  <2>6. Answered(s)'
    BY <1>1, <2>5 DEF Answered
  <2>7. StopReaches(s)'
    <3>1. CASE s = n
      <4>1. worker[n] \in {"none", "starting", "open", "closed"}
        BY DEF SessionsTyped
      <4>. QED BY <1>1, <1>5, <1>6, <3>1, <4>1 DEF StopReaches
    <3>2. CASE s # n
      BY <1>1, <1>5, <2>1, <3>2 DEF StopReaches
    <3>. QED BY <3>1, <3>2
  <2>. QED BY <2>2, <2>3, <2>4, <2>6, <2>7
<1>. QED BY <1>7, <1>8

\* What the worker says of a stream, and what becomes of the stream: an answer for one
\* that starts, data, or the end of one that is open.
LEMMA WorkerSaysKeeps ==
  ASSUME SessionsInv, NEW n \in Sessions!Streams, NEW a \in {"result", "refused", "data", "end", "error"},
         NEW to \in {"starting", "open", "closed"}, Sessions!Says(a, n),
         worker' = [worker EXCEPT ![n] = to],
         a \in {"result", "refused"} => worker[n] = "starting" /\ to # "starting",
         a \in {"end", "error"} => worker[n] = "open" /\ to = "closed",
         a = "data" => worker[n] \in {"starting", "open"} /\ to = worker[n]
  PROVE  SessionsInv'
<1>. DEFINE m == Sessions!Message(a, n)
<1>. USE DEF SessionsInv
<1>1. /\ toParent' = Append(toParent, m)
      /\ UNCHANGED <<asked, logStream, execStream, kind, handler, streams, stoppedStreams, toWorker,
                     missed, overlap>>
  BY DEF Sessions!Says, Sessions!clientVars
<1>2. /\ m \in ToParentMessage
      /\ \A s \in Sessions!Streams : /\ m \in AnswersOf(s) <=> a \in {"result", "refused"} /\ s = n
                            /\ m \in LastOf(s) <=> a \in {"end", "error"} /\ s = n
  BY DEF ToParentMessage, Sessions!Message, AnswersOf, LastOf
<1>3. /\ worker' \in [Sessions!Streams -> {"none", "starting", "open", "closed"}] /\ worker'[n] = to
      /\ \A s \in Sessions!Streams : s # n => worker'[s] = worker[s]
  BY DEF SessionsTyped
<1>4. worker[n] \in {"starting", "open"}
  OBVIOUS
<1>. HIDE DEF m
<1>5. toParent \in Seq(ToParentMessage)
  BY DEF SessionsTyped
<1>6. toParent' \in Seq(ToParentMessage)
  BY <1>1, <1>2, <1>5, AppendProperties
<1>7. SessionsTyped' /\ EntriesFit' /\ OneWaits' /\ Sessions!NothingIsForgotten'
  BY <1>1, <1>3, <1>6, ClientSideKept DEF SessionsTyped
<1>8. ASSUME NEW s \in Sessions!Streams
      PROVE  (Fresh(s) /\ Sent(s) /\ Replied(s) /\ Answered(s) /\ StopReaches(s))'
  <2>0. /\ m \in AnswersOf(s) <=> a \in {"result", "refused"} /\ s = n
        /\ m \in LastOf(s) <=> a \in {"end", "error"} /\ s = n
        /\ worker'[s] = IF s = n THEN to ELSE worker[s]
    <3>. HIDE DEF SessionsInv
    <3>1. /\ m \in AnswersOf(s) <=> a \in {"result", "refused"} /\ s = n
          /\ m \in LastOf(s) <=> a \in {"end", "error"} /\ s = n
      BY DEF m, Sessions!Message, AnswersOf, LastOf
    <3>2. worker'[s] = IF s = n THEN to ELSE worker[s]
      BY <1>3
    <3>. QED BY <3>1, <3>2
  <2>9. Fresh(s) /\ Sent(s) /\ Replied(s) /\ Answered(s) /\ StopReaches(s)
    OBVIOUS
  <2>1. /\ Has(toParent', AnswersOf(s)) <=> Has(toParent, AnswersOf(s)) \/ m \in AnswersOf(s)
        /\ AtMostOne(toParent, AnswersOf(s)) /\ (m \in AnswersOf(s) => ~Has(toParent, AnswersOf(s))) =>
             AtMostOne(toParent', AnswersOf(s))
        /\ InOrder(toParent, AnswersOf(s), LastOf(s))
             /\ (m \in AnswersOf(s) => ~Has(toParent, LastOf(s)) /\ m \notin LastOf(s)) =>
           InOrder(toParent', AnswersOf(s), LastOf(s))
    BY <1>1, <1>2, <1>5, AtTheEnd
  <2>2. Has(toParent', LastOf(s)) <=> Has(toParent, LastOf(s)) \/ m \in LastOf(s)
    BY <1>1, <1>2, <1>5, AtTheEnd
  <2>. HIDE DEF SessionsInv
  <2>3. Replied(s)'
    <3>1. CASE s = n
      <4>1. CASE a \in {"result", "refused"}
        BY <2>0, <2>1, <2>2, <2>9, <3>1, <4>1 DEF Replied
      <4>2. CASE a \in {"end", "error"}
        BY <2>0, <2>1, <2>2, <2>9, <3>1, <4>2 DEF Replied
      <4>3. CASE a = "data"
        BY <2>0, <2>1, <2>2, <2>9, <3>1, <4>3 DEF Replied
      <4>. QED BY <4>1, <4>2, <4>3
    <3>2. CASE s # n
      BY <2>0, <2>1, <2>2, <2>9, <3>2 DEF Replied
    <3>. QED BY <3>1, <3>2
  <2>4. Fresh(s)'
    BY <1>1, <1>4, <2>0, <2>9 DEF Fresh
  <2>5. Sent(s)'
    BY <1>1, <1>4, <2>0, <2>9 DEF Sent
  <2>6. Unanswered(s)' <=> Unanswered(s)
    <3>1. CASE s = n
      <4>1. CASE a \in {"result", "refused"}
        BY <2>0, <2>1, <3>1, <4>1 DEF Unanswered
      <4>2. CASE a \notin {"result", "refused"}
        BY <1>1, <2>0, <2>1, <3>1, <4>2 DEF Unanswered
      <4>. QED BY <4>1, <4>2
    <3>2. CASE s # n
      BY <1>1, <2>0, <2>1, <3>2 DEF Unanswered
    <3>. QED BY <3>1, <3>2
  <2>7. Answered(s)'
    BY <1>1, <2>6, <2>9 DEF Answered
  <2>8. StopReaches(s)'
    BY <1>1, <1>4, <2>0, <2>9 DEF StopReaches
  <2>. QED BY <2>3, <2>4, <2>5, <2>7, <2>8
<1>. QED BY <1>7, <1>8

\* What the sandbox has taken.
LEMMA SandboxTakes ==
  ASSUME SessionsInv, toParent # <<>>, toParent' = Tail(toParent), NEW s \in Sessions!Streams
  PROVE  /\ Has(toParent, AnswersOf(s)) <=> Head(toParent) \in AnswersOf(s) \/ Has(toParent', AnswersOf(s))
         /\ Has(toParent, LastOf(s)) <=> Head(toParent) \in LastOf(s) \/ Has(toParent', LastOf(s))
         /\ AtMostOne(toParent', AnswersOf(s)) /\ InOrder(toParent', AnswersOf(s), LastOf(s))
         /\ Head(toParent) \in AnswersOf(s) \cup LastOf(s) => ~Has(toParent', AnswersOf(s))
<1>1. toParent \in Seq(ToParentMessage)
  BY DEF SessionsInv, SessionsTyped
<1>2. AtMostOne(toParent, AnswersOf(s)) /\ InOrder(toParent, AnswersOf(s), LastOf(s))
  BY DEF SessionsInv, Replied
<1>3. /\ Has(toParent, AnswersOf(s)) <=> Head(toParent) \in AnswersOf(s) \/ Has(toParent', AnswersOf(s))
      /\ AtMostOne(toParent', AnswersOf(s))
      /\ Head(toParent) \in AnswersOf(s) => ~Has(toParent', AnswersOf(s))
      /\ InOrder(toParent', AnswersOf(s), LastOf(s))
      /\ Head(toParent) \in LastOf(s) => ~Has(toParent', AnswersOf(s))
  BY <1>1, <1>2, AtTheFront
<1>4. Has(toParent, LastOf(s)) <=> Head(toParent) \in LastOf(s) \/ Has(toParent', LastOf(s))
  BY <1>1, AtTheFront
<1>. QED BY <1>3, <1>4

\* The message is of one stream.
LEMMA HeadOfParent ==
  ASSUME SessionsInv, toParent # <<>>, toParent' = Tail(toParent)
  PROVE  /\ toParent' \in Seq(ToParentMessage) /\ Head(toParent).stream \in Sessions!Streams
         /\ \A s \in Sessions!Streams :
              /\ Head(toParent) \in AnswersOf(s) <=>
                   Head(toParent).type \in {"result", "refused"} /\ s = Head(toParent).stream
              /\ Head(toParent) \in LastOf(s) <=>
                   Head(toParent).type \in {"end", "error"} /\ s = Head(toParent).stream
         /\ Head(toParent).type \in {"result", "refused", "data", "end", "error"}
<1>1. Head(toParent) \in ToParentMessage /\ toParent' \in Seq(ToParentMessage)
  BY HeadTailProperties DEF SessionsInv, SessionsTyped
<1>. DEFINE m == Head(toParent)
<1>2. m \in ToParentMessage
  BY <1>1
<1>3. m.type \in {"result", "refused", "data", "end", "error"} /\ m.stream \in Sessions!Streams
  BY <1>2 DEF ToParentMessage
<1>4. ASSUME NEW s \in Sessions!Streams
      PROVE  /\ m \in AnswersOf(s) <=> m.type \in {"result", "refused"} /\ s = m.stream
             /\ m \in LastOf(s) <=> m.type \in {"end", "error"} /\ s = m.stream
  <2>. HIDE DEF m
  <2>. QED BY <1>2, MessageOfHead
<1>. QED BY <1>1, <1>3, <1>4

\* An answer: its stream is not awaited any more.
LEMMA AnswerTaken ==
  ASSUME SessionsInv, toParent # <<>>, toParent' = Tail(toParent), worker' = worker,
         Head(toParent).type \in {"result", "refused"}, NEW n \in Sessions!Streams, n = Head(toParent).stream,
         \A s \in Sessions!Streams : Has(toWorker', StartOf(s)) <=> Has(toWorker, StartOf(s))
  PROVE  /\ \A s \in Sessions!Streams : Replied(s)' /\ (Unanswered(s)' <=> Unanswered(s) /\ s # n)
         /\ Unanswered(n) /\ handler[n] = (IF kind[n] = "exec" THEN "opening" ELSE "held")
         /\ kind[n] \in Sessions!Kinds /\ worker[n] # "none"
<1>. USE DEF SessionsInv
<1>1. \A s \in Sessions!Streams : (Head(toParent) \in AnswersOf(s) <=> s = n) /\ Head(toParent) \notin LastOf(s)
  BY HeadOfParent
<1>2. /\ Has(toParent, AnswersOf(n)) /\ ~Has(toParent', AnswersOf(n))
  BY <1>1, SandboxTakes
<1>3. Unanswered(n) /\ worker[n] \in {"open", "closed"} /\ ~Has(toWorker, StartOf(n))
  BY <1>2 DEF Unanswered, Replied, Sent
<1>4. ASSUME NEW s \in Sessions!Streams PROVE Replied(s)' /\ (Unanswered(s)' <=> Unanswered(s) /\ s # n)
  <2>1. Replied(s)'
    BY <1>1, SandboxTakes DEF Replied
  <2>2. s # n => (Has(toParent', AnswersOf(s)) <=> Has(toParent, AnswersOf(s)))
    BY <1>1, SandboxTakes
  <2>3. Unanswered(s)' <=> Unanswered(s) /\ s # n
    BY <1>2, <1>3, <2>2 DEF Unanswered
  <2>. QED BY <2>1, <2>3
<1>5. handler[n] = (IF kind[n] = "exec" THEN "opening" ELSE "held")
  BY <1>3 DEF Answered
<1>6. kind[n] \in Sessions!Kinds
  BY <1>5 DEF Fresh
<1>. QED BY <1>3, <1>4, <1>5, <1>6

LEMMA HandleResultKeeps ==
  ASSUME SessionsInv, Sessions!HandleResult PROVE SessionsInv'
<1>. USE DEF SessionsInv
<1>1. /\ toParent # <<>> /\ Head(toParent).type = "result" /\ toParent' = Tail(toParent)
      /\ handler' = [handler EXCEPT ![Head(toParent).stream] = "held"]
      /\ execStream' = IF kind[Head(toParent).stream] = "exec" THEN Head(toParent).stream ELSE execStream
      /\ UNCHANGED <<asked, logStream, kind, streams, stoppedStreams, toWorker, worker, missed, overlap>>
  BY DEF Sessions!HandleResult, Sessions!Message1, Sessions!Taken, Sessions!workerVars
<1>2. PICK n \in Sessions!Streams : n = Head(toParent).stream
  BY <1>1, HeadOfParent
<1>3. /\ \A s \in Sessions!Streams : Replied(s)' /\ (Unanswered(s)' <=> Unanswered(s) /\ s # n)
      /\ Unanswered(n) /\ handler[n] = (IF kind[n] = "exec" THEN "opening" ELSE "held")
      /\ kind[n] \in Sessions!Kinds /\ worker[n] # "none"
  BY <1>1, <1>2, AnswerTaken
<1>4. /\ handler' \in [Sessions!Streams -> Sessions!Waiting \cup {"none", "held", "failed"}] /\ handler'[n] = "held"
      /\ \A s \in Sessions!Streams : s # n => handler'[s] = handler[s]
  BY <1>1, <1>2 DEF SessionsTyped, Sessions!Waiting
<1>5. SessionsTyped'
  BY <1>1, <1>4, HeadOfParent DEF SessionsTyped
<1>6. ASSUME NEW s \in Sessions!Streams
      PROVE  (Fresh(s) /\ Sent(s) /\ Replied(s) /\ Answered(s) /\ StopReaches(s))'
  <2>1. Fresh(s)' /\ Sent(s)' /\ StopReaches(s)'
    BY <1>1, <1>3, <1>4 DEF Fresh, Sent, StopReaches
  <2>2. Answered(s)'
    BY <1>1, <1>3, <1>4 DEF Answered
  <2>. QED BY <1>3, <2>1, <2>2
<1>7. EntriesFit'
  BY <1>1, <1>2, <1>4 DEF EntriesFit
<1>8. OneWaits'
  BY <1>1, <1>3, <1>4 DEF OneWaits, Sessions!Waiting, Sessions!Kinds
<1>9. Sessions!NothingIsForgotten'
  <2>1. SUFFICES ASSUME NEW s \in streams, handler'[s] = "held", kind[s] \notin overlap
                 PROVE  Sessions!Entry(kind[s])' = s
    BY <1>1 DEF Sessions!NothingIsForgotten
  <2>2. s \in Sessions!Streams
    BY DEF SessionsTyped
  <2>3. CASE kind[n] = "exec"
    <3>1. s # n => kind[s] # "exec"
      BY <1>3, <1>4, <2>1, <2>2, <2>3 DEF OneWaits, Sessions!Waiting
    <3>2. s # n => Sessions!Entry(kind[s]) = s
      BY <1>4, <2>1, <2>2 DEF Sessions!NothingIsForgotten
    <3>3. s # n => kind[s] \in Sessions!Kinds
      BY <1>4, <2>1, <2>2 DEF Fresh
    <3>. QED BY <1>1, <1>2, <2>3, <3>1, <3>2, <3>3 DEF Sessions!Entry, Sessions!Kinds
  <2>4. CASE kind[n] # "exec"
    <3>1. handler[s] = "held"
      BY <1>3, <1>4, <2>1, <2>2, <2>4
    <3>. QED BY <1>1, <1>2, <2>1, <2>4, <3>1 DEF Sessions!NothingIsForgotten, Sessions!Entry
  <2>. QED BY <2>3, <2>4
<1>. QED BY <1>5, <1>6, <1>7, <1>8, <1>9

LEMMA HandleRefusedKeeps ==
  ASSUME SessionsInv, Sessions!HandleRefused PROVE SessionsInv'
<1>. USE DEF SessionsInv
<1>1. /\ toParent # <<>> /\ Head(toParent).type = "refused" /\ toParent' = Tail(toParent)
      /\ UNCHANGED <<asked, logStream, execStream, kind, worker, missed, overlap>>
  BY DEF Sessions!HandleRefused, Sessions!Message1, Sessions!Taken, Sessions!workerVars, Sessions!clientVars
<1>2. PICK n \in Sessions!Streams : n = Head(toParent).stream
  BY <1>1, HeadOfParent
<1>3. /\ handler' = [handler EXCEPT ![n] = IF kind[n] = "exec" THEN "failed" ELSE @]
      /\ kind[n] = "exec" => Sessions!StopStreams({n})
      /\ kind[n] # "exec" => streams' = streams \ {n} /\ stoppedStreams' = stoppedStreams /\ toWorker' = toWorker
  BY <1>2 DEF Sessions!HandleRefused
<1>4. Unanswered(n) /\ kind[n] \in Sessions!Kinds
  <2>1. Has(toParent, AnswersOf(n))
    BY <1>1, <1>2, SandboxTakes, HeadOfParent
  <2>. QED BY <2>1 DEF Unanswered, Answered, Fresh
<1>5. /\ streams' = streams \ {n} /\ toWorker' \in Seq(ToWorkerMessage)
      /\ stoppedStreams' \in {stoppedStreams, stoppedStreams \cup {n}}
      /\ \A s \in Sessions!Streams : /\ Has(toWorker', StartOf(s)) <=> Has(toWorker, StartOf(s))
                            /\ Sent(s)' /\ StopReaches(s)'
  <2>1. CASE kind[n] = "exec"
    <3>1. PICK ss \in SUBSET Sessions!Streams : ss = {n}
      OBVIOUS
    <3>2. /\ Sessions!StopStreams(ss) /\ \A s \in ss : kind[s] \in Sessions!Kinds
          /\ \A s, u \in ss : kind[s] = kind[u] => s = u
      BY <1>3, <1>4, <2>1, <3>1
    <3>3. /\ stoppedStreams' = stoppedStreams \cup ss /\ streams' = streams \ ss /\ toWorker' \in Seq(ToWorkerMessage)
          /\ \A s \in Sessions!Streams : Has(toWorker', StartOf(s)) <=> Has(toWorker, StartOf(s))
      BY <3>2, StopsGo
    <3>4. \A s \in Sessions!Streams : Sent(s)' /\ StopReaches(s)'
      BY <1>1, <3>2, StopsKeep
    <3>. QED BY <3>1, <3>3, <3>4
  <2>2. CASE kind[n] # "exec"
    BY <1>1, <1>3, <2>2 DEF SessionsTyped, Sent, StopReaches
  <2>. QED BY <2>1, <2>2
<1>6. /\ \A s \in Sessions!Streams : Replied(s)' /\ (Unanswered(s)' <=> Unanswered(s) /\ s # n)
      /\ handler[n] = (IF kind[n] = "exec" THEN "opening" ELSE "held")
  BY <1>1, <1>2, <1>5, AnswerTaken
<1>7. /\ handler' \in [Sessions!Streams -> Sessions!Waiting \cup {"none", "held", "failed"}]
      /\ handler'[n] = (IF kind[n] = "exec" THEN "failed" ELSE "held")
      /\ \A s \in Sessions!Streams : s # n => handler'[s] = handler[s]
  BY <1>3, <1>6 DEF SessionsTyped, Sessions!Waiting
<1>8. SessionsTyped'
  BY <1>1, <1>5, <1>7, HeadOfParent DEF SessionsTyped
<1>9. ASSUME NEW s \in Sessions!Streams
      PROVE  (Fresh(s) /\ Sent(s) /\ Replied(s) /\ Answered(s) /\ StopReaches(s))'
  <2>1. Fresh(s)'
    BY <1>1, <1>4, <1>5, <1>6, <1>7 DEF Fresh
  <2>2. Answered(s)'
    BY <1>1, <1>5, <1>6, <1>7 DEF Answered
  <2>. QED BY <1>5, <1>6, <2>1, <2>2
<1>10. EntriesFit'
  BY <1>1, <1>6, <1>7 DEF EntriesFit
<1>11. OneWaits'
  BY <1>1, <1>5, <1>6, <1>7 DEF OneWaits, Sessions!Waiting
<1>12. Sessions!NothingIsForgotten'
  BY <1>1, <1>5, <1>7 DEF Sessions!NothingIsForgotten, Sessions!Entry, SessionsTyped
<1>. QED BY <1>8, <1>9, <1>10, <1>11, <1>12

LEMMA HandleDataKeeps ==
  ASSUME SessionsInv, Sessions!HandleData PROVE SessionsInv'
<1>. USE DEF SessionsInv
<1>1. /\ toParent # <<>> /\ Head(toParent).type = "data" /\ toParent' = Tail(toParent)
      /\ UNCHANGED <<asked, logStream, execStream, kind, handler, streams, stoppedStreams, toWorker, worker,
                     missed, overlap>>
  BY DEF Sessions!HandleData, Sessions!Message1, Sessions!Taken, Sessions!workerVars, Sessions!clientVars
<1>2. SessionsTyped' /\ EntriesFit' /\ OneWaits' /\ Sessions!NothingIsForgotten'
  BY <1>1, HeadOfParent, ClientSideKept DEF SessionsTyped
<1>3. ASSUME NEW s \in Sessions!Streams
      PROVE  (Fresh(s) /\ Sent(s) /\ Replied(s) /\ Answered(s) /\ StopReaches(s))'
  <2>1. Head(toParent) \notin AnswersOf(s)
    BY <1>1, HeadOfParent
  <2>2. Has(toParent', AnswersOf(s)) <=> Has(toParent, AnswersOf(s))
    BY <1>1, <2>1, SandboxTakes
  <2>3. Replied(s)'
    BY <1>1, <2>2, SandboxTakes DEF Replied
  <2>4. Unanswered(s)' <=> Unanswered(s)
    BY <1>1, <2>2 DEF Unanswered
  <2>5. Fresh(s)' /\ Sent(s)' /\ StopReaches(s)' /\ Answered(s)'
    BY <1>1, <2>4 DEF Fresh, Sent, StopReaches, Answered
  <2>. QED BY <2>3, <2>5
<1>. QED BY <1>2, <1>3

LEMMA HandleEndKeeps ==
  ASSUME SessionsInv, Sessions!HandleEnd PROVE SessionsInv'
<1>. USE DEF SessionsInv
<1>1. /\ toParent # <<>> /\ Head(toParent).type \in {"end", "error"} /\ toParent' = Tail(toParent)
      /\ UNCHANGED <<asked, logStream, kind, handler, worker, missed, overlap>>
  BY DEF Sessions!HandleEnd, Sessions!Message1, Sessions!Taken, Sessions!workerVars
<1>2. PICK n \in Sessions!Streams : n = Head(toParent).stream
  BY <1>1, HeadOfParent
<1>3. /\ execStream' = IF n \in streams /\ kind[n] = "exec" THEN 0 ELSE execStream
      /\ \/ n \in streams /\ Sessions!StopStreams({n})
         \/ streams' = streams \ {n} /\ stoppedStreams' = stoppedStreams /\ toWorker' = toWorker
  BY <1>2 DEF Sessions!HandleEnd
<1>4. \A s \in Sessions!Streams : (Head(toParent) \in LastOf(s) <=> s = n) /\ Head(toParent) \notin AnswersOf(s)
  BY <1>1, <1>2, HeadOfParent
<1>5. \A s \in Sessions!Streams :
        /\ Has(toParent', AnswersOf(s)) <=> Has(toParent, AnswersOf(s))
        /\ Replied(s)'
  BY <1>1, <1>4, SandboxTakes DEF Replied
<1>6. worker[n] = "closed" /\ ~Unanswered(n)
  <2>1. Has(toParent, LastOf(n)) /\ ~Has(toParent', AnswersOf(n))
    BY <1>1, <1>4, SandboxTakes
  <2>2. worker[n] = "closed"
    BY <2>1 DEF Replied
  <2>. QED BY <1>5, <2>1, <2>2 DEF Unanswered, Sent
<1>7. n \in streams => handler[n] = "held" /\ kind[n] \in Sessions!Kinds
  <2>1. n \in streams => handler[n] = "held"
    BY <1>6 DEF Answered
  <2>. QED BY <2>1 DEF Fresh
<1>8. /\ streams' = streams \ {n} /\ toWorker' \in Seq(ToWorkerMessage)
      /\ stoppedStreams' \in {stoppedStreams, stoppedStreams \cup {n}}
      /\ \A s \in Sessions!Streams : /\ Has(toWorker', StartOf(s)) <=> Has(toWorker, StartOf(s))
                            /\ Sent(s)' /\ StopReaches(s)'
  <2>1. CASE n \in streams /\ Sessions!StopStreams({n})
    <3>1. PICK ss \in SUBSET Sessions!Streams : ss = {n}
      OBVIOUS
    <3>2. /\ Sessions!StopStreams(ss) /\ \A s \in ss : kind[s] \in Sessions!Kinds
          /\ \A s, u \in ss : kind[s] = kind[u] => s = u
      BY <1>7, <2>1, <3>1
    <3>3. /\ stoppedStreams' = stoppedStreams \cup ss /\ streams' = streams \ ss /\ toWorker' \in Seq(ToWorkerMessage)
          /\ \A s \in Sessions!Streams : Has(toWorker', StartOf(s)) <=> Has(toWorker, StartOf(s))
      BY <3>2, StopsGo
    <3>4. \A s \in Sessions!Streams : Sent(s)' /\ StopReaches(s)'
      BY <1>1, <3>2, StopsKeep
    <3>. QED BY <3>1, <3>3, <3>4
  <2>2. CASE streams' = streams \ {n} /\ stoppedStreams' = stoppedStreams /\ toWorker' = toWorker
    BY <1>1, <2>2 DEF SessionsTyped, Sent, StopReaches
  <2>. QED BY <1>3, <2>1, <2>2
<1>9. SessionsTyped'
  BY <1>1, <1>8, HeadOfParent DEF SessionsTyped
<1>10. ASSUME NEW s \in Sessions!Streams
       PROVE  (Fresh(s) /\ Sent(s) /\ Replied(s) /\ Answered(s) /\ StopReaches(s))'
  <2>1. Unanswered(s)' <=> Unanswered(s)
    BY <1>1, <1>5, <1>8 DEF Unanswered
  <2>2. Fresh(s)'
    BY <1>1, <1>6, <1>8 DEF Fresh
  <2>3. Answered(s)'
    BY <1>1, <1>8, <2>1 DEF Answered
  <2>. QED BY <1>5, <1>8, <2>2, <2>3
<1>11. EntriesFit'
  BY <1>1, <1>3 DEF EntriesFit
<1>12. OneWaits'
  BY <1>1, <1>8 DEF OneWaits
<1>13. Sessions!NothingIsForgotten'
  <2>1. SUFFICES ASSUME NEW s \in streams, s # n, handler[s] = "held", kind[s] \notin overlap
                 PROVE  Sessions!Entry(kind[s])' = s
    BY <1>1, <1>8 DEF Sessions!NothingIsForgotten
  <2>2. Sessions!Entry(kind[s]) = s /\ s \in Sessions!Streams
    BY <2>1 DEF Sessions!NothingIsForgotten, SessionsTyped
  <2>3. CASE n \in streams /\ kind[n] = "exec"
    <3>1. kind[s] = "exec" => Sessions!Entry(kind[n]) = n
      BY <1>7, <2>1, <2>3 DEF Sessions!NothingIsForgotten
    <3>2. kind[s] = "log"
      BY <2>1, <2>2, <2>3, <3>1 DEF Fresh, Sessions!Kinds
    <3>. QED BY <1>1, <2>2, <3>2 DEF Sessions!Entry
  <2>4. CASE ~(n \in streams /\ kind[n] = "exec")
    BY <1>1, <1>3, <2>2, <2>4 DEF Sessions!Entry
  <2>. QED BY <2>3, <2>4
<1>. QED BY <1>9, <1>10, <1>11, <1>12, <1>13

\* The worker's process has crashed or was stopped.
LEMMA GoneKeeps ==
  ASSUME SessionsInv, Sessions!ProcessGone, stoppedStreams \subseteq stoppedStreams',
         stoppedStreams' \subseteq stoppedStreams \cup streams
  PROVE  SessionsInv'
<1>. USE DEF SessionsInv
<1>1. /\ toWorker' = <<>> /\ toParent' = <<>> /\ streams' = {}
      /\ worker' = [s \in Sessions!Streams |-> IF worker[s] = "none" THEN "none" ELSE "closed"]
      /\ handler' = [s \in Sessions!Streams |-> IF handler[s] \in Sessions!Waiting THEN "failed" ELSE handler[s]]
      /\ execStream' \in {0, execStream}
      /\ UNCHANGED <<asked, logStream, kind, missed, overlap>>
  BY DEF Sessions!ProcessGone
<1>2. \A s \in Sessions!Streams : ~Has(toWorker', StartOf(s)) /\ AtMostOne(toWorker', StartOf(s))
        /\ InOrder(toWorker', StartOf(s), StopOf(s)) /\ ~Has(toWorker', StopOf(s))
        /\ ~Has(toParent', AnswersOf(s)) /\ AtMostOne(toParent', AnswersOf(s))
        /\ InOrder(toParent', AnswersOf(s), LastOf(s)) /\ ~Has(toParent', LastOf(s))
  BY <1>1, NothingThere
<1>3. handler' \in [Sessions!Streams -> Sessions!Waiting \cup {"none", "held", "failed"}]
  BY <1>1 DEF SessionsTyped, Sessions!Waiting
<1>4. worker' \in [Sessions!Streams -> {"none", "starting", "open", "closed"}]
  BY <1>1 DEF SessionsTyped
<1>5. /\ \A s \in Sessions!Streams : handler'[s] = IF handler[s] \in Sessions!Waiting THEN "failed" ELSE handler[s]
      /\ \A s \in Sessions!Streams : worker'[s] = IF worker[s] = "none" THEN "none" ELSE "closed"
  BY <1>1
<1>6. SessionsTyped'
  BY <1>1, <1>3, <1>4, EmptySeq DEF SessionsTyped
<1>7. ASSUME NEW s \in Sessions!Streams
      PROVE  (Fresh(s) /\ Sent(s) /\ Replied(s) /\ Answered(s) /\ StopReaches(s))'
  <2>1. Fresh(s)'
    BY <1>1, <1>2, <1>5 DEF Fresh, Sessions!Waiting
  <2>2. Sent(s)' /\ Replied(s)'
    BY <1>1, <1>2 DEF Sent, Replied
  <2>3. ~Unanswered(s)'
    BY <1>2, <1>5 DEF Unanswered
  <2>4. Answered(s)'
    BY <1>1, <1>5, <2>3 DEF Answered, Sessions!Waiting
  <2>5. StopReaches(s)'
    BY <1>2, <1>5 DEF StopReaches
  <2>. QED BY <2>1, <2>2, <2>4, <2>5
<1>8. EntriesFit'
  BY <1>1, <1>5 DEF EntriesFit, Sessions!Waiting
<1>9. OneWaits' /\ Sessions!NothingIsForgotten'
  BY <1>1, <1>5 DEF OneWaits, Sessions!NothingIsForgotten, Sessions!Waiting
<1>. QED BY <1>6, <1>7, <1>8, <1>9

LEMMA SessionsGoOn ==
  ASSUME SessionsInv, Sessions!Next \/ UNCHANGED Sessions!vars PROVE SessionsInv'
<1>1. CASE UNCHANGED Sessions!vars
  BY <1>1 DEF Sessions!vars, SessionsInv, SessionsTyped, EntriesFit, OneWaits,
    Sessions!NothingIsForgotten, Sessions!Entry,
              Fresh, Sent, Replied, Answered, Unanswered, StopReaches
<1>2. ASSUME NEW k \in Sessions!Kinds, Sessions!Unsubscribe(k) PROVE SessionsInv'
  <2>1. PICK ks \in SUBSET Sessions!Kinds : ks = {k}
    OBVIOUS
  <2>. QED BY <1>2, <2>1, ClientStopKeeps DEF Sessions!Unsubscribe, Sessions!workerVars
<1>3. CASE Sessions!CloseSocket
  <2>1. PICK ks \in SUBSET Sessions!Kinds : ks = Sessions!Kinds
    OBVIOUS
  <2>. QED BY <1>3, <2>1, ClientStopKeeps DEF Sessions!CloseSocket, Sessions!workerVars
<1>4. ASSUME NEW s \in Sessions!Streams, Sessions!ProviderReturns(s) PROVE SessionsInv'
  BY <1>4, WorkerSaysKeeps DEF Sessions!ProviderReturns
<1>5. ASSUME NEW s \in Sessions!Streams, Sessions!Emit(s) PROVE SessionsInv'
  <2>1. PICK to \in {"starting", "open"} : to = worker[s]
    BY <1>5 DEF Sessions!Emit
  <2>2. worker' = [worker EXCEPT ![s] = to]
    BY <1>5, <2>1 DEF Sessions!Emit, SessionsInv, SessionsTyped
  <2>. QED BY <1>5, <2>1, <2>2, WorkerSaysKeeps DEF Sessions!Emit
<1>6. ASSUME NEW s \in Sessions!Streams, Sessions!EndStream(s) PROVE SessionsInv'
  BY <1>6, WorkerSaysKeeps DEF Sessions!EndStream
<1>7. CASE Sessions!Crash
  BY <1>7, GoneKeeps DEF Sessions!Crash
<1>8. CASE Sessions!Dispose
  BY <1>8, GoneKeeps DEF Sessions!Dispose
<1>9. CASE Sessions!Next
  BY <1>2, <1>3, <1>4, <1>5, <1>6, <1>7, <1>8, <1>9, AskStreamKeeps, OpenStreamKeeps, NoProviderKeeps,
     WorkerStartKeeps, WorkerStopKeeps, HandleResultKeeps, HandleRefusedKeeps, HandleDataKeeps,
     HandleEndKeeps
  DEF Sessions!Next
<1>. QED BY <1>1, <1>9

LEMMA SessionsFollow ==
  ASSUME SessionsInv PROVE Sessions!NothingIsForgotten /\ Sessions!StopsArrive
<1>1. ASSUME NEW s \in stoppedStreams, worker[s] = "open", s \notin missed
      PROVE  \E i \in DOMAIN toWorker : toWorker[i] = Sessions!Message("stop", s)
  <2>1. s \in Sessions!Streams
    BY DEF SessionsInv, SessionsTyped
  <2>2. Has(toWorker, StopOf(s))
    BY <1>1, <2>1 DEF SessionsInv, StopReaches
  <2>. QED BY <2>2 DEF Has, StopOf
<1>. QED BY <1>1 DEF SessionsInv, Sessions!StopsArrive

-----------------------------------------------------------------------------
\* What the constants of this part are.
LEMMA ProcessConstants ==
  /\ MaxPort \in Nat
  /\ MaxSignals \in Nat
  /\ ("none") \notin {"success", "error"}
BY ServerAssumption

PartsSet ==
  [worker : {"off", "on"}, plugin : {"registered", "started", "stopped", "failed"},
   history : {"off", "on"}, webhooks : {"off", "on"}, sockets : {"off", "on", "closing"},
   monitor : {"off", "on"}, listener : {"off", "on", "closing"}]

\* Where a shutdown is: with the server, after the sockets, after the webhooks, and any.
Serving == {"server", "serving"}
Stopping == {"plugins", "stopping"} \cup Serving
Closing == {"sockets"} \cup Stopping
Places == {"none", "history", "webhooks", "done"} \cup Closing
Late == {"listen", "closing", "up", "failed"}

ProcessTyped ==
  /\ upParts \in PartsSet /\ closes \in [0..MaxSignals -> Places]
  /\ signals \in 0..MaxSignals /\ handlers \in BOOLEAN /\ valid \in BOOLEAN /\ revived \in BOOLEAN

\* What runs at each stage of the startup.
StagesFit ==
  /\ ~valid => startStage \in {"port", "config", "failed"} /\ upParts.worker = "off"
  /\ handlers => valid /\ startStage \in Late
  /\ startStage # "up" => upParts.listener = "off"
  /\ startStage \in {"port", "config"} => upParts.history = "off" /\ upParts.sockets = "off"
  /\ startStage \in {"port", "config", "plugins"} => upParts.worker = "off"
  /\ startStage \in {"port", "config", "plugins", "history", "frontend", "monitor"} =>
       upParts.monitor = "off"
  /\ startStage \in {"plugins", "history"} => upParts.sockets = "off" /\ upParts.history = "off"
  /\ startStage \in {"frontend", "monitor", "listen", "closing", "up"} /\ upParts.sockets # "on" =>
       \E c \in 0..MaxSignals : closes[c] \in Closing
  /\ startStage = "closing" <=> closes[0] \notin {"none", "done"}
  /\ upParts.plugin \in {"registered", "stopped"} => upParts.worker = "off"

\* The plugin has been stopped, or never started properly, or was started again.
PluginEnded == upParts.worker = "off" \/ upParts.plugin = "failed" \/ revived

\* What a shutdown has closed when it is where it is.
ClosesFit ==
  \A c \in 0..MaxSignals : closes[c] # "none" =>
    /\ c <= signals /\ valid /\ startStage \in Late /\ upParts.monitor = "off"
    /\ c = 0 => startStage \in {"closing", "failed"}
    /\ closes[c] \in {"webhooks"} \cup Closing => upParts.history = "off"
    /\ closes[c] \in Closing => upParts.sockets # "on" /\ upParts.webhooks = "off"
    /\ closes[c] \in Stopping => upParts.sockets = "off"
    /\ closes[c] \in Serving => PluginEnded
    /\ closes[c] = "serving" => upParts.listener = "closing"
    /\ closes[c] = "done" => c = 0

ProcessInv == ProcessTyped /\ StagesFit /\ ClosesFit /\ Process!ExitIsClean

LEMMA ProcessBegins ==
  ASSUME Process!Init PROVE ProcessInv
<1>1. \A c \in 0..MaxSignals : closes[c] = "none"
  BY DEF Process!Init
<1>2. 0 \in 0..MaxSignals
  BY ProcessConstants
<1>3. ProcessTyped
  BY <1>2 DEF Process!Init, ProcessTyped, PartsSet, Places, Closing
<1>4. upParts.listener = "off" /\ upParts.worker = "off" /\ upParts.history = "off" /\ upParts.sockets = "off"
      /\ upParts.monitor = "off" /\ startStage = "port"
  BY DEF Process!Init
<1>5. StagesFit
  BY <1>1, <1>2, <1>4 DEF Process!Init, StagesFit
<1>6. Process!ExitIsClean
  BY <1>4, ProcessConstants DEF Process!Init, Process!ExitIsClean
<1>. QED BY <1>1, <1>3, <1>5, <1>6 DEF ProcessInv, ClosesFit

LEMMA StartupKeeps ==
  ASSUME ProcessInv, outcome = ("none"),
         \/ \E b \in BOOLEAN : Process!CheckPort(b) \/ Process!StartAll(b) \/ Process!SetupFrontend(b)
         \/ Process!Configure \/ Process!LoadHistory \/ Process!StartMonitor \/ Process!Listen \/ Process!EndFailed
  PROVE  ProcessInv'
<1>. USE ProcessConstants DEF ProcessInv
<1>0. 0 \in 0..MaxSignals
  BY ProcessConstants
<1>1. ASSUME NEW b \in BOOLEAN, Process!CheckPort(b) PROVE ProcessInv'
  <2>1. /\ startStage = "port" /\ startStage' \in {"port", "config"} /\ outcome' \in {("none"), "error"}
        /\ outcome' = "error" => startStage' = "port"
        /\ UNCHANGED <<valid, upParts, handlers, closes, signals, revived>>
    BY <1>1 DEF Process!CheckPort
  <2>2. ProcessTyped'
    BY <2>1 DEF ProcessTyped
  <2>3. StagesFit'
    BY <2>1 DEF StagesFit, Late
  <2>4. ClosesFit'
    BY <2>1 DEF ClosesFit, Late
  <2>5. Process!ExitIsClean'
    BY <2>1 DEF Process!ExitIsClean
  <2>. QED BY <2>2, <2>3, <2>4, <2>5
<1>2. CASE Process!Configure
  <2>1. /\ startStage = "config" /\ startStage' = IF valid THEN "plugins" ELSE "failed"
        /\ UNCHANGED <<valid, upParts, handlers, closes, signals, revived, outcome>>
    BY <1>2 DEF Process!Configure
  <2>2. ProcessTyped'
    BY <2>1 DEF ProcessTyped
  <2>3. StagesFit'
    BY <2>1 DEF StagesFit, Late
  <2>4. ClosesFit'
    BY <2>1 DEF ClosesFit, Late
  <2>5. Process!ExitIsClean'
    BY <2>1 DEF Process!ExitIsClean, Process!AllClosed, StagesFit
  <2>. QED BY <2>2, <2>3, <2>4, <2>5
<1>3. ASSUME NEW b \in BOOLEAN, Process!StartAll(b) PROVE ProcessInv'
  <2>1. /\ startStage = "plugins" /\ startStage' = "history"
        /\ upParts' = [upParts EXCEPT !.worker = "on", !.plugin = IF b THEN "started" ELSE "failed"]
        /\ UNCHANGED <<valid, handlers, closes, signals, revived, outcome>>
    BY <1>3 DEF Process!StartAll
  <2>2. /\ upParts' \in PartsSet /\ upParts'.worker = "on" /\ upParts'.plugin \in {"started", "failed"}
        /\ upParts'.history = upParts.history /\ upParts'.sockets = upParts.sockets
        /\ upParts'.monitor = upParts.monitor /\ upParts'.listener = upParts.listener
    BY <2>1 DEF ProcessTyped, PartsSet
  <2>3. ProcessTyped'
    BY <2>1, <2>2 DEF ProcessTyped
  <2>4. StagesFit'
    BY <2>1, <2>2 DEF StagesFit, Late
  <2>5. ClosesFit'
    BY <2>1 DEF ClosesFit, Late
  <2>6. Process!ExitIsClean'
    BY <2>1, <2>4 DEF Process!ExitIsClean, StagesFit
  <2>. QED BY <2>3, <2>4, <2>5, <2>6
<1>4. CASE Process!LoadHistory
  <2>1. /\ startStage = "history" /\ startStage' = "frontend"
        /\ upParts' = [upParts EXCEPT !.history = "on", !.sockets = "on"]
        /\ UNCHANGED <<valid, handlers, closes, signals, revived, outcome>>
    BY <1>4 DEF Process!LoadHistory
  <2>2. /\ upParts' \in PartsSet /\ upParts'.sockets = "on" /\ upParts'.worker = upParts.worker
        /\ upParts'.plugin = upParts.plugin /\ upParts'.monitor = upParts.monitor
        /\ upParts'.listener = upParts.listener
    BY <2>1 DEF ProcessTyped, PartsSet
  <2>3. ProcessTyped'
    BY <2>1, <2>2 DEF ProcessTyped
  <2>4. StagesFit'
    BY <2>1, <2>2 DEF StagesFit, Late
  <2>5. ClosesFit'
    BY <2>1 DEF ClosesFit, Late
  <2>6. Process!ExitIsClean'
    BY <2>1, <2>4 DEF Process!ExitIsClean, StagesFit
  <2>. QED BY <2>3, <2>4, <2>5, <2>6
<1>5. ASSUME NEW b \in BOOLEAN, Process!SetupFrontend(b) PROVE ProcessInv'
  <2>1. /\ startStage = "frontend" /\ startStage' \in {"frontend", "monitor"}
        /\ outcome' \in {("none"), "error"} /\ (outcome' = "error" => startStage' = "frontend")
        /\ UNCHANGED <<valid, upParts, handlers, closes, signals, revived>>
    BY <1>5 DEF Process!SetupFrontend, Process!Exit
  <2>2. ProcessTyped'
    BY <2>1 DEF ProcessTyped
  <2>3. StagesFit'
    BY <2>1 DEF StagesFit, Late
  <2>4. ClosesFit'
    BY <2>1 DEF ClosesFit, Late
  <2>5. Process!ExitIsClean'
    BY <2>1 DEF Process!ExitIsClean
  <2>. QED BY <2>2, <2>3, <2>4, <2>5
<1>6. CASE Process!StartMonitor
  <2>1. /\ startStage = "monitor" /\ startStage' = "listen" /\ handlers' = TRUE
        /\ upParts' = [upParts EXCEPT !.monitor = "on"]
        /\ UNCHANGED <<valid, closes, signals, revived, outcome>>
    BY <1>6 DEF Process!StartMonitor, Process!Set
  <2>2. /\ upParts' \in PartsSet /\ upParts'.sockets = upParts.sockets /\ upParts'.worker = upParts.worker
        /\ upParts'.plugin = upParts.plugin /\ upParts'.listener = upParts.listener
    BY <2>1 DEF ProcessTyped, PartsSet
  <2>3. ProcessTyped'
    BY <2>1, <2>2 DEF ProcessTyped
  <2>4. StagesFit'
    BY <2>1, <2>2 DEF StagesFit, Late
  <2>5. ClosesFit'
    BY <2>1 DEF ClosesFit, Late
  <2>6. Process!ExitIsClean'
    BY <2>1, <2>4 DEF Process!ExitIsClean, StagesFit
  <2>. QED BY <2>3, <2>4, <2>5, <2>6
<1>7. CASE Process!Listen
  <2>0. startStage = "listen" /\ UNCHANGED <<valid, handlers, signals, revived, outcome>>
        /\ upParts.listener = "off" /\ closes[0] = "none" /\ valid
    BY <1>7, <1>0 DEF Process!Listen, StagesFit, ClosesFit, ProcessTyped, Late
  <2>1. CASE port \in taken
    <3>1. /\ startStage' = "closing" /\ upParts' = [upParts EXCEPT !.monitor = "off"]
          /\ closes' = [closes EXCEPT ![0] = "history"]
      BY <1>7, <2>1 DEF Process!Listen, Process!Set, Process!At
    <3>2. /\ upParts' \in PartsSet /\ upParts'.sockets = upParts.sockets /\ upParts'.worker = upParts.worker
          /\ upParts'.plugin = upParts.plugin /\ upParts'.listener = "off" /\ upParts'.monitor = "off"
          /\ upParts'.history = upParts.history /\ upParts'.webhooks = upParts.webhooks
      BY <2>0, <3>1 DEF ProcessTyped, PartsSet
    <3>3. /\ closes' \in [0..MaxSignals -> Places] /\ closes'[0] = "history"
          /\ \A c \in 0..MaxSignals : c # 0 => closes'[c] = closes[c]
      BY <1>0, <3>1 DEF ProcessTyped, Places
    <3>4. ProcessTyped'
      BY <2>0, <3>2, <3>3 DEF ProcessTyped
    <3>5. StagesFit'
      BY <2>0, <3>1, <3>2, <3>3 DEF StagesFit, Late, Closing, Stopping, Serving
    <3>6. ClosesFit'
      BY <2>0, <3>1, <3>2, <3>3, ProcessConstants
      DEF ProcessTyped, ClosesFit, Late, Closing, Stopping, Serving, PluginEnded
    <3>7. Process!ExitIsClean'
      BY <2>0, <3>1 DEF Process!ExitIsClean
    <3>. QED BY <3>4, <3>5, <3>6, <3>7
  <2>2. CASE port \notin taken
    <3>1. startStage' = "up" /\ upParts' = [upParts EXCEPT !.listener = "on"] /\ closes' = closes
      BY <1>7, <2>2 DEF Process!Listen, Process!Set
    <3>2. /\ upParts' \in PartsSet /\ upParts'.sockets = upParts.sockets /\ upParts'.worker = upParts.worker
          /\ upParts'.plugin = upParts.plugin /\ upParts'.monitor = upParts.monitor
          /\ upParts'.history = upParts.history /\ upParts'.webhooks = upParts.webhooks
      BY <3>1 DEF ProcessTyped, PartsSet
    <3>3. \A c \in 0..MaxSignals : closes[c] # "serving"
      BY <2>0 DEF ClosesFit
    <3>4. ProcessTyped'
      BY <2>0, <3>1, <3>2 DEF ProcessTyped
    <3>5. StagesFit'
      BY <2>0, <3>1, <3>2 DEF StagesFit, Late
    <3>6. ClosesFit'
      BY <2>0, <3>1, <3>2, <3>3 DEF ClosesFit, Late, PluginEnded
    <3>7. Process!ExitIsClean'
      BY <2>0, <3>1 DEF Process!ExitIsClean
    <3>. QED BY <3>4, <3>5, <3>6, <3>7
  <2>. QED BY <2>1, <2>2
<1>8. CASE Process!EndFailed
  <2>1. /\ startStage = "failed" /\ outcome' = "error"
        /\ UNCHANGED <<valid, startStage, upParts, handlers, closes, signals, revived>>
    BY <1>8 DEF Process!EndFailed, Process!Exit
  <2>2. ProcessTyped'
    BY <2>1 DEF ProcessTyped
  <2>3. StagesFit'
    BY <2>1 DEF StagesFit, Late
  <2>4. ClosesFit'
    BY <2>1 DEF ClosesFit, PluginEnded
  <2>5. Process!ExitIsClean'
    BY <2>1 DEF Process!ExitIsClean, Process!AllClosed
  <2>. QED BY <2>2, <2>3, <2>4, <2>5
<1>. QED BY <1>1, <1>2, <1>3, <1>4, <1>5, <1>6, <1>7, <1>8

LEMMA PlaceTaken ==
  ASSUME ProcessTyped, NEW c \in 0..MaxSignals, NEW place \in Places, Process!At(c, place)
  PROVE  /\ closes' \in [0..MaxSignals -> Places] /\ closes'[c] = place
         /\ \A d \in 0..MaxSignals : d # c => closes'[d] = closes[d]
BY DEF ProcessTyped, Process!At

\* The exit of a shutdown that a signal began, or the end of the one of a failed startup.
LEMMA SettlesKeeps ==
  ASSUME ProcessInv, outcome = ("none"), NEW c \in 0..MaxSignals,
         closes[c] \in {"webhooks", "server", "serving"},
         NEW code \in {"error", "success"}, Process!Settles(c, code), upParts' = upParts,
         UNCHANGED <<valid, signals, revived, handlers>>,
         code = "error" => closes[c] = "webhooks" /\ upParts.sockets = "off",
         code = "success" => closes[c] \in Serving /\ upParts.listener # "on"
  PROVE  ProcessInv'
<1>. USE ProcessConstants DEF ProcessInv
<1>0. /\ c <= signals /\ valid /\ startStage \in Late /\ upParts.monitor = "off"
      /\ c = 0 => startStage \in {"closing", "failed"}
      /\ closes[c] \in Closing => upParts.sockets # "on" /\ upParts.webhooks = "off"
      /\ upParts.history = "off"
      /\ closes[c] \in Serving => PluginEnded /\ upParts.sockets = "off"
  BY DEF ClosesFit, Closing, Stopping, Serving
<1>1. code = "success" => Process!AllClosed /\ upParts.webhooks = "off"
  BY <1>0 DEF Process!AllClosed, PluginEnded, Serving, Stopping, Closing
<1>2. CASE c > 0
  <2>1. outcome' = code /\ UNCHANGED <<startStage, closes>>
    BY <1>2 DEF Process!Settles, Process!Exit
  <2>2. ProcessTyped' /\ StagesFit' /\ ClosesFit'
    BY <2>1 DEF ProcessTyped, StagesFit, ClosesFit, PluginEnded
  <2>3. ASSUME code = "error", signals <= 1 PROVE startStage \in {"closing", "failed"}
    <3>1. c = 1 /\ closes[1] = "webhooks" /\ upParts.sockets = "off" /\ signals \in Nat
      BY <1>0, <1>2, <2>3 DEF ProcessTyped
    <3>2. CASE startStage \in {"listen", "up"}
      <4>1. PICK d \in 0..MaxSignals : closes[d] \in Closing
        BY <3>1, <3>2 DEF StagesFit, Late
      <4>2. d <= signals /\ d # 1
        BY <3>1, <4>1 DEF ClosesFit, Closing, Stopping, Serving
      <4>3. d = 0
        BY <2>3, <3>1, <4>2
      <4>. QED BY <3>2, <4>1, <4>3 DEF ClosesFit, Closing, Stopping, Serving
    <3>. QED BY <1>0, <3>2 DEF Late
  <2>4. Process!ExitIsClean'
    BY <1>0, <1>1, <2>1, <2>3 DEF Process!ExitIsClean, Process!AllClosed
  <2>. QED BY <2>2, <2>4
<1>3. CASE c = 0
  <2>1. startStage' = "failed" /\ Process!At(0, "done") /\ outcome' = ("none")
    BY <1>3 DEF Process!Settles
  <2>2. /\ closes' \in [0..MaxSignals -> Places] /\ closes'[0] = "done" /\ 0 \in 0..MaxSignals
        /\ \A d \in 0..MaxSignals : d # 0 => closes'[d] = closes[d]
    BY <1>3, <2>1, PlaceTaken DEF Places
  <2>3. startStage = "closing"
    BY <1>3 DEF StagesFit, Late
  <2>4. ProcessTyped'
    BY <2>2 DEF ProcessTyped
  <2>5. StagesFit'
    BY <1>0, <2>1, <2>2, <2>3 DEF StagesFit, Late
  <2>6. ClosesFit'
    BY <1>0, <1>3, <2>1, <2>2 DEF ClosesFit, Late, PluginEnded, Closing, Stopping, Serving
  <2>7. signals = 0 => code = "success"
    <3>1. SUFFICES ASSUME signals = 0, code = "error" PROVE FALSE
      OBVIOUS
    <3>2. PICK d \in 0..MaxSignals : closes[d] \in Closing
      BY <2>3, <3>1 DEF StagesFit, Late
    <3>3. d <= 0
      BY <3>1, <3>2 DEF ClosesFit, Closing, Stopping, Serving
    <3>. QED BY <1>3, <3>1, <3>2, <3>3 DEF Closing, Stopping, Serving
  <2>8. Process!ExitIsClean'
    BY <1>0, <1>1, <2>1, <2>7 DEF Process!ExitIsClean, Process!AllClosed
  <2>. QED BY <2>4, <2>5, <2>6, <2>8
<1>. QED BY <1>2, <1>3

LEMMA ShutdownKeeps ==
  ASSUME ProcessInv, outcome = ("none"), NEW c \in 0..MaxSignals,
         \/ Process!HistoryCloses(c) \/ Process!WebhooksStop(c) \/ Process!Stop(c)
         \/ Process!Stopped(c) \/ Process!CloseServer(c) \/ Process!ServerCloses(c)
  PROVE  ProcessInv'
<1>. USE ProcessConstants DEF ProcessInv
<1>0. ASSUME closes[c] \notin {"none", "done"}
      PROVE  /\ c <= signals /\ valid /\ startStage \in Late /\ upParts.monitor = "off"
             /\ c = 0 => startStage \in {"closing", "failed"}
             /\ closes[c] \in {"webhooks"} \cup Closing => upParts.history = "off"
             /\ closes[c] \in Closing => upParts.sockets # "on" /\ upParts.webhooks = "off"
             /\ closes[c] \in Stopping => upParts.sockets = "off"
             /\ closes[c] \in Serving => PluginEnded
             /\ closes[c] = "serving" => upParts.listener = "closing"
             /\ startStage = "failed" => c # 0
  BY <1>0 DEF ClosesFit, StagesFit
<1>1. CASE Process!HistoryCloses(c)
  <2>1. /\ closes[c] = "history" /\ Process!At(c, "webhooks") /\ upParts' = [upParts EXCEPT !.history = "off"]
        /\ UNCHANGED <<valid, startStage, handlers, signals, revived, outcome>>
    BY <1>1 DEF Process!HistoryCloses, Process!Set
  <2>2. /\ closes' \in [0..MaxSignals -> Places] /\ closes'[c] = "webhooks"
        /\ \A d \in 0..MaxSignals : d # c => closes'[d] = closes[d]
    BY <2>1, PlaceTaken DEF Places
  <2>3. /\ upParts' \in PartsSet /\ upParts'.history = "off" /\ upParts'.sockets = upParts.sockets
        /\ upParts'.worker = upParts.worker /\ upParts'.plugin = upParts.plugin /\ upParts'.monitor = upParts.monitor
        /\ upParts'.listener = upParts.listener /\ upParts'.webhooks = upParts.webhooks
    BY <2>1 DEF ProcessTyped, PartsSet
  <2>4. ProcessTyped'
    BY <2>1, <2>2, <2>3 DEF ProcessTyped
  <2>5. \A d \in 0..MaxSignals : closes[d] \in Closing => closes'[d] \in Closing
    BY <2>1, <2>2 DEF Closing, Stopping, Serving
  <2>6. StagesFit'
    BY <1>0, <2>1, <2>2, <2>3, <2>5 DEF StagesFit, Late
  <2>7. ClosesFit'
    BY <1>0, <2>1, <2>2, <2>3 DEF ClosesFit, PluginEnded, Closing, Stopping, Serving
  <2>8. Process!ExitIsClean'
    BY <2>1, <2>3 DEF Process!ExitIsClean, Process!AllClosed
  <2>. QED BY <2>4, <2>6, <2>7, <2>8
<1>2. CASE Process!WebhooksStop(c) /\ upParts.sockets = "off"
  <2>1. /\ closes[c] = "webhooks" /\ Process!Settles(c, "error") /\ UNCHANGED <<valid, signals, revived>>
    BY <1>2 DEF Process!WebhooksStop
  <2>2. upParts' = upParts /\ handlers' = handlers
    BY <2>1 DEF Process!Settles, Process!Exit
  <2>. QED BY <1>2, <2>1, <2>2, SettlesKeeps
<1>3. CASE Process!WebhooksStop(c) /\ upParts.sockets # "off"
  <2>1. /\ closes[c] = "webhooks" /\ Process!At(c, "sockets") /\ handlers' = FALSE
        /\ upParts' = [upParts EXCEPT !.webhooks = "off", !.sockets = "closing"]
        /\ UNCHANGED <<valid, startStage, signals, revived, outcome>>
    BY <1>3 DEF Process!WebhooksStop
  <2>2. /\ closes' \in [0..MaxSignals -> Places] /\ closes'[c] = "sockets"
        /\ \A d \in 0..MaxSignals : d # c => closes'[d] = closes[d]
    BY <2>1, PlaceTaken DEF Places, Closing
  <2>3. /\ upParts' \in PartsSet /\ upParts'.history = upParts.history /\ upParts'.sockets = "closing"
        /\ upParts'.worker = upParts.worker /\ upParts'.plugin = upParts.plugin /\ upParts'.monitor = upParts.monitor
        /\ upParts'.listener = upParts.listener /\ upParts'.webhooks = "off"
    BY <2>1 DEF ProcessTyped, PartsSet
  <2>4. ProcessTyped'
    BY <2>1, <2>2, <2>3 DEF ProcessTyped
  <2>5. closes'[c] \in Closing
    BY <2>2 DEF Closing
  <2>6. StagesFit'
    BY <1>0, <2>1, <2>2, <2>3, <2>5 DEF StagesFit, Late
  <2>7. \A d \in 0..MaxSignals : closes[d] \notin Stopping
    BY <1>3 DEF ClosesFit, Stopping, Serving
  <2>8. ClosesFit'
    BY <1>0, <2>1, <2>2, <2>3, <2>7 DEF ClosesFit, PluginEnded, Closing, Stopping, Serving
  <2>9. Process!ExitIsClean'
    BY <1>0, <1>3, <2>1, <2>3 DEF Process!ExitIsClean, Process!AllClosed
  <2>. QED BY <2>4, <2>6, <2>8, <2>9
<1>4. CASE Process!Stop(c)
  <2>1. /\ closes[c] = "plugins" /\ Process!At(c, IF upParts.plugin = "started" THEN "stopping" ELSE "server")
        /\ UNCHANGED <<valid, startStage, upParts, handlers, signals, revived, outcome>>
    BY <1>4 DEF Process!Stop
  <2>2. PICK place \in {"stopping", "server"} :
          Process!At(c, place) /\ (place = "server" => upParts.plugin # "started")
    BY <2>1
  <2>3. /\ closes' \in [0..MaxSignals -> Places] /\ closes'[c] = place
        /\ \A d \in 0..MaxSignals : d # c => closes'[d] = closes[d]
    BY <2>2, PlaceTaken DEF Places, Closing, Stopping, Serving
  <2>4. place = "server" => PluginEnded
    BY <2>2 DEF ProcessTyped, PartsSet, StagesFit, PluginEnded
  <2>5. ProcessTyped'
    BY <2>1, <2>3 DEF ProcessTyped
  <2>6. closes'[c] \in Closing
    BY <2>3 DEF Closing, Stopping, Serving
  <2>7. StagesFit'
    BY <1>0, <2>1, <2>3, <2>6 DEF StagesFit, Late
  <2>8. ClosesFit'
    BY <1>0, <2>1, <2>3, <2>4 DEF ClosesFit, PluginEnded, Closing, Stopping, Serving
  <2>9. Process!ExitIsClean'
    BY <2>1 DEF Process!ExitIsClean, Process!AllClosed
  <2>. QED BY <2>5, <2>7, <2>8, <2>9
<1>5. CASE Process!Stopped(c)
  <2>1. /\ closes[c] = "stopping" /\ Process!At(c, "server")
        /\ UNCHANGED <<valid, startStage, handlers, signals, revived, outcome>>
    BY <1>5 DEF Process!Stopped
  <2>2. PICK ends \in {"stopped", "failed"} :
          upParts' = [upParts EXCEPT !.worker = "off", !.plugin = ends]
    BY <1>5 DEF Process!Stopped
  <2>3. /\ closes' \in [0..MaxSignals -> Places] /\ closes'[c] = "server"
        /\ \A d \in 0..MaxSignals : d # c => closes'[d] = closes[d]
    BY <2>1, PlaceTaken DEF Places, Closing, Stopping, Serving
  <2>4. /\ upParts' \in PartsSet /\ upParts'.history = upParts.history /\ upParts'.sockets = upParts.sockets
        /\ upParts'.worker = "off" /\ upParts'.monitor = upParts.monitor
        /\ upParts'.listener = upParts.listener /\ upParts'.webhooks = upParts.webhooks
    BY <2>2 DEF ProcessTyped, PartsSet
  <2>5. ProcessTyped'
    BY <2>1, <2>3, <2>4 DEF ProcessTyped
  <2>6. closes'[c] \in Closing
    BY <2>3 DEF Closing, Stopping, Serving
  <2>7. StagesFit'
    BY <1>0, <2>1, <2>3, <2>4, <2>6 DEF StagesFit, Late
  <2>8. ClosesFit'
    BY <1>0, <2>1, <2>3, <2>4 DEF ClosesFit, PluginEnded, Closing, Stopping, Serving
  <2>9. Process!ExitIsClean'
    BY <2>1, <2>4 DEF Process!ExitIsClean, Process!AllClosed
  <2>. QED BY <2>5, <2>7, <2>8, <2>9
<1>6. CASE Process!CloseServer(c) /\ upParts.listener = "on"
  <2>1. /\ closes[c] = "server" /\ Process!At(c, "serving") /\ upParts' = [upParts EXCEPT !.listener = "closing"]
        /\ UNCHANGED <<valid, startStage, handlers, signals, revived, outcome>>
    BY <1>6 DEF Process!CloseServer, Process!Set
  <2>2. /\ closes' \in [0..MaxSignals -> Places] /\ closes'[c] = "serving"
        /\ \A d \in 0..MaxSignals : d # c => closes'[d] = closes[d]
    BY <2>1, PlaceTaken DEF Places, Closing, Stopping, Serving
  <2>3. /\ upParts' \in PartsSet /\ upParts'.history = upParts.history /\ upParts'.sockets = upParts.sockets
        /\ upParts'.worker = upParts.worker /\ upParts'.plugin = upParts.plugin /\ upParts'.monitor = upParts.monitor
        /\ upParts'.listener = "closing" /\ upParts'.webhooks = upParts.webhooks
    BY <2>1 DEF ProcessTyped, PartsSet
  <2>4. ProcessTyped'
    BY <2>1, <2>2, <2>3 DEF ProcessTyped
  <2>5. closes'[c] \in Closing
    BY <2>2 DEF Closing, Stopping, Serving
  <2>6. StagesFit'
    BY <1>0, <1>6, <2>1, <2>2, <2>3, <2>5 DEF StagesFit, Late
  <2>7. ClosesFit'
    BY <1>0, <2>1, <2>2, <2>3 DEF ClosesFit, PluginEnded, Closing, Stopping, Serving
  <2>8. Process!ExitIsClean'
    BY <2>1, <2>3 DEF Process!ExitIsClean, Process!AllClosed
  <2>. QED BY <2>4, <2>6, <2>7, <2>8
<1>7. CASE Process!CloseServer(c) /\ upParts.listener # "on"
  <2>1. /\ closes[c] = "server" /\ Process!Settles(c, "success") /\ UNCHANGED <<valid, signals, revived>>
    BY <1>7 DEF Process!CloseServer
  <2>2. upParts' = upParts /\ handlers' = handlers
    BY <2>1 DEF Process!Settles, Process!Exit
  <2>. QED BY <1>7, <2>1, <2>2, SettlesKeeps DEF Serving
<1>8. CASE Process!ServerCloses(c)
  <2>1. /\ closes[c] = "serving" /\ Process!Settles(c, "success") /\ UNCHANGED <<valid, signals, revived>>
    BY <1>8 DEF Process!ServerCloses
  <2>2. upParts' = upParts /\ handlers' = handlers
    BY <2>1 DEF Process!Settles, Process!Exit
  <2>. QED BY <1>0, <2>1, <2>2, SettlesKeeps DEF Serving
<1>. QED BY <1>1, <1>2, <1>3, <1>4, <1>5, <1>6, <1>7, <1>8

LEMMA OthersKeep ==
  ASSUME ProcessInv, outcome = ("none"),
         Process!Signal \/ Process!SocketsClose \/ Process!Request \/ \E p \in 0..MaxPort : Process!Bind(p)
  PROVE  ProcessInv'
<1>. USE ProcessConstants DEF ProcessInv
<1>1. CASE Process!Signal /\ handlers
  <2>1. /\ signals' = signals + 1 /\ signals' \in 0..MaxSignals /\ signals' # 0 /\ signals \in Nat
        /\ valid /\ startStage \in Late
    BY <1>1, ProcessConstants DEF Process!Signal, ProcessTyped, StagesFit
  <2>2. /\ Process!At(signals', "history") /\ upParts' = [upParts EXCEPT !.monitor = "off"]
        /\ UNCHANGED <<valid, startStage, handlers, revived, outcome>>
    BY <1>1 DEF Process!Signal, Process!Set
  <2>3. PICK c \in 0..MaxSignals : c = signals'
    BY <2>1
  <2>4. /\ closes' \in [0..MaxSignals -> Places] /\ closes'[c] = "history"
        /\ \A d \in 0..MaxSignals : d # c => closes'[d] = closes[d]
    BY <2>2, <2>3, PlaceTaken DEF Places
  <2>5. closes[c] = "none" /\ 0 \in 0..MaxSignals
    BY <2>1, <2>3, ProcessConstants DEF ClosesFit
  <2>6. /\ upParts' \in PartsSet /\ upParts'.history = upParts.history /\ upParts'.sockets = upParts.sockets
        /\ upParts'.worker = upParts.worker /\ upParts'.plugin = upParts.plugin /\ upParts'.monitor = "off"
        /\ upParts'.listener = upParts.listener /\ upParts'.webhooks = upParts.webhooks
    BY <2>2 DEF ProcessTyped, PartsSet
  <2>7. ProcessTyped'
    BY <2>1, <2>2, <2>4, <2>6 DEF ProcessTyped
  <2>8. \A d \in 0..MaxSignals : closes[d] \in Closing => closes'[d] \in Closing
    BY <2>4, <2>5 DEF Closing, Stopping, Serving
  <2>9. StagesFit'
    BY <2>1, <2>2, <2>3, <2>4, <2>5, <2>6, <2>8 DEF StagesFit, Late
  <2>10. ASSUME NEW d \in 0..MaxSignals, d <= signals PROVE d <= signals'
    BY <2>1, <2>10
  <2>11. ClosesFit'
    BY <2>1, <2>2, <2>3, <2>4, <2>6, <2>10 DEF ClosesFit, PluginEnded, Closing, Stopping, Serving
  <2>12. Process!ExitIsClean'
    BY <2>1, <2>2, <2>6 DEF Process!ExitIsClean, Process!AllClosed
  <2>. QED BY <2>7, <2>9, <2>11, <2>12
<1>2. CASE Process!Signal /\ ~handlers
  <2>1. /\ signals' = signals + 1 /\ signals' \in 0..MaxSignals /\ signals' # 0 /\ signals \in Nat
        /\ outcome' = "killed" /\ UNCHANGED <<valid, startStage, upParts, handlers, closes, revived>>
    BY <1>2, ProcessConstants DEF Process!Signal, ProcessTyped, Process!Exit
  <2>2. ProcessTyped'
    BY <2>1 DEF ProcessTyped
  <2>3. StagesFit'
    BY <2>1 DEF StagesFit, Late
  <2>4. ASSUME NEW d \in 0..MaxSignals, d <= signals PROVE d <= signals'
    BY <2>1, <2>4
  <2>5. ClosesFit'
    BY <2>1, <2>4 DEF ClosesFit, PluginEnded
  <2>6. Process!ExitIsClean'
    BY <2>1 DEF Process!ExitIsClean
  <2>. QED BY <2>2, <2>3, <2>5, <2>6
<1>3. CASE Process!SocketsClose
  <2>1. /\ upParts.sockets = "closing" /\ upParts' = [upParts EXCEPT !.sockets = "off"]
        /\ closes' = [c \in DOMAIN closes |-> IF closes[c] = "sockets" THEN "plugins" ELSE closes[c]]
        /\ UNCHANGED <<valid, startStage, handlers, signals, revived, outcome>>
    BY <1>3 DEF Process!SocketsClose, Process!Set
  <2>2. /\ upParts' \in PartsSet /\ upParts'.history = upParts.history /\ upParts'.sockets = "off"
        /\ upParts'.worker = upParts.worker /\ upParts'.plugin = upParts.plugin /\ upParts'.monitor = upParts.monitor
        /\ upParts'.listener = upParts.listener /\ upParts'.webhooks = upParts.webhooks
    BY <2>1 DEF ProcessTyped, PartsSet
  <2>3. /\ closes' \in [0..MaxSignals -> Places]
        /\ \A c \in 0..MaxSignals :
             closes'[c] = IF closes[c] = "sockets" THEN "plugins" ELSE closes[c]
    BY <2>1 DEF ProcessTyped, Places, Closing, Stopping
  <2>4. ProcessTyped'
    BY <2>1, <2>2, <2>3 DEF ProcessTyped
  <2>5. \A c \in 0..MaxSignals : closes[c] \in Closing => closes'[c] \in Closing
    BY <2>3 DEF Closing, Stopping, Serving
  <2>6. 0 \in 0..MaxSignals
    BY ProcessConstants
  <2>7. StagesFit'
    BY <2>1, <2>2, <2>3, <2>5, <2>6 DEF StagesFit, Late
  <2>8. ClosesFit'
    BY <2>1, <2>2, <2>3 DEF ClosesFit, PluginEnded, Closing, Stopping, Serving
  <2>9. Process!ExitIsClean'
    BY <2>1, <2>2 DEF Process!ExitIsClean, Process!AllClosed
  <2>. QED BY <2>4, <2>7, <2>8, <2>9
<1>4. CASE Process!Request
  <2>1. /\ upParts.listener # "off" /\ upParts' = [upParts EXCEPT !.worker = "on", !.plugin = "started"]
        /\ revived' = (revived \/ signals > 0)
        /\ UNCHANGED <<valid, startStage, handlers, closes, signals, outcome>>
    BY <1>4 DEF Process!Request
  <2>2. /\ upParts' \in PartsSet /\ upParts'.history = upParts.history /\ upParts'.sockets = upParts.sockets
        /\ upParts'.plugin = "started" /\ upParts'.monitor = upParts.monitor
        /\ upParts'.listener = upParts.listener /\ upParts'.webhooks = upParts.webhooks
    BY <2>1 DEF ProcessTyped, PartsSet
  <2>3. startStage = "up" /\ valid
    BY <2>1 DEF StagesFit, Late
  <2>4. revived' \in BOOLEAN /\ signals \in Nat
    BY <2>1 DEF ProcessTyped
  <2>5. signals > 0 => revived'
    BY <2>1, Zenon
  <2>6. ProcessTyped'
    BY <2>1, <2>2, <2>4 DEF ProcessTyped
  <2>7. StagesFit'
    BY <2>1, <2>2, <2>3 DEF StagesFit, Late
  <2>8. ASSUME NEW c \in 0..MaxSignals, closes[c] # "none" PROVE revived'
    <3>1. c <= signals /\ c # 0
      BY <2>3, <2>8 DEF ClosesFit
    <3>. QED BY <2>4, <2>5, <3>1
  <2>9. ClosesFit'
    BY <2>1, <2>2, <2>8 DEF ClosesFit, PluginEnded
  <2>10. Process!ExitIsClean'
    BY <2>1, <2>3 DEF Process!ExitIsClean
  <2>. QED BY <2>6, <2>7, <2>9, <2>10
<1>5. ASSUME NEW p \in 0..MaxPort, Process!Bind(p) PROVE ProcessInv'
  <2>1. UNCHANGED <<valid, startStage, upParts, handlers, closes, signals, revived, outcome>>
    BY <1>5 DEF Process!Bind
  <2>. QED BY <2>1 DEF ProcessTyped, StagesFit, ClosesFit, PluginEnded, Process!ExitIsClean,
    Process!AllClosed
<1>. QED BY <1>1, <1>2, <1>3, <1>4, <1>5

LEMMA ProcessGoesOn ==
  ASSUME ProcessInv, Process!Next \/ UNCHANGED Process!vars PROVE ProcessInv'
<1>1. CASE UNCHANGED Process!vars
  BY <1>1 DEF Process!vars, ProcessInv, ProcessTyped, StagesFit, ClosesFit, PluginEnded,
    Process!ExitIsClean, Process!AllClosed
<1>2. CASE Process!Next
  BY <1>2, StartupKeeps, ShutdownKeeps, OthersKeep DEF Process!Next
<1>. QED BY <1>1, <1>2

-----------------------------------------------------------------------------
\* A workload and its source as the monitor alerts them, whether it has stopped or not.
AlertsInv == Alerts!TypeOK /\ Alerts!AlertsAreCurrent

LEMMA AlertsBegin ==
  ASSUME Alerts!Init PROVE AlertsInv
BY DEF Alerts!Init, AlertsInv, Alerts!TypeOK, Alerts!AlertsAreCurrent, Alerts!Metrics, Alerts!Reported

\* What a collection says of the connection, and of the health.
LEMMA ConnectionObserved ==
  ASSUME connected \in {"unknown", "yes", "no"}, connAlert \in {"unknown", "yes", "no"},
         ~stopped => connected = connAlert,
         NEW c \in {"yes", "no"}, Alerts!ObserveConnection(c)
  PROVE  /\ connected' \in {"unknown", "yes", "no"} /\ connAlert' \in {"unknown", "yes", "no"}
         /\ ~stopped => connected' = connAlert'
BY DEF Alerts!ObserveConnection

LEMMA HealthObserved ==
  ASSUME health \in Alerts!Healths \cup {"unknown"}, healthAlert \in Alerts!Healths \cup {"unknown"},
         health \in Alerts!Reported => healthAlert = health,
         NEW h \in Alerts!Healths \cup {"unknown"}, Alerts!ObserveHealth(h)
  PROVE  /\ health' \in Alerts!Healths \cup {"unknown"} /\ healthAlert' \in Alerts!Healths \cup {"unknown"}
         /\ health' \in Alerts!Reported => healthAlert' = health'
BY DEF Alerts!ObserveHealth, Alerts!Healths, Alerts!Reported

LEMMA AnomaliesForgotten ==
  ASSUME Alerts!ForgetAnomalies
  PROVE  /\ active' \subseteq Alerts!Metrics
         /\ anomalyAlert' \in [Alerts!Metrics -> {"none", "raised", "recovered"}]
         /\ \A m \in Alerts!Metrics : m \in active' <=> anomalyAlert'[m] = "raised"
BY DEF Alerts!ForgetAnomalies, Alerts!Metrics

\* One analysis: an entry is made or dropped with its alert.
LEMMA MetricAnalyzed ==
  ASSUME AlertsInv, NEW m \in Alerts!Metrics, NEW found \in BOOLEAN, Alerts!Analyzed(m, found)
  PROVE  /\ active' \subseteq Alerts!Metrics
         /\ anomalyAlert' \in [Alerts!Metrics -> {"none", "raised", "recovered"}]
         /\ ~stopped => \A o \in Alerts!Metrics : o \in active' <=> anomalyAlert'[o] = "raised"
<1>1. /\ active \subseteq Alerts!Metrics
      /\ anomalyAlert \in [Alerts!Metrics -> {"none", "raised", "recovered"}]
      /\ ~stopped => \A o \in Alerts!Metrics : o \in active <=> anomalyAlert[o] = "raised"
  BY DEF AlertsInv, Alerts!TypeOK, Alerts!AlertsAreCurrent
<1>. DEFINE told == IF stopped \/ found = (m \in active) THEN anomalyAlert[m]
                    ELSE IF found THEN "raised" ELSE "recovered"
<1>2. anomalyAlert' = [anomalyAlert EXCEPT ![m] = told]
  BY DEF Alerts!Analyzed
<1>3. active' = IF found THEN active \cup {m} ELSE active \ {m}
  BY DEF Alerts!Analyzed
<1>4. told \in {"none", "raised", "recovered"}
  BY <1>1
<1>5. ASSUME ~stopped PROVE found <=> told = "raised"
  BY <1>1, <1>5
<1>. HIDE DEF told
<1>. QED BY <1>1, <1>2, <1>3, <1>4, <1>5

\* A stop of the monitor is no step of the alerts alone.
LEMMA AlertsGoOn ==
  ASSUME AlertsInv,
         Alerts!Next \/ (UNCHANGED <<node, stage, active, connected, health, anomalyAlert,
                              healthAlert, connAlert>>
                  /\ (stopped' = stopped \/ stopped' = TRUE))
  PROVE  AlertsInv'
<1>. USE DEF AlertsInv, Alerts!TypeOK, Alerts!AlertsAreCurrent
<1>1. ASSUME NEW n \in {"idle", "running"}, NEW h \in Alerts!Healths, Alerts!Present(n, h) PROVE AlertsInv'
  <2>1. Alerts!ObserveConnection("yes") /\ Alerts!ObserveHealth(h) /\ ~stopped /\ node' = n
        /\ UNCHANGED <<stage, active, stopped, anomalyAlert>>
    BY <1>1 DEF Alerts!Present
  <2>. QED BY <2>1, ConnectionObserved, HealthObserved
<1>2. CASE Alerts!Absent
  <2>1. Alerts!ObserveConnection("yes") /\ Alerts!ObserveHealth("unknown") /\ Alerts!ForgetAnomalies /\ ~stopped
        /\ node' = "absent" /\ UNCHANGED <<stage, stopped>>
    BY <1>2 DEF Alerts!Absent
  <2>. QED BY <2>1, ConnectionObserved, HealthObserved, AnomaliesForgotten
<1>3. CASE Alerts!Outage
  <2>1. Alerts!ObserveConnection("no") /\ ~stopped /\ node' = "absent"
        /\ UNCHANGED <<stage, active, health, stopped, anomalyAlert, healthAlert>>
    BY <1>3 DEF Alerts!Outage
  <2>. QED BY <2>1, ConnectionObserved
<1>4. CASE Alerts!SourceRemoved
  <2>1. Alerts!ForgetSource /\ Alerts!ForgetAnomalies /\ ~stopped
        /\ node' = "absent" /\ UNCHANGED <<stage, stopped>>
    BY <1>4 DEF Alerts!SourceRemoved
  <2>. QED BY <2>1, AnomaliesForgotten DEF Alerts!ForgetSource, Alerts!Reported
<1>5. ASSUME NEW m \in Alerts!Metrics, NEW found \in BOOLEAN,
             Alerts!AnalysisReturns(m, found) PROVE AlertsInv'
  <2>1. Alerts!Analyzed(m, found) /\ stage' \in {"idle", "memory"}
        /\ UNCHANGED <<node, connected, health, stopped, healthAlert, connAlert>>
    BY <1>5 DEF Alerts!AnalysisReturns
  <2>. QED BY <2>1, MetricAnalyzed DEF Alerts!Metrics
<1>6. CASE Alerts!RefreshStats \/ Alerts!StatsReturn \/ Alerts!StatsFail \/ Alerts!Stop
  BY <1>6 DEF Alerts!RefreshStats, Alerts!StatsReturn, Alerts!StatsFail, Alerts!Stop, Alerts!Metrics
<1>7. CASE UNCHANGED <<node, stage, active, connected, health, anomalyAlert, healthAlert,
                       connAlert>>
           /\ (stopped' = stopped \/ stopped' = TRUE)
  BY <1>7
<1>. QED BY <1>1, <1>2, <1>3, <1>4, <1>5, <1>6, <1>7 DEF Alerts!Next

-----------------------------------------------------------------------------
\* What the constants of this part are.
LEMMA ExitsConstants ==
  /\ MaxLives \in Nat
  /\ MaxWindows \in Nat
BY ServerAssumption

\* An exit that was entered is being diagnosed, or reported, or was when the monitor stopped.
ExitsInv ==
  /\ Exits!TypeOK
  /\ \A l \in Exits!Lives : reports[l] + diagnosing[l] <= windows[l]
  /\ Exits!ExitsAreReportedOnce

LEMMA ExitsBegin ==
  ASSUME Exits!Init PROVE ExitsInv
<1>1. 0 \in Exits!Lives /\ 0 \in 0..MaxWindows
  BY ExitsConstants DEF Exits!Lives
<1>2. \A l \in Exits!Lives : reports[l] = 0 /\ diagnosing[l] = 0 /\ windows[l] = 0
  BY DEF Exits!Init
<1>3. Exits!TypeOK
  BY <1>1 DEF Exits!Init, Exits!TypeOK
<1>. QED BY <1>2, <1>3 DEF ExitsInv, Exits!ExitsAreReportedOnce

LEMMA ExitDiagnosed ==
  ASSUME ExitsInv, NEW l \in Exits!Lives, Exits!Diagnosed(l) PROVE ExitsInv'
<1>1. /\ diagnosing[l] \in 0..MaxWindows /\ reports[l] \in 0..MaxWindows
      /\ windows[l] \in 0..MaxWindows /\ reports[l] + diagnosing[l] <= windows[l]
  BY DEF ExitsInv, Exits!TypeOK
<1>2. diagnosing' = [diagnosing EXCEPT ![l] = diagnosing[l] - 1] /\ diagnosing[l] > 0
      /\ UNCHANGED <<life, terminations, windows, stopped>>
  BY DEF Exits!Diagnosed
<1>3. diagnosing[l] - 1 \in 0..MaxWindows /\ reports[l] + 1 \in 0..MaxWindows
      /\ (reports[l] + 1) + (diagnosing[l] - 1) = reports[l] + diagnosing[l]
      /\ reports[l] + (diagnosing[l] - 1) <= windows[l]
  BY <1>1, <1>2, ExitsConstants
<1>4. CASE stopped
  <2>1. reports' = reports
    BY <1>4 DEF Exits!Diagnosed, Exits!EmitStopped
  <2>. QED BY <2>1, <1>1, <1>2, <1>3, <1>4 DEF ExitsInv, Exits!TypeOK, Exits!ExitsAreReportedOnce
<1>5. CASE ~stopped
  <2>1. reports' = [reports EXCEPT ![l] = reports[l] + 1]
    BY <1>5 DEF Exits!Diagnosed, Exits!EmitStopped
  <2>. QED BY <2>1, <1>1, <1>2, <1>3, <1>5 DEF ExitsInv, Exits!TypeOK, Exits!ExitsAreReportedOnce
<1>. QED BY <1>4, <1>5

LEMMA ExitEntered ==
  ASSUME ExitsInv, Exits!Terminates PROVE ExitsInv'
<1>1. /\ life \in Exits!Lives /\ diagnosing[life] \in 0..MaxWindows /\ reports[life] \in 0..MaxWindows
      /\ windows[life] \in 0..MaxWindows /\ reports[life] + diagnosing[life] <= windows[life]
  BY DEF ExitsInv, Exits!TypeOK
<1>2. /\ diagnosing' = [diagnosing EXCEPT ![life] = diagnosing[life] + 1]
      /\ windows' = [windows EXCEPT ![life] = windows[life] + 1] /\ windows[life] < MaxWindows
      /\ terminations' = "fresh" /\ UNCHANGED <<life, reports, stopped>>
  BY DEF Exits!Terminates
<1>3. /\ diagnosing[life] + 1 \in 0..MaxWindows /\ windows[life] + 1 \in 0..MaxWindows
      /\ reports[life] + (diagnosing[life] + 1) = (reports[life] + diagnosing[life]) + 1
      /\ reports[life] + (diagnosing[life] + 1) <= windows[life] + 1
  BY <1>1, <1>2, ExitsConstants
<1>. QED BY <1>1, <1>2, <1>3 DEF ExitsInv, Exits!TypeOK, Exits!ExitsAreReportedOnce

\* A stop of the monitor is no step of the exits alone.
LEMMA ExitsGoOn ==
  ASSUME ExitsInv,
         Exits!Next \/ (UNCHANGED <<life, terminations, diagnosing, reports, windows>>
                  /\ (stopped' = stopped \/ stopped' = TRUE))
  PROVE  ExitsInv'
<1>1. CASE Exits!Begins
  <2>1. life + 1 \in Exits!Lives
    BY <1>1, ExitsConstants DEF Exits!Begins, ExitsInv, Exits!TypeOK, Exits!Lives
  <2>. QED BY <1>1, <2>1 DEF Exits!Begins, ExitsInv, Exits!TypeOK, Exits!ExitsAreReportedOnce
<1>2. CASE Exits!Expires \/ Exits!Stop
  BY <1>2 DEF Exits!Expires, Exits!Stop, ExitsInv, Exits!TypeOK, Exits!ExitsAreReportedOnce
<1>3. CASE UNCHANGED <<life, terminations, diagnosing, reports, windows>>
           /\ (stopped' = stopped \/ stopped' = TRUE)
  BY <1>3 DEF ExitsInv, Exits!TypeOK, Exits!ExitsAreReportedOnce
<1>. QED BY <1>1, <1>2, <1>3, ExitDiagnosed, ExitEntered DEF Exits!Next

-----------------------------------------------------------------------------
\* Sessions are those of the token in force, and so are the tokens in the cache.
AccessInv ==
  /\ \A s \in sessions : s.under = config
  /\ verified \subseteq {config, Access!Reader}

\* Nothing of the invariant changes.
LEMMA SameAccess ==
  ASSUME AccessInv, UNCHANGED <<config, sessions, verified>> PROVE AccessInv'
BY DEF AccessInv

\* The step that changes the token.
LEMMA TokenContinues ==
  ASSUME NEW i, AccessInv, Access!Continue(i) PROVE AccessInv'
<1>. DEFINE q == fileRequests[i]
<1>1. CASE q.route = "remind"
  <2>1. UNCHANGED <<config, sessions, verified>>
    BY <1>1 DEF Access!Continue
  <2>. QED BY <2>1, SameAccess
<1>2. CASE q.route # "remind"
  <2>1. config' = q.token /\ verified' = {}
    BY <1>2 DEF Access!Continue
  <2>2. \A s \in sessions' : s.under = q.token
    BY <1>2 DEF Access!Continue
  <2>. QED BY <2>1, <2>2 DEF AccessInv
<1>. QED BY <1>1, <1>2

\* A sign-in issues a session under the token in force.
LEMMA SignInKeeps ==
  ASSUME NEW t, AccessInv, Access!SignIn(t) PROVE AccessInv'
<1>1. UNCHANGED <<config, verified>>
  BY DEF Access!SignIn
<1>2. sessions' = sessions \cup {[id |-> issued + 1, role |-> Access!TokenRole(t), under |-> config]}
  BY DEF Access!SignIn
<1>. QED BY <1>1, <1>2 DEF AccessInv

\* A bearer token is remembered when it is the one in force, or the reader's.
LEMMA ApiRequestKeeps ==
  ASSUME NEW t, AccessInv, Access!ApiRequest(t) PROVE AccessInv'
<1>1. UNCHANGED <<config, sessions>>
  BY DEF Access!ApiRequest
<1>2. verified' = verified \cup {t} /\ t \in {config, Access!Reader}
  BY DEF Access!ApiRequest, Access!TokenRole
<1>. QED BY <1>1, <1>2 DEF AccessInv

\* Every step keeps the invariant.
LEMMA AccessGoesOn ==
  ASSUME AccessInv, Access!Next \/ UNCHANGED <<config, sessions, verified>> PROVE AccessInv'
<1>1. ASSUME NEW i \in Access!Writers, NEW route \in Access!Routes, NEW t \in AccessTokens \cup {Nil},
             Access!Accept(i, route, t)
      PROVE AccessInv'
  BY <1>1, SameAccess DEF Access!Accept
<1>2. ASSUME NEW i \in Access!InFlight, Access!Read(i) \/ Access!Truncate(i) \/ Access!Fill(i)
      PROVE AccessInv'
  BY <1>2, SameAccess DEF Access!Read, Access!Truncate, Access!Fill
<1>3. ASSUME NEW i \in Access!InFlight, Access!Continue(i)
      PROVE AccessInv'
  BY <1>3, TokenContinues
<1>4. ASSUME NEW t \in AccessTokens \cup {Access!Reader}, Access!SignIn(t) \/ Access!ApiRequest(t)
      PROVE AccessInv'
  BY <1>4, SignInKeeps, ApiRequestKeeps
<1>5. CASE Access!SignInFails \/ Access!LockoutEnds
  BY <1>5, SameAccess DEF Access!SignInFails, Access!LockoutEnds
<1>6. CASE Access!Restart
  BY <1>6 DEF Access!Restart, AccessInv
<1>7. ASSUME NEW s \in sessions, Access!EndSession(s)
      PROVE AccessInv'
  BY <1>7 DEF Access!EndSession, AccessInv
<1>8. CASE UNCHANGED <<config, sessions, verified>>
  BY <1>8, SameAccess
<1>. QED BY <1>1, <1>2, <1>3, <1>4, <1>5, <1>6, <1>7, <1>8 DEF Access!Next

\* The invariant bounds what a request may carry: a session is one under the token in
\* force, and a token from the cache that gives an operator's access is that token.
LEMMA AccessFollows ==
  ASSUME AccessInv PROVE Access!AccessEndsWithToken
<1>. SUFFICES ASSUME Access!Enabled, NEW r \in Access!Carried, Access!AccessRole(r) = "operator"
              PROVE \/ env.proxy /\ r.proxy
                    \/ r.bearer = config
                    \/ \E s \in sessions : s.id = r.cookie /\ s.under = config
  BY DEF Access!AccessEndsWithToken
<1>1. CASE env.proxy /\ r.proxy
  BY <1>1
<1>2. CASE \E s \in sessions : s.id = r.cookie
  BY <1>2 DEF AccessInv
<1>3. CASE /\ ~(env.proxy /\ r.proxy)
           /\ ~\E s \in sessions : s.id = r.cookie
  <2>1. CASE r.bearer \in verified
    <3>1. r.bearer # Access!Reader
      BY <1>3, <2>1 DEF Access!AccessRole
    <3>. QED BY <2>1, <3>1 DEF AccessInv
  <2>2. CASE r.bearer \notin verified
    <3>1. Access!TokenRole(r.bearer) = "operator"
      BY <1>3, <2>2 DEF Access!AccessRole
    <3>. QED BY <3>1 DEF Access!TokenRole
  <2>. QED BY <2>1, <2>2
<1>. QED BY <1>1, <1>2, <1>3

LEMMA AccessBegins ==
  ASSUME Access!Init PROVE AccessInv
BY DEF Access!Init, AccessInv

-----------------------------------------------------------------------------
\* What the constants of this part are.
LEMMA MarketConstants ==
  /\ MaxVersions \in Nat \ {0}
BY ServerAssumption

Spots ==
  {"idle", "finding", "copying", "leaving", "fetching", "moving", "activating", "listing",
   "registering", "removing", "unlisting", "dropping", "backing", "undoing", "clearing",
   "restoring", "copied", "saving", "reviving", "failed", "done"}

\* From the list of what is installed to the end of the transaction, or of its rollback.
Held == {"copying", "leaving", "fetching", "moving", "activating", "listing", "backing"}

\* Where a copy for the rollback is kept.
Copying ==
  {"leaving", "fetching", "moving", "activating", "listing", "backing", "registering",
   "undoing", "clearing", "restoring", "copied"}

ActionRecord ==
  [kind : Market!Kinds \cup {"none"}, at : Spots, entry : 0..MaxVersions, had : 0..Market!Unread,
   snap : Market!Copies, prev : Market!Copies]

MarketTyped ==
  /\ Market!TypeOK
  /\ act \in ActionRecord
  /\ act.at \notin {"idle", "finding", "failed", "done"} =>
       act.had # Market!Unread /\ act.kind # "none"
  /\ act.at = "finding" => act.kind # "none" /\ act.had = Market!Unread
  /\ act.at \in {"copying", "fetching", "moving", "activating", "listing", "backing",
                 "registering", "undoing", "clearing", "restoring", "copied", "saving",
                 "reviving", "dropping"} => act.kind # "uninstall"
  /\ act.at \in {"moving", "activating", "listing"} => act.entry \in Market!Versions
  /\ act.at \in {"clearing", "restoring", "copied", "saving", "reviving"} => act.had # 0
  /\ act.at \in Held => index = act.had
  /\ act.at \notin {"activating", "listing", "backing", "unlisting"} => act.prev = 0

Whole(copy) == leftover \/ copy \in Market!Versions

\* Which of the three places has a whole copy: the directory where nothing is done to it,
\* what was set aside while an uninstall has only that, and the copy for the rollback of an
\* update.
CopyKept ==
  /\ act.at \in {"idle", "finding", "failed", "done", "copying", "leaving", "fetching", "moving",
                 "removing", "dropping"} => (index # 0 => Whole(dir))
  /\ act.at \in {"listing", "registering", "saving", "reviving"} => Whole(dir)
  /\ act.at = "undoing" /\ act.had = 0 /\ index # 0 => Whole(dir)
  /\ act.at = "unlisting" /\ index # 0 => Whole(act.prev)
  /\ act.at \in Copying /\ act.kind # "uninstall" /\ act.had # 0 => Whole(act.snap)

\* How far an action is from what it began with, when nothing was in its way.
Restorable ==
  /\ act.at \in {"idle", "finding", "copying", "leaving", "failed", "done"} =>
       dir = index /\ registered = dir
  /\ act.at \in {"fetching", "moving", "registering", "removing"} => dir = index /\ registered = 0
  /\ act.at \in {"activating", "backing", "unlisting", "dropping"} => dir = 0 /\ registered = 0
  /\ act.at = "listing" => dir = act.entry /\ registered = 0
  /\ act.at \in {"activating", "listing", "backing"} => act.prev = act.had
  /\ act.at = "undoing" /\ act.had = 0 => dir = index
  /\ act.at \in Copying /\ act.kind # "uninstall" /\ act.had # 0 => act.snap = act.had
  /\ act.at \in {"removing", "unlisting"} /\ act.kind = "uninstall" => act.had = index
  /\ act.at \in {"removing", "unlisting", "dropping"} /\ act.kind # "uninstall" => act.had = 0
  /\ act.at \in {"saving", "reviving"} => dir = act.had
  /\ act.at = "reviving" => index = act.had
  /\ act.at = "failed" => act.had \in {index, Market!Unread}

MarketInv == MarketTyped /\ CopyKept /\ (trouble = {} => Restorable)

LEMMA MarketNumbers ==
  /\ MaxVersions \in Nat /\ MaxVersions >= 1 /\ Market!Versions = 1..MaxVersions
  /\ Market!Partial = MaxVersions + 1 /\ Market!Unread = MaxVersions + 1 /\ Market!Copies = 0..(MaxVersions + 1)
BY MarketConstants DEF Market!Versions, Market!Partial, Market!Unread, Market!Copies

LEMMA MarketRanges ==
  /\ 0 \in Market!Copies /\ Market!Partial \in Market!Copies /\ Market!Versions \subseteq Market!Copies
  /\ 0 \in 0..MaxVersions /\ 0 \in 0..Market!Unread /\ Market!Unread \in 0..Market!Unread /\ 0 # Market!Unread
  /\ Market!Versions \subseteq 0..MaxVersions /\ 0..MaxVersions \subseteq 0..Market!Unread
  /\ 0..MaxVersions \subseteq Market!Copies /\ Market!Unread \notin 0..MaxVersions
  /\ 1 \in Market!Versions /\ 1 \in 0..MaxVersions /\ 0 \notin Market!Versions
  /\ \A i \in 0..Market!Unread : i \notin {0, Market!Unread} => i \in Market!Versions
BY MarketNumbers

LEMMA MarketBegins ==
  ASSUME Market!Init PROVE MarketInv
<1>1. Market!NoAction \in ActionRecord
  BY MarketNumbers DEF Market!NoAction, ActionRecord, Market!Kinds, Spots
<1>2. Market!NoAction.at = "idle"
  BY DEF Market!NoAction
<1>3. Market!TypeOK
  <2>1. catalog = 1 /\ index \in {0, 1} /\ dir = index /\ registered = index /\ act = Market!NoAction
        /\ leftover = FALSE /\ trouble = {}
    BY DEF Market!Init
  <2>2. index \in 0..MaxVersions /\ index \in Market!Copies
    BY <2>1, MarketRanges
  <2>. QED BY <1>1, <2>1, <2>2, MarketRanges DEF Market!TypeOK, ActionRecord
<1>4. MarketTyped
  BY <1>1, <1>2, <1>3 DEF Market!Init, MarketTyped, Held, Market!NoAction
<1>5. CopyKept /\ Restorable
  BY <1>2, MarketRanges DEF Market!Init, CopyKept, Restorable, Copying, Whole
<1>. QED BY <1>4, <1>5 DEF MarketInv

\* What is kept where, at every place.
LEMMA MarketKeeps ==
  ASSUME MarketInv PROVE Market!PluginIsNotLost /\ Market!FailureRestores
<1>1. Market!PluginIsNotLost
  BY MarketNumbers DEF MarketInv, MarketTyped, CopyKept, ActionRecord, Spots, Held, Copying, Whole,
     Market!PluginIsNotLost
<1>2. Market!FailureRestores
  BY DEF MarketInv, Restorable, Market!FailureRestores, Market!At
<1>. QED BY <1>1, <1>2

\* What a step leaves is of its type when the action and the values it changes are.
LEMMA MarketTypes ==
  ASSUME MarketTyped, act' \in ActionRecord, catalog' = catalog, index' \in 0..MaxVersions,
         dir' \in Market!Copies, registered' \in Market!Copies, leftover' \in BOOLEAN,
         trouble' \subseteq {"crash", "restore"}
  PROVE  Market!TypeOK'
<1>1. /\ act'.entry \in 0..MaxVersions /\ act'.had \in 0..Market!Unread
      /\ act'.snap \in Market!Copies /\ act'.prev \in Market!Copies
  BY DEF ActionRecord
<1>2. catalog' \in Market!Versions
  BY DEF MarketTyped, Market!TypeOK
<1>. QED BY <1>1, <1>2 DEF Market!TypeOK

LEMMA MarketGoesOn ==
  ASSUME MarketInv, Market!Next \/ UNCHANGED Market!vars PROVE MarketInv'
<1>. USE MarketRanges DEF MarketInv
<1>t. /\ MarketTyped /\ act \in ActionRecord /\ catalog \in Market!Versions /\ index \in 0..MaxVersions
      /\ dir \in Market!Copies /\ registered \in Market!Copies /\ leftover \in BOOLEAN
      /\ trouble \subseteq {"crash", "restore"}
  BY DEF MarketTyped, Market!TypeOK
<1>1. ASSUME NEW k \in Market!Kinds, Market!Confirm(k) PROVE MarketInv'
  <2>1. act.at = "idle" /\ act' = [Market!NoAction EXCEPT !.kind = k, !.at = "finding"]
        /\ UNCHANGED <<catalog, dir, index, registered, leftover, trouble>>
    BY <1>1 DEF Market!Confirm
  <2>2. act' \in ActionRecord /\ act'.kind = k /\ act'.at = "finding"
        /\ act'.prev = 0 /\ act'.had = Market!Unread
    BY <2>1 DEF ActionRecord, Market!NoAction, Spots, Market!Kinds
  <2>3. MarketTyped'
    BY <1>t, <2>1, <2>2, MarketTypes DEF MarketTyped, Held, Market!Kinds
  <2>. QED BY <2>1, <2>2, <2>3 DEF CopyKept, Copying, Whole, Restorable
<1>2. CASE Market!Answer
  BY <1>2, MarketNumbers DEF Market!Answer, MarketTyped, ActionRecord, CopyKept, Restorable,
    Market!TypeOK, Held, Copying, Whole,
     Market!Goes, Market!At, Market!Disk, Spots, Market!Kinds, Market!NoAction
<1>3. CASE Market!Find
  <2>1. /\ act.at = "finding"
        /\ act'.at \in {"leaving", "copying", "failed"}
        /\ act'.at = "copying" => index # 0 /\ act.kind # "uninstall"
        /\ act'.at = "leaving" => act.kind \in {"install", "uninstall"}
        /\ act'.at = "leaving" => (act.kind = "install" <=> index = 0)
        /\ act'.at = "failed" => index = 0
        /\ act' = [act EXCEPT !.had = index, !.at = act'.at]
        /\ UNCHANGED <<catalog, dir, index, leftover, registered, trouble>>
    BY <1>3, <1>t DEF Market!Find, Market!At, Market!Goes, Market!Disk, ActionRecord, Market!Kinds,
      MarketTyped
  <2>2. /\ act' \in ActionRecord
        /\ act'.kind = act.kind /\ act'.entry = act.entry /\ act'.had = index
        /\ act'.snap = act.snap /\ act'.prev = act.prev
    BY <1>t, <2>1 DEF ActionRecord, Spots, MarketTyped
  <2>3. MarketTyped'
    BY <1>t, <2>1, <2>2, MarketTypes DEF MarketTyped, Held, ActionRecord
  <2>4. CopyKept'
    BY <1>t, <2>1, <2>2 DEF MarketTyped, CopyKept, Held, Copying, Whole, ActionRecord
  <2>5. trouble' = {} => Restorable'
    BY <1>t, <2>1, <2>2 DEF MarketTyped, Restorable, Held, Copying, ActionRecord
  <2>. QED BY <2>3, <2>4, <2>5
<1>4. CASE Market!Snapshot
  BY <1>4, MarketNumbers, ZenonT(40) DEF Market!Snapshot, MarketTyped, ActionRecord, CopyKept, Restorable,
    Market!TypeOK, Held, Copying, Whole,
     Market!Goes, Market!At, Market!Disk, Spots, Market!Kinds, Market!NoAction
<1>5. CASE Market!Unregister
  BY <1>5, MarketNumbers DEF Market!Unregister, MarketTyped, ActionRecord, CopyKept, Restorable,
    Market!TypeOK, Held, Copying, Whole,
     Market!Goes, Market!At, Market!Disk, Spots, Market!Kinds, Market!NoAction
<1>6. CASE Market!Fetch
  <2>1. /\ act.at = "fetching"
        /\ act' = [act EXCEPT !.entry = catalog, !.at = "moving"]
        /\ UNCHANGED <<catalog, dir, index, leftover, registered, trouble>>
    BY <1>6, <1>t DEF Market!Fetch, Market!At, Market!Goes, Market!Disk, ActionRecord, Market!Kinds,
      MarketTyped
  <2>2. /\ act' \in ActionRecord
        /\ act'.kind = act.kind /\ act'.at = "moving" /\ act'.entry = catalog
        /\ act'.had = act.had /\ act'.snap = act.snap /\ act'.prev = act.prev
    BY <1>t, <2>1 DEF ActionRecord, Spots, MarketTyped
  <2>3. MarketTyped'
    BY <1>t, <2>1, <2>2, MarketTypes DEF MarketTyped, Held, ActionRecord
  <2>4. CopyKept'
    BY <1>t, <2>1, <2>2 DEF MarketTyped, CopyKept, Held, Copying, Whole, ActionRecord
  <2>5. trouble' = {} => Restorable'
    BY <1>t, <2>1, <2>2 DEF MarketTyped, Restorable, Held, Copying, ActionRecord
  <2>. QED BY <2>3, <2>4, <2>5
<1>7. CASE Market!Move
  <2>1. /\ act.at = "moving"
        /\ dir' = 0
        /\ act' = [act EXCEPT !.at = "activating", !.prev = dir]
        /\ UNCHANGED <<catalog, index, registered, leftover, trouble>>
    BY <1>7, <1>t DEF Market!Move, Market!At, Market!Goes, Market!Disk, ActionRecord, Market!Kinds,
      MarketTyped
  <2>2. /\ act' \in ActionRecord
        /\ act'.kind = act.kind /\ act'.at = "activating" /\ act'.entry = act.entry
        /\ act'.had = act.had /\ act'.snap = act.snap /\ act'.prev = dir
    BY <1>t, <2>1 DEF ActionRecord, Spots, MarketTyped
  <2>3. MarketTyped'
    BY <1>t, <2>1, <2>2, MarketTypes DEF MarketTyped, Held, ActionRecord
  <2>4. CopyKept'
    BY <1>t, <2>1, <2>2 DEF MarketTyped, CopyKept, Held, Copying, Whole, ActionRecord
  <2>5. trouble' = {} => Restorable'
    BY <1>t, <2>1, <2>2 DEF MarketTyped, Restorable, Held, Copying, ActionRecord
  <2>. QED BY <2>3, <2>4, <2>5
<1>8. CASE Market!Activate
  BY <1>8, MarketNumbers DEF Market!Activate, MarketTyped, ActionRecord, CopyKept, Restorable,
    Market!TypeOK, Held, Copying, Whole,
     Market!Goes, Market!At, Market!Disk, Spots, Market!Kinds, Market!NoAction
<1>9. CASE Market!List
  <2>1. /\ act.at = "listing"
        /\ index' = act.entry
        /\ act' = [act EXCEPT !.at = "registering", !.prev = 0]
        /\ UNCHANGED <<catalog, dir, registered, leftover, trouble>>
    BY <1>9, <1>t DEF Market!List, Market!At, Market!Goes, Market!Disk, ActionRecord, Market!Kinds,
      MarketTyped
  <2>2. /\ act' \in ActionRecord
        /\ act'.kind = act.kind /\ act'.at = "registering" /\ act'.entry = act.entry
        /\ act'.had = act.had /\ act'.snap = act.snap /\ act'.prev = 0
    BY <1>t, <2>1 DEF ActionRecord, Spots, MarketTyped
  <2>3. MarketTyped'
    BY <1>t, <2>1, <2>2, MarketTypes DEF MarketTyped, Held, ActionRecord
  <2>4. CopyKept'
    BY <1>t, <2>1, <2>2 DEF MarketTyped, CopyKept, Held, Copying, Whole, ActionRecord
  <2>5. trouble' = {} => Restorable'
    BY <1>t, <2>1, <2>2 DEF MarketTyped, Restorable, Held, Copying, ActionRecord
  <2>. QED BY <2>3, <2>4, <2>5
<1>10. CASE Market!Register
  <2>1. /\ act.at = "registering" /\ dir # 0 /\ registered' = dir
        /\ act' = [Market!NoAction EXCEPT !.kind = act.kind, !.at = "done"]
        /\ UNCHANGED <<catalog, dir, index, leftover, trouble>>
    BY <1>10 DEF Market!Register, Market!At, Market!Disk
  <2>2. act' \in ActionRecord /\ act'.at = "done" /\ act'.prev = 0
    BY <1>t, <2>1 DEF ActionRecord, Market!NoAction, Spots, Market!Kinds
  <2>3. MarketTyped'
    BY <1>t, <2>1, <2>2, MarketTypes DEF MarketTyped, Held
  <2>. QED BY <2>1, <2>2, <2>3 DEF CopyKept, Copying, Whole, Restorable
<1>11. CASE Market!Remove
  <2>1. /\ act.at = "removing" /\ UNCHANGED <<catalog, index, registered, leftover, trouble>>
    BY <1>11 DEF Market!Remove, Market!At
  <2>2. CASE index = 0
    <3>1. /\ dir' = dir
          /\ act' = [act EXCEPT !.at = IF act.kind = "uninstall" THEN "failed" ELSE "dropping"]
      BY <1>11, <2>2 DEF Market!Remove, Market!Goes
    <3>2. /\ act' \in ActionRecord /\ act'.kind = act.kind /\ act'.had = act.had
          /\ act'.at = IF act.kind = "uninstall" THEN "failed" ELSE "dropping"
          /\ act'.prev = act.prev
      BY <1>t, <3>1 DEF ActionRecord, Spots
    <3>3. MarketTyped'
      BY <1>t, <2>1, <3>1, <3>2, MarketTypes DEF MarketTyped, Held
    <3>. QED BY <2>1, <2>2, <3>1, <3>2, <3>3 DEF CopyKept, Copying, Whole, Restorable
  <2>3. CASE index # 0
    <3>1. dir' = 0 /\ act' = [act EXCEPT !.at = "unlisting", !.prev = dir]
      BY <1>11, <2>3 DEF Market!Remove, Market!Goes
    <3>2. /\ act' \in ActionRecord /\ act'.kind = act.kind /\ act'.had = act.had
          /\ act'.at = "unlisting" /\ act'.prev = dir
      BY <1>t, <3>1 DEF ActionRecord, Spots
    <3>3. MarketTyped'
      BY <1>t, <2>1, <3>1, <3>2, MarketTypes DEF MarketTyped, Held
    <3>. QED BY <2>1, <3>1, <3>2, <3>3 DEF CopyKept, Copying, Whole, Restorable
  <2>. QED BY <2>2, <2>3
<1>12. CASE Market!Unlist
  <2>1. /\ act.at = "unlisting"
        /\ index' = 0
        /\ act'.at = IF act.kind = "uninstall" THEN "done" ELSE "dropping"
        /\ act' = [act EXCEPT !.prev = 0, !.at = act'.at]
        /\ UNCHANGED <<catalog, dir, registered, leftover, trouble>>
    BY <1>12, <1>t DEF Market!Unlist, Market!At, Market!Goes, Market!Disk, ActionRecord, Market!Kinds,
      MarketTyped
  <2>2. /\ act' \in ActionRecord
        /\ act'.kind = act.kind /\ act'.entry = act.entry /\ act'.had = act.had
        /\ act'.snap = act.snap /\ act'.prev = 0
    BY <1>t, <2>1 DEF ActionRecord, Spots, MarketTyped
  <2>3. MarketTyped'
    BY <1>t, <2>1, <2>2, MarketTypes DEF MarketTyped, Held, ActionRecord
  <2>4. CopyKept'
    BY <1>t, <2>1, <2>2 DEF MarketTyped, CopyKept, Held, Copying, Whole, ActionRecord
  <2>5. trouble' = {} => Restorable'
    BY <1>t, <2>1, <2>2 DEF MarketTyped, Restorable, Held, Copying, ActionRecord
  <2>. QED BY <2>3, <2>4, <2>5
<1>13. CASE Market!Drop
  BY <1>13, MarketNumbers DEF Market!Drop, MarketTyped, ActionRecord, CopyKept, Restorable,
    Market!TypeOK, Held, Copying, Whole,
     Market!Goes, Market!At, Market!Disk, Spots, Market!Kinds, Market!NoAction
<1>14. CASE Market!Fail
  <2>1. /\ act.at \in {"finding", "copying", "leaving", "fetching", "moving", "registering"}
        /\ registered' \in IF act.at = "registering" THEN {registered, dir} ELSE {registered}
        /\ UNCHANGED <<catalog, dir, index, leftover, trouble>>
        /\ act' = [act EXCEPT !.at = act'.at]
        /\ act'.at = IF act.at \in {"finding", "copying"} \/ act.kind = "uninstall"
                       THEN "failed" ELSE "undoing"
    BY <1>14, <1>t DEF Market!Fail, Market!At, Market!Goes, Market!Disk, ActionRecord
  <2>2. /\ act' \in ActionRecord
        /\ act'.kind = act.kind /\ act'.had = act.had /\ act'.snap = act.snap
        /\ act'.prev = act.prev
    BY <1>t, <2>1 DEF ActionRecord, Spots
  <2>3. MarketTyped'
    BY <1>t, <2>1, <2>2, MarketTypes DEF MarketTyped, Held
  <2>4. CopyKept'
    BY <1>t, <2>1, <2>2 DEF MarketTyped, CopyKept, Held, Copying, Whole
  <2>5. trouble' = {} => Restorable'
    BY <1>t, <2>1, <2>2 DEF MarketTyped, Restorable, Held, Copying
  <2>. QED BY <2>3, <2>4, <2>5
<1>15. CASE Market!FailInstall
  BY <1>15, MarketNumbers DEF Market!FailInstall, MarketTyped, ActionRecord, CopyKept, Restorable,
    Market!TypeOK, Held, Copying, Whole,
     Market!Goes, Market!At, Market!Disk, Spots, Market!Kinds, Market!NoAction
<1>16. CASE Market!MoveBack
  <2>1. /\ act.at = "backing"
        /\ dir' \in IF act.prev = 0 THEN {dir} ELSE {dir, act.prev}
        /\ act' = [act EXCEPT !.at = "undoing", !.prev = 0]
        /\ UNCHANGED <<catalog, index, registered, leftover, trouble>>
    BY <1>16, <1>t DEF Market!MoveBack, Market!At, Market!Goes, Market!Disk, ActionRecord, Market!Kinds,
      MarketTyped
  <2>2. /\ act' \in ActionRecord
        /\ act'.kind = act.kind /\ act'.at = "undoing" /\ act'.entry = act.entry
        /\ act'.had = act.had /\ act'.snap = act.snap /\ act'.prev = 0
    BY <1>t, <2>1 DEF ActionRecord, Spots, MarketTyped
  <2>3. MarketTyped'
    BY <1>t, <2>1, <2>2, MarketTypes DEF MarketTyped, Held, ActionRecord
  <2>4. CopyKept'
    BY <1>t, <2>1, <2>2 DEF MarketTyped, CopyKept, Held, Copying, Whole, ActionRecord
  <2>5. trouble' = {} => Restorable'
    BY <1>t, <2>1, <2>2 DEF MarketTyped, Restorable, Held, Copying, ActionRecord
  <2>. QED BY <2>3, <2>4, <2>5
<1>17. CASE Market!FailRemove
  <2>1. /\ act.at \in {"removing", "unlisting"}
        /\ dir' = IF act.prev = 0 THEN dir ELSE act.prev
        /\ trouble' = trouble \cup {"restore"}
        /\ act'.at = IF act.kind = "uninstall" THEN "failed" ELSE "dropping"
        /\ act' = [act EXCEPT !.prev = 0, !.at = act'.at]
        /\ UNCHANGED <<catalog, index, registered, leftover>>
    BY <1>17, <1>t DEF Market!FailRemove, Market!At, Market!Goes, Market!Disk, ActionRecord,
      Market!Kinds, MarketTyped
  <2>2. /\ act' \in ActionRecord
        /\ act'.kind = act.kind /\ act'.entry = act.entry /\ act'.had = act.had
        /\ act'.snap = act.snap /\ act'.prev = 0
    BY <1>t, <2>1 DEF ActionRecord, Spots, MarketTyped
  <2>3. MarketTyped'
    BY <1>t, <2>1, <2>2, MarketTypes DEF MarketTyped, Held, ActionRecord
  <2>4. CopyKept'
    BY <1>t, <2>1, <2>2 DEF MarketTyped, CopyKept, Held, Copying, Whole, ActionRecord
  <2>5. trouble' = {} => Restorable'
    BY <1>t, <2>1, <2>2 DEF MarketTyped, Restorable, Held, Copying, ActionRecord
  <2>. QED BY <2>3, <2>4, <2>5
<1>18. CASE Market!Undo
  <2>1. /\ act.at = "undoing" /\ registered' \in {0, registered}
        /\ trouble' = IF act.had = 0 /\ registered' # 0 THEN trouble \cup {"restore"} ELSE trouble
        /\ act' = [act EXCEPT !.at = IF act.had = 0 THEN "removing" ELSE "clearing"]
        /\ UNCHANGED <<catalog, dir, index, leftover>>
    BY <1>18 DEF Market!Undo, Market!At, Market!Goes, Market!Disk
  <2>2. /\ act' \in ActionRecord
        /\ act'.kind = act.kind /\ act'.had = act.had /\ act'.snap = act.snap /\ act'.prev = act.prev
        /\ act'.at = IF act.had = 0 THEN "removing" ELSE "clearing"
    BY <1>t, <2>1 DEF ActionRecord, Spots
  <2>3. MarketTyped'
    BY <1>t, <2>1, <2>2, MarketTypes DEF MarketTyped, Held
  <2>4. CopyKept'
    BY <1>t, <2>1, <2>2 DEF MarketTyped, CopyKept, Copying, Whole
  <2>5. trouble' = {} => Restorable'
    BY <1>t, <2>1, <2>2 DEF MarketTyped, Restorable, Copying
  <2>. QED BY <2>3, <2>4, <2>5
<1>19. CASE Market!Clear
  BY <1>19, MarketNumbers DEF Market!Clear, MarketTyped, ActionRecord, CopyKept, Restorable,
    Market!TypeOK, Held, Copying, Whole,
     Market!Goes, Market!At, Market!Disk, Spots, Market!Kinds, Market!NoAction
<1>20. CASE Market!Copy
  BY <1>20, MarketNumbers DEF Market!Copy, MarketTyped, ActionRecord, CopyKept, Restorable,
    Market!TypeOK, Held, Copying, Whole,
     Market!Goes, Market!At, Market!Disk, Spots, Market!Kinds, Market!NoAction
<1>21. CASE Market!Copied
  <2>1. /\ act.at = "copied"
        /\ dir' = act.snap
        /\ act' = [act EXCEPT !.at = "saving", !.snap = 0]
        /\ UNCHANGED <<catalog, index, registered, leftover, trouble>>
    BY <1>21, <1>t DEF Market!Copied, Market!At, Market!Goes, Market!Disk, ActionRecord, Market!Kinds,
      MarketTyped
  <2>2. /\ act' \in ActionRecord
        /\ act'.kind = act.kind /\ act'.at = "saving" /\ act'.entry = act.entry
        /\ act'.had = act.had /\ act'.snap = 0 /\ act'.prev = act.prev
    BY <1>t, <2>1 DEF ActionRecord, Spots, MarketTyped
  <2>3. MarketTyped'
    BY <1>t, <2>1, <2>2, MarketTypes DEF MarketTyped, Held, ActionRecord
  <2>4. CopyKept'
    BY <1>t, <2>1, <2>2 DEF MarketTyped, CopyKept, Held, Copying, Whole, ActionRecord
  <2>5. trouble' = {} => Restorable'
    BY <1>t, <2>1, <2>2 DEF MarketTyped, Restorable, Held, Copying, ActionRecord
  <2>. QED BY <2>3, <2>4, <2>5
<1>22. CASE Market!Save
  BY <1>22, MarketNumbers DEF Market!Save, MarketTyped, ActionRecord, CopyKept, Restorable,
    Market!TypeOK, Held, Copying, Whole,
     Market!Goes, Market!At, Market!Disk, Spots, Market!Kinds, Market!NoAction
<1>23. CASE Market!Revive
  <2>1. /\ act.at = "reviving" /\ act' = [act EXCEPT !.at = "failed"]
        /\ UNCHANGED <<catalog, dir, index, leftover>>
        /\ \/ registered' = dir /\ trouble' = trouble
           \/ registered' = registered /\ trouble' = trouble \cup {"restore"}
    BY <1>23 DEF Market!Revive, Market!At, Market!Goes, Market!Disk
  <2>2. /\ act' \in ActionRecord /\ act'.kind = act.kind /\ act'.had = act.had
        /\ act'.at = "failed" /\ act'.prev = act.prev
    BY <1>t, <2>1 DEF ActionRecord, Spots
  <2>3. MarketTyped'
    BY <1>t, <2>1, <2>2, MarketTypes DEF MarketTyped, Held
  <2>4. CopyKept'
    BY <1>t, <2>1, <2>2 DEF CopyKept, Copying, Whole
  <2>5. trouble' = {} => Restorable'
    BY <1>t, <2>1, <2>2 DEF Restorable, Copying
  <2>. QED BY <2>3, <2>4, <2>5
<1>24. CASE Market!FailRestore
  <2>1. /\ act.at \in {"clearing", "restoring", "copied", "saving", "dropping"}
        /\ leftover' = (leftover \/ act.snap \in Market!Versions)
        /\ trouble' = trouble \cup {"restore"}
        /\ act' = [act EXCEPT !.at = "failed", !.snap = 0]
        /\ UNCHANGED <<catalog, dir, index, registered>>
    BY <1>24, <1>t DEF Market!FailRestore, Market!At, Market!Goes, Market!Disk, ActionRecord,
      Market!Kinds, MarketTyped
  <2>2. /\ act' \in ActionRecord
        /\ act'.kind = act.kind /\ act'.at = "failed" /\ act'.entry = act.entry
        /\ act'.had = act.had /\ act'.snap = 0 /\ act'.prev = act.prev
    BY <1>t, <2>1 DEF ActionRecord, Spots, MarketTyped
  <2>3. MarketTyped'
    BY <1>t, <2>1, <2>2, MarketTypes DEF MarketTyped, Held, ActionRecord
  <2>4. CopyKept'
    BY <1>t, <2>1, <2>2 DEF MarketTyped, CopyKept, Held, Copying, Whole, ActionRecord
  <2>5. trouble' = {} => Restorable'
    BY <1>t, <2>1, <2>2 DEF MarketTyped, Restorable, Held, Copying, ActionRecord
  <2>. QED BY <2>3, <2>4, <2>5
<1>25. CASE Market!Crash
  <2>1. /\ act' = Market!NoAction /\ trouble' = trouble \cup {"crash"}
        /\ leftover' = (leftover \/ {act.snap, act.prev} \cap Market!Versions # {})
        /\ registered' \in {0, dir} /\ UNCHANGED <<catalog, dir, index>>
    BY <1>25 DEF Market!Crash
  <2>2. act' \in ActionRecord /\ act'.at = "idle" /\ act'.prev = 0
    BY <2>1 DEF ActionRecord, Market!NoAction, Spots, Market!Kinds
  <2>3. MarketTyped'
    BY <1>t, <2>1, <2>2, MarketTypes DEF MarketTyped, Held
  <2>4. index # 0 => leftover \/ {dir, act.snap, act.prev} \cap Market!Versions # {}
    BY MarketKeeps DEF Market!PluginIsNotLost
  <2>. QED BY <2>1, <2>2, <2>3, <2>4, Zenon DEF CopyKept, Copying, Whole
<1>26. CASE Market!Publish
  BY <1>26, MarketNumbers DEF Market!Publish, MarketTyped, ActionRecord, CopyKept, Restorable,
    Market!TypeOK, Held, Copying, Whole,
     Market!Goes, Market!At, Market!Disk, Spots, Market!Kinds, Market!NoAction
<1>27. CASE UNCHANGED Market!vars
  BY <1>27 DEF Market!vars, MarketTyped, CopyKept, Restorable, Market!TypeOK, Whole
<1>. QED BY <1>1, <1>2, <1>3, <1>4, <1>5, <1>6, <1>7, <1>8, <1>9, <1>10, <1>11, <1>12, <1>13, <1>14,
  <1>15, <1>16, <1>17, <1>18, <1>19, <1>20, <1>21, <1>22, <1>23, <1>24, <1>25, <1>26, <1>27 DEF Market!Next, Market!Step

-----------------------------------------------------------------------------
\* What the constants of this part are.
LEMMA StorageConstants ==
  /\ Keys # {}
  /\ MaxValue \in Nat
BY ServerAssumption

\* A migration under way has found every legacy file valid, and what it has published is there;
\* an operation acts once the marker is set.
StorageInv ==
  /\ Storage!TypeOK
  /\ op \in [kind : {"none", "read", "write", "replace"}, key : Keys, value : 0..MaxValue,
             at : {"idle", "initializing", "publishing", "acting"}, todo : SUBSET Keys]
  /\ op.at = "acting" => marker
  /\ op.at = "publishing" => ~marker
  /\ op.at = "publishing" =>
       \A k \in Keys : legacy[k] # Storage!Bad /\ (k \in op.todo \/ legacy[k] = 0 \/ files[k] # 0)
  /\ Storage!StorageSurvives

LEMMA NoOperation ==
  /\ Storage!Idle \in [kind : {"none", "read", "write", "replace"}, key : Keys, value : 0..MaxValue,
               at : {"idle", "initializing", "publishing", "acting"}, todo : SUBSET Keys]
  /\ Storage!Idle.at = "idle"
<1>1. (CHOOSE k \in Keys : TRUE) \in Keys
  BY StorageConstants
<1>. QED BY <1>1, StorageConstants DEF Storage!Idle

LEMMA StorageBegins ==
  ASSUME Storage!Init PROVE StorageInv
<1>1. Storage!Bad = MaxValue + 1 /\ MaxValue + 1 \in Nat /\ 0..MaxValue \subseteq 0..Storage!Bad
  BY StorageConstants DEF Storage!Bad
<1>2. expected \in [Keys -> 0..Storage!Bad]
  BY <1>1 DEF Storage!Init
<1>3. \A k \in Keys : expected[k] = IF files[k] # 0 THEN files[k] ELSE legacy[k]
  BY DEF Storage!Init
<1>4. op = Storage!Idle /\ marker = FALSE /\ legacy \in [Keys -> 0..Storage!Bad] /\ files \in [Keys -> 0..MaxValue]
  BY DEF Storage!Init
<1>. QED BY <1>2, <1>3, <1>4, NoOperation DEF StorageInv, Storage!TypeOK, Storage!StorageSurvives

LEMMA StorageGoesOn ==
  ASSUME StorageInv, Storage!Next \/ UNCHANGED Storage!vars PROVE StorageInv'
<1>. USE DEF StorageInv, Storage!TypeOK, Storage!StorageSurvives
<1>1. ASSUME NEW n \in {"read", "write", "replace"}, NEW k \in Keys, NEW v \in 0..MaxValue,
             Storage!Call(n, k, v)
      PROVE  StorageInv'
  <2>1. op' = [Storage!Idle EXCEPT !.kind = n, !.key = k, !.value = v, !.at = "initializing"]
        /\ UNCHANGED <<legacy, files, marker, expected>>
    BY <1>1 DEF Storage!Call
  <2>. QED BY <2>1, NoOperation
<1>2. CASE Storage!Initialize
  <2>1. UNCHANGED <<legacy, files, marker, expected>>
    BY <1>2 DEF Storage!Initialize
  <2>2. CASE marker
    BY <1>2, <2>1, <2>2 DEF Storage!Initialize
  <2>3. CASE ~marker /\ \E k \in Keys : legacy[k] = Storage!Bad
    <3>1. op' = Storage!Idle
      BY <1>2, <2>3 DEF Storage!Initialize
    <3>. QED BY <2>1, <3>1, NoOperation
  <2>4. CASE ~marker /\ ~\E k \in Keys : legacy[k] = Storage!Bad
    <3>1. op' = [op EXCEPT !.at = "publishing", !.todo = {k \in Keys : legacy[k] # 0}]
      BY <1>2, <2>4 DEF Storage!Initialize
    <3>. QED BY <2>1, <2>4, <3>1
  <2>. QED BY <2>2, <2>3, <2>4
<1>3. CASE Storage!Mark
  BY <1>3 DEF Storage!Mark
<1>4. CASE Storage!Read \/ Storage!Stop
  BY <1>4, NoOperation DEF Storage!Read, Storage!Stop
<1>5. CASE Storage!Write
  <2>1. /\ files' = [files EXCEPT ![op.key] = op.value]
        /\ expected' = [expected EXCEPT ![op.key] = op.value]
        /\ op' = Storage!Idle /\ marker /\ marker' = marker /\ legacy' = legacy
    BY <1>5 DEF Storage!Write
  <2>2. op.key \in Keys /\ op.value \in 0..MaxValue /\ op.value \in 0..Storage!Bad
    BY StorageConstants DEF Storage!Bad
  <2>. QED BY <2>1, <2>2, NoOperation
<1>6. CASE Storage!Replace
  <2>1. 0 \in 0..Storage!Bad
    BY StorageConstants DEF Storage!Bad
  <2>2. legacy' = [k \in Keys |-> 0] /\ op' = Storage!Idle /\ marker
        /\ UNCHANGED <<files, marker, expected>>
    BY <1>6 DEF Storage!Replace
  <2>. QED BY <2>1, <2>2, NoOperation
<1>7. ASSUME NEW k \in Keys, Storage!Publish(k) PROVE StorageInv'
  <2>1. /\ op.at = "publishing" /\ k \in op.todo
        /\ files' = [files EXCEPT ![k] = IF files[k] = 0 THEN legacy[k] ELSE files[k]]
        /\ op' = [op EXCEPT !.todo = op.todo \ {k}]
        /\ UNCHANGED <<legacy, marker, expected>>
    BY <1>7 DEF Storage!Publish
  <2>2. legacy[k] \in 0..MaxValue
    BY <2>1, StorageConstants DEF Storage!Bad
  <2>. QED BY <2>1, <2>2
<1>8. ASSUME NEW k \in Keys, NEW v \in Storage!Values, Storage!Repair(k, v) PROVE StorageInv'
  <2>1. v \in 0..Storage!Bad
    BY StorageConstants DEF Storage!Values, Storage!Bad
  <2>2. /\ legacy[k] = Storage!Bad /\ legacy' = [legacy EXCEPT ![k] = v]
        /\ expected' = IF files[k] = 0 /\ ~marker THEN [expected EXCEPT ![k] = v] ELSE expected
        /\ UNCHANGED <<files, marker, op>>
    BY <1>8 DEF Storage!Repair
  <2>. QED BY <2>1, <2>2
<1>9. CASE UNCHANGED Storage!vars
  BY <1>9 DEF Storage!vars
<1>. QED BY <1>1, <1>2, <1>3, <1>4, <1>5, <1>6, <1>7, <1>8, <1>9 DEF Storage!Next

-----------------------------------------------------------------------------
(* A stream that was stopped is silent.                                    *)

\* A stream that was stopped is not in the map any more.
SilenceInv ==
  /\ stoppedStreams \cap streams = {}
  /\ heard \in [Sessions!Streams -> Nat]

LEMMA SilenceBegins ==
  ASSUME Sessions!Init PROVE SilenceInv
BY DEF Sessions!Init, SilenceInv

\* Of the steps that enter something, one opens a stream that was not stopped yet, and the
\* others stop what they take out.
LEMMA SilenceGoesOn ==
  ASSUME SessionsInv, SilenceInv, Sessions!Next \/ UNCHANGED Sessions!vars
  PROVE  SilenceInv' /\ \A s \in stoppedStreams : heard'[s] = heard[s]
<1>1. /\ stoppedStreams \cap streams = {} /\ heard \in [Sessions!Streams -> Nat]
      /\ streams \subseteq Sessions!Streams /\ stoppedStreams \subseteq Sessions!Streams
      /\ \A s \in Sessions!Streams : handler[s] = "finding" => s \notin stoppedStreams
      /\ toParent \in Seq(ToParentMessage)
  BY DEF SessionsInv, SessionsTyped, SilenceInv, Fresh
<1>. HIDE DEF SessionsInv, SilenceInv
<1>2. ASSUME stoppedStreams' \cap streams' = {}, UNCHANGED heard
      PROVE  SilenceInv' /\ \A s \in stoppedStreams : heard'[s] = heard[s]
  BY <1>1, <1>2 DEF SilenceInv
<1>3. ASSUME NEW ss, Sessions!StopStreams(ss) PROVE stoppedStreams' \cap streams' = {}
  BY <1>1, <1>3 DEF Sessions!StopStreams
<1>4. ASSUME NEW k \in Sessions!Kinds, Sessions!Ask(k) \/ Sessions!Unsubscribe(k)
      PROVE  stoppedStreams' \cap streams' = {} /\ UNCHANGED heard
  BY <1>3, <1>4 DEF Sessions!Ask, Sessions!Unsubscribe
<1>5. CASE Sessions!CloseSocket
  BY <1>2, <1>3, <1>5 DEF Sessions!CloseSocket
<1>6. CASE Sessions!Crash \/ Sessions!Dispose
  BY <1>2, <1>6 DEF Sessions!Crash, Sessions!Dispose, Sessions!ProcessGone
<1>7. ASSUME NEW s \in Sessions!Streams, Sessions!OpenStream(s)
      PROVE  stoppedStreams' \cap streams' = {} /\ UNCHANGED heard
  BY <1>1, <1>7 DEF Sessions!OpenStream
<1>8. ASSUME NEW s \in Sessions!Streams,
             Sessions!NoProvider(s) \/ Sessions!ProviderReturns(s) \/ Sessions!Emit(s) \/ Sessions!EndStream(s)
      PROVE  stoppedStreams' \cap streams' = {} /\ UNCHANGED heard
  BY <1>1, <1>8 DEF Sessions!NoProvider, Sessions!ProviderReturns, Sessions!Emit, Sessions!EndStream,
    Sessions!Says
<1>9. CASE Sessions!WorkerStart \/ Sessions!WorkerStop
  BY <1>1, <1>2, <1>9 DEF Sessions!WorkerStart, Sessions!WorkerStop, Sessions!Received
<1>10. CASE Sessions!HandleResult
  BY <1>1, <1>2, <1>10 DEF Sessions!HandleResult
<1>11. CASE Sessions!HandleRefused
  BY <1>1, <1>2, <1>3, <1>11 DEF Sessions!HandleRefused
<1>12. CASE Sessions!HandleData
  <2>. DEFINE s == Head(toParent).stream
  <2>1. /\ UNCHANGED <<stoppedStreams, streams>>
        /\ heard' = IF s \in streams /\ wsOpen THEN [heard EXCEPT ![s] = @ + 1] ELSE heard
    BY <1>12 DEF Sessions!HandleData
  <2>. HIDE DEF s
  <2>2. heard' \in [Sessions!Streams -> Nat] /\ \A t \in stoppedStreams : heard'[t] = heard[t]
    BY <1>1, <2>1
  <2>. QED BY <1>1, <2>1, <2>2 DEF SilenceInv
<1>13. CASE Sessions!HandleEnd
  BY <1>1, <1>2, <1>3, <1>13 DEF Sessions!HandleEnd
<1>14. CASE UNCHANGED Sessions!vars
  BY <1>1, <1>2, <1>14 DEF Sessions!vars
<1>. QED BY <1>2, <1>4, <1>5, <1>6, <1>7, <1>8, <1>9, <1>10, <1>11, <1>12, <1>13, <1>14 DEF Sessions!Next

-----------------------------------------------------------------------------
(* The session of a tab.                                                  *)

\* A check of the page that was just mounted is the only one, and comes before any session;
\* and nobody signs in at the gate of a tab that has a session.
TabInv ==
  /\ checks \in [Tab!Checks -> [kind : {"none", "mount", "recheck"}, answer : Tab!Answers \cup {"none"}]]
  /\ auth \in [resolved : BOOLEAN, required : BOOLEAN, authenticated : BOOLEAN]
  /\ ws \in {"none", "connecting", "open"} /\ session \in BOOLEAN /\ timer \in BOOLEAN
  /\ server \in Tab!Answers
  /\ \A k \in Tab!Checks : checks[k].kind = "none" => checks[k].answer = "none"
  /\ \A k \in Tab!Checks : checks[k].kind = "mount" =>
       /\ ~session /\ ~auth.resolved
       /\ \A j \in Tab!Checks : j # k => checks[j].kind = "none"
  /\ submit # "none" => ~session /\ auth.resolved
  /\ Tab!SessionFollowsGate

LEMMA TabBegins ==
  ASSUME Tab!Init PROVE TabInv
<1>1. /\ ~auth.resolved /\ auth \in [resolved : BOOLEAN, required : BOOLEAN, authenticated : BOOLEAN]
      /\ session = FALSE /\ ws = "none" /\ timer = FALSE /\ submit = "none" /\ server \in Tab!Answers
  BY DEF Tab!Init
<1>2. /\ checks \in [Tab!Checks -> [kind : {"none", "mount", "recheck"}, answer : Tab!Answers \cup {"none"}]]
      /\ \A k \in Tab!Checks : checks[k].answer = "none" /\ (checks[k].kind # "none" <=> k = 1)
  BY DEF Tab!Init, Tab!NoCheck
<1>3. \A k \in Tab!Checks : checks[k].kind = "none" => checks[k].answer = "none"
  BY <1>2
<1>4. \A k \in Tab!Checks : checks[k].kind = "mount" => \A j \in Tab!Checks : j # k => checks[j].kind = "none"
  BY <1>2
<1>5. Tab!SessionFollowsGate
  BY <1>1 DEF Tab!SessionFollowsGate, Tab!Locked
<1>. QED BY <1>1, <1>2, <1>3, <1>4, <1>5 DEF TabInv

\* A tab that takes itself for signed in asks again; it does so only with a session.
LEMMA RecheckKeeps ==
  ASSUME TabInv, Tab!Rechecks, session
  PROVE  /\ checks' \in [Tab!Checks -> [kind : {"none", "mount", "recheck"}, answer : Tab!Answers \cup {"none"}]]
         /\ \A k \in Tab!Checks : checks'[k].kind # "mount" /\ (checks'[k].kind = "none" => checks'[k].answer = "none")
<1>. USE DEF TabInv
<1>1. CASE auth.authenticated /\ \E k \in Tab!Checks : checks[k] = Tab!NoCheck
  <2>. DEFINE c == CHOOSE k \in Tab!Checks : checks[k] = Tab!NoCheck
  <2>1. c \in Tab!Checks
    BY <1>1
  <2>2. checks' = [checks EXCEPT ![c] = [kind |-> "recheck", answer |-> "none"]]
    BY <1>1 DEF Tab!Rechecks
  <2>. HIDE DEF c
  <2>. QED BY <2>1, <2>2
<1>2. CASE ~(auth.authenticated /\ \E k \in Tab!Checks : checks[k] = Tab!NoCheck)
  BY <1>2 DEF Tab!Rechecks
<1>. QED BY <1>1, <1>2

LEMMA TabGoesOn ==
  ASSUME TabInv, Tab!Next \/ UNCHANGED Tab!vars PROVE TabInv'
<1>. USE DEF TabInv, Tab!SessionFollowsGate, Tab!Locked, Tab!Socket
<1>1. CASE Tab!Opened
  BY <1>1 DEF Tab!Opened
<1>2. CASE Tab!Closed
  <2>1. session
    BY <1>2 DEF Tab!Closed
  <2>2. CASE ws = "connecting"
    <3>1. /\ checks' \in [Tab!Checks -> [kind : {"none", "mount", "recheck"}, answer : Tab!Answers \cup {"none"}]]
          /\ \A k \in Tab!Checks : checks'[k].kind # "mount" /\ (checks'[k].kind = "none" => checks'[k].answer = "none")
      BY <1>2, <2>1, <2>2, RecheckKeeps DEF Tab!Closed
    <3>. QED BY <1>2, <2>1, <3>1 DEF Tab!Closed
  <2>3. CASE ws # "connecting"
    BY <1>2, <2>1, <2>3 DEF Tab!Closed
  <2>. QED BY <2>2, <2>3
<1>3. CASE Tab!Reconnect
  BY <1>3 DEF Tab!Reconnect
<1>4. CASE Tab!Unauthorized
  <2>1. /\ checks' \in [Tab!Checks -> [kind : {"none", "mount", "recheck"}, answer : Tab!Answers \cup {"none"}]]
        /\ \A k \in Tab!Checks : checks'[k].kind # "mount" /\ (checks'[k].kind = "none" => checks'[k].answer = "none")
    BY <1>4, RecheckKeeps DEF Tab!Unauthorized
  <2>. QED BY <1>4, <2>1 DEF Tab!Unauthorized
<1>5. CASE Tab!Submit
  BY <1>5 DEF Tab!Submit
<1>6. CASE Tab!Verify
  BY <1>6 DEF Tab!Verify, Tab!Answers
<1>7. CASE Tab!Submitted
  <2>1. submit # "none" /\ submit' = "none" /\ ~session /\ auth.resolved /\ UNCHANGED <<server, checks, logs>>
    BY <1>7 DEF Tab!Submitted
  <2>2. CASE submit = "refused"
    BY <1>7, <2>1, <2>2 DEF Tab!Submitted
  <2>3. CASE submit # "refused"
    <3>1. auth' = [auth EXCEPT !.required = (submit = "in"), !.authenticated = TRUE]
      BY <1>7, <2>3 DEF Tab!Submitted
    <3>2. auth' \in [resolved : BOOLEAN, required : BOOLEAN, authenticated : BOOLEAN] /\ auth'.authenticated
      BY <3>1
    <3>3. session' = TRUE /\ ws' = "connecting" /\ timer' = FALSE
      BY <1>7, <2>1, <2>3 DEF Tab!Submitted, Tab!Starts, Tab!Connects
    <3>. QED BY <2>1, <3>2, <3>3
  <2>. QED BY <2>2, <2>3
<1>8. ASSUME NEW k \in Tab!Checks, Tab!ServerAnswers(k) PROVE TabInv'
  <2>1. /\ checks[k].kind # "none"
        /\ checks' = [checks EXCEPT ![k].answer = server]
        /\ UNCHANGED <<server, submit, auth, session, ws, timer, sent, logs>>
    BY <1>8 DEF Tab!ServerAnswers, Tab!NoCheck
  <2>2. /\ checks' \in [Tab!Checks -> [kind : {"none", "mount", "recheck"}, answer : Tab!Answers \cup {"none"}]]
        /\ \A j \in Tab!Checks : checks'[j].kind = checks[j].kind /\ (j # k => checks'[j] = checks[j])
    BY <2>1
  <2>. QED BY <2>1, <2>2
<1>9. ASSUME NEW k \in Tab!Checks, Tab!Checked(k) PROVE TabInv'
  <2>1. /\ checks[k].answer # "none" /\ checks[k].kind \in {"mount", "recheck"}
        /\ checks' = [checks EXCEPT ![k] = Tab!NoCheck]
        /\ UNCHANGED <<server, submit, logs>>
    BY <1>9 DEF Tab!Checked
  <2>2. /\ checks' \in [Tab!Checks -> [kind : {"none", "mount", "recheck"}, answer : Tab!Answers \cup {"none"}]]
        /\ checks'[k].kind = "none" /\ checks'[k].answer = "none"
        /\ \A j \in Tab!Checks : j # k => checks'[j] = checks[j]
    BY <2>1 DEF Tab!NoCheck
  <2>3. \A j \in Tab!Checks : checks'[j].kind # "mount"
    BY <2>1, <2>2
  <2>4. /\ auth' \in [resolved : BOOLEAN, required : BOOLEAN, authenticated : BOOLEAN]
        /\ auth'.resolved /\ (auth'.authenticated <=> checks[k].answer # "out")
    <3>1. auth' = [resolved |-> TRUE, required |-> checks[k].answer \in {"in", "out"},
                   authenticated |-> checks[k].answer # "out"]
      BY <1>9 DEF Tab!Checked
    <3>2. (checks[k].answer \in {"in", "out"}) \in BOOLEAN /\ (checks[k].answer # "out") \in BOOLEAN
      OBVIOUS
    <3>. QED BY <3>1, <3>2, Zenon
  <2>5. CASE checks[k].answer # "out" /\ checks[k].kind = "mount"
    <3>1. session' = TRUE /\ ws' = "connecting" /\ timer' = FALSE /\ submit = "none"
      BY <1>9, <2>5 DEF Tab!Checked, Tab!Starts, Tab!Connects
    <3>. QED BY <2>1, <2>2, <2>3, <2>4, <2>5, <3>1
  <2>6. CASE checks[k].answer = "out" /\ checks[k].kind = "recheck"
    <3>1. session' = FALSE
          /\ IF session THEN ws' = "none" /\ timer' = FALSE /\ sent' = Nil ELSE UNCHANGED <<ws, timer, sent>>
      BY <1>9, <2>6 DEF Tab!Checked, Tab!Stops, Tab!Disconnects
    <3>. QED BY <2>1, <2>2, <2>3, <2>4, <2>6, <3>1
  <2>7. CASE /\ ~(checks[k].answer # "out" /\ checks[k].kind = "mount")
             /\ ~(checks[k].answer = "out" /\ checks[k].kind = "recheck")
    <3>1. UNCHANGED <<session, ws, timer, sent>>
      BY <1>9, <2>7 DEF Tab!Checked
    <3>. QED BY <2>1, <2>2, <2>3, <2>4, <2>7, <3>1
  <2>. QED BY <2>5, <2>6, <2>7
<1>10. ASSUME NEW t \in LogTargets \cup {Nil}, Tab!Subscribe(t) PROVE TabInv'
  BY <1>10 DEF Tab!Subscribe
<1>11. ASSUME NEW answer \in Tab!Answers, Tab!ServerChanges(answer) PROVE TabInv'
  BY <1>11 DEF Tab!ServerChanges
<1>12. CASE UNCHANGED Tab!vars
  BY <1>12 DEF Tab!vars
<1>. QED BY <1>1, <1>2, <1>3, <1>4, <1>5, <1>6, <1>7, <1>8, <1>9, <1>10, <1>11, <1>12 DEF Tab!Next

-----------------------------------------------------------------------------
(* The replay of a recording.                                              *)

Subject == [of : Replay!Numbers, cpu : Replay!Numbers]
Circle == [of : Replay!Numbers, cpu : Replay!Numbers, gone : BOOLEAN]
Screens == [graph : Replay!Shown, events : SUBSET Replay!Numbers]

\* A tab that replays has applied the frames until the scrubber's position, and shows what
\* they tell; a recording, and the events of a tab that does not replay, are of the server.
ReplayInv ==
  /\ version \in 1..MaxVersion /\ fetches \subseteq 1..MaxVersion /\ screen \in Screens
  /\ {recording, clip} \subseteq Replay!Recordings \cup {Nil}
  /\ playing => replaying
  /\ replaying => /\ clip # Nil /\ position \in 0..Replay!Duration /\ applied = position
                  /\ recording = Nil /\ Replay!Shows(screen, clip, position)
  /\ recording # Nil => \A k \in 1..Len(recording.frames) : recording.frames[k].of <= MaxVersion
  /\ ~replaying => screen.events \subseteq 1..MaxVersion

\* A graph has values of some nodes.
LEMMA GraphsAre ==
  ASSUME NEW V
  PROVE  /\ \A g \in Replay!Graphs(V) : /\ DOMAIN g \subseteq ReplayNodes /\ g \in [DOMAIN g -> V]
                                        /\ \A n \in DOMAIN g : g[n] \in V
         /\ \A S \in SUBSET ReplayNodes : \A g \in [S -> V] : g \in Replay!Graphs(V)
<1>1. \A g \in Replay!Graphs(V) : \E S \in SUBSET ReplayNodes : g \in [S -> V]
  BY DEF Replay!Graphs
<1>2. \A S \in SUBSET ReplayNodes : \A g \in [S -> V] : g \in Replay!Graphs(V)
  BY DEF Replay!Graphs
<1>. QED BY <1>1, <1>2

LEMMA ReplayNumbers ==
  /\ MaxVersion \in Nat \ {0} /\ Len(ReplayListings) \in Nat /\ 0 \in Replay!Numbers
  /\ \A v \in 1..Len(ReplayListings) : v \in Replay!Numbers /\ ReplayListings[v] \in SUBSET ReplayNodes
  /\ \A v \in 1..MaxVersion : v \in 1..Len(ReplayListings)
<1>1. /\ MaxVersion \in Nat \ {0} /\ ReplayListings \in Seq(SUBSET ReplayNodes)
      /\ MaxVersion <= Len(ReplayListings)
  BY ReplayAssumption
<1>2. Len(ReplayListings) \in Nat /\ \A v \in 1..Len(ReplayListings) : ReplayListings[v] \in SUBSET ReplayNodes
  BY <1>1, LenProperties, ElementOfSeq
<1>. QED BY <1>1, <1>2 DEF Replay!Numbers

\* What the merge m of two graphs shows.
MergeOf(was, came, m) ==
  /\ m \in Replay!Shown
  /\ DOMAIN came = {n \in DOMAIN m : ~m[n].gone}
  /\ \A n \in DOMAIN came : m[n].of = came[n].of
  /\ \A n \in DOMAIN m : m[n].gone => n \in ReplayPods
  /\ \A n \in DOMAIN m : n \in DOMAIN was => m[n].cpu = was[n].cpu

LEMMA Merged ==
  ASSUME NEW was \in Replay!Shown, NEW came \in Replay!Sent
  PROVE  MergeOf(was, came, Replay!Merge(was, came))
<1>. DEFINE m == Replay!Merge(was, came)
            leaving == {n \in DOMAIN was \ DOMAIN came : n \in ReplayPods}
<1>1. /\ DOMAIN was \subseteq ReplayNodes /\ \A n \in DOMAIN was : was[n] \in Circle
  BY GraphsAre DEF Replay!Shown, Circle
<1>2. /\ DOMAIN came \subseteq ReplayNodes /\ \A n \in DOMAIN came : came[n] \in Subject
  BY GraphsAre DEF Replay!Sent, Subject
<1>3. /\ DOMAIN m = DOMAIN came \cup leaving
      /\ \A n \in leaving : m[n] = [of |-> 0, cpu |-> was[n].cpu, gone |-> TRUE]
      /\ \A n \in DOMAIN came :
           m[n] = [of |-> came[n].of, gone |-> FALSE,
                   cpu |-> IF n \in DOMAIN was THEN was[n].cpu ELSE came[n].cpu]
      /\ m = [n \in DOMAIN m |-> m[n]]
  BY DEF Replay!Merge
<1>. HIDE DEF m, leaving
<1>a. \A v, w \in Replay!Numbers, b \in BOOLEAN : [of |-> v, gone |-> b, cpu |-> w] \in Circle
  BY DEF Circle
<1>4. ASSUME NEW n \in leaving PROVE m[n] \in Circle /\ m[n].gone /\ m[n].cpu = was[n].cpu
  <2>1. m[n] = [of |-> 0, cpu |-> was[n].cpu, gone |-> TRUE]
    BY <1>3, <1>4
  <2>2. was[n].cpu \in Replay!Numbers /\ 0 \in Replay!Numbers
    BY <1>1, <1>4, ReplayNumbers DEF Circle, leaving
  <2>3. m[n] \in Circle
    BY <1>a, <2>1, <2>2
  <2>4. m[n].gone = TRUE /\ m[n].cpu = was[n].cpu
    BY <2>1
  <2>. QED BY <2>3, <2>4, Zenon
<1>5. ASSUME NEW n \in DOMAIN came
      PROVE  m[n] \in Circle /\ ~m[n].gone /\ m[n].of = came[n].of /\ (n \in DOMAIN was => m[n].cpu = was[n].cpu)
  <2>1. m[n] = [of |-> came[n].of, gone |-> FALSE,
                cpu |-> IF n \in DOMAIN was THEN was[n].cpu ELSE came[n].cpu]
    BY <1>3, <1>5
  <2>2. came[n].of \in Replay!Numbers
        /\ (IF n \in DOMAIN was THEN was[n].cpu ELSE came[n].cpu) \in Replay!Numbers
    BY <1>1, <1>2, <1>5 DEF Circle, Subject
  <2>3. m[n] \in Circle
    BY <1>a, <2>1, <2>2
  <2>4. m[n].gone = FALSE /\ m[n].of = came[n].of /\ (n \in DOMAIN was => m[n].cpu = was[n].cpu)
    BY <2>1
  <2>. QED BY <2>3, <2>4, Zenon
<1>6. m \in Replay!Shown
  <2>1. m \in [DOMAIN m -> Circle] /\ DOMAIN m \subseteq ReplayNodes
    BY <1>1, <1>2, <1>3, <1>4, <1>5 DEF leaving
  <2>. QED BY <2>1, GraphsAre DEF Replay!Shown, Circle
<1>7. DOMAIN came = {n \in DOMAIN m : ~m[n].gone}
  BY <1>3, <1>4, <1>5, Zenon
<1>8. MergeOf(was, came, m)
  BY <1>3, <1>4, <1>5, <1>6, <1>7 DEF MergeOf, leaving
<1>. QED BY <1>8 DEF m

\* A graph of the server is one that is sent.
LEMMA GraphIsSent ==
  ASSUME NEW v \in 1..Len(ReplayListings) PROVE Replay!Graph(v) \in Replay!Sent
<1>1. Replay!Graph(v) \in [ReplayListings[v] -> Subject]
  BY ReplayNumbers DEF Replay!Graph, Subject
<1>. QED BY <1>1, GraphsAre, ReplayNumbers DEF Replay!Sent, Subject

\* The initial graph of a recording is shown after a reset.
LEMMA ResetShows ==
  ASSUME screen \in Screens, NEW r \in Replay!Recordings
  PROVE  /\ Replay!Reset(r.initial) \in Screens
         /\ Replay!Shows(Replay!Reset(r.initial), r, 0)
<1>. DEFINE s == Replay!Reset(r.initial)
<1>1. screen.graph \in Replay!Shown /\ r.initial \in Replay!Sent
  BY DEF Screens, Replay!Recordings
<1>2. s.graph = Replay!Merge(screen.graph, r.initial) /\ s.events = {}
      /\ s = [graph |-> s.graph, events |-> s.events]
  BY DEF Replay!Reset
<1>. HIDE DEF s
<1>3. /\ s.graph \in Replay!Shown
      /\ DOMAIN r.initial = {n \in DOMAIN s.graph : ~s.graph[n].gone}
      /\ \A n \in DOMAIN r.initial : s.graph[n].of = r.initial[n].of
      /\ \A n \in DOMAIN s.graph : s.graph[n].gone => n \in ReplayPods
  <2>1. MergeOf(screen.graph, r.initial, s.graph)
    BY <1>1, <1>2, Merged
  <2>. QED BY <2>1, Zenon DEF MergeOf
<1>4. s \in Screens
  BY <1>2, <1>3 DEF Screens
<1>5. Replay!ToldAt(r, 0, 0) /\ Replay!Told(r, 0) = r.initial
  BY DEF Replay!ToldAt, Replay!IsGraph, Replay!Told
<1>6. Replay!Shows(s, r, 0)
  <2>1. s.events = {r.frames[j].of : j \in {i \in 1..0 : r.frames[i].about = "event"}}
    BY <1>2
  <2>2. \A j \in 1..0 : FALSE
    OBVIOUS
  <2>3. \E g \in 0..0 :
       /\ Replay!ToldAt(r, 0, g)
       /\ DOMAIN Replay!Told(r, g) = {n \in DOMAIN s.graph : ~s.graph[n].gone}
       /\ \A n \in DOMAIN Replay!Told(r, g) : s.graph[n].of = Replay!Told(r, g)[n].of
    <3>1. 0 \in 0..0
      OBVIOUS
    <3>. QED BY <1>3, <1>5, <3>1, Zenon
  <2>. QED BY <1>3, <2>1, <2>2, <2>3 DEF Replay!Shows
<1>. QED BY <1>4, <1>6 DEF s

\* What was told last until a frame, is after it, if that is no graph.
LEMMA StillTold ==
  ASSUME NEW r \in Replay!Recordings, NEW k \in 1..Len(r.frames), NEW j \in 1..(k - 1), NEW n,
         Replay!LastStats(r, k, j, n)
  PROVE  Replay!LastStats(r, k - 1, j, n) /\ r.frames[k].about # n
<1>1. Len(r.frames) \in Nat
  BY LenProperties DEF Replay!Recordings
<1>2. j \in Nat /\ k \in Nat /\ k \in (j + 1)..k
      /\ (\A i \in (j + 1)..(k - 1) : i \in (j + 1)..k) /\ \A i \in j..(k - 1) : i \in j..k
  BY <1>1
<1>. QED BY <1>2 DEF Replay!LastStats

\* A node with last stats is on the screen.
LEMMA HasStats ==
  ASSUME NEW r \in Replay!Recordings, NEW k \in 0..Len(r.frames), NEW s, Replay!Shows(s, r, k),
         NEW j \in 1..k, NEW n, Replay!LastStats(r, k, j, n)
  PROVE  n \in DOMAIN s.graph /\ s.graph[n].cpu = r.frames[j].of
<1>1. Len(r.frames) \in Nat
  BY LenProperties DEF Replay!Recordings
<1>2. PICK g \in 0..k : /\ Replay!ToldAt(r, k, g)
                        /\ DOMAIN Replay!Told(r, g) = {m \in DOMAIN s.graph : ~s.graph[m].gone}
  BY DEF Replay!Shows
<1>3. k \in j..k
  BY <1>1
<1>4. n \in DOMAIN Replay!Told(r, g)
  BY <1>2, <1>3 DEF Replay!LastStats
<1>5. n \in DOMAIN s.graph
  BY <1>2, <1>4
<1>. QED BY <1>5 DEF Replay!Shows

\* What the message m makes of the screen s: the screen h.
HandledAs(s, m, h) ==
  /\ h \in Screens
  /\ h.events = IF m.about = "event" THEN s.events \cup {m.of} ELSE s.events
  /\ m.about = "graph" => h.graph = Replay!Merge(s.graph, Replay!Graph(m.of))
  /\ m.about # "graph" =>
       /\ DOMAIN h.graph = DOMAIN s.graph
       /\ \A n \in DOMAIN s.graph : /\ h.graph[n].of = s.graph[n].of
                                    /\ h.graph[n].gone <=> s.graph[n].gone
                                    /\ h.graph[n].cpu = IF n = m.about THEN m.of ELSE s.graph[n].cpu

LEMMA HandledIs ==
  ASSUME NEW s \in Screens, NEW m \in Replay!Messages
  PROVE  HandledAs(s, m, Replay!Handled(s, m))
<1>. DEFINE h == Replay!Handled(s, m)
<1>. SUFFICES HandledAs(s, m, h)
  OBVIOUS
<1>. USE DEF HandledAs
<1>1. /\ s.graph \in Replay!Shown /\ s.events \in SUBSET Replay!Numbers
      /\ s = [graph |-> s.graph, events |-> s.events]
  BY DEF Screens
<1>2. /\ m.of \in 1..Len(ReplayListings) /\ m.of \in Replay!Numbers
      /\ m.about \in {"graph", "event"} \cup ReplayMeasured
  BY ReplayNumbers DEF Replay!Messages, Replay!Subjects
<1>3. /\ DOMAIN s.graph \subseteq ReplayNodes /\ s.graph \in [DOMAIN s.graph -> Circle]
      /\ \A n \in DOMAIN s.graph : s.graph[n] \in Circle
  BY <1>1, GraphsAre DEF Replay!Shown, Circle
<1>4. "graph" \notin DOMAIN s.graph /\ "event" \notin DOMAIN s.graph
  BY <1>3, ReplayAssumption
<1>5. CASE m.about = "graph"
  <2>1. h = [s EXCEPT !.graph = Replay!Merge(@, Replay!Graph(m.of))]
    BY <1>4, <1>5 DEF Replay!Handled
  <2>2. Replay!Merge(s.graph, Replay!Graph(m.of)) \in Replay!Shown
    BY <1>1, <1>2, GraphIsSent, Merged DEF MergeOf
  <2>. QED BY <1>1, <1>5, <2>1, <2>2 DEF Screens
<1>6. CASE m.about = "event"
  <2>1. h = [s EXCEPT !.events = @ \cup {m.of}]
    BY <1>4, <1>6 DEF Replay!Handled
  <2>. QED BY <1>1, <1>2, <1>4, <1>6, <2>1 DEF Screens
<1>7. CASE m.about \notin {"graph", "event"} /\ m.about \in DOMAIN s.graph
  <2>. DEFINE g == [s.graph EXCEPT ![m.about].cpu = m.of]
  <2>1. h = [s EXCEPT !.graph[m.about].cpu = m.of]
    BY <1>7 DEF Replay!Handled
  <2>2. h = [graph |-> g, events |-> s.events]
    BY <1>1, <2>1
  <2>3. /\ DOMAIN g = DOMAIN s.graph
        /\ \A n \in DOMAIN g : /\ n = m.about => g[n] = [s.graph[n] EXCEPT !.cpu = m.of]
                               /\ n # m.about => g[n] = s.graph[n]
    BY <1>7
  <2>4. \A n \in DOMAIN g : g[n] \in Circle
    BY <1>2, <1>3, <2>3 DEF Circle
  <2>5. g \in Replay!Shown
    <3>1. g \in [DOMAIN g -> Circle]
      BY <2>4
    <3>2. DOMAIN g \in SUBSET ReplayNodes
      BY <1>3, <2>3
    <3>. HIDE DEF g
    <3>. QED BY <3>1, <3>2, GraphsAre DEF Replay!Shown, Circle
  <2>6. \A n \in DOMAIN g : /\ g[n].of = s.graph[n].of /\ (g[n].gone <=> s.graph[n].gone)
                            /\ g[n].cpu = IF n = m.about THEN m.of ELSE s.graph[n].cpu
    BY <1>3, <2>3 DEF Circle
  <2>. HIDE DEF g
  <2>. QED BY <1>1, <1>7, <2>2, <2>3, <2>5, <2>6 DEF Screens
<1>8. CASE m.about \notin {"graph", "event"} /\ m.about \notin DOMAIN s.graph
  <2>1. h = s
    BY <1>8 DEF Replay!Handled
  <2>. QED BY <1>3, <1>8, <2>1
<1>. QED BY <1>5, <1>6, <1>7, <1>8

\* After the next frame is what is told at its time.
LEMMA FrameShows ==
  ASSUME NEW r \in Replay!Recordings, NEW k \in 1..Len(r.frames), NEW s \in Screens,
         Replay!Shows(s, r, k - 1)
  PROVE  /\ Replay!Handled(s, r.frames[k]) \in Screens
         /\ Replay!Shows(Replay!Handled(s, r.frames[k]), r, k)
<1>. DEFINE m == r.frames[k]
            h == Replay!Handled(s, m)
<1>1. Len(r.frames) \in Nat /\ k - 1 \in 0..Len(r.frames) /\ m \in Replay!Messages
      /\ \A i \in 1..k : i = k \/ i \in 1..(k - 1)
  BY LenProperties, ElementOfSeq DEF Replay!Recordings
<1>2. \A i \in 1..(k - 1) : i \in 1..k
  BY <1>1
<1>0. HandledAs(s, m, h)
  <2>. HIDE DEF m
  <2>. QED BY <1>1, HandledIs
<1>. HIDE DEF h
<1>3. /\ h \in Screens
      /\ h.events = IF m.about = "event" THEN s.events \cup {m.of} ELSE s.events
      /\ m.about = "graph" => h.graph = Replay!Merge(s.graph, Replay!Graph(m.of))
      /\ m.about # "graph" =>
           /\ DOMAIN h.graph = DOMAIN s.graph
           /\ \A n \in DOMAIN s.graph : /\ h.graph[n].of = s.graph[n].of
                                        /\ h.graph[n].gone <=> s.graph[n].gone
                                        /\ h.graph[n].cpu = IF n = m.about THEN m.of ELSE s.graph[n].cpu
  BY <1>0, Zenon DEF HandledAs
<1>4. h.events = {r.frames[j].of : j \in {i \in 1..k : r.frames[i].about = "event"}}
  <2>1. s.events = {r.frames[j].of : j \in {i \in 1..(k - 1) : r.frames[i].about = "event"}}
    BY DEF Replay!Shows
  <2>2. k \in 1..k
    BY <1>1
  <2>. QED BY <1>1, <1>2, <1>3, <2>1, <2>2
\* Frame k is not before the last stats of a node, which have been told of ever since.
<1>5. ASSUME NEW j \in 1..(k - 1), NEW n, Replay!LastStats(r, k, j, n)
      PROVE  n # m.about /\ n \in DOMAIN s.graph /\ s.graph[n].cpu = r.frames[j].of
  <2>1. Replay!LastStats(r, k - 1, j, n) /\ m.about # n
    BY <1>5, StillTold
  <2>. QED BY <1>1, <2>1, HasStats
<1>6. \A n : Replay!LastStats(r, k, k, n) => n = m.about
  BY DEF Replay!LastStats
<1>7. DOMAIN h.graph \subseteq ReplayNodes
  BY <1>3, GraphsAre DEF Screens, Replay!Shown
<1>8. CASE m.about = "graph"
  <2>1. m.of \in 1..Len(ReplayListings) /\ s.graph \in Replay!Shown
    BY <1>1 DEF Replay!Messages, Screens
  <2>2. /\ DOMAIN Replay!Graph(m.of) = {n \in DOMAIN h.graph : ~h.graph[n].gone}
        /\ \A n \in DOMAIN Replay!Graph(m.of) : h.graph[n].of = Replay!Graph(m.of)[n].of
        /\ \A n \in DOMAIN h.graph : h.graph[n].gone => n \in ReplayPods
        /\ \A n \in DOMAIN h.graph : n \in DOMAIN s.graph => h.graph[n].cpu = s.graph[n].cpu
    <3>1. MergeOf(s.graph, Replay!Graph(m.of), h.graph)
      BY <1>3, <1>8, <2>1, GraphIsSent, Merged
    <3>. QED BY <3>1, Zenon DEF MergeOf
  <2>3. Replay!ToldAt(r, k, k) /\ Replay!Told(r, k) = Replay!Graph(m.of) /\ k \in 0..k
    BY <1>1, <1>8 DEF Replay!ToldAt, Replay!IsGraph, Replay!Told
  <2>4. \A j \in 1..k, n \in DOMAIN h.graph :
          Replay!LastStats(r, k, j, n) => h.graph[n].cpu = r.frames[j].of
    <3>1. ASSUME NEW j \in 1..k, NEW n \in DOMAIN h.graph, Replay!LastStats(r, k, j, n)
          PROVE  h.graph[n].cpu = r.frames[j].of
      <4>1. CASE j = k
        BY <1>6, <1>7, <1>8, <3>1, <4>1, ReplayAssumption
      <4>2. CASE j # k
        BY <1>1, <1>5, <2>2, <3>1, <4>2
      <4>. QED BY <4>1, <4>2
    <3>. QED BY <3>1
  <2>5. \E g \in 0..k :
       /\ Replay!ToldAt(r, k, g)
       /\ DOMAIN Replay!Told(r, g) = {n \in DOMAIN h.graph : ~h.graph[n].gone}
       /\ \A n \in DOMAIN Replay!Told(r, g) : h.graph[n].of = Replay!Told(r, g)[n].of
    BY <2>2, <2>3
  <2>. QED BY <1>3, <1>4, <2>2, <2>4, <2>5 DEF Replay!Shows, h
<1>9. CASE m.about # "graph"
  <2>1. PICK g \in 0..(k - 1) :
       /\ Replay!ToldAt(r, k - 1, g)
       /\ DOMAIN Replay!Told(r, g) = {n \in DOMAIN s.graph : ~s.graph[n].gone}
       /\ \A n \in DOMAIN Replay!Told(r, g) : s.graph[n].of = Replay!Told(r, g)[n].of
    BY DEF Replay!Shows
  <2>2. Replay!ToldAt(r, k, g) /\ g \in 0..k
    <3>1. ~Replay!IsGraph(r, k)
      BY <1>1, <1>9 DEF Replay!IsGraph
    <3>2. g \in 0..k /\ \A i \in (g + 1)..k : i = k \/ i \in (g + 1)..(k - 1)
      BY <1>1
    <3>. QED BY <2>1, <3>1, <3>2 DEF Replay!ToldAt
  <2>3. /\ {n \in DOMAIN h.graph : ~h.graph[n].gone} = {n \in DOMAIN s.graph : ~s.graph[n].gone}
        /\ \A n \in DOMAIN h.graph : h.graph[n].gone => n \in ReplayPods
    BY <1>3, <1>9 DEF Replay!Shows
  <2>4. \A n \in DOMAIN Replay!Told(r, g) : h.graph[n].of = Replay!Told(r, g)[n].of
    BY <1>3, <1>9, <2>1
  <2>5. \A j \in 1..k, n \in DOMAIN h.graph :
          Replay!LastStats(r, k, j, n) => h.graph[n].cpu = r.frames[j].of
    <3>1. ASSUME NEW j \in 1..k, NEW n \in DOMAIN h.graph, Replay!LastStats(r, k, j, n)
          PROVE  h.graph[n].cpu = r.frames[j].of
      <4>1. CASE j = k
        BY <1>3, <1>6, <1>9, <3>1, <4>1
      <4>2. CASE j # k
        BY <1>1, <1>3, <1>5, <1>9, <3>1, <4>2
      <4>. QED BY <4>1, <4>2
    <3>. QED BY <3>1
  <2>6. \E f \in 0..k :
       /\ Replay!ToldAt(r, k, f)
       /\ DOMAIN Replay!Told(r, f) = {n \in DOMAIN h.graph : ~h.graph[n].gone}
       /\ \A n \in DOMAIN Replay!Told(r, f) : h.graph[n].of = Replay!Told(r, f)[n].of
    BY <2>1, <2>2, <2>3, <2>4
  <2>. QED BY <1>3, <1>4, <2>3, <2>5, <2>6 DEF Replay!Shows, h
<1>. QED BY <1>8, <1>9

\* A pod that leaves no longer counts.
LEMMA ExpiryShows ==
  ASSUME NEW s \in Screens, NEW n \in DOMAIN s.graph, s.graph[n].gone, NEW t,
         t = [s EXCEPT !.graph = [m \in DOMAIN s.graph \ {n} |-> s.graph[m]]]
  PROVE  /\ t \in Screens /\ t.events = s.events
         /\ \A r, k : Replay!Shows(s, r, k) => Replay!Shows(t, r, k)
<1>1. /\ s.graph \in Replay!Shown /\ s.events \in SUBSET Replay!Numbers
      /\ s = [graph |-> s.graph, events |-> s.events]
  BY DEF Screens
<1>. DEFINE g == [m \in DOMAIN s.graph \ {n} |-> s.graph[m]]
<1>2. t = [graph |-> g, events |-> s.events]
  BY <1>1
<1>3. /\ DOMAIN g = DOMAIN s.graph \ {n} /\ \A m \in DOMAIN g : m \in DOMAIN s.graph /\ g[m] = s.graph[m]
  OBVIOUS
<1>4. g \in Replay!Shown
  <2>1. /\ DOMAIN s.graph \subseteq ReplayNodes /\ \A m \in DOMAIN s.graph : s.graph[m] \in Circle
    BY <1>1, GraphsAre DEF Replay!Shown, Circle
  <2>2. g \in [DOMAIN g -> Circle] /\ DOMAIN g \in SUBSET ReplayNodes
    BY <1>3, <2>1
  <2>. HIDE DEF g
  <2>. QED BY <2>2, GraphsAre DEF Replay!Shown, Circle
<1>. HIDE DEF g
<1>5. t.graph = g /\ t.events = s.events /\ t \in Screens
  BY <1>1, <1>2, <1>4 DEF Screens
<1>6. {m \in DOMAIN g : ~g[m].gone} = {m \in DOMAIN s.graph : ~s.graph[m].gone}
  BY <1>3, Zenon
<1>7. ASSUME NEW r, NEW k, Replay!Shows(s, r, k) PROVE Replay!Shows(t, r, k)
  <2>1. PICK f \in 0..k :
       /\ Replay!ToldAt(r, k, f)
       /\ DOMAIN Replay!Told(r, f) = {m \in DOMAIN s.graph : ~s.graph[m].gone}
       /\ \A m \in DOMAIN Replay!Told(r, f) : s.graph[m].of = Replay!Told(r, f)[m].of
    BY <1>7, Zenon DEF Replay!Shows
  <2>2. \A m \in DOMAIN Replay!Told(r, f) : g[m].of = Replay!Told(r, f)[m].of
    BY <1>3, <1>6, <2>1
  <2>3. /\ \A m \in DOMAIN g : g[m].gone => m \in ReplayPods
        /\ \A j \in 1..k, m \in DOMAIN g : Replay!LastStats(r, k, j, m) => g[m].cpu = r.frames[j].of
    BY <1>3, <1>7, Zenon DEF Replay!Shows
  <2>4. s.events = {r.frames[j].of : j \in {i \in 1..k : r.frames[i].about = "event"}}
    BY <1>7, Zenon DEF Replay!Shows
  <2>. QED BY <1>5, <1>6, <2>1, <2>2, <2>3, <2>4, Zenon DEF Replay!Shows
<1>. QED BY <1>5, <1>7

\* What 0 is in, and the next of each that is, is in for every number.
LEMMA FramesCount ==
  ASSUME NEW S \in SUBSET Nat, 0 \in S, \A n \in S : n + 1 \in S PROVE S = Nat
<1>1. SUFFICES ASSUME Nat \ S # {} PROVE FALSE
  OBVIOUS
<1>2. PICK n \in Nat \ S : \A m \in Nat \ S : <<m, n>> \notin OpToRel(<, Nat)
  BY <1>1, WFMin, NatLessThanWellFounded, Zenon
<1>3. \A m \in Nat \ S : ~(m < n)
  BY <1>2, Zenon DEF OpToRel
<1>. QED BY <1>3

\* The screens that After goes through, from the screen s after the frames until from.
Goes(f, t, s, from) ==
  f = [k \in 0..t |-> IF k <= from THEN s ELSE Replay!Handled(f[k - 1], clip.frames[k])]

LEMMA FramesGo ==
  ASSUME NEW t \in Nat, NEW s, NEW from \in Nat PROVE \E f : Goes(f, t, s, from)
<1>. DEFINE Step(g, k) == IF k <= from THEN s ELSE Replay!Handled(g, clip.frames[k])
            Is(f, k) == f = [i \in 0..k |-> f[i]] /\ f[0] = s /\ \A i \in 1..k : f[i] = Step(f[i - 1], i)
            K == {k \in Nat : \E f : Is(f, k)}
<1>1. 0 \in K
  <2>1. Is([k \in 0..0 |-> s], 0)
    OBVIOUS
  <2>. QED BY <2>1
<1>2. ASSUME NEW k \in K PROVE k + 1 \in K
  <2>1. PICK f : Is(f, k)
    OBVIOUS
  <2>. HIDE DEF Step
  <2>. DEFINE g == [i \in 0..(k + 1) |-> IF i = k + 1 THEN Step(f[k], k + 1) ELSE f[i]]
  <2>2. k \in Nat /\ g = [i \in 0..(k + 1) |-> g[i]] /\ g[0] = s
    BY <2>1
  <2>3. ASSUME NEW i \in 1..(k + 1) PROVE g[i] = Step(g[i - 1], i)
    <3>1. i \in 0..(k + 1) /\ i - 1 \in 0..(k + 1) /\ i - 1 # k + 1 /\ g[i - 1] = f[i - 1]
      BY <2>2
    <3>2. CASE i = k + 1
      <4>1. g[i] = Step(f[k], k + 1) /\ i - 1 = k
        BY <2>2, <3>2
      <4>. QED BY <3>1, <3>2, <4>1
    <3>3. CASE i # k + 1
      <4>1. g[i] = f[i] /\ i \in 1..k
        BY <2>2, <3>3
      <4>. QED BY <2>1, <3>1, <4>1
    <3>. QED BY <3>2, <3>3
  <2>4. Is(g, k + 1)
    BY <2>2, <2>3
  <2>. HIDE DEF Is, g
  <2>. QED BY <2>2, <2>4
<1>3. K = Nat
  <2>. HIDE DEF Is
  <2>. QED BY <1>1, <1>2, FramesCount
<1>4. PICK f : Is(f, t)
  <2>. HIDE DEF Is
  <2>. QED BY <1>3
<1>5. ASSUME NEW k \in 0..t PROVE f[k] = Step(f[k - 1], k)
  <2>1. CASE k = 0
    <3>1. k <= from /\ f[k] = s
      BY <1>4, <2>1
    <3>. QED BY <3>1
  <2>2. CASE k # 0
    <3>1. k \in 1..t
      BY <2>2
    <3>. HIDE DEF Step
    <3>. QED BY <1>4, <3>1
  <2>. QED BY <2>1, <2>2
<1>6. DOMAIN f = 0..t /\ f = [k \in 0..t |-> f[k]]
  BY <1>4
<1>. QED BY <1>5, <1>6 DEF Goes

\* The frames until the time t are applied, one after the other.
LEMMA FramesApply ==
  ASSUME clip \in Replay!Recordings, NEW t \in 0..Replay!Duration, NEW from \in 0..t,
         NEW s \in Screens, Replay!Shows(s, clip, from), Replay!AppliesUpTo(t, s, from)
  PROVE  applied' = t /\ screen' \in Screens /\ Replay!Shows(screen', clip, t)
<1>1. Replay!Duration = Len(clip.frames) /\ Replay!Duration \in Nat /\ t \in Nat /\ from \in Nat
  BY LenProperties DEF Replay!Duration, Replay!Recordings
<1>2. applied' = t
  BY <1>1 DEF Replay!AppliesUpTo
<1>. DEFINE after == CHOOSE f : Goes(f, t, s, from)
<1>3. Goes(after, t, s, from)
  BY <1>1, FramesGo, Zenon
<1>4. screen' = after[t]
  BY Zenon DEF Replay!AppliesUpTo, Replay!After, Goes
<1>. HIDE DEF after
<1>5. \A k \in 0..t : after[k] = IF k <= from THEN s ELSE Replay!Handled(after[k - 1], clip.frames[k])
  BY <1>3 DEF Goes
<1>. DEFINE K == {k \in Nat : k \in from..t => after[k] \in Screens /\ Replay!Shows(after[k], clip, k)}
<1>6. 0 \in K
  <2>1. 0 \in from..t => from = 0 /\ after[0] = s
    BY <1>1, <1>5
  <2>. QED BY <2>1
<1>7. ASSUME NEW k \in K PROVE k + 1 \in K
  <2>0. k + 1 \in Nat
    BY <1>7
  <2>1. SUFFICES ASSUME k + 1 \in from..t
                 PROVE  after[k + 1] \in Screens /\ Replay!Shows(after[k + 1], clip, k + 1)
    BY <2>0, Zenon
  <2>2. CASE k + 1 = from
    BY <1>1, <1>5, <2>1, <2>2
  <2>3. CASE k + 1 # from
    <3>1. k \in from..t /\ k + 1 \in 1..Len(clip.frames) /\ k + 1 \in 0..t /\ ~(k + 1 <= from) /\ (k + 1) - 1 = k
      BY <1>1, <2>1, <2>3
    <3>2. after[k + 1] = Replay!Handled(after[k], clip.frames[k + 1])
      BY <1>5, <3>1
    <3>3. after[k] \in Screens /\ Replay!Shows(after[k], clip, (k + 1) - 1)
      BY <1>7, <3>1
    <3>. QED BY <3>1, <3>2, <3>3, FrameShows
  <2>. QED BY <2>2, <2>3
<1>8. K = Nat
  BY <1>6, <1>7, FramesCount
<1>9. t \in from..t
  BY <1>1
<1>. QED BY <1>1, <1>2, <1>4, <1>8, <1>9

LEMMA ReplayBegins ==
  ASSUME Replay!Init PROVE ReplayInv
<1>1. <<>> \in Replay!Shown /\ {} \in SUBSET Replay!Numbers
  <2>1. <<>> \in [{} -> Circle] /\ {} \in SUBSET ReplayNodes
    OBVIOUS
  <2>. QED BY <2>1, GraphsAre DEF Replay!Shown, Circle
<1>2. screen = [graph |-> <<>>, events |-> {}] /\ recording = Nil /\ clip = Nil /\ ~replaying /\ ~playing
      /\ version = 1 /\ fetches = {1}
  BY DEF Replay!Init
<1>3. screen \in Screens /\ screen.events = {}
  BY <1>1, <1>2 DEF Screens
<1>. QED BY <1>2, <1>3, ReplayNumbers DEF ReplayInv

\* A recording that begins to replay is at its start.
LEMMA ReplayStarts ==
  ASSUME ReplayInv, NEW r \in Replay!Recordings \cup {Nil}, clip' = r, Replay!Begins(r),
         replaying => r = clip \/ (recording = Nil /\ r # Nil),
         UNCHANGED <<version, fetches, recording>>
  PROVE  ReplayInv'
<1>1. CASE r = Nil \/ recording # Nil
  <2>1. UNCHANGED <<screen, replaying, playing, position, applied>>
    BY <1>1 DEF Replay!Begins
  <2>2. replaying => clip' = clip
    BY <1>1 DEF ReplayInv
  <2>. QED BY <2>1, <2>2 DEF ReplayInv, Replay!Duration
<1>2. CASE ~(r = Nil \/ recording # Nil)
  <2>1. /\ replaying' = TRUE /\ playing' = TRUE
        /\ screen' = Replay!Reset(r.initial) /\ position' = 0 /\ applied' = 0
    BY <1>2 DEF Replay!Begins, Replay!ToStart
  <2>2. screen' \in Screens /\ Replay!Shows(screen', r, 0)
    BY <1>2, <2>1, ResetShows DEF ReplayInv
  <2>3. Len(r.frames) \in Nat
    BY <1>2, LenProperties DEF Replay!Recordings
  <2>. QED BY <1>2, <2>1, <2>2, <2>3 DEF ReplayInv, Replay!Duration
<1>. QED BY <1>1, <1>2

LEMMA ReplayGoesOn ==
  ASSUME ReplayInv, Replay!Next \/ UNCHANGED Replay!vars PROVE ReplayInv'
<1>. USE DEF Replay!Replay
<1>0. /\ version \in 1..MaxVersion /\ version \in Nat /\ screen \in Screens
      /\ screen.graph \in Replay!Shown /\ screen.events \in SUBSET Replay!Numbers
      /\ screen = [graph |-> screen.graph, events |-> screen.events]
  BY DEF ReplayInv, Screens
\* A message of the server is about one of its graphs.
<1>a. \A v \in 1..MaxVersion, about \in Replay!Subjects : [about |-> about, of |-> v] \in Replay!Messages
  BY ReplayNumbers DEF Replay!Messages
<1>b. ASSUME NEW v \in 1..MaxVersion, NEW about \in Replay!Subjects, ~replaying,
             screen' = Replay!Handled(screen, [about |-> about, of |-> v])
      PROVE  screen' \in Screens /\ screen'.events \subseteq 1..MaxVersion
  <2>. DEFINE m == [about |-> about, of |-> v]
  <2>1. m \in Replay!Messages /\ m.of = v
    BY <1>a
  <2>. HIDE DEF m
  <2>2. HandledAs(screen, m, screen')
    BY <1>0, <1>b, <2>1, HandledIs DEF m
  <2>3. screen' \in Screens /\ screen'.events \subseteq screen.events \cup {v}
    BY <2>1, <2>2 DEF HandledAs
  <2>. QED BY <1>b, <2>3 DEF ReplayInv
<1>c. "graph" \in Replay!Subjects
  BY DEF Replay!Subjects
\* A replay goes on with the frames until the scrubber's position.
<1>d. ASSUME replaying, replaying', NEW s \in Screens, NEW from \in 0..position', Replay!Shows(s, clip, from),
             position' \in 0..Replay!Duration, Replay!AppliesUpTo(position', s, from),
             UNCHANGED <<version, fetches, recording, clip>>
      PROVE  ReplayInv'
  <2>1. clip \in Replay!Recordings
    BY <1>d DEF ReplayInv
  <2>2. applied' = position' /\ screen' \in Screens /\ Replay!Shows(screen', clip, position')
    BY <1>d, <2>1, FramesApply
  <2>. QED BY <1>d, <2>2 DEF ReplayInv, Replay!Duration
<1>e. clip \in Replay!Recordings => Replay!Duration \in Nat
  BY LenProperties DEF Replay!Duration, Replay!Recordings
<1>1. CASE Replay!Advance
  BY <1>1, ReplayNumbers DEF Replay!Advance, Replay!Duration, ReplayInv
<1>2. ASSUME NEW about \in Replay!Subjects, Replay!Hear(about) PROVE ReplayInv'
  <2>. DEFINE m == [about |-> about, of |-> version]
              captured == [recording EXCEPT !.frames = Append(@, m)]
  <2>1. /\ UNCHANGED <<version, fetches, loading, replaying, playing, position, applied>>
        /\ screen' = IF replaying THEN screen ELSE Replay!Handled(screen, m)
        /\ \/ recording # Nil /\ recording' = Nil /\ clip' = captured
           \/ recording # Nil /\ recording' = captured /\ clip' = clip
           \/ recording = Nil /\ recording' = Nil /\ clip' = clip
    BY <1>2 DEF Replay!Hear, Replay!Message
  <2>2. ASSUME recording # Nil
        PROVE  captured \in Replay!Recordings
               /\ \A k \in 1..Len(captured.frames) : captured.frames[k].of <= MaxVersion
    <3>. DEFINE old == recording.frames
                new == Append(old, m)
    <3>1. /\ recording = [initial |-> recording.initial, frames |-> old]
          /\ recording.initial \in Replay!Sent /\ old \in Seq(Replay!Messages)
      BY <2>2 DEF ReplayInv, Replay!Recordings
    <3>2. m \in Replay!Messages /\ m.of = version
      BY <1>0, <1>a
    <3>3. captured = [initial |-> recording.initial, frames |-> new]
      <4>1. \A i, f, g : [[initial |-> i, frames |-> f] EXCEPT !.frames = g] = [initial |-> i, frames |-> g]
        OBVIOUS
      <4>2. captured = [[initial |-> recording.initial, frames |-> old] EXCEPT !.frames = new]
        BY <3>1, Zenon
      <4>. QED BY <4>1, <4>2, Zenon
    <3>. HIDE DEF m
    <3>4. /\ new \in Seq(Replay!Messages) /\ Len(new) = Len(old) + 1 /\ Len(old) \in Nat
          /\ \A i \in 1..Len(old) : new[i] = old[i]
          /\ new[Len(old) + 1] = m
      BY <3>1, <3>2, AppendProperties, LenProperties
    <3>5. \A k \in 1..Len(old) : old[k].of <= MaxVersion
      BY <2>2 DEF ReplayInv
    <3>. HIDE DEF new, old
    <3>6. \A k \in 1..Len(new) : k \in 1..Len(old) \/ k = Len(old) + 1
      BY <3>4
    <3>7. \A k \in 1..Len(new) : new[k].of <= MaxVersion
      BY <1>0, <3>2, <3>4, <3>5, <3>6
    <3>8. captured.frames = new /\ captured \in Replay!Recordings
      BY <3>1, <3>3, <3>4 DEF Replay!Recordings
    <3>. QED BY <3>7, <3>8
  <2>3. /\ {recording', clip'} \subseteq Replay!Recordings \cup {Nil}
        /\ recording' # Nil => \A k \in 1..Len(recording'.frames) : recording'.frames[k].of <= MaxVersion
    <3>. HIDE DEF captured
    <3>. QED BY <2>1, <2>2 DEF ReplayInv
  <2>4. CASE replaying
    <3>1. recording = Nil /\ recording' = Nil /\ clip' = clip /\ screen' = screen
      BY <2>1, <2>4 DEF ReplayInv
    <3>. QED BY <2>1, <2>3, <2>4, <3>1 DEF ReplayInv, Replay!Duration
  <2>5. CASE ~replaying
    <3>1. screen' \in Screens /\ screen'.events \subseteq 1..MaxVersion
      BY <1>0, <1>b, <2>1, <2>5
    <3>. QED BY <2>1, <2>3, <2>5, <3>1 DEF ReplayInv
  <2>. QED BY <2>4, <2>5
<1>3. CASE Replay!Fetch
  BY <1>3 DEF Replay!Fetch, Replay!Duration, ReplayInv
<1>4. ASSUME NEW v \in 1..MaxVersion, Replay!Fetched(v) PROVE ReplayInv'
  <2>1. /\ UNCHANGED <<version, recording, clip, replaying, playing, position, applied>>
        /\ fetches' \subseteq fetches
        /\ screen' = IF replaying THEN screen ELSE Replay!Handled(screen, [about |-> "graph", of |-> v])
    BY <1>4 DEF Replay!Fetched
  <2>2. CASE replaying
    BY <2>1, <2>2 DEF ReplayInv, Replay!Duration
  <2>3. CASE ~replaying
    <3>1. screen' \in Screens /\ screen'.events \subseteq 1..MaxVersion
      BY <1>b, <1>c, <2>1, <2>3
    <3>. QED BY <2>1, <2>3, <3>1 DEF ReplayInv
  <2>. QED BY <2>2, <2>3
<1>5. ASSUME NEW n \in ReplayNodes, Replay!Expire(n) PROVE ReplayInv'
  <2>1. /\ UNCHANGED <<version, fetches, recording, clip, replaying, playing, position, applied>>
        /\ n \in DOMAIN screen.graph /\ screen.graph[n].gone
        /\ screen' = [screen EXCEPT !.graph = [m \in DOMAIN screen.graph \ {n} |-> screen.graph[m]]]
    BY <1>5 DEF Replay!Expire
  <2>2. screen' \in Screens /\ screen'.events = screen.events
        /\ \A r, k : Replay!Shows(screen, r, k) => Replay!Shows(screen', r, k)
    BY <1>0, <2>1, ExpiryShows
  <2>. QED BY <2>1, <2>2 DEF ReplayInv, Replay!Duration
<1>6. CASE Replay!StartRecording
  <2>. DEFINE r == [initial |-> Replay!Sanitized(screen.graph), frames |-> <<>>]
  <2>1. /\ ~replaying /\ clip = Nil /\ recording' = r
        /\ UNCHANGED <<version, screen, fetches, clip, replaying, playing, position, applied>>
    BY <1>6 DEF Replay!StartRecording
  <2>2. Replay!Sanitized(screen.graph) \in Replay!Sent
    <3>1. /\ DOMAIN screen.graph \in SUBSET ReplayNodes /\ \A n \in DOMAIN screen.graph : screen.graph[n] \in Circle
      BY <1>0, GraphsAre DEF Replay!Shown, Circle
    <3>2. Replay!Sanitized(screen.graph) \in [DOMAIN screen.graph -> Subject]
      BY <3>1 DEF Replay!Sanitized, Subject, Circle
    <3>. QED BY <3>1, <3>2, GraphsAre DEF Replay!Sent, Subject
  <2>3. r \in Replay!Recordings /\ Len(r.frames) = 0
    BY <2>2, EmptySeq DEF Replay!Recordings
  <2>. HIDE DEF r
  <2>. QED BY <2>1, <2>3 DEF ReplayInv
<1>7. CASE Replay!StopRecording
  BY <1>7 DEF Replay!StopRecording, ReplayInv
<1>8. CASE Replay!StartReplay
  BY <1>8, ReplayStarts DEF Replay!StartReplay, ReplayInv
<1>9. CASE Replay!Load
  BY <1>9 DEF Replay!Load, Replay!Duration, ReplayInv
<1>10. CASE Replay!Loaded
  <2>1. ASSUME NEW r \in ReplayFiles, clip' = r, Replay!Begins(r) PROVE ReplayInv'
    <3>1. r \in Replay!Recordings /\ r # Nil
      BY ReplayAssumption
    <3>2. replaying => recording = Nil
      BY DEF ReplayInv
    <3>. QED BY <1>10, <2>1, <3>1, <3>2, ReplayStarts DEF Replay!Loaded
  <2>2. CASE UNCHANGED <<clip, screen, replaying, playing, position, applied>>
    BY <1>10, <2>2 DEF Replay!Loaded, Replay!Duration, ReplayInv
  <2>. QED BY <1>10, <2>1, <2>2 DEF Replay!Loaded
<1>11. ASSUME NEW d \in 1..2, Replay!Tick(d) PROVE ReplayInv'
  <2>1. replaying /\ clip \in Replay!Recordings /\ Replay!Duration \in Nat /\ position \in 0..Replay!Duration
        /\ applied = position /\ Replay!Shows(screen, clip, position)
    BY <1>11, <1>e DEF Replay!Tick, ReplayInv
  <2>2. position' = Replay!Least(Replay!Duration, position + d) /\ replaying'
        /\ Replay!AppliesUpTo(position', screen, applied) /\ UNCHANGED <<version, fetches, recording, clip>>
    BY <1>11, <2>1 DEF Replay!Tick
  <2>3. position' \in 0..Replay!Duration /\ applied \in 0..position'
    BY <2>1, <2>2 DEF Replay!Least
  <2>. QED BY <1>0, <1>d, <2>1, <2>2, <2>3
<1>12. CASE Replay!Play
  <2>1. replaying /\ replaying' /\ clip \in Replay!Recordings /\ clip # Nil /\ Replay!Duration \in Nat
        /\ UNCHANGED <<version, fetches, recording, clip>>
    BY <1>12, <1>e DEF Replay!Play, ReplayInv
  <2>2. CASE position >= Replay!Duration
    <3>1. screen' = Replay!Reset(clip.initial) /\ position' = 0 /\ applied' = 0
      BY <1>12, <2>2 DEF Replay!Play, Replay!ToStart
    <3>2. screen' \in Screens /\ Replay!Shows(screen', clip, 0)
      BY <1>0, <2>1, <3>1, ResetShows
    <3>. QED BY <2>1, <3>1, <3>2 DEF Replay!Duration, ReplayInv
  <2>3. CASE ~(position >= Replay!Duration)
    BY <1>12, <2>1, <2>3 DEF Replay!Play, Replay!Duration, ReplayInv
  <2>. QED BY <2>2, <2>3
<1>13. CASE Replay!Pause
  BY <1>13 DEF Replay!Pause, Replay!Duration, ReplayInv
<1>14. CASE Replay!ExitReplay
  <2>1. /\ ~replaying' /\ ~playing' /\ screen' = [graph |-> screen.graph, events |-> {}]
        /\ fetches' = fetches \cup {version} /\ UNCHANGED <<version, recording, clip>>
    BY <1>0, <1>14 DEF Replay!ExitReplay, Replay!Cleared
  <2>2. screen' \in Screens /\ screen'.events = {}
    BY <1>0, <2>1 DEF Screens
  <2>. QED BY <2>1, <2>2 DEF ReplayInv
<1>15. ASSUME NEW t \in 0..MaxClip, Replay!Seek(t) PROVE ReplayInv'
  <2>1. replaying /\ clip \in Replay!Recordings /\ Replay!Duration \in Nat /\ position \in 0..Replay!Duration
        /\ applied = position /\ Replay!Shows(screen, clip, position)
    BY <1>15, <1>e DEF Replay!Seek, ReplayInv
  <2>2. position' = Replay!Least(Replay!Duration, t) /\ replaying' /\ UNCHANGED <<version, fetches, recording, clip>>
    BY <1>15, <2>1 DEF Replay!Seek
  <2>3. position' \in 0..Replay!Duration
    BY <2>1, <2>2 DEF Replay!Least
  <2>4. CASE position' < position
    <3>1. Replay!AppliesUpTo(position', Replay!Reset(clip.initial), 0)
      BY <1>15, <2>4 DEF Replay!Seek
    <3>2. 0 \in 0..position' /\ Replay!Reset(clip.initial) \in Screens
          /\ Replay!Shows(Replay!Reset(clip.initial), clip, 0)
      BY <1>0, <2>1, <2>3, ResetShows
    <3>. QED BY <1>d, <2>1, <2>2, <2>3, <3>1, <3>2
  <2>5. CASE ~(position' < position)
    <3>1. Replay!AppliesUpTo(position', screen, applied) /\ applied \in 0..position'
      BY <1>15, <2>1, <2>3, <2>5 DEF Replay!Seek
    <3>. QED BY <1>0, <1>d, <2>1, <2>2, <2>3, <3>1
  <2>. QED BY <2>4, <2>5
<1>16. CASE UNCHANGED Replay!vars
  BY <1>16 DEF Replay!vars, Replay!Duration, ReplayInv
<1>. QED BY <1>1, <1>2, <1>3, <1>4, <1>5, <1>6, <1>7, <1>8, <1>9, <1>10, <1>11, <1>12, <1>13, <1>14,
  <1>15, <1>16 DEF Replay!Next

LEMMA ReplayFollows ==
  ASSUME ReplayInv PROVE Replay!ReplayOwnsGraph
BY DEF ReplayInv, Replay!ReplayOwnsGraph

-----------------------------------------------------------------------------
(* The gate and the security panel.                                        *)

\* What a status can say, of anyone.
GateRoles == {"none", "reader", "operator"}
GateSetups == {"configured", "window-closed", "declined", "available"}
GateStatuses == [required : BOOLEAN, role : GateRoles, setup : GateSetups, fresh : BOOLEAN]
GateAuths ==
  [resolved : BOOLEAN, required : BOOLEAN, role : GateRoles, setup : GateSetups, fresh : BOOLEAN]
GateServers ==
  [token : Gate!Tokens \cup {Nil}, declined : BOOLEAN, closed : BOOLEAN, mine : GateRoles]

\* A status that is fresh says what the server would say now.
GateFits(st, s) ==
  st.fresh => /\ st.required = (s.token # Nil) /\ st.role = Gate!AccessRole(s)
              /\ st.setup = Gate!SetupAvailability(s)

\* All that is known of the server fits it, also what is on its way, unless it is known to be old; a
\* request that is not answered knows nothing.
GateInv ==
  /\ gateServer \in GateServers /\ known \in GateAuths
  /\ gateCheck \in [at : {"none", "sent", "answered"}, status : GateStatuses]
  /\ gateRequest \in [at : {"none", "sent", "answered", "failed"},
                  by : {"none", "gate", "panel", "a closed panel"},
                  kind : {"none", "login", "create", "remove", "decline", "remind"},
                  entry : GateEntries \cup {Nil}, status : GateStatuses]
  /\ gateRequest.kind = "create" => gateRequest.entry \in GateEntries
  /\ gate \in GateEntries \cup {Nil}
  /\ security \in [typed : GateEntries \cup {Nil}, removing : BOOLEAN]
  /\ gateRequest.at # "answered" => gateRequest.status.fresh = FALSE
  /\ GateFits(known, gateServer) /\ GateFits(gateCheck.status, gateServer) /\ GateFits(gateRequest.status, gateServer)

LEMMA GateKnowsNothing ==
  /\ Gate!NoStatus \in GateStatuses /\ Gate!NoStatus.fresh = FALSE
  /\ \A s : GateFits(Gate!NoStatus, s)
  /\ Gate!NoRequest \in [at : {"none", "sent", "answered", "failed"},
                    by : {"none", "gate", "panel", "a closed panel"},
                    kind : {"none", "login", "create", "remove", "decline", "remind"},
                    entry : GateEntries \cup {Nil}, status : GateStatuses]
  /\ Gate!NoRequest.status = Gate!NoStatus /\ Gate!NoRequest.kind = "none" /\ Gate!NoRequest.at = "none"
  /\ Gate!NoCheck \in [at : {"none", "sent", "answered"}, status : GateStatuses]
  /\ Gate!NoCheck.status = Gate!NoStatus
<1>1. Gate!NoStatus \in GateStatuses /\ Gate!NoStatus.fresh = FALSE
  BY DEF Gate!NoStatus, GateStatuses, GateRoles, GateSetups
<1>2. \A s : GateFits(Gate!NoStatus, s)
  BY <1>1 DEF GateFits
<1>. QED BY <1>1, <1>2 DEF Gate!NoRequest, Gate!NoCheck

LEMMA GateBegins ==
  ASSUME Gate!Init PROVE GateInv
<1>1. gateCheck = [Gate!NoCheck EXCEPT !.at = "sent"] /\ gateRequest = Gate!NoRequest /\ gate = Nil /\ security = Gate!EmptyPanel
  BY DEF Gate!Init
<1>2. known \in GateAuths /\ known.fresh = FALSE /\ gateServer \in GateServers
  BY DEF Gate!Init, GateAuths, GateRoles, GateSetups, GateServers
<1>3. gateCheck \in [at : {"none", "sent", "answered"}, status : GateStatuses] /\ gateCheck.status = Gate!NoStatus
  BY <1>1, GateKnowsNothing DEF Gate!NoCheck
<1>4. security \in [typed : GateEntries \cup {Nil}, removing : BOOLEAN]
  BY <1>1 DEF Gate!EmptyPanel
<1>. QED BY <1>1, <1>2, <1>3, <1>4, GateKnowsNothing DEF GateInv, GateFits

\* What a route answers fits the server it is answered from.
LEMMA GatePayload ==
  ASSUME NEW s \in GateServers
  PROVE  /\ Gate!StatusPayload(s, Gate!AccessRole(s)) \in GateStatuses
         /\ GateFits(Gate!StatusPayload(s, Gate!AccessRole(s)), s)
<1>1. Gate!AccessRole(s) \in GateRoles
  BY DEF Gate!AccessRole, GateServers, GateRoles
<1>2. Gate!SetupAvailability(s) \in GateSetups
  BY DEF Gate!SetupAvailability, GateSetups
<1>. DEFINE p == Gate!StatusPayload(s, Gate!AccessRole(s))
            t == s.token # Nil
<1>4. p = [required |-> t, role |-> Gate!AccessRole(s), setup |-> Gate!SetupAvailability(s),
           fresh |-> TRUE]
  BY DEF Gate!StatusPayload
<1>3. t \in BOOLEAN
  OBVIOUS
<1>. HIDE DEF p, t
<1>5. p \in GateStatuses
  BY <1>1, <1>2, <1>3, <1>4 DEF GateStatuses
<1>6. p.required = t /\ p.role = Gate!AccessRole(s) /\ p.setup = Gate!SetupAvailability(s)
  BY <1>4
<1>7. GateFits(p, s)
  BY <1>6, Zenon DEF GateFits, t
<1>. QED BY <1>5, <1>7 DEF p

\* What was known of the server is old when the server changes.
LEMMA GateStales ==
  ASSUME NEW st, st \in GateStatuses \/ st \in GateAuths, GateFits(st, gateServer)
  PROVE  /\ st \in GateStatuses => Gate!Stale(st) \in GateStatuses
         /\ st \in GateAuths => Gate!Stale(st) \in GateAuths
         /\ GateFits(Gate!Stale(st), gateServer')
         /\ st.fresh = FALSE => Gate!Stale(st).fresh = FALSE
<1>. DEFINE f == st.fresh /\ gateServer' = gateServer
<1>1. st.fresh \in BOOLEAN
  BY DEF GateStatuses, GateAuths
<1>2. f \in BOOLEAN
  OBVIOUS
<1>3. PICK q : q = [st EXCEPT !.fresh = f]
  OBVIOUS
<1>4. Gate!Stale(st) = q
  BY <1>3 DEF Gate!Stale
<1>5. (f <=> st.fresh /\ gateServer' = gateServer)
  OBVIOUS
<1>. HIDE DEF f
<1>6. /\ q.required = st.required /\ q.role = st.role /\ q.setup = st.setup /\ q.fresh = f
      /\ st \in GateStatuses => q \in GateStatuses
      /\ st \in GateAuths => q \in GateAuths
  BY <1>2, <1>3 DEF GateStatuses, GateAuths
<1>7. GateFits(q, gateServer')
  <2>1. CASE f = TRUE
    <3>1. st.fresh /\ gateServer' = gateServer
      BY <1>5, <2>1
    <3>. QED BY <1>6, <3>1 DEF GateFits
  <2>2. CASE f = FALSE
    BY <1>6, <2>2 DEF GateFits
  <2>. QED BY <1>2, <2>1, <2>2
<1>8. st.fresh = FALSE => q.fresh = FALSE
  BY <1>2, <1>5, <1>6
<1>. QED BY <1>4, <1>6, <1>7, <1>8

\* A route leaves the server as it can be.
LEMMA GateHandles ==
  ASSUME GateInv, Gate!Handled PROVE gateServer' \in GateServers
<1>. USE DEF GateInv, GateServers, GateRoles
<1>1. CASE gateRequest.kind = "login" /\ Gate!SignIn(gateRequest.entry)
  <2>. DEFINE holds == IF gateRequest.entry = gateServer.token THEN "operator"
                      ELSE IF gateEnv.readOnly /\ gateRequest.entry = GateReader THEN "reader" ELSE "none"
  <2>1. holds \in GateRoles
    OBVIOUS
  <2>2. gateServer' = gateServer \/ gateServer' = [gateServer EXCEPT !.mine = holds]
    BY <1>1 DEF Gate!SignIn
  <2>. HIDE DEF holds
  <2>. QED BY <2>1, <2>2
<1>2. CASE gateRequest.kind = "create" /\ Gate!Setup(gateRequest.entry)
  <2>1. GateTrimmed[gateRequest.entry] \in Gate!Tokens
    BY <1>2 DEF Gate!Tokens
  <2>. QED BY <1>2, <2>1 DEF Gate!Setup
<1>3. CASE gateRequest.kind = "remove" /\ Gate!ClearToken
  BY <1>3 DEF Gate!ClearToken
<1>4. CASE Gate!Remind(TRUE) \/ Gate!Remind(FALSE)
  BY <1>4, ZenonT(40) DEF Gate!Remind
<1>. QED BY <1>1, <1>2, <1>3, <1>4 DEF Gate!Handled

\* The page takes a status.
LEMMA GateApplies ==
  ASSUME NEW st \in GateStatuses, GateFits(st, gateServer), Gate!Apply(st)
  PROVE  known' \in GateAuths /\ GateFits(known', gateServer)
BY DEF Gate!Apply, GateStatuses, GateAuths, GateFits

LEMMA GateSends ==
  ASSUME GateInv, NEW by \in {"gate", "panel"},
         NEW k \in {"login", "create", "remove", "decline", "remind"},
         NEW entry \in GateEntries \cup {Nil}, k = "create" => entry \in GateEntries,
         Gate!Send(by, k, entry)
  PROVE  GateInv'
<1>1. gateRequest' = [Gate!NoRequest EXCEPT !.at = "sent", !.by = by, !.kind = k, !.entry = entry]
  BY DEF Gate!Send
<1>2. /\ gateRequest' \in [at : {"none", "sent", "answered", "failed"},
                       by : {"none", "gate", "panel", "a closed panel"},
                       kind : {"none", "login", "create", "remove", "decline", "remind"},
                       entry : GateEntries \cup {Nil}, status : GateStatuses]
      /\ gateRequest'.status = Gate!NoStatus /\ gateRequest'.kind = k /\ gateRequest'.entry = entry
  BY <1>1, GateKnowsNothing
<1>3. UNCHANGED <<gateServer, known, gate, security, gateCheck>>
  BY DEF Gate!Send
<1>4. GateFits(gateRequest'.status, gateServer') /\ gateRequest'.status.fresh = FALSE
  BY <1>2, GateKnowsNothing
<1>. QED BY <1>2, <1>3, <1>4 DEF GateInv

\* Nothing but the fields of the gate and of the panel changes.
LEMMA GateTyped ==
  ASSUME GateInv, UNCHANGED <<gateServer, known, gateCheck, gateRequest>>,
         gate' \in GateEntries \cup {Nil}, security' \in [typed : GateEntries \cup {Nil}, removing : BOOLEAN]
  PROVE  GateInv'
BY DEF GateInv

LEMMA GateGoesOn ==
  ASSUME GateInv, Gate!Next \/ UNCHANGED Gate!vars PROVE GateInv'
<1>. DEFINE Requests == [at : {"none", "sent", "answered", "failed"},
                         by : {"none", "gate", "panel", "a closed panel"},
                         kind : {"none", "login", "create", "remove", "decline", "remind"},
                         entry : GateEntries \cup {Nil}, status : GateStatuses]
            Asked == [at : {"none", "sent", "answered"}, status : GateStatuses]
<1>1. CASE Gate!Serve
  <2>1. /\ known' = Gate!Stale(known) /\ gateCheck' = [gateCheck EXCEPT !.status = Gate!Stale(gateCheck.status)]
        /\ gateRequest.at = "sent" /\ UNCHANGED <<gate, security>>
    BY <1>1 DEF Gate!Serve
  <2>2. known' \in GateAuths /\ GateFits(known', gateServer')
    BY <2>1, GateStales DEF GateInv
  <2>3. /\ gateCheck.status \in GateStatuses /\ Gate!Stale(gateCheck.status) \in GateStatuses
        /\ GateFits(Gate!Stale(gateCheck.status), gateServer')
    BY GateStales DEF GateInv
  <2>4. gateCheck' \in Asked /\ GateFits(gateCheck'.status, gateServer')
    <3>1. gateCheck' = [gateCheck EXCEPT !.status = Gate!Stale(gateCheck.status)] /\ gateCheck \in Asked
      BY <2>1 DEF GateInv
    <3>2. gateCheck' \in Asked /\ gateCheck'.status = Gate!Stale(gateCheck.status)
      BY <2>3, <3>1
    <3>. QED BY <2>3, <3>2
  <2>5. gateRequest \in Requests /\ gateRequest.status.fresh = FALSE /\ (gateRequest.kind = "create" => gateRequest.entry \in GateEntries)
    BY <2>1 DEF GateInv
  <2>6. CASE Gate!Handled /\ gateRequest' = [gateRequest EXCEPT !.at = "answered",
                                      !.status = Gate!StatusPayload(gateServer', Gate!AccessRole(gateServer'))]
    <3>1. gateServer' \in GateServers
      BY <2>6, GateHandles
    <3>. DEFINE p == Gate!StatusPayload(gateServer', Gate!AccessRole(gateServer'))
    <3>2. p \in GateStatuses /\ GateFits(p, gateServer')
      BY <3>1, GatePayload
    <3>3. gateRequest' = [gateRequest EXCEPT !.at = "answered", !.status = p]
      BY <2>6
    <3>. HIDE DEF p
    <3>4. /\ gateRequest' \in Requests /\ gateRequest'.status = p /\ gateRequest'.at = "answered"
          /\ gateRequest'.kind = gateRequest.kind /\ gateRequest'.entry = gateRequest.entry
      BY <2>5, <3>2, <3>3
    <3>5. GateFits(gateRequest'.status, gateServer')
      BY <3>2, <3>4
    <3>. QED BY <2>1, <2>2, <2>4, <2>5, <3>1, <3>4, <3>5 DEF GateInv
  <2>7. CASE (Gate!Handled \/ UNCHANGED gateServer) /\ gateRequest' = [gateRequest EXCEPT !.at = "failed"]
    <3>1. gateServer' \in GateServers
      BY <2>7, GateHandles DEF GateInv
    <3>2. /\ gateRequest' \in Requests /\ gateRequest'.status = gateRequest.status
          /\ gateRequest'.kind = gateRequest.kind /\ gateRequest'.entry = gateRequest.entry
      BY <2>5, <2>7
    <3>3. gateRequest'.status.fresh = FALSE
      BY <2>5, <3>2
    <3>4. GateFits(gateRequest'.status, gateServer')
      BY <3>3 DEF GateFits
    <3>. QED BY <2>1, <2>2, <2>4, <2>5, <3>1, <3>2, <3>3, <3>4 DEF GateInv
  <2>. QED BY <1>1, <2>6, <2>7 DEF Gate!Serve
<1>2. CASE Gate!Answered
  <2>1. /\ gateRequest' = Gate!NoRequest /\ Gate!Apply(gateRequest.status) /\ UNCHANGED <<gateServer, gateCheck>>
        /\ gate' \in {gate, Nil} /\ security' \in {security, Gate!EmptyPanel}
    BY <1>2 DEF Gate!Answered, Gate!KeepsGate
  <2>2. known' \in GateAuths /\ GateFits(known', gateServer)
    BY <2>1, GateApplies DEF GateInv
  <2>3. Gate!EmptyPanel \in [typed : GateEntries \cup {Nil}, removing : BOOLEAN]
    BY DEF Gate!EmptyPanel
  <2>4. Gate!NoRequest \in Requests /\ Gate!NoRequest.kind = "none" /\ GateFits(Gate!NoRequest.status, gateServer) /\ Gate!NoRequest.status.fresh = FALSE
    BY GateKnowsNothing
  <2>. QED BY <2>1, <2>2, <2>3, <2>4 DEF GateInv
<1>3. CASE Gate!Failed
  <2>1. /\ gateRequest' = Gate!NoRequest /\ UNCHANGED <<gateServer, gateCheck, security>>
        /\ gate' \in {gate, Nil}
    BY <1>3 DEF Gate!Failed, Gate!KeepsGate
  <2>2. known' = known \/ known' = [known EXCEPT !.role = "none", !.fresh = FALSE]
    BY <1>3 DEF Gate!Failed
  <2>3. known' \in GateAuths /\ GateFits(known', gateServer)
    <3>1. CASE known' = known
      BY <3>1 DEF GateInv
    <3>2. CASE known' = [known EXCEPT !.role = "none", !.fresh = FALSE]
      BY <3>2 DEF GateInv, GateAuths, GateRoles, GateFits
    <3>. QED BY <2>2, <3>1, <3>2
  <2>4. Gate!NoRequest \in Requests /\ Gate!NoRequest.kind = "none" /\ GateFits(Gate!NoRequest.status, gateServer) /\ Gate!NoRequest.status.fresh = FALSE
    BY GateKnowsNothing
  <2>. QED BY <2>1, <2>3, <2>4 DEF GateInv
<1>4. CASE Gate!CheckAuth
  <2>1. gateCheck' = [gateCheck EXCEPT !.at = "sent"] /\ UNCHANGED <<gateServer, known, gate, security, gateRequest>>
    BY <1>4 DEF Gate!CheckAuth
  <2>2. gateCheck' \in Asked /\ gateCheck'.status = gateCheck.status
    BY <2>1 DEF GateInv
  <2>. QED BY <2>1, <2>2, ZenonT(40) DEF GateInv
<1>5. CASE Gate!ServeCheck
  <2>1. UNCHANGED <<gateServer, known, gate, security, gateRequest>>
    BY <1>5 DEF Gate!ServeCheck
  <2>2. CASE gateCheck' = [at |-> "answered", status |-> Gate!StatusPayload(gateServer, Gate!AccessRole(gateServer))]
    <3>1. gateCheck' \in Asked /\ GateFits(gateCheck'.status, gateServer)
      BY <2>2, GatePayload DEF GateInv
    <3>. QED BY <2>1, <3>1, ZenonT(40) DEF GateInv
  <2>3. CASE gateCheck' = [at |-> "answered", status |-> [Gate!NoStatus EXCEPT !.role = "operator"]]
    <3>1. [Gate!NoStatus EXCEPT !.role = "operator"] \in GateStatuses /\ [Gate!NoStatus EXCEPT !.role = "operator"].fresh = FALSE
      BY DEF Gate!NoStatus, GateStatuses, GateRoles, GateSetups
    <3>2. gateCheck' \in Asked /\ gateCheck'.status.fresh = FALSE
      BY <2>3, <3>1
    <3>3. GateFits(gateCheck'.status, gateServer)
      BY <3>2 DEF GateFits
    <3>. QED BY <2>1, <3>2, <3>3, ZenonT(40) DEF GateInv
  <2>. QED BY <1>5, <2>2, <2>3 DEF Gate!ServeCheck
<1>6. CASE Gate!Checked
  <2>1. /\ gateCheck' = Gate!NoCheck /\ Gate!NoCheck \in Asked /\ GateFits(Gate!NoCheck.status, gateServer)
        /\ Gate!Apply(gateCheck.status) /\ UNCHANGED <<gateServer, security, gateRequest>> /\ gate' \in {gate, Nil}
    BY <1>6, GateKnowsNothing DEF Gate!Checked, Gate!KeepsGate
  <2>2. known' \in GateAuths /\ GateFits(known', gateServer)
    BY <2>1, GateApplies DEF GateInv
  <2>3. gateCheck' \in Asked /\ GateFits(gateCheck'.status, gateServer')
    BY <2>1
  <2>4. UNCHANGED <<gateServer, security, gateRequest>> /\ gate' \in GateEntries \cup {Nil}
    BY <2>1 DEF GateInv
  <2>. QED BY <2>2, <2>3, <2>4 DEF GateInv
<1>7. ASSUME NEW entry \in GateEntries \cup {Nil}, Gate!TypeAtGate(entry) PROVE GateInv'
  BY <1>7, GateTyped DEF Gate!TypeAtGate, GateInv
<1>8. ASSUME NEW entry \in GateEntries \cup {Nil}, Gate!TypeInPanel(entry) PROVE GateInv'
  <2>1. security' \in [typed : GateEntries \cup {Nil}, removing : BOOLEAN]
    BY <1>8 DEF Gate!TypeInPanel, GateInv
  <2>. QED BY <1>8, <2>1, GateTyped DEF Gate!TypeInPanel, GateInv
<1>9. CASE Gate!Submit
  <2>1. gate \in GateEntries
    BY <1>9 DEF Gate!Submit, GateInv
  <2>. QED BY <1>9, <2>1, GateSends DEF Gate!Submit
<1>10. CASE Gate!DismissSetup
  BY <1>10, GateTyped DEF Gate!DismissSetup, GateInv
<1>11. CASE Gate!OpenPanel
  BY <1>11, GateTyped DEF Gate!OpenPanel, GateInv
<1>12. CASE Gate!ClosePanel
  <2>1. /\ security' = Gate!EmptyPanel /\ UNCHANGED <<gateServer, known, gate, gateCheck>>
        /\ gateRequest' = gateRequest \/ gateRequest' = [gateRequest EXCEPT !.by = "a closed panel"]
    BY <1>12 DEF Gate!ClosePanel
  <2>2. security' \in [typed : GateEntries \cup {Nil}, removing : BOOLEAN]
    BY <2>1 DEF Gate!EmptyPanel
  <2>3. /\ gateRequest' \in Requests /\ gateRequest'.at = gateRequest.at /\ gateRequest'.status = gateRequest.status
        /\ gateRequest'.kind = gateRequest.kind /\ gateRequest'.entry = gateRequest.entry
    BY <2>1 DEF GateInv
  <2>. QED BY <2>1, <2>2, <2>3 DEF GateInv
<1>13. CASE Gate!Save
  <2>1. security.typed \in GateEntries
    BY <1>13 DEF Gate!Save, GateInv
  <2>. QED BY <1>13, <2>1, GateSends DEF Gate!Save
<1>14. ASSUME NEW removing \in BOOLEAN, Gate!ConfirmRemoval(removing) PROVE GateInv'
  <2>1. security' \in [typed : GateEntries \cup {Nil}, removing : BOOLEAN]
    BY <1>14 DEF Gate!ConfirmRemoval, GateInv
  <2>. QED BY <1>14, <2>1, GateTyped DEF Gate!ConfirmRemoval, GateInv
<1>15. CASE Gate!Remove
  BY <1>15, GateSends DEF Gate!Remove
<1>16. CASE Gate!ToggleReminder
  BY <1>16, GateSends DEF Gate!ToggleReminder
<1>17. CASE Gate!Outside
  <2>1. /\ known' = Gate!Stale(known) /\ gateCheck' = [gateCheck EXCEPT !.status = Gate!Stale(gateCheck.status)]
        /\ gateRequest' = [gateRequest EXCEPT !.status = Gate!Stale(gateRequest.status)]
        /\ UNCHANGED <<gate, security>>
    BY <1>17 DEF Gate!Outside
  <2>2. gateServer' \in GateServers
    BY <1>17 DEF Gate!Outside, GateInv, GateServers, GateRoles
  <2>3. known' \in GateAuths /\ GateFits(known', gateServer')
    BY <2>1, GateStales DEF GateInv
  <2>4. /\ gateCheck.status \in GateStatuses /\ Gate!Stale(gateCheck.status) \in GateStatuses
        /\ GateFits(Gate!Stale(gateCheck.status), gateServer')
        /\ gateRequest.status \in GateStatuses /\ Gate!Stale(gateRequest.status) \in GateStatuses
        /\ GateFits(Gate!Stale(gateRequest.status), gateServer')
        /\ gateRequest.status.fresh = FALSE => Gate!Stale(gateRequest.status).fresh = FALSE
    BY GateStales DEF GateInv
  <2>5. gateCheck \in Asked /\ gateRequest \in Requests
    BY DEF GateInv
  <2>6. gateCheck' \in Asked /\ gateCheck'.status = Gate!Stale(gateCheck.status)
    BY <2>1, <2>4, <2>5
  <2>7. /\ gateRequest' \in Requests /\ gateRequest'.status = Gate!Stale(gateRequest.status) /\ gateRequest'.at = gateRequest.at
        /\ gateRequest'.kind = gateRequest.kind /\ gateRequest'.entry = gateRequest.entry
    BY <2>1, <2>4, <2>5
  <2>8. GateFits(gateCheck'.status, gateServer') /\ GateFits(gateRequest'.status, gateServer')
    BY <2>4, <2>6, <2>7
  <2>9. gateRequest'.at # "answered" => gateRequest'.status.fresh = FALSE
    BY <2>4, <2>7 DEF GateInv
  <2>. QED BY <2>1, <2>2, <2>3, <2>6, <2>7, <2>8, <2>9 DEF GateInv
<1>18. CASE UNCHANGED Gate!vars
  BY <1>18, GateTyped DEF Gate!vars, GateInv
<1>. QED BY <1>1, <1>2, <1>3, <1>4, <1>5, <1>6, <1>7, <1>8, <1>9, <1>10, <1>11, <1>12, <1>13, <1>14,
  <1>15, <1>16, <1>17, <1>18 DEF Gate!Next

LEMMA GateFollows ==
  ASSUME GateInv PROVE Gate!StoreFits
<1>1. known.fresh => /\ known.required = (gateServer.token # Nil) /\ known.role = Gate!AccessRole(gateServer)
                    /\ known.setup = Gate!SetupAvailability(gateServer)
  <2>1. GateFits(known, gateServer)
    BY DEF GateInv
  <2>. QED BY <2>1, Zenon DEF GateFits
<1>2. Gate!Mode = "setup" => known.setup = "available"
  BY DEF Gate!Mode, Gate!GateMode
<1>. QED BY <1>1, <1>2 DEF Gate!StoreFits, Gate!CanSetToken

-----------------------------------------------------------------------------
(* The form of the webhook.                                                *)

\* The form is the one the request was made of, and an answer on its way says what the server
\* had, unless another client changed that.
WebhooksInv ==
  /\ storedWebhook \in [url : HookUrls \cup {Nil}, selection : HookSelections]
  /\ url \in HookUrls \cup {Nil} /\ selection \in HookSelections /\ wanted = selection
  /\ alone \in BOOLEAN /\ saveFailed \in BOOLEAN
  /\ saveRequest \in Webhooks!RequestSet \cup {Nil}
  /\ typedUrl # Nil => url = typedUrl
  /\ Webhooks!Idle /\ status # Nil /\ ~saveFailed /\ alone => status = Webhooks!Shown(storedWebhook)
  /\ Webhooks!Busy =>
       /\ saveRequest.kind # "save" \/ saveRequest.at = "served" => typedUrl = Nil
       /\ saveRequest.kind = "save" => saveRequest.url = url /\ saveRequest.selection = selection
       /\ byEnvironment => saveRequest.kind = "load"
       /\ saveRequest.at = "served" =>
            /\ saveRequest.answer \in [enabled : BOOLEAN, selection : HookSelections]
            /\ saveRequest.kind = "save" => saveRequest.answer.selection = selection
            /\ alone => saveRequest.answer = Webhooks!Shown(storedWebhook)

LEMMA WebhooksShow ==
  ASSUME NEW s \in [url : HookUrls \cup {Nil}, selection : HookSelections]
  PROVE  /\ Webhooks!Shown(s) \in [enabled : BOOLEAN, selection : HookSelections]
         /\ Webhooks!Shown(s).selection = s.selection /\ Webhooks!Shown(s).enabled = (s.url # Nil)
<1>. DEFINE t == s.url # Nil
<1>1. Webhooks!Shown(s) = [enabled |-> t, selection |-> s.selection]
  BY DEF Webhooks!Shown
<1>2. t \in BOOLEAN
  OBVIOUS
<1>. HIDE DEF t
<1>3. Webhooks!Shown(s) \in [enabled : BOOLEAN, selection : HookSelections] /\ Webhooks!Shown(s).selection = s.selection /\ Webhooks!Shown(s).enabled = t
  BY <1>1, <1>2
<1>. QED BY <1>3 DEF t

LEMMA WebhooksBegin ==
  ASSUME Webhooks!Init PROVE WebhooksInv
<1>1. saveRequest = [kind |-> "load", url |-> Nil, selection |-> selection, at |-> "sent", answer |-> Nil]
      /\ selection \in HookSelections
  BY DEF Webhooks!Init
<1>2. saveRequest \in Webhooks!RequestSet /\ saveRequest.kind = "load" /\ saveRequest.at = "sent"
  BY <1>1 DEF Webhooks!RequestSet
<1>3. /\ storedWebhook \in [url : HookUrls \cup {Nil}, selection : HookSelections]
      /\ url = Nil /\ wanted = selection /\ saveFailed = FALSE /\ typedUrl = Nil /\ alone = TRUE
  BY DEF Webhooks!Init
<1>. QED BY <1>1, <1>2, <1>3, ServerAssumption DEF WebhooksInv, Webhooks!Idle, Webhooks!Busy

LEMMA WebhooksServe ==
  ASSUME WebhooksInv, Webhooks!Serve PROVE WebhooksInv'
<1>. USE DEF WebhooksInv, Webhooks!Busy, Webhooks!Idle
<1>. DEFINE kept == IF saveRequest.url = Nil THEN storedWebhook.url ELSE saveRequest.url
<1>1. /\ Webhooks!Busy /\ saveRequest \in Webhooks!RequestSet /\ alone' = TRUE
      /\ UNCHANGED <<byEnvironment, status, url, selection, saveFailed, confirming, wanted>>
  BY DEF Webhooks!Serve
<1>2. ASSUME NEW at \in {"served", "refused"}, Webhooks!Answer(at),
             storedWebhook' \in [url : HookUrls \cup {Nil}, selection : HookSelections]
      PROVE  /\ saveRequest' \in Webhooks!RequestSet /\ saveRequest' # Nil
             /\ saveRequest'.kind = saveRequest.kind /\ saveRequest'.url = saveRequest.url
             /\ saveRequest'.selection = saveRequest.selection /\ saveRequest'.at = at
             /\ saveRequest'.answer = Webhooks!Shown(storedWebhook') /\ saveRequest'.answer.selection = storedWebhook'.selection
             /\ saveRequest'.answer \in [enabled : BOOLEAN, selection : HookSelections]
  <2>1. PICK q : q = [saveRequest EXCEPT !.at = at, !.answer = Webhooks!Shown(storedWebhook')]
    OBVIOUS
  <2>2. saveRequest' = q
    BY <1>2, <2>1 DEF Webhooks!Answer
  <2>3. Webhooks!Shown(storedWebhook') \in [enabled : BOOLEAN, selection : HookSelections] /\ Webhooks!Shown(storedWebhook').selection = storedWebhook'.selection
    BY <1>2, WebhooksShow
  <2>4. /\ q \in Webhooks!RequestSet /\ q.kind = saveRequest.kind /\ q.url = saveRequest.url
        /\ q.selection = saveRequest.selection /\ q.at = at /\ q.answer = Webhooks!Shown(storedWebhook')
    BY <1>1, <2>1, <2>3 DEF Webhooks!RequestSet
  <2>. QED BY <2>2, <2>3, <2>4, ServerAssumption
<1>3. CASE saveRequest.kind = "load"
  <2>1. UNCHANGED <<storedWebhook, typedUrl>> /\ Webhooks!Answer("served")
    BY <1>3 DEF Webhooks!Serve
  <2>2. storedWebhook' \in [url : HookUrls \cup {Nil}, selection : HookSelections]
    BY <2>1
  <2>. QED BY <1>1, <1>2, <1>3, <2>1, <2>2
<1>4. CASE saveRequest.kind = "disable"
  <2>1. storedWebhook' = [storedWebhook EXCEPT !.url = Nil] /\ Webhooks!Answer("served") /\ UNCHANGED typedUrl
    BY <1>4 DEF Webhooks!Serve
  <2>2. storedWebhook' \in [url : HookUrls \cup {Nil}, selection : HookSelections]
    BY <2>1
  <2>. QED BY <1>1, <1>2, <1>4, <2>1, <2>2
<1>5. CASE saveRequest.kind = "save" /\ UNCHANGED <<storedWebhook, typedUrl>> /\ Webhooks!Answer("refused")
  <2>1. storedWebhook' \in [url : HookUrls \cup {Nil}, selection : HookSelections]
    BY <1>5
  <2>. QED BY <1>1, <1>2, <1>5, <2>1
<1>6. CASE /\ saveRequest.kind = "save" /\ kept # Nil
           /\ storedWebhook' = [url |-> kept, selection |-> saveRequest.selection]
           /\ Webhooks!Answer("served")
           /\ typedUrl' = IF saveRequest.url = typedUrl THEN Nil ELSE typedUrl
  <2>1. storedWebhook' \in [url : HookUrls \cup {Nil}, selection : HookSelections] /\ storedWebhook'.selection = saveRequest.selection
    BY <1>1, <1>6 DEF Webhooks!RequestSet
  <2>2. saveRequest.url = url /\ saveRequest.selection = selection
    BY <1>1, <1>6
  <2>3. typedUrl' = Nil
    BY <1>6, <2>2
  <2>. QED BY <1>1, <1>2, <1>6, <2>1, <2>2, <2>3
<1>7. saveRequest.kind \in {"load", "save", "disable"}
  BY <1>1 DEF Webhooks!RequestSet
<1>. QED BY <1>3, <1>4, <1>5, <1>6, <1>7 DEF Webhooks!Serve

LEMMA WebhooksSend ==
  ASSUME WebhooksInv, NEW k \in {"save", "disable"}, ~byEnvironment, Webhooks!Send(k),
         typedUrl' \in {typedUrl, Nil},
         k = "disable" => typedUrl' = Nil,
         UNCHANGED <<storedWebhook, byEnvironment, status, url, selection, wanted, alone>>,
         saveFailed' = FALSE
  PROVE  WebhooksInv'
<1>1. saveRequest' = [kind |-> k, url |-> IF k = "save" THEN url ELSE Nil,
                  selection |-> selection, at |-> "sent", answer |-> Nil]
  BY DEF Webhooks!Send
<1>2. /\ saveRequest' \in Webhooks!RequestSet /\ saveRequest'.kind = k /\ saveRequest'.selection = selection
      /\ saveRequest'.at = "sent" /\ (k = "save" => saveRequest'.url = url)
  BY <1>1 DEF Webhooks!RequestSet, WebhooksInv
<1>3. saveRequest' # Nil
  BY <1>2, ServerAssumption
<1>. QED BY <1>2, <1>3 DEF WebhooksInv, Webhooks!Busy, Webhooks!Idle

LEMMA WebhooksGoOn ==
  ASSUME WebhooksInv, Webhooks!Next \/ UNCHANGED Webhooks!vars PROVE WebhooksInv'
<1>. USE DEF WebhooksInv, Webhooks!Busy, Webhooks!Idle, Webhooks!server
<1>1. CASE Webhooks!Serve
  BY <1>1, WebhooksServe
<1>2. CASE Webhooks!Answered
  <2>1. /\ saveRequest \in Webhooks!RequestSet /\ saveRequest # Nil /\ saveRequest.at = "served" /\ saveRequest' = Nil
        /\ UNCHANGED <<storedWebhook, byEnvironment, typedUrl, alone>> /\ typedUrl = Nil
    BY <1>2 DEF Webhooks!Answered
  <2>2. CASE saveFailed' = TRUE /\ UNCHANGED <<status, url, selection, confirming, wanted>>
    BY <2>1, <2>2
  <2>3. CASE Webhooks!Loaded(saveRequest.answer) /\ saveFailed' = FALSE
    <3>1. /\ status' = saveRequest.answer /\ selection' = saveRequest.answer.selection
          /\ url' = Nil
          /\ wanted' = IF saveRequest.kind = "save" THEN wanted ELSE saveRequest.answer.selection
      BY <2>3 DEF Webhooks!Loaded
    <3>2. /\ saveRequest.answer \in [enabled : BOOLEAN, selection : HookSelections]
          /\ saveRequest.kind = "save" => saveRequest.answer.selection = selection
          /\ alone => saveRequest.answer = Webhooks!Shown(storedWebhook)
      BY <2>1
    <3>3. saveRequest.answer.selection \in HookSelections /\ wanted' = selection'
      BY <3>1, <3>2
    <3>. QED BY <2>1, <2>3, <3>1, <3>2, <3>3
  <2>. QED BY <1>2, <2>2, <2>3 DEF Webhooks!Answered
<1>3. CASE Webhooks!Refused
  BY <1>3 DEF Webhooks!Refused
<1>4. CASE Webhooks!Save
  BY <1>4, WebhooksSend DEF Webhooks!Save, Webhooks!Enabled
<1>5. CASE Webhooks!Disable
  BY <1>5, WebhooksSend DEF Webhooks!Disable, Webhooks!Enabled
<1>6. ASSUME NEW u \in HookUrls \cup {Nil}, Webhooks!Type(u) PROVE WebhooksInv'
  BY <1>6 DEF Webhooks!Type, Webhooks!Enabled
<1>7. ASSUME NEW u \in HookUrls \cup {Nil}, NEW s \in HookSelections,
             Webhooks!Elsewhere(u, s) PROVE WebhooksInv'
  <2>1. storedWebhook' \in [url : HookUrls \cup {Nil}, selection : HookSelections]
    BY <1>7 DEF Webhooks!Elsewhere
  <2>2. /\ alone' = FALSE
        /\ UNCHANGED <<byEnvironment, status, url, selection, saveRequest, saveFailed, confirming, wanted, typedUrl>>
    BY <1>7 DEF Webhooks!Elsewhere
  <2>. QED BY <2>1, <2>2
<1>8. ASSUME NEW s \in HookSelections, Webhooks!Choose(s) PROVE WebhooksInv'
  BY <1>8 DEF Webhooks!Choose, Webhooks!Enabled
<1>9. ASSUME NEW ask \in BOOLEAN, Webhooks!Confirm(ask) PROVE WebhooksInv'
  BY <1>9 DEF Webhooks!Confirm, Webhooks!Enabled
<1>10. CASE UNCHANGED Webhooks!vars
  BY <1>10 DEF Webhooks!vars
<1>. QED BY <1>1, <1>2, <1>3, <1>4, <1>5, <1>6, <1>7, <1>8, <1>9, <1>10 DEF Webhooks!Next

LEMMA WebhooksFollow ==
  ASSUME WebhooksInv PROVE Webhooks!WebhookEditsAreKept
<1>1. ASSUME Webhooks!Idle, status # Nil, ~saveFailed, alone, wanted = status.selection
      PROVE  storedWebhook.selection = wanted /\ status.enabled = (storedWebhook.url # Nil)
  <2>1. status = Webhooks!Shown(storedWebhook) /\ storedWebhook \in [url : HookUrls \cup {Nil}, selection : HookSelections]
    BY <1>1 DEF WebhooksInv
  <2>2. Webhooks!Shown(storedWebhook).selection = storedWebhook.selection /\ Webhooks!Shown(storedWebhook).enabled = (storedWebhook.url # Nil)
    BY <2>1, WebhooksShow
  <2>. QED BY <1>1, <2>1, <2>2, Zenon
<1>2. ASSUME typedUrl # Nil PROVE url = typedUrl
  BY <1>2 DEF WebhooksInv
<1>3. selection = wanted
  BY DEF WebhooksInv
<1>4. ASSUME byEnvironment PROVE Webhooks!Idle \/ saveRequest.kind = "load"
  BY <1>4 DEF WebhooksInv, Webhooks!Idle, Webhooks!Busy
<1>. QED BY <1>1, <1>2, <1>3, <1>4, Zenon DEF Webhooks!WebhookEditsAreKept

-----------------------------------------------------------------------------
(* The sidebar of the selected node.                                       *)

\* What the panel has is of the selected node, what it loads as well; a terminal is open only
\* while it is mounted, which takes an operator, and a session is that of the node.
PanelInv ==
  /\ role \in {"operator", "reader"} /\ inReplay \in BOOLEAN
  /\ {offered, details, dialog, stream, reading, read} \subseteq {Nil, shownNode}
  /\ inReplay => offered = Nil /\ details = Nil /\ dialog = Nil /\ stream = Nil
  /\ load = Panel!NoLoad \/ (load \in [of : {shownNode}, step : {"capabilities", "data"}] /\ ~inReplay)
  /\ strayed = {}
  /\ role = "reader" => dialog = Nil /\ tab # "exec"
  /\ socket \in {Panel!NoSocket, [of |-> Nil, at |-> "connecting"], [of |-> shownNode, at |-> "open"]}
  /\ ~Panel!Mounted => term = "unmounted" /\ socket = Panel!NoSocket

LEMMA PanelBegins ==
  ASSUME Panel!Init PROVE PanelInv
BY DEF Panel!Init, PanelInv, Panel!NoSocket

\* A reset leaves nothing of the node that was shown, and asks for the one that is.
LEMMA PanelResets ==
  ASSUME Panel!Reset, inReplay' \in BOOLEAN
  PROVE  /\ offered' = Nil /\ details' = Nil /\ dialog' = Nil
         /\ load' = Panel!NoLoad \/ (load' \in [of : {shownNode'}, step : {"capabilities", "data"}] /\ ~inReplay')
BY DEF Panel!Reset

\* The effects keep logs and the terminal with the node, whatever has changed.
LEMMA PanelEffects ==
  ASSUME PanelInv, Panel!Effects, offered' \in {Nil, shownNode'}, inReplay' \in BOOLEAN
  PROVE  /\ {stream', reading', read'} \subseteq {Nil, shownNode'}
         /\ inReplay' => stream' = Nil
         /\ socket' \in {Panel!NoSocket, [of |-> Nil, at |-> "connecting"], [of |-> shownNode', at |-> "open"]}
         /\ ~Panel!Mounted' => term' = "unmounted" /\ socket' = Panel!NoSocket
<1>1. /\ {stream, reading, read} \subseteq {Nil, shownNode}
      /\ socket \in {Panel!NoSocket, [of |-> Nil, at |-> "connecting"], [of |-> shownNode, at |-> "open"]}
      /\ ~Panel!Mounted => term = "unmounted" /\ socket = Panel!NoSocket
  BY DEF PanelInv
<1>2. {stream', reading', read'} \subseteq {Nil, shownNode'} /\ (inReplay' => stream' = Nil)
  <2>1. /\ stream' \in {Nil, shownNode'} /\ (inReplay' => stream' = Nil)
        /\ reading' \in {Nil, shownNode'} \/ (shownNode' = shownNode /\ reading' = reading)
        /\ read' \in {Nil} \/ (shownNode' = shownNode /\ read' = read)
    BY DEF Panel!Effects, Panel!LogEffect
  <2>. QED BY <1>1, <2>1
<1>3. CASE ~Panel!Mounted'
  BY <1>2, <1>3 DEF Panel!Effects, Panel!ExecEffect
<1>4. CASE Panel!Mounted' /\ ~Panel!Mounted
  BY <1>1, <1>2, <1>4 DEF Panel!Effects, Panel!ExecEffect
<1>5. CASE Panel!Mounted' /\ Panel!Mounted /\ shownNode' # shownNode
  BY <1>1, <1>2, <1>5 DEF Panel!Effects, Panel!ExecEffect, Panel!Reconnect
<1>6. CASE Panel!Mounted' /\ Panel!Mounted /\ shownNode' = shownNode
  BY <1>1, <1>2, <1>6 DEF Panel!Effects, Panel!ExecEffect, Panel!execVars
<1>. QED BY <1>3, <1>4, <1>5, <1>6

LEMMA PanelGoesOn ==
  ASSUME PanelInv, Panel!Next \/ UNCHANGED Panel!vars PROVE PanelInv'
<1>1. /\ role \in {"operator", "reader"} /\ inReplay \in BOOLEAN
      /\ {offered, details, dialog, stream, reading, read} \subseteq {Nil, shownNode}
      /\ inReplay => offered = Nil /\ details = Nil /\ dialog = Nil /\ stream = Nil
      /\ load = Panel!NoLoad \/ (load \in [of : {shownNode}, step : {"capabilities", "data"}] /\ ~inReplay)
      /\ strayed = {}
      /\ role = "reader" => dialog = Nil /\ tab # "exec"
      /\ socket \in {Panel!NoSocket, [of |-> Nil, at |-> "connecting"], [of |-> shownNode, at |-> "open"]}
      /\ ~Panel!Mounted => term = "unmounted" /\ socket = Panel!NoSocket
  BY DEF PanelInv
<1>2. ASSUME UNCHANGED <<shownNode, role, inReplay, tab, strayed, Panel!execVars>>,
             {offered', details', dialog', stream', reading', read'} \subseteq {Nil, shownNode},
             inReplay => offered' = Nil /\ details' = Nil /\ dialog' = Nil /\ stream' = Nil,
             load' \in {load, Panel!NoLoad}, role = "reader" => dialog' = Nil
      PROVE  PanelInv'
  BY <1>1, <1>2 DEF PanelInv, Panel!Mounted, Panel!execVars
<1>3. ASSUME Panel!Effects, strayed' = strayed, role' \in {"operator", "reader"}, inReplay' \in BOOLEAN,
             {offered', details', dialog'} \subseteq {Nil, shownNode'},
             inReplay' => offered' = Nil /\ details' = Nil /\ dialog' = Nil,
             load' = Panel!NoLoad \/ (load' \in [of : {shownNode'}, step : {"capabilities", "data"}] /\ ~inReplay'),
             role' = "reader" => dialog' = Nil /\ tab' # "exec"
      PROVE  PanelInv'
  <2>1. /\ {stream', reading', read'} \subseteq {Nil, shownNode'}
        /\ inReplay' => stream' = Nil
        /\ socket' \in {Panel!NoSocket, [of |-> Nil, at |-> "connecting"], [of |-> shownNode', at |-> "open"]}
        /\ ~Panel!Mounted' => term' = "unmounted" /\ socket' = Panel!NoSocket
    BY <1>3, PanelEffects
  <2>2. Panel!NoLoad' = Panel!NoLoad /\ Panel!NoSocket' = Panel!NoSocket
    BY DEF Panel!NoLoad, Panel!NoSocket
  <2>. QED BY <1>1, <1>3, <2>1, <2>2 DEF PanelInv
<1>4. ASSUME UNCHANGED <<Panel!panelVars, Panel!logVars, strayed>>,
             socket' \in {Panel!NoSocket, [of |-> Nil, at |-> "connecting"], [of |-> shownNode, at |-> "open"]},
             Panel!Mounted \/ (term' = "unmounted" /\ socket' = Panel!NoSocket)
      PROVE  PanelInv'
  BY <1>1, <1>4 DEF PanelInv, Panel!Mounted, Panel!panelVars, Panel!logVars
<1>5. ASSUME NEW n \in GraphNodes \cup {Nil}, Panel!Select(n) PROVE PanelInv'
  <2>1. /\ Panel!Reset /\ Panel!Effects /\ UNCHANGED <<role, inReplay, tab, strayed>>
    BY <1>5 DEF Panel!Select
  <2>. QED BY <1>1, <1>3, <2>1, PanelResets
<1>6. CASE Panel!ChangeRole
  <2>1. /\ UNCHANGED <<shownNode, inReplay, offered, details, load, strayed>> /\ Panel!Effects
        /\ role' \in {"operator", "reader"} /\ dialog' \in {Nil, dialog}
        /\ role' = "reader" => dialog' = Nil /\ tab' # "exec"
    BY <1>1, <1>6 DEF Panel!ChangeRole
  <2>. QED BY <1>1, <1>3, <2>1
<1>7. CASE Panel!ToggleReplay
  <2>1. /\ Panel!Reset /\ Panel!Effects /\ UNCHANGED <<shownNode, role, strayed>>
        /\ inReplay' \in BOOLEAN /\ tab' \in {"info", tab}
    BY <1>1, <1>7 DEF Panel!ToggleReplay
  <2>. QED BY <1>1, <1>3, <2>1, PanelResets
<1>8. ASSUME NEW t \in {"info", "logs", "exec"}, Panel!OpenTab(t) PROVE PanelInv'
  <2>1. /\ UNCHANGED <<shownNode, role, inReplay, offered, details, load, dialog, strayed>> /\ Panel!Effects
        /\ role = "reader" => tab' # "exec"
    BY <1>8 DEF Panel!OpenTab, Panel!Supports
  <2>. QED BY <1>1, <1>3, <2>1
<1>9. ASSUME NEW aborted \in BOOLEAN, Panel!CapabilitiesLoaded(aborted) PROVE PanelInv'
  <2>1. UNCHANGED <<shownNode, role, inReplay, details, dialog, strayed>> /\ Panel!Effects
    BY <1>9 DEF Panel!CapabilitiesLoaded
  <2>2. CASE aborted
    <3>1. UNCHANGED <<load, offered, tab>>
      BY <1>9, <2>2 DEF Panel!CapabilitiesLoaded, Panel!Signal, Panel!Proceed
    <3>. QED BY <1>1, <1>3, <2>1, <3>1
  <2>3. CASE ~aborted
    <3>1. /\ load.step = "capabilities" /\ load' = [load EXCEPT !.step = "data"] /\ offered' = load.of
          /\ tab' = "info" \/ (tab' = tab /\ Panel!Supports(load.of, tab))
      BY <1>9, <2>3 DEF Panel!CapabilitiesLoaded, Panel!Signal, Panel!Proceed, Panel!Loaded
    <3>2. load \in [of : {shownNode}, step : {"capabilities", "data"}] /\ ~inReplay
      BY <1>1, <3>1 DEF Panel!NoLoad
    <3>3. offered' = shownNode /\ load' \in [of : {shownNode}, step : {"capabilities", "data"}]
      BY <3>1, <3>2
    <3>4. role = "reader" => tab' # "exec"
      BY <3>1 DEF Panel!Supports
    <3>. QED BY <1>1, <1>3, <2>1, <3>2, <3>3, <3>4
  <2>. QED BY <2>2, <2>3
<1>10. ASSUME NEW aborted \in BOOLEAN, Panel!DataLoaded(aborted) PROVE PanelInv'
  <2>1. UNCHANGED <<shownNode, role, inReplay, tab, offered, dialog, Panel!logVars, Panel!execVars, strayed>>
    BY <1>10 DEF Panel!DataLoaded
  <2>2. CASE aborted
    <3>1. UNCHANGED <<load, details>>
      BY <1>10, <2>2 DEF Panel!DataLoaded, Panel!Signal, Panel!Proceed
    <3>. QED BY <1>1, <1>2, <2>1, <3>1 DEF Panel!logVars
  <2>3. CASE ~aborted
    <3>1. load.step = "data" /\ load' = Panel!NoLoad /\ details' = load.of
      BY <1>10, <2>3 DEF Panel!DataLoaded, Panel!Signal, Panel!Proceed, Panel!Loaded
    <3>2. ~inReplay /\ details' = shownNode
      BY <1>1, <3>1 DEF Panel!NoLoad
    <3>. QED BY <1>1, <1>2, <2>1, <3>1, <3>2 DEF Panel!logVars
  <2>. QED BY <2>2, <2>3
<1>11. CASE Panel!LoadFails
  <2>1. /\ UNCHANGED <<shownNode, role, inReplay, tab, dialog, strayed>> /\ Panel!Effects
        /\ load' = Panel!NoLoad /\ details' = Nil /\ offered' = Nil
    BY <1>11 DEF Panel!LoadFails
  <2>. QED BY <1>1, <1>3, <2>1
<1>12. ASSUME NEW ok \in BOOLEAN, Panel!LogsRead(ok) PROVE PanelInv'
  BY <1>1, <1>2, <1>12 DEF Panel!LogsRead, Panel!panelVars
<1>13. ASSUME NEW ok \in BOOLEAN, Panel!TerminalLoads(ok) PROVE PanelInv'
  BY <1>1, <1>4, <1>13 DEF Panel!TerminalLoads, Panel!Connecting
<1>14. ASSUME NEW removed \in BOOLEAN, Panel!ActionRan(removed) PROVE PanelInv'
  <2>1. CASE removed
    <3>1. Panel!Reset /\ Panel!Effects /\ UNCHANGED <<role, inReplay, tab, strayed>>
      BY <1>14, <2>1 DEF Panel!ActionRan
    <3>. QED BY <1>1, <1>3, <3>1, PanelResets
  <2>2. CASE ~removed
    BY <1>1, <1>2, <1>14, <2>2 DEF Panel!ActionRan, Panel!logVars
  <2>. QED BY <2>1, <2>2
<1>15. CASE Panel!AskAction
  BY <1>1, <1>2, <1>15 DEF Panel!AskAction, Panel!CanMutate, Panel!logVars
<1>16. ASSUME NEW m \in {offered, dialog}, Panel!RunAction(m) PROVE PanelInv'
  <2>1. m = shownNode
    BY <1>1, <1>16 DEF Panel!RunAction
  <2>2. UNCHANGED <<Panel!panelVars, Panel!logVars, Panel!execVars, strayed>>
    BY <1>1, <1>16, <2>1 DEF Panel!RunAction, Panel!Stray
  <2>. QED BY <1>1, <1>4, <2>2 DEF Panel!execVars
<1>17. CASE Panel!ActionFailed
  BY <1>1, <1>4, <1>17 DEF Panel!ActionFailed, Panel!execVars
<1>18. CASE Panel!CancelDialog
  BY <1>1, <1>2, <1>18 DEF Panel!CancelDialog, Panel!logVars
<1>19. CASE Panel!Connect
  BY <1>1, <1>4, <1>19 DEF Panel!Connect, Panel!Connecting
<1>20. CASE Panel!Opened
  BY <1>1, <1>4, <1>20 DEF Panel!Opened, Panel!NoSocket
<1>21. CASE Panel!Disconnect
  BY <1>1, <1>4, <1>21 DEF Panel!Disconnect
<1>22. CASE Panel!TypeOrWrite
  <2>1. socket.of = shownNode
    BY <1>1, <1>22 DEF Panel!TypeOrWrite, Panel!NoSocket
  <2>2. UNCHANGED <<Panel!panelVars, Panel!logVars, Panel!execVars, strayed>>
    BY <1>1, <1>22, <2>1 DEF Panel!TypeOrWrite, Panel!Stray
  <2>. QED BY <1>1, <1>4, <2>2 DEF Panel!execVars
<1>23. CASE UNCHANGED Panel!vars
  BY <1>1, <1>4, <1>23 DEF Panel!vars, Panel!execVars
<1>. QED BY <1>5, <1>6, <1>7, <1>8, <1>9, <1>10, <1>11, <1>12, <1>13, <1>14, <1>15, <1>16, <1>17, <1>18,
  <1>19, <1>20, <1>21, <1>22, <1>23 DEF Panel!Next

LEMMA PanelFollows ==
  ASSUME PanelInv PROVE Panel!PanelIsOfNode
BY DEF PanelInv, Panel!PanelIsOfNode, Panel!Mounted

-----------------------------------------------------------------------------
(* The panel and the frame of a plugin.                                    *)

FrameQueries == [token : Nat, type : {"query", "action"}, id : Nat]
FrameReplies == [id : Nat, of : GraphNodes \cup {Nil}]

\* A frame is there for the node that is shown only, and so are its query and its replies.
FramesInv ==
  /\ present \in BOOLEAN /\ operator \in BOOLEAN /\ showsReplay \in BOOLEAN
  /\ context \in GraphNodes \cup {Nil}
  /\ panel \in [asking : {Nil, context}, content : {Nil, context}]
  /\ showsReplay \/ ~Frames!Visible => panel = Frames!Idle
  /\ frame \in [token : Nat, of : GraphNodes \cup {Nil}, at : {"none", "loading", "running", "failed"},
                asked : Nat, pending : Nat]
  /\ frame.at # "none" => Frames!Visible /\ ~showsReplay /\ frame.of = context
  /\ frame.at = "none" => hostQuery = Frames!NoQuery /\ replies = <<>>
  /\ hostQuery = Frames!NoQuery \/ hostQuery \in [id : Nat, of : {frame.of}]
  /\ posted \in Seq(FrameQueries)
  /\ replies \in Seq(FrameReplies)
  /\ \A i \in 1..Len(replies) : replies[i].of = frame.of
  /\ mixed = {}

LEMMA FramesBegin ==
  ASSUME Frames!Init PROVE FramesInv
<1>1. /\ posted = <<>> /\ replies = <<>> /\ posted \in Seq(FrameQueries) /\ replies \in Seq(FrameReplies)
      /\ Len(replies) = 0
  BY EmptySeq DEF Frames!Init
<1>2. /\ frame = Frames!Unmounted /\ panel = Frames!Idle /\ context = Nil /\ hostQuery = Frames!NoQuery /\ mixed = {}
      /\ present = FALSE /\ operator = TRUE /\ showsReplay = FALSE
  BY DEF Frames!Init
<1>3. Frames!Unmounted \in [token : Nat, of : GraphNodes \cup {Nil}, at : {"none", "loading", "running", "failed"},
                   asked : Nat, pending : Nat] /\ Frames!Unmounted.at = "none"
  BY DEF Frames!Unmounted
<1>4. Frames!Idle \in [asking : {Nil, context}, content : {Nil, context}]
  BY DEF Frames!Idle
<1>5. /\ frame.at # "none" => Frames!Visible /\ ~showsReplay /\ frame.of = context
      /\ frame.at = "none" => hostQuery = Frames!NoQuery /\ replies = <<>>
      /\ \A i \in 1..Len(replies) : replies[i].of = frame.of
  BY <1>1, <1>2, <1>3
<1>6. /\ present \in BOOLEAN /\ operator \in BOOLEAN /\ showsReplay \in BOOLEAN
      /\ context \in GraphNodes \cup {Nil}
  BY <1>2, Zenon
<1>. QED BY <1>1, <1>2, <1>3, <1>4, <1>5, <1>6 DEF FramesInv

\* A change of the page leaves a panel that asks for what is shown, and no frame of what was.
LEMMA FramesRender ==
  ASSUME FramesInv, Frames!Render, context' \in GraphNodes \cup {Nil}, mixed' = mixed,
         present' \in BOOLEAN, operator' \in BOOLEAN, showsReplay' \in BOOLEAN
  PROVE  FramesInv'
<1>. DEFINE was == Frames!Visible /\ ~showsReplay
            is == Frames!Visible' /\ ~showsReplay'
<1>1. /\ frame \in [token : Nat, of : GraphNodes \cup {Nil}, at : {"none", "loading", "running", "failed"},
                    asked : Nat, pending : Nat]
      /\ frame.at # "none" => was /\ frame.of = context
      /\ frame.at = "none" => hostQuery = Frames!NoQuery /\ replies = <<>>
      /\ hostQuery = Frames!NoQuery \/ hostQuery \in [id : Nat, of : {frame.of}]
      /\ posted \in Seq(FrameQueries) /\ replies \in Seq(FrameReplies)
      /\ \A i \in 1..Len(replies) : replies[i].of = frame.of
      /\ mixed = {}
  BY DEF FramesInv
<1>2. /\ panel' \in [asking : {Nil, context'}, content : {Nil, context'}]
      /\ ~is => panel' = Frames!Idle
  BY DEF Frames!Render, Frames!Idle
<1>3. /\ frame' \in [token : Nat, of : GraphNodes \cup {Nil}, at : {"none", "loading", "running", "failed"},
                     asked : Nat, pending : Nat]
      /\ frame'.at # "none" => is /\ frame'.of = context'
      /\ frame'.at = "none" => hostQuery' = Frames!NoQuery /\ replies' = <<>>
      /\ hostQuery' = Frames!NoQuery \/ hostQuery' \in [id : Nat, of : {frame'.of}]
      /\ posted' \in Seq(FrameQueries) /\ replies' \in Seq(FrameReplies)
      /\ \A i \in 1..Len(replies') : replies'[i].of = frame'.of
  <2>1. CASE Frames!FrameKey' = Frames!FrameKey
    <3>1. <<is, context'>> = <<was, context>>
      BY <2>1 DEF Frames!FrameKey
    <3>2. (is = was) /\ context' = context
      BY <3>1, Zenon
    <3>3. was => is
      BY <3>2, Zenon
    <3>4. UNCHANGED <<frame, posted, hostQuery, replies>>
      BY <2>1 DEF Frames!Render, Frames!frameVars
    <3>. QED BY <1>1, <3>2, <3>3, <3>4
  <2>2. CASE Frames!FrameKey' # Frames!FrameKey
    <3>. <<>> \in Seq(FrameReplies) /\ Len(<<>>) = 0
      BY EmptySeq
    <3>1. frame' = IF is THEN Frames!NewFrame(frame.token + 1) ELSE [Frames!Unmounted EXCEPT !.token = frame.token]
      BY <2>2 DEF Frames!Render
    <3>2. hostQuery' = Frames!NoQuery /\ replies' = <<>> /\ posted' = posted
      BY <2>2 DEF Frames!Render
    <3>3. CASE is
      <4>1. frame' = [token |-> frame.token + 1, of |-> context', at |-> "loading", asked |-> 0, pending |-> 0]
        BY <3>1, <3>3 DEF Frames!NewFrame
      <4>. HIDE DEF is
      <4>. QED BY <1>1, <3>2, <3>3, <4>1
    <3>4. CASE ~is
      <4>1. frame' = [token |-> frame.token, of |-> Nil, at |-> "none", asked |-> 0, pending |-> 0]
        BY <3>1, <3>4 DEF Frames!Unmounted
      <4>. HIDE DEF is
      <4>. QED BY <1>1, <3>2, <3>4, <4>1
    <3>. QED BY <3>3, <3>4
  <2>. QED BY <2>1, <2>2
<1>4. Frames!NoQuery' = Frames!NoQuery /\ Frames!Idle' = Frames!Idle /\ FrameQueries' = FrameQueries /\ FrameReplies' = FrameReplies
  BY DEF Frames!NoQuery, Frames!Idle, FrameQueries, FrameReplies
<1>. QED BY <1>1, <1>2, <1>3, <1>4 DEF FramesInv

\* What a step leaves alone when the page stays as it is.
LEMMA FramesKept ==
  ASSUME FramesInv, UNCHANGED <<Frames!pageVars, panel, mixed>>,
         frame' \in [token : Nat, of : {frame.of}, at : {"loading", "running", "failed"} \cup {frame.at},
                     asked : Nat, pending : Nat],
         frame'.at = "none" <=> frame.at = "none",
         frame.at = "none" => hostQuery' = Frames!NoQuery /\ replies' = <<>>,
         hostQuery' = Frames!NoQuery \/ hostQuery' \in [id : Nat, of : {frame.of}],
         posted' \in Seq(FrameQueries), replies' \in Seq(FrameReplies),
         \A i \in 1..Len(replies') : replies'[i].of = frame.of
  PROVE  FramesInv'
<1>1. frame'.of = frame.of /\ (Frames!Visible' <=> Frames!Visible) /\ frame.of \in GraphNodes \cup {Nil}
  BY DEF Frames!pageVars, Frames!Visible, FramesInv
<1>2. Frames!NoQuery' = Frames!NoQuery /\ Frames!Idle' = Frames!Idle /\ FrameQueries' = FrameQueries /\ FrameReplies' = FrameReplies
  BY DEF Frames!NoQuery, Frames!Idle, FrameQueries, FrameReplies
<1>. QED BY <1>1, <1>2 DEF FramesInv, Frames!pageVars

LEMMA FramesGoOn ==
  ASSUME FramesInv, Frames!Next \/ UNCHANGED Frames!vars PROVE FramesInv'
<1>1. /\ present \in BOOLEAN /\ operator \in BOOLEAN /\ showsReplay \in BOOLEAN
      /\ context \in GraphNodes \cup {Nil}
      /\ panel \in [asking : {Nil, context}, content : {Nil, context}]
      /\ showsReplay \/ ~Frames!Visible => panel = Frames!Idle
      /\ frame \in [token : Nat, of : GraphNodes \cup {Nil}, at : {"none", "loading", "running", "failed"},
                    asked : Nat, pending : Nat]
      /\ frame.at # "none" => Frames!Visible /\ ~showsReplay /\ frame.of = context
      /\ frame.at = "none" => hostQuery = Frames!NoQuery /\ replies = <<>>
      /\ hostQuery = Frames!NoQuery \/ hostQuery \in [id : Nat, of : {frame.of}]
      /\ posted \in Seq(FrameQueries)
      /\ replies \in Seq(FrameReplies)
      /\ \A i \in 1..Len(replies) : replies[i].of = frame.of
      /\ mixed = {}
  BY DEF FramesInv
<1>2. frame \in [token : Nat, of : {frame.of}, at : {"loading", "running", "failed"} \cup {frame.at},
                 asked : Nat, pending : Nat]
  BY <1>1
<1>3. ASSUME NEW c \in GraphNodes \cup {Nil}, Frames!Select(c) PROVE FramesInv'
  BY <1>1, <1>3, FramesRender DEF Frames!Select
<1>4. ASSUME NEW b \in BOOLEAN, Frames!Poll(b) PROVE FramesInv'
  BY <1>1, <1>4, FramesRender DEF Frames!Poll
<1>5. CASE Frames!ChangeRole
  BY <1>1, <1>5, FramesRender DEF Frames!ChangeRole
<1>6. CASE Frames!ToggleReplay
  BY <1>1, <1>6, FramesRender DEF Frames!ToggleReplay
<1>7. ASSUME UNCHANGED <<Frames!pageVars, Frames!frameVars, mixed>>,
             panel' \in [asking : {Nil, context}, content : {Nil, context}],
             showsReplay \/ ~Frames!Visible => panel' = Frames!Idle
      PROVE  FramesInv'
  <2>1. /\ Frames!Visible' <=> Frames!Visible
        /\ Frames!NoQuery' = Frames!NoQuery /\ Frames!Idle' = Frames!Idle /\ FrameQueries' = FrameQueries /\ FrameReplies' = FrameReplies
    BY <1>7 DEF Frames!NoQuery, Frames!Idle, FrameQueries, FrameReplies, Frames!Visible, Frames!pageVars
  <2>. QED BY <1>1, <1>7, <2>1 DEF FramesInv, Frames!pageVars, Frames!frameVars
<1>8. ASSUME NEW ok \in BOOLEAN, Frames!PanelAnswers(ok) PROVE FramesInv'
  BY <1>1, <1>7, <1>8 DEF Frames!PanelAnswers, Frames!Idle
<1>9. CASE Frames!PanelAsks
  BY <1>1, <1>7, <1>9 DEF Frames!PanelAsks
<1>10. ASSUME NEW ok \in BOOLEAN, Frames!FrameBoots(ok) PROVE FramesInv'
  <2>1. /\ frame' \in [token : Nat, of : {frame.of}, at : {"running", "failed"}, asked : Nat, pending : Nat]
        /\ frame.at = "loading" /\ UNCHANGED <<Frames!pageVars, panel, posted, hostQuery, replies, mixed>>
    BY <1>1, <1>10 DEF Frames!FrameBoots
  <2>. QED BY <1>1, <2>1, FramesKept
<1>11. ASSUME NEW m \in FrameQueries PROVE Append(posted, m) \in Seq(FrameQueries)
  BY <1>1, AppendProperties
<1>12. CASE Frames!FrameAsks
  <2>. DEFINE m == [token |-> frame.token, type |-> "query", id |-> frame.asked + 1]
  <2>1. /\ frame' = [frame EXCEPT !.asked = @ + 1, !.pending = frame.asked + 1]
        /\ posted' = Append(posted, m) /\ UNCHANGED <<Frames!pageVars, panel, hostQuery, replies, mixed>>
    BY <1>12 DEF Frames!FrameAsks, Frames!Post
  <2>2. m \in FrameQueries
    BY <1>1 DEF FrameQueries
  <2>3. posted' \in Seq(FrameQueries)
    BY <1>11, <2>1, <2>2
  <2>4. frame' \in [token : Nat, of : {frame.of}, at : {frame.at}, asked : Nat, pending : Nat]
    <3>1. frame' = [token |-> frame.token, of |-> frame.of, at |-> frame.at,
                    asked |-> frame.asked + 1, pending |-> frame.asked + 1]
      BY <1>1, <2>1
    <3>. QED BY <1>1, <3>1
  <2>. HIDE DEF m
  <2>. QED BY <1>1, <2>1, <2>3, <2>4, FramesKept
<1>13. CASE Frames!FrameTimesOut
  <2>1. /\ frame' \in [token : Nat, of : {frame.of}, at : {frame.at}, asked : Nat, pending : Nat]
        /\ UNCHANGED <<Frames!pageVars, panel, posted, hostQuery, replies, mixed>>
    BY <1>1, <1>13 DEF Frames!FrameTimesOut
  <2>. QED BY <1>1, <2>1, FramesKept
<1>14. CASE Frames!FrameActs
  <2>. DEFINE m == [token |-> frame.token, type |-> "action", id |-> 0]
  <2>1. posted' = Append(posted, m) /\ UNCHANGED <<Frames!pageVars, panel, frame, hostQuery, replies, mixed>>
    BY <1>14 DEF Frames!FrameActs, Frames!Post
  <2>2. m \in FrameQueries
    BY <1>1 DEF FrameQueries
  <2>3. posted' \in Seq(FrameQueries)
    BY <1>11, <2>1, <2>2
  <2>. HIDE DEF m
  <2>. QED BY <1>1, <1>2, <2>1, <2>3, FramesKept
<1>15. CASE Frames!FrameHears
  <2>1. /\ replies # <<>> /\ replies' = Tail(replies)
        /\ UNCHANGED <<Frames!pageVars, panel, posted, hostQuery>>
    BY <1>15 DEF Frames!FrameHears
  <2>2. /\ Tail(replies) \in Seq(FrameReplies) /\ Head(replies) = replies[1] /\ Len(replies) \in Nat \ {0}
        /\ Len(Tail(replies)) = Len(replies) - 1
        /\ \A i \in 1..Len(Tail(replies)) : Tail(replies)[i] = replies[i + 1]
    BY <1>1, <2>1, HeadTailProperties, LenProperties, EmptySeq
  <2>3. Head(replies).of = frame.of /\ \A i \in 1..Len(replies') : replies'[i].of = frame.of
    BY <1>1, <2>1, <2>2
  <2>4. CASE Frames!AnswersPending(Head(replies))
    <3>1. Frames!Mix(<<frame.of, frame.pending>>, <<Head(replies).of, Head(replies).id>>)
          /\ frame' = [frame EXCEPT !.pending = 0]
      BY <1>15, <2>4 DEF Frames!FrameHears
    <3>2. mixed' = mixed
      BY <2>3, <2>4, <3>1 DEF Frames!Mix, Frames!AnswersPending
    <3>3. frame' \in [token : Nat, of : {frame.of}, at : {frame.at}, asked : Nat, pending : Nat]
      BY <1>1, <3>1
    <3>. QED BY <1>1, <2>1, <2>2, <2>3, <3>2, <3>3, FramesKept
  <2>5. CASE ~Frames!AnswersPending(Head(replies))
    <3>1. UNCHANGED <<frame, mixed>>
      BY <1>15, <2>5 DEF Frames!FrameHears
    <3>. QED BY <1>1, <1>2, <2>1, <2>2, <2>3, <3>1, FramesKept
  <2>. QED BY <2>4, <2>5
<1>16. ASSUME NEW m \in FrameReplies, m.of = frame.of
       PROVE  /\ Append(replies, m) \in Seq(FrameReplies)
              /\ \A i \in 1..Len(Append(replies, m)) : Append(replies, m)[i].of = frame.of
  <2>1. /\ Append(replies, m) \in Seq(FrameReplies) /\ Len(Append(replies, m)) = Len(replies) + 1
        /\ \A i \in 1..Len(replies) : Append(replies, m)[i] = replies[i]
        /\ Append(replies, m)[Len(replies) + 1] = m /\ Len(replies) \in Nat
    BY <1>1, AppendProperties, LenProperties
  <2>. QED BY <1>1, <1>16, <2>1
<1>17. CASE Frames!PageHears
  <2>. DEFINE m == Head(posted)
  <2>1. /\ posted # <<>> /\ posted' = Tail(posted) /\ UNCHANGED <<Frames!pageVars, panel, frame>>
        /\ \/ UNCHANGED <<hostQuery, replies, mixed>>
           \/ /\ frame.at # "none" /\ hostQuery' = [id |-> m.id, of |-> context]
              /\ UNCHANGED <<replies, mixed>>
           \/ /\ frame.at # "none" /\ replies' = Append(replies, [id |-> m.id, of |-> frame.of])
              /\ UNCHANGED <<hostQuery, mixed>>
           \/ frame.at # "none" /\ Frames!Mix(frame.of, context) /\ UNCHANGED <<hostQuery, replies>>
    BY <1>17 DEF Frames!PageHears
  <2>2. m \in FrameQueries /\ Tail(posted) \in Seq(FrameQueries)
    BY <1>1, <2>1, HeadTailProperties
  <2>3. m.id \in Nat
    BY <2>2 DEF FrameQueries
  <2>. HIDE DEF m
  <2>4. CASE UNCHANGED <<hostQuery, replies, mixed>>
    BY <1>1, <1>2, <2>1, <2>2, <2>4, FramesKept
  <2>5. CASE /\ frame.at # "none" /\ hostQuery' = [id |-> m.id, of |-> context]
             /\ UNCHANGED <<replies, mixed>>
    BY <1>1, <1>2, <2>1, <2>2, <2>3, <2>5, FramesKept
  <2>6. CASE /\ frame.at # "none" /\ replies' = Append(replies, [id |-> m.id, of |-> frame.of])
             /\ UNCHANGED <<hostQuery, mixed>>
    <3>1. [id |-> m.id, of |-> frame.of] \in FrameReplies
      BY <1>1, <2>3 DEF FrameReplies
    <3>. QED BY <1>1, <1>2, <1>16, <2>1, <2>2, <2>6, <3>1, FramesKept
  <2>7. CASE frame.at # "none" /\ Frames!Mix(frame.of, context) /\ UNCHANGED <<hostQuery, replies>>
    <3>1. mixed' = mixed
      BY <1>1, <2>7 DEF Frames!Mix
    <3>. QED BY <1>1, <1>2, <2>1, <2>2, <2>7, <3>1, FramesKept
  <2>. QED BY <2>1, <2>4, <2>5, <2>6, <2>7
<1>18. CASE Frames!PageReplies
  <2>1. /\ hostQuery # Frames!NoQuery /\ replies' = Append(replies, hostQuery) /\ hostQuery' = Frames!NoQuery
        /\ UNCHANGED <<Frames!pageVars, panel, frame, posted, mixed>>
    BY <1>18 DEF Frames!PageReplies
  <2>2. hostQuery \in FrameReplies /\ hostQuery.of = frame.of /\ frame.at # "none"
    BY <1>1, <2>1 DEF FrameReplies
  <2>. QED BY <1>1, <1>2, <1>16, <2>1, <2>2, FramesKept
<1>19. CASE Frames!Invoke \/ Frames!ActionEnds
  BY <1>1, <1>7, <1>19 DEF Frames!Invoke, Frames!ActionEnds
<1>20. CASE UNCHANGED Frames!vars
  BY <1>1, <1>7, <1>20 DEF Frames!vars
<1>. QED BY <1>3, <1>4, <1>5, <1>6, <1>8, <1>9, <1>10, <1>12, <1>13, <1>14, <1>15, <1>17, <1>18, <1>19,
  <1>20
  DEF Frames!Next

LEMMA FramesFollow ==
  ASSUME FramesInv PROVE Frames!FrameIsOfNode
BY DEF FramesInv, Frames!FrameIsOfNode

-----------------------------------------------------------------------------
(* The types of the sessions and of the process.                           *)

\* How often a message is in a channel.
PlacesIn(q, m) == {i \in 1..Len(q) : q[i] = m}
Copies(q, m) == Cardinality(PlacesIn(q, m))

\* A channel has finitely many messages.
LEMMA CopiesAreCounted ==
  ASSUME NEW S, NEW q \in Seq(S), NEW m
  PROVE  IsFiniteSet(PlacesIn(q, m)) /\ Copies(q, m) \in Nat
<1>2. Len(q) \in Nat
  BY LenProperties
<1>3. IsFiniteSet(1..Len(q)) /\ PlacesIn(q, m) \in SUBSET (1..Len(q))
  BY <1>2, FS_Interval DEF PlacesIn
<1>4. IsFiniteSet(PlacesIn(q, m))
  BY <1>3, FS_Subset
<1>. QED BY <1>4, FS_CardinalityType DEF Copies

\* An empty channel has none.
LEMMA NoneAtFirst ==
  ASSUME NEW m
  PROVE  Copies(<<>>, m) = 0
<1>1. PlacesIn(<<>>, m) = {}
  BY DEF PlacesIn
<1>. QED BY <1>1, FS_EmptySet DEF Copies

\* What is sent is there once more.
LEMMA OneMoreAtTheEnd ==
  ASSUME NEW S, NEW q \in Seq(S), NEW n \in S, NEW m
  PROVE  Copies(Append(q, n), m) = IF n = m THEN Copies(q, m) + 1 ELSE Copies(q, m)
<1>. DEFINE r == Append(q, n)
<1>1. r \in Seq(S) /\ Len(r) = Len(q) + 1 /\ r[Len(q) + 1] = n /\ \A i \in 1..Len(q) : r[i] = q[i]
  BY AppendProperties
<1>2. Len(q) \in Nat
  BY LenProperties
<1>. HIDE DEF r
<1>3. PlacesIn(r, m) = IF n = m THEN PlacesIn(q, m) \cup {Len(q) + 1} ELSE PlacesIn(q, m)
  BY <1>1, <1>2 DEF PlacesIn
<1>4. Len(q) + 1 \notin PlacesIn(q, m)
  BY <1>2 DEF PlacesIn
<1>5. IsFiniteSet(PlacesIn(q, m))
  BY CopiesAreCounted
<1>6. Cardinality(PlacesIn(q, m) \cup {Len(q) + 1}) = Cardinality(PlacesIn(q, m)) + 1
  BY <1>4, <1>5, FS_AddElement
<1>. QED BY <1>3, <1>6 DEF Copies, r

\* What is taken was there once more.
LEMMA OneLessAtTheFront ==
  ASSUME NEW S, NEW q \in Seq(S), q # <<>>, NEW m
  PROVE  Copies(q, m) = IF Head(q) = m THEN Copies(Tail(q), m) + 1 ELSE Copies(Tail(q), m)
<1>. DEFINE r == Tail(q)
            P == PlacesIn(r, m)
            Q == PlacesIn(q, m) \ {1}
            f == [i \in P |-> i + 1]
<1>1. r \in Seq(S) /\ Len(r) = Len(q) - 1 /\ Head(q) = q[1] /\ \A i \in 1..Len(r) : r[i] = q[i + 1]
  BY HeadTailProperties
<1>2. Len(q) \in Nat /\ Len(q) > 0
  BY LenProperties, EmptySeq
<1>. HIDE DEF r
<1>3. f \in [P -> Q] /\ \A i, j \in P : f[i] = f[j] => i = j
  BY <1>1, <1>2 DEF PlacesIn
<1>4. \A j \in Q : \E i \in P : f[i] = j
  <2>1. ASSUME NEW j \in Q PROVE j - 1 \in P /\ (j - 1) + 1 = j
    BY <1>1, <1>2 DEF PlacesIn
  <2>. QED BY <2>1
<1>5. IsFiniteSet(P) /\ IsFiniteSet(PlacesIn(q, m)) /\ Cardinality(P) \in Nat
  BY <1>1, CopiesAreCounted DEF Copies
<1>. HIDE DEF f
<1>6. Cardinality(Q) = Cardinality(P)
  <2>. HIDE DEF P, Q
  <2>1. ExistsBijection(P, Q)
    <3>1. f \in Bijection(P, Q)
      BY <1>3, <1>4, Fun_IsBij
    <3>. QED BY <3>1, Zenon DEF ExistsBijection
  <2>. QED BY <1>5, <2>1, FS_Bijection
<1>7. 1 \in PlacesIn(q, m) <=> Head(q) = m
  BY <1>1, <1>2 DEF PlacesIn
<1>8. Cardinality(Q) = IF 1 \in PlacesIn(q, m) THEN Copies(q, m) - 1 ELSE Copies(q, m)
  BY <1>5, FS_RemoveElement DEF Copies
<1>9. Copies(q, m) \in Nat /\ Copies(r, m) = Cardinality(P)
  BY CopiesAreCounted DEF Copies
<1>. QED BY <1>5, <1>6, <1>7, <1>8, <1>9 DEF r

\* The client hears of a stream what it has said, and that once.
SessionsTypes ==
  /\ Sessions!TypeOK
  /\ \A s \in Sessions!Streams : heard[s] + Copies(toParent, Sessions!Message("data", s)) <= said[s]

\* Nothing was said yet.
LEMMA SessionsBeginTyped ==
  ASSUME Sessions!Init PROVE SessionsTypes
<1>1. toParent = <<>> /\ heard = [s \in Sessions!Streams |-> 0] /\ said = [s \in Sessions!Streams |-> 0]
  BY DEF Sessions!Init
<1>2. \A m : Copies(toParent, m) = 0
  BY <1>1, NoneAtFirst
<1>3. Sessions!TypeOK
  BY SessionsConstants, BoundsAssumption DEF Sessions!Init, Sessions!TypeOK, Sessions!Streams, Sessions!Kinds, Sessions!Waiting
<1>. QED BY <1>1, <1>2, <1>3 DEF SessionsTypes

\* The same, one variable at a time.
SessionsTypesOne ==
  /\ asked \in 0..MaxStreams
  /\ kind \in [Sessions!Streams -> Sessions!Kinds \cup {"none"}]
  /\ handler \in [Sessions!Streams -> Sessions!Waiting \cup {"none", "held", "failed"}]
  /\ wsOpen \in BOOLEAN /\ alive \in BOOLEAN
  /\ logStream \in 0..MaxStreams /\ execStream \in 0..MaxStreams
  /\ streams \subseteq Sessions!Streams /\ request \subseteq Sessions!Streams
  /\ stoppedStreams \subseteq Sessions!Streams /\ missed \subseteq Sessions!Streams
  /\ overlap \subseteq Sessions!Kinds
  /\ worker \in [Sessions!Streams -> {"none", "starting", "open", "closed"}]
  /\ said \in [Sessions!Streams -> 0..MaxData] /\ heard \in [Sessions!Streams -> 0..MaxData]

\* They are the same.
LEMMA SessionsTypeEach == (Sessions!TypeOK <=> SessionsTypesOne) /\ (Sessions!TypeOK' <=> SessionsTypesOne')
<1>2. UNION {streams, request, stoppedStreams, missed} \subseteq Sessions!Streams
        <=> /\ streams \subseteq Sessions!Streams /\ request \subseteq Sessions!Streams
            /\ stoppedStreams \subseteq Sessions!Streams /\ missed \subseteq Sessions!Streams
  OBVIOUS
<1>3. UNION {streams', request', stoppedStreams', missed'} \subseteq Sessions!Streams'
        <=> /\ streams' \subseteq Sessions!Streams' /\ request' \subseteq Sessions!Streams'
            /\ stoppedStreams' \subseteq Sessions!Streams' /\ missed' \subseteq Sessions!Streams'
  OBVIOUS
<1>4. Sessions!TypeOK <=> SessionsTypesOne
  BY <1>2, Zenon DEF Sessions!TypeOK, SessionsTypesOne
<1>5. Sessions!TypeOK' <=> SessionsTypesOne'
  BY <1>3, Zenon DEF Sessions!TypeOK, SessionsTypesOne
<1>. QED BY <1>4, <1>5

\* A stream is stopped, by its client or with it (stopLogs, stopExec).
LEMMA StoppingKeepsTypes ==
  ASSUME SessionsTypes, SessionsInv, SessionsInv', NEW ks \in SUBSET Sessions!Kinds,
         asked' \in 0..MaxStreams,
         wsOpen' \in BOOLEAN, Sessions!Forget(ks), Sessions!Overlaps(ks),
         UNCHANGED <<request, toParent, Sessions!workerVars, heard, alive>>
  PROVE  SessionsTypes'
<1>1. SessionsTypesOne
  BY SessionsTypeEach DEF SessionsTypes
<1>2. logStream' \in 0..MaxStreams /\ execStream' \in 0..MaxStreams
  BY <1>1, SessionsConstants DEF Sessions!Forget, SessionsTypesOne
<1>3. overlap' \subseteq Sessions!Kinds
  BY <1>1 DEF Sessions!Overlaps, SessionsTypesOne
<1>4. SessionsTypesOne'
  BY <1>1, <1>2, <1>3 DEF SessionsTypesOne, SessionsInv, SessionsTyped, Sessions!workerVars
<1>. QED BY <1>4, SessionsTypeEach DEF SessionsTypes, Sessions!workerVars, Sessions!Streams

\* The worker says something of a stream.
LEMMA SpeakingKeepsTypes ==
  ASSUME SessionsTypes, SessionsInv, SessionsInv', NEW t \in {"result", "refused", "data", "end", "error"},
         NEW s \in Sessions!Streams, Sessions!Says(t, s),
         t = "data" => said' = [said EXCEPT ![s] = @ + 1] /\ said[s] < MaxData,
         t # "data" => said' = said
  PROVE  SessionsTypes'
<1>1. \A u \in Sessions!Streams :
        Copies(toParent', Sessions!Message("data", u))
          = IF t = "data" /\ u = s THEN Copies(toParent, Sessions!Message("data", u)) + 1
            ELSE Copies(toParent, Sessions!Message("data", u))
  <2>1. Sessions!Message(t, s) \in ToParentMessage /\ toParent \in Seq(ToParentMessage)
    BY DEF Sessions!Message, ToParentMessage, SessionsInv, SessionsTyped
  <2>2. toParent' = Append(toParent, Sessions!Message(t, s))
    BY DEF Sessions!Says
  <2>3. \A u : Sessions!Message(t, s) = Sessions!Message("data", u) <=> t = "data" /\ u = s
    BY DEF Sessions!Message
  <2>. QED BY <2>1, <2>2, <2>3, OneMoreAtTheEnd
<1>2. \A u \in Sessions!Streams : Copies(toParent, Sessions!Message("data", u)) \in Nat
  BY CopiesAreCounted DEF SessionsInv, SessionsTyped
<1>3. MaxData \in Nat
  BY BoundsAssumption
<1>4. said' \in [Sessions!Streams -> 0..MaxData]
  BY <1>3 DEF SessionsTypes, Sessions!TypeOK
<1>5. Sessions!TypeOK'
  BY <1>4 DEF SessionsTypes, Sessions!TypeOK, SessionsInv, SessionsTyped, Sessions!Says, Sessions!clientVars
<1>6. \A u \in Sessions!Streams : (heard[u] + Copies(toParent, Sessions!Message("data", u)) <= said[u])'
  <2>1. TAKE u \in Sessions!Streams'
  <2>2. u \in Sessions!Streams /\ said[u] \in 0..MaxData /\ heard[u] \in 0..MaxData /\ heard' = heard
        /\ heard[u] + Copies(toParent, Sessions!Message("data", u)) <= said[u]
    BY DEF SessionsTypes, Sessions!TypeOK, Sessions!Streams, Sessions!Says
  <2>3. said'[u] = IF t = "data" /\ u = s THEN said[u] + 1 ELSE said[u]
    BY <2>2 DEF SessionsTypes, Sessions!TypeOK
  <2>. QED BY <1>1, <1>2, <1>3, <2>2, <2>3
<1>. QED BY <1>5, <1>6 DEF SessionsTypes, Sessions!Streams

\* The parent takes a message: what the client hears of it was in the channel.
LEMMA TakingKeepsTypes ==
  ASSUME SessionsTypes, SessionsInv, SessionsInv', toParent # <<>>, Sessions!Taken,
         heard' = IF Head(toParent).type = "data" /\ Head(toParent).stream \in streams /\ wsOpen
                  THEN [heard EXCEPT ![Head(toParent).stream] = @ + 1] ELSE heard,
         request' \subseteq request, UNCHANGED <<asked, wsOpen, logStream, alive, overlap, said, missed>>,
         execStream' \in 0..MaxStreams
  PROVE  SessionsTypes'
<1>. DEFINE m == Head(toParent)
<1>1. m \in ToParentMessage /\ toParent \in Seq(ToParentMessage)
  BY AtTheFront DEF SessionsInv, SessionsTyped
<1>2. \A u \in Sessions!Streams :
        Copies(toParent, Sessions!Message("data", u))
          = IF m.type = "data" /\ u = m.stream THEN Copies(toParent', Sessions!Message("data", u)) + 1
            ELSE Copies(toParent', Sessions!Message("data", u))
  <2>1. toParent' = Tail(toParent)
    BY DEF Sessions!Taken
  <2>2. \A u : m = Sessions!Message("data", u) <=> m.type = "data" /\ u = m.stream
    BY <1>1 DEF Sessions!Message, ToParentMessage
  <2>. QED BY <1>1, <2>1, <2>2, OneLessAtTheFront
<1>3. \A u \in Sessions!Streams : Copies(toParent', Sessions!Message("data", u)) \in Nat
  BY CopiesAreCounted DEF SessionsInv, SessionsTyped
<1>4. MaxData \in Nat
  BY BoundsAssumption
<1>5. heard \in [Sessions!Streams -> 0..MaxData] /\ said \in [Sessions!Streams -> 0..MaxData] /\ said' = said
  BY DEF SessionsTypes, Sessions!TypeOK
<1>6. m.stream \in Sessions!Streams
  BY <1>1 DEF ToParentMessage
<1>. HIDE DEF m
<1>7. \A u \in Sessions!Streams :
        /\ heard'[u] = IF m.type = "data" /\ u = m.stream /\ m.stream \in streams /\ wsOpen THEN heard[u] + 1 ELSE heard[u]
        /\ heard'[u] + Copies(toParent', Sessions!Message("data", u)) <= said[u]
        /\ heard'[u] \in 0..MaxData
  BY <1>2, <1>3, <1>4, <1>5, <1>6 DEF SessionsTypes, m
<1>8. DOMAIN heard' = Sessions!Streams /\ heard' = [u \in DOMAIN heard' |-> heard'[u]]
  BY <1>5
<1>9. heard' \in [Sessions!Streams -> 0..MaxData]
  BY <1>7, <1>8
<1>10. Sessions!TypeOK'
  BY <1>9 DEF SessionsTypes, Sessions!TypeOK, SessionsInv, SessionsTyped
<1>. QED BY <1>5, <1>7, <1>10 DEF SessionsTypes, Sessions!Streams

\* Each step keeps the types of the sessions.
LEMMA SessionsStayTyped ==
  ASSUME SessionsTypes, SessionsInv, SessionsInv', Sessions!Next \/ UNCHANGED Sessions!vars
  PROVE  SessionsTypes'
<1>. USE DEF Sessions!clientVars, Sessions!workerVars
<1>1. ASSUME NEW k \in Sessions!Kinds, Sessions!Ask(k) \/ Sessions!Unsubscribe(k) PROVE SessionsTypes'
  <2>1. asked' \in 0..MaxStreams
    BY DEF SessionsInv, SessionsTyped
  <2>2. {k} \in SUBSET Sessions!Kinds /\ wsOpen' \in BOOLEAN /\ Sessions!Forget({k}) /\ Sessions!Overlaps({k})
        /\ UNCHANGED <<request, toParent, Sessions!workerVars, heard, alive>>
    BY <1>1 DEF Sessions!Ask, Sessions!Unsubscribe, SessionsTypes, Sessions!TypeOK
  <2>. QED BY <2>1, <2>2, StoppingKeepsTypes
<1>2. CASE Sessions!CloseSocket
  <2>1. asked' \in 0..MaxStreams
    BY DEF SessionsInv, SessionsTyped
  <2>2. Sessions!Kinds \in SUBSET Sessions!Kinds
    OBVIOUS
  <2>. QED BY <1>2, <2>1, <2>2, StoppingKeepsTypes DEF Sessions!CloseSocket
<1>3. ASSUME NEW s \in Sessions!Streams, Sessions!OpenStream(s) \/ Sessions!NoProvider(s) PROVE SessionsTypes'
  <2>1. SessionsTyped' /\ asked' \in 0..MaxStreams
    BY DEF SessionsInv, SessionsTyped
  <2>2. /\ UNCHANGED <<wsOpen, execStream, stoppedStreams, toParent, missed, said, heard, alive, overlap>>
        /\ logStream' \in {logStream, s} /\ request' \subseteq request \cup {s}
    BY <1>3 DEF Sessions!OpenStream, Sessions!NoProvider
  <2>3. s \in 0..MaxStreams
    BY SessionsConstants DEF Sessions!Streams
  <2>4. logStream' \in 0..MaxStreams /\ UNION {streams', request', stoppedStreams', missed'} \subseteq Sessions!Streams
    <3>1. logStream \in 0..MaxStreams /\ request \cup stoppedStreams \cup missed \subseteq Sessions!Streams
      BY DEF SessionsTypes, Sessions!TypeOK
    <3>2. streams' \subseteq Sessions!Streams
      BY <2>1 DEF SessionsTyped
    <3>. QED BY <2>2, <2>3, <3>1, <3>2
  <2>5. Sessions!TypeOK'
    BY <2>1, <2>2, <2>4 DEF SessionsTypes, Sessions!TypeOK, SessionsTyped, Sessions!Streams
  <2>. QED BY <2>2, <2>5 DEF SessionsTypes, Sessions!Streams
<1>4. ASSUME NEW s \in Sessions!Streams,
             Sessions!ProviderReturns(s) \/ Sessions!Emit(s) \/ Sessions!EndStream(s)
      PROVE  SessionsTypes'
  BY <1>4, SpeakingKeepsTypes DEF Sessions!ProviderReturns, Sessions!Emit, Sessions!EndStream
<1>5. CASE Sessions!WorkerStart \/ Sessions!WorkerStop
  <2>1. Head(toWorker).stream \in Sessions!Streams
    <3>1. toWorker \in Seq(ToWorkerMessage) /\ toWorker # <<>>
      BY <1>5 DEF SessionsInv, SessionsTyped, Sessions!WorkerStart, Sessions!WorkerStop, Sessions!Received
    <3>. QED BY <3>1, AtTheFront DEF ToWorkerMessage
  <2>. QED BY <1>5, <2>1 DEF Sessions!WorkerStart, Sessions!WorkerStop, Sessions!Received, SessionsTypes,
    Sessions!TypeOK, SessionsInv, SessionsTyped
<1>6. CASE Sessions!HandleResult \/ Sessions!HandleRefused \/ Sessions!HandleData \/ Sessions!HandleEnd
  <2>1. toParent # <<>> /\ Sessions!Taken
    BY <1>6 DEF Sessions!HandleResult, Sessions!HandleRefused, Sessions!HandleData, Sessions!HandleEnd, Sessions!Message1
  <2>2. Head(toParent).stream \in 0..MaxStreams
    <3>1. toParent \in Seq(ToParentMessage)
      BY DEF SessionsInv, SessionsTyped
    <3>2. Head(toParent) \in ToParentMessage
      BY <2>1, <3>1, AtTheFront
    <3>. QED BY <3>2, SessionsConstants DEF ToParentMessage, Sessions!Streams
  <2>3. execStream' \in 0..MaxStreams
    BY <1>6, <2>2, SessionsConstants DEF Sessions!HandleResult, Sessions!HandleRefused, Sessions!HandleData, Sessions!HandleEnd,
      SessionsTypes, Sessions!TypeOK
  <2>4. /\ heard' = IF Head(toParent).type = "data" /\ Head(toParent).stream \in streams /\ wsOpen
                    THEN [heard EXCEPT ![Head(toParent).stream] = @ + 1] ELSE heard
        /\ request' \subseteq request /\ UNCHANGED <<asked, wsOpen, logStream, alive, overlap, said, missed>>
    BY <1>6 DEF Sessions!HandleResult, Sessions!HandleRefused, Sessions!HandleData, Sessions!HandleEnd, Sessions!Message1
  <2>. QED BY <2>1, <2>3, <2>4, TakingKeepsTypes
<1>7. CASE Sessions!Crash \/ Sessions!Dispose
  <2>1. \A m : Copies(toParent', m) = 0
    <3>1. toParent' = <<>>
      BY <1>7 DEF Sessions!Crash, Sessions!Dispose, Sessions!ProcessGone
    <3>. QED BY <3>1, NoneAtFirst
  <2>2. \A s \in Sessions!Streams : Copies(toParent, Sessions!Message("data", s)) \in Nat
    BY CopiesAreCounted DEF SessionsInv, SessionsTyped
  <2>3. Sessions!TypeOK' /\ UNCHANGED <<said, heard>>
    <3>1. SessionsTypesOne
      BY SessionsTypeEach DEF SessionsTypes
    <3>2. execStream' \in {execStream, 0} /\ alive' \in BOOLEAN /\ request' = {}
          /\ UNCHANGED <<wsOpen, logStream, said, missed, heard, overlap>>
      BY <1>7, <3>1 DEF Sessions!Crash, Sessions!Dispose, Sessions!ProcessGone, SessionsTypesOne
    <3>3. SessionsTypesOne'
      BY <3>1, <3>2, SessionsConstants DEF SessionsTypesOne, SessionsInv, SessionsTyped
    <3>. QED BY <3>2, <3>3, SessionsTypeEach
  <2>4. \A s \in Sessions!Streams : heard[s] \in Nat /\ said[s] \in Nat
    BY DEF SessionsTypes, Sessions!TypeOK
  <2>5. \A s \in Sessions!Streams : heard[s] <= said[s]
    BY <2>2, <2>4 DEF SessionsTypes
  <2>6. \A s \in Sessions!Streams : heard'[s] + Copies(toParent', Sessions!Message("data", s)) <= said'[s]
    BY <2>1, <2>3, <2>4, <2>5
  <2>. QED BY <2>3, <2>6 DEF SessionsTypes, Sessions!Streams
<1>8. CASE UNCHANGED Sessions!vars
  BY <1>8 DEF Sessions!vars, SessionsTypes, Sessions!TypeOK, SessionsInv, SessionsTyped, Sessions!Streams
<1>. QED BY <1>1, <1>2, <1>3, <1>4, <1>5, <1>6, <1>7, <1>8 DEF Sessions!Next

\* The process begins with its parts off.
LEMMA ProcessBeginsTyped ==
  ASSUME Process!Init, ProcessInv PROVE Process!TypeOK
<1>1. /\ \A p \in DOMAIN upParts \ {"plugin"} : upParts[p] \in {"off", "on", "closing"}
      /\ upParts.plugin \in {"registered", "started", "stopped", "failed"}
  BY DEF ProcessInv, ProcessTyped, PartsSet
<1>2. /\ valid \in BOOLEAN /\ handlers \in BOOLEAN /\ revived \in BOOLEAN /\ startStage = "port"
      /\ port = 0 /\ taken = {} /\ signals = 0 /\ outcome = "none"
  BY DEF Process!Init
<1>3. port \in 0..MaxPort /\ taken \subseteq 0..MaxPort /\ signals \in 0..MaxSignals
  BY <1>2, ProcessConstants
<1>. QED BY <1>1, <1>2, <1>3 DEF Process!TypeOK

\* Each step of the start and of the end keeps the types.
LEMMA ProcessStaysTyped ==
  ASSUME Process!TypeOK, ProcessInv, ProcessInv', Process!Next \/ UNCHANGED Process!vars
  PROVE  Process!TypeOK'
<1>1. /\ valid' \in BOOLEAN /\ handlers' \in BOOLEAN /\ revived' \in BOOLEAN /\ signals' \in 0..MaxSignals
      /\ \A p \in DOMAIN upParts' \ {"plugin"} : upParts'[p] \in {"off", "on", "closing"}
      /\ upParts'.plugin \in {"registered", "started", "stopped", "failed"}
  BY DEF ProcessInv, ProcessTyped, PartsSet
<1>2. /\ startStage' \in {"port", "config", "plugins", "history", "frontend", "monitor", "listen",
                          "closing", "up", "failed"}
      /\ port' \in 0..MaxPort /\ taken' \subseteq 0..MaxPort
      /\ outcome' \in {"none", "success", "error", "killed"}
  <2>. USE DEF Process!TypeOK, Process!Exit, Process!Settles
  <2>1. ASSUME NEW b \in BOOLEAN, Process!CheckPort(b) PROVE <1>2!:
    BY <2>1, ProcessConstants DEF Process!CheckPort
  <2>2. ASSUME NEW b \in BOOLEAN, Process!StartAll(b) \/ Process!SetupFrontend(b) PROVE <1>2!:
    BY <2>2 DEF Process!StartAll, Process!SetupFrontend
  <2>3. CASE Process!Configure \/ Process!LoadHistory \/ Process!StartMonitor \/ Process!Listen
    BY <2>3 DEF Process!Configure, Process!LoadHistory, Process!StartMonitor, Process!Listen
  <2>4. CASE Process!EndFailed \/ Process!Signal \/ Process!SocketsClose \/ Process!Request
    BY <2>4 DEF Process!EndFailed, Process!Signal, Process!SocketsClose, Process!Request
  <2>5. ASSUME NEW c \in 0..MaxSignals,
               Process!HistoryCloses(c) \/ Process!WebhooksStop(c) \/ Process!Stop(c)
        PROVE  <1>2!:
    BY <2>5 DEF Process!HistoryCloses, Process!WebhooksStop, Process!Stop
  <2>6. ASSUME NEW c \in 0..MaxSignals,
               Process!Stopped(c) \/ Process!CloseServer(c) \/ Process!ServerCloses(c)
        PROVE  <1>2!:
    <3>1. CASE Process!Stopped(c)
      BY <3>1 DEF Process!Stopped, Process!At
    <3>2. CASE Process!CloseServer(c)
      BY <3>2 DEF Process!CloseServer
    <3>3. CASE Process!ServerCloses(c)
      BY <3>3 DEF Process!ServerCloses
    <3>. QED BY <2>6, <3>1, <3>2, <3>3
  <2>7. ASSUME NEW p \in 0..MaxPort, Process!Bind(p) PROVE <1>2!:
    BY <2>7 DEF Process!Bind
  <2>8. CASE UNCHANGED Process!vars
    BY <2>8 DEF Process!vars
  <2>. QED BY <2>1, <2>2, <2>3, <2>4, <2>5, <2>6, <2>7, <2>8 DEF Process!Next
<1>. QED BY <1>1, <1>2 DEF Process!TypeOK

-----------------------------------------------------------------------------
(* The types of the requests and of the sessions of a browser.             *)

\* A new token is one; and sessions are only where there is a token.
AccessTypes ==
  /\ Access!TypeOK
  /\ \A i \in Access!InFlight : fileRequests[i].route = "set" => fileRequests[i].token \in AccessTokens

\* No request is in flight.
LEMMA AccessBeginsTyped ==
  ASSUME Access!Init PROVE AccessTypes
<1>1. Access!InFlight = {}
  BY DEF Access!Init, Access!InFlight
<1>2. config \in AccessTokens \cup {Nil} /\ file \in Access!Files
  BY DEF Access!Init, Access!Files
<1>. QED BY <1>1, <1>2, BoundsAssumption DEF Access!Init, Access!TypeOK, AccessTypes

\* Each step keeps the types of requests, tokens and sessions.
LEMMA AccessStaysTyped ==
  ASSUME AccessTypes, AccessInv, Access!Next \/ UNCHANGED Access!vars PROVE AccessTypes'
<1>. USE DEF Access!InFlight
<1>0. MaxSessions \in Nat /\ MaxAttempts \in Nat /\ Nil \notin Access!Request
  BY BoundsAssumption, ServerAssumption
<1>1. ASSUME NEW i \in Access!Writers, NEW route \in Access!Routes, NEW t \in AccessTokens \cup {Nil},
             Access!Accept(i, route, t)
      PROVE AccessTypes'
  <2>1. [route |-> route, at |-> "reading", token |-> t, state |-> Nil] \in Access!Request
        /\ (route = "set" => t \in AccessTokens)
    BY <1>1 DEF Access!Accept, Access!Request, Access!Files
  <2>. QED BY <1>1, <2>1 DEF Access!Accept, AccessTypes, Access!TypeOK, Access!Writers
<1>2. ASSUME NEW i \in Access!InFlight, Access!Read(i) \/ Access!Truncate(i) \/ Access!Fill(i)
      PROVE AccessTypes'
  <2>1. i \in Access!Writers /\ fileRequests[i] \in Access!Request
    BY DEF AccessTypes, Access!TypeOK
  <2>2. /\ fileRequests[i].state \in Access!Files /\ fileRequests[i].token \in Access!Files
        /\ file \in Access!Files /\ DOMAIN fileRequests = Access!Writers
        /\ Access!Changed(fileRequests[i]) \in Access!Files
    BY <2>1 DEF Access!Request, Access!Files, Access!Changed, AccessTypes, Access!TypeOK
  <2>3. /\ fileRequests'[i] \in Access!Request /\ fileRequests'[i].route = fileRequests[i].route
        /\ fileRequests'[i].token = fileRequests[i].token
        /\ \A j \in Access!Writers : j # i => fileRequests'[j] = fileRequests[j]
        /\ DOMAIN fileRequests' = Access!Writers /\ fileRequests' = [j \in DOMAIN fileRequests' |-> fileRequests'[j]]
    <3>1. CASE Access!Read(i)
      <4>1. fileRequests'[i] = [fileRequests[i] EXCEPT !.at = "writing", !.state = Access!Changed(fileRequests[i])]
        BY <2>1, <2>2, <3>1 DEF Access!Read
      <4>. QED BY <2>1, <2>2, <3>1, <4>1 DEF Access!Read, Access!Request
    <3>2. CASE Access!Truncate(i)
      BY <2>1, <2>2, <3>2 DEF Access!Truncate, Access!Request
    <3>3. CASE Access!Fill(i)
      BY <2>1, <2>2, <3>3 DEF Access!Fill, Access!Request
    <3>. QED BY <1>2, <3>1, <3>2, <3>3
  <2>4. file' \in Access!Files
    BY <1>2, <2>1 DEF Access!Read, Access!Truncate, Access!Fill, Access!Request, AccessTypes, Access!TypeOK, Access!Files
  <2>5. fileRequests' \in [Access!Writers -> Access!Request \cup {Nil}]
        /\ \A j \in Access!Writers : fileRequests'[j] # Nil /\ fileRequests'[j].route = "set" => fileRequests'[j].token \in AccessTokens
    BY <2>1, <2>3 DEF AccessTypes, Access!TypeOK
  <2>. QED BY <1>2, <2>4, <2>5 DEF Access!Read, Access!Truncate, Access!Fill, AccessTypes, Access!TypeOK, Access!Writers
<1>3. ASSUME NEW i \in Access!InFlight, Access!Continue(i) PROVE AccessTypes'
  <2>1. i \in Access!Writers /\ fileRequests[i] \in Access!Request
    BY DEF AccessTypes, Access!TypeOK
  <2>2. fileRequests' = [fileRequests EXCEPT ![i] = Nil] /\ file' = file /\ failures' = failures
    BY <1>3 DEF Access!Continue, Access!Ends
  <2>3. \/ UNCHANGED <<config, sessions, issued, verified>>
        \/ /\ config' = fileRequests[i].token /\ verified' = {}
           /\ \/ /\ fileRequests[i].route = "set" /\ issued < MaxSessions /\ issued' = issued + 1
                 /\ sessions' = {[id |-> issued + 1, role |-> "operator", under |-> fileRequests[i].token]}
              \/ sessions' = {} /\ issued' = issued
    BY <1>3, Zenon DEF Access!Continue
  <2>4. fileRequests[i].token \in AccessTokens \cup {Nil}
        /\ (fileRequests[i].route = "set" => fileRequests[i].token \in AccessTokens)
    BY <1>3, <2>1 DEF Access!Request, Access!Files, AccessTypes
  <2>5. config' \in AccessTokens \cup {Nil} /\ verified' \subseteq AccessTokens \cup {Access!Reader}
        /\ issued' \in 0..MaxSessions
    BY <1>0, <2>3, <2>4 DEF AccessTypes, Access!TypeOK
  <2>6. issued < MaxSessions => issued + 1 \in 1..MaxSessions
    BY <1>0 DEF AccessTypes, Access!TypeOK
  <2>7. sessions' \subseteq [id : 1..MaxSessions, role : Access!Roles, under : AccessTokens]
    BY <2>3, <2>4, <2>6 DEF AccessTypes, Access!TypeOK, Access!Roles
  <2>. QED BY <2>2, <2>5, <2>7 DEF AccessTypes, Access!TypeOK, Access!Writers
<1>4. ASSUME NEW t \in AccessTokens \cup {Access!Reader}, Access!SignIn(t) \/ Access!ApiRequest(t)
      PROVE AccessTypes'
  <2>1. Access!TokenRole(t) \in Access!Roles /\ config \in AccessTokens
    BY <1>4 DEF Access!SignIn, Access!ApiRequest, Access!TokenRole, Access!Roles, Access!Enabled, AccessTypes, Access!TypeOK
  <2>2. CASE Access!SignIn(t)
    <3>1. issued + 1 \in 1..MaxSessions
      BY <1>0, <2>2 DEF Access!SignIn, AccessTypes, Access!TypeOK
    <3>2. [id |-> issued + 1, role |-> Access!TokenRole(t), under |-> config]
            \in [id : 1..MaxSessions, role : Access!Roles, under : AccessTokens]
      BY <2>1, <3>1
    <3>3. sessions' \subseteq [id : 1..MaxSessions, role : Access!Roles, under : AccessTokens]
          /\ failures' = 0 /\ issued' = issued + 1 /\ UNCHANGED <<env, config, file, verified, fileRequests>>
      BY <2>2, <3>2 DEF Access!SignIn, AccessTypes, Access!TypeOK
    <3>4. 0 \in 0..MaxAttempts /\ issued' \in 0..MaxSessions
      BY <1>0, <3>1, <3>3
    <3>. QED BY <3>3, <3>4 DEF AccessTypes, Access!TypeOK, Access!Writers
  <2>3. CASE Access!ApiRequest(t)
    BY <2>3 DEF Access!ApiRequest, AccessTypes, Access!TypeOK, Access!Writers
  <2>. QED BY <1>4, <2>2, <2>3
<1>5. CASE Access!SignInFails \/ Access!LockoutEnds
  <2>1. failures' \in 0..MaxAttempts
    BY <1>0, <1>5 DEF Access!SignInFails, Access!LockoutEnds, AccessTypes, Access!TypeOK
  <2>2. UNCHANGED <<config, file, sessions, issued, verified, fileRequests>>
    BY <1>5 DEF Access!SignInFails, Access!LockoutEnds
  <2>. QED BY <2>1, <2>2 DEF AccessTypes, Access!TypeOK, Access!Writers
<1>8. CASE Access!Restart
  <2>1. \A i \in Access!Writers : fileRequests'[i] = Nil
    BY <1>8 DEF Access!Restart
  <2>2. fileRequests' \in [Access!Writers -> Access!Request \cup {Nil}] /\ config' \in AccessTokens \cup {Nil}
    BY <1>8 DEF Access!Restart, AccessTypes, Access!TypeOK, Access!Files
  <2>. QED BY <1>0, <1>8, <2>1, <2>2 DEF Access!Restart, AccessTypes, Access!TypeOK, Access!Writers
<1>6. ASSUME NEW s \in sessions, Access!EndSession(s) PROVE AccessTypes'
  BY <1>6 DEF Access!EndSession, AccessTypes, Access!TypeOK, Access!Writers
<1>7. CASE UNCHANGED Access!vars
  BY <1>7 DEF Access!vars, AccessTypes, Access!TypeOK, Access!Writers
<1>. QED BY <1>1, <1>2, <1>3, <1>4, <1>5, <1>6, <1>7, <1>8 DEF Access!Next

-----------------------------------------------------------------------------
(* The types of a tab and of its replay.                                   *)

\* What is not of TabInv: the sign-in and the subscription.
TabTypes ==
  /\ submit \in {"none", "sent", "in", "open", "refused"}
  /\ {logs, sent} \subseteq LogTargets \cup {Nil}

\* With the invariant, these are all the types of a tab.
LEMMA TabIsTyped ==
  ASSUME TabInv, TabTypes PROVE Tab!TypeOK
BY DEF TabInv, TabTypes, Tab!TypeOK

\* A tab begins with no sign-in.
LEMMA TabBeginsTyped ==
  ASSUME Tab!Init PROVE TabTypes
BY DEF Tab!Init, TabTypes

\* Each step of a tab keeps them.
LEMMA TabStaysTyped ==
  ASSUME TabTypes, Tab!Next \/ UNCHANGED Tab!vars PROVE TabTypes'
<1>. USE DEF TabTypes
<1>1. CASE Tab!Opened \/ Tab!Closed \/ Tab!Reconnect
  BY <1>1 DEF Tab!Opened, Tab!Closed, Tab!Reconnect
<1>2. CASE Tab!Unauthorized \/ Tab!Submit \/ Tab!Verify
  BY <1>2 DEF Tab!Unauthorized, Tab!Submit, Tab!Verify, Tab!Socket
<1>3. CASE Tab!Submitted
  BY <1>3 DEF Tab!Submitted, Tab!Starts, Tab!Connects, Tab!Socket
<1>4. ASSUME NEW k \in Tab!Checks, Tab!ServerAnswers(k) PROVE TabTypes'
  BY <1>4 DEF Tab!ServerAnswers, Tab!Socket
<1>5. ASSUME NEW k \in Tab!Checks, Tab!Checked(k) PROVE TabTypes'
  BY <1>5 DEF Tab!Checked, Tab!Starts, Tab!Stops, Tab!Connects, Tab!Disconnects, Tab!Socket
<1>6. ASSUME NEW target \in LogTargets \cup {Nil}, Tab!Subscribe(target) PROVE TabTypes'
  BY <1>6 DEF Tab!Subscribe
<1>7. ASSUME NEW answer \in Tab!Answers, Tab!ServerChanges(answer) PROVE TabTypes'
  BY <1>7 DEF Tab!ServerChanges, Tab!Socket
<1>8. CASE UNCHANGED Tab!vars
  BY <1>8 DEF Tab!vars
<1>. QED BY <1>1, <1>2, <1>3, <1>4, <1>5, <1>6, <1>7, <1>8 DEF Tab!Next

\* A clip and the places in it are within the limit of frames, and a recording is below it.
ReplayTypes ==
  /\ clip # Nil => Replay!Duration <= MaxClip
  /\ recording # Nil => Len(recording.frames) < MaxClip
  /\ loading \in BOOLEAN /\ replaying \in BOOLEAN /\ playing \in BOOLEAN
  /\ position \in 0..MaxClip /\ applied \in 0..MaxClip

\* With the invariant, these are all the types of a replay.
LEMMA ReplayIsTyped ==
  ASSUME ReplayInv, ReplayTypes PROVE Replay!TypeOK
BY DEF ReplayInv, ReplayTypes, Replay!TypeOK, Screens

\* Nothing is recorded yet.
LEMMA ReplayBeginsTyped ==
  ASSUME Replay!Init PROVE ReplayTypes
<1>1. 0 \in 0..MaxClip
  BY ReplayAssumption
<1>. QED BY <1>1 DEF Replay!Init, ReplayTypes

\* Each step of the replay keeps them.
LEMMA ReplayStaysTyped ==
  ASSUME ReplayInv, ReplayTypes, Replay!Next \/ UNCHANGED Replay!vars PROVE ReplayTypes'
<1>. USE DEF ReplayTypes, Replay!Replay
<1>a. MaxClip \in Nat /\ MaxClip >= 1 /\ 0 \in 0..MaxClip
  BY ReplayAssumption
<1>b. \A r \in Replay!Recordings : Len(r.frames) \in Nat
  BY LenProperties DEF Replay!Recordings
<1>c. recording # Nil => Len(recording.frames) \in Nat
  BY <1>b DEF ReplayInv
\* The frames until a place of the clip are applied.
<1>d. ASSUME replaying, NEW p \in 0..Replay!Duration, NEW s, NEW from \in 0..MaxClip, Replay!AppliesUpTo(p, s, from)
      PROVE  p \in 0..MaxClip /\ applied' \in 0..MaxClip
  <2>1. clip # Nil /\ Replay!Duration \in Nat /\ Replay!Duration <= MaxClip
    BY <1>b, <1>d DEF ReplayInv, Replay!Duration
  <2>. QED BY <1>a, <1>d, <2>1 DEF Replay!AppliesUpTo
<1>e. ASSUME NEW r, Replay!Begins(r)
      PROVE replaying' \in BOOLEAN /\ playing' \in BOOLEAN /\ position' \in 0..MaxClip /\ applied' \in 0..MaxClip
  BY <1>a, <1>e DEF Replay!Begins, Replay!ToStart
<1>f. \A n, q \in Nat : Replay!Least(n, q) \in 0..n
  BY DEF Replay!Least
<1>1. CASE Replay!Advance \/ Replay!Fetch
  BY <1>1 DEF Replay!Advance, Replay!Fetch, Replay!Duration
<1>2. ASSUME NEW about \in Replay!Subjects, Replay!Hear(about) PROVE ReplayTypes'
  <2>. DEFINE captured == [recording EXCEPT !.frames = Append(@, Replay!Message(about))]
  <2>1. /\ UNCHANGED <<loading, replaying, playing, position, applied>>
        /\ \/ recording # Nil /\ Len(captured.frames) >= MaxClip /\ recording' = Nil /\ clip' = captured
           \/ recording # Nil /\ ~(Len(captured.frames) >= MaxClip) /\ recording' = captured /\ clip' = clip
           \/ recording = Nil /\ recording' = Nil /\ clip' = clip
    BY <1>2 DEF Replay!Hear
  <2>2. recording # Nil => Len(captured.frames) = Len(recording.frames) + 1
    <3>1. ASSUME recording # Nil PROVE Len(captured.frames) = Len(recording.frames) + 1
      <4>1. /\ recording = [initial |-> recording.initial, frames |-> recording.frames]
            /\ recording.frames \in Seq(Replay!Messages) /\ version \in 1..MaxVersion
        BY <3>1 DEF ReplayInv, Replay!Recordings
      <4>2. Replay!Message(about) \in Replay!Messages
        BY <1>2, <4>1, ReplayNumbers DEF Replay!Message, Replay!Messages
      <4>3. captured.frames = Append(recording.frames, Replay!Message(about))
        BY <4>1
      <4>. QED BY <4>1, <4>2, <4>3, AppendProperties
    <3>. QED BY <3>1
  <2>. HIDE DEF captured
  <2>. QED BY <1>a, <1>c, <2>1, <2>2 DEF Replay!Duration
<1>3. ASSUME NEW v \in 1..MaxVersion, Replay!Fetched(v) PROVE ReplayTypes'
  BY <1>3 DEF Replay!Fetched, Replay!Duration
<1>4. ASSUME NEW n \in ReplayNodes, Replay!Expire(n) PROVE ReplayTypes'
  BY <1>4 DEF Replay!Expire, Replay!Duration
<1>5. CASE Replay!StartRecording
  <2>1. recording'.frames = <<>> /\ Len(<<>>) = 0
    BY <1>5 DEF Replay!StartRecording
  <2>. QED BY <1>5, <1>a, <2>1 DEF Replay!StartRecording, Replay!Duration
<1>6. CASE Replay!StopRecording
  BY <1>6, <1>a, <1>c DEF Replay!StopRecording, Replay!Duration
<1>7. CASE Replay!StartReplay
  BY <1>7, <1>e DEF Replay!StartReplay, Replay!Duration
<1>8. CASE Replay!Load
  BY <1>8 DEF Replay!Load, Replay!Duration
<1>9. CASE Replay!Loaded
  <2>1. ASSUME NEW r \in ReplayFiles, clip' = r, Replay!Begins(r) PROVE ReplayTypes'
    <3>1. Len(r.frames) <= MaxClip
      BY ReplayAssumption
    <3>. QED BY <1>9, <1>e, <2>1, <3>1 DEF Replay!Loaded, Replay!Duration
  <2>2. CASE UNCHANGED <<clip, screen, replaying, playing, position, applied>>
    BY <1>9, <2>2 DEF Replay!Loaded, Replay!Duration
  <2>. QED BY <1>9, <2>1, <2>2 DEF Replay!Loaded
<1>g. replaying => Replay!Duration \in Nat /\ position \in 0..Replay!Duration
  BY <1>b DEF ReplayInv, Replay!Duration
<1>10. ASSUME NEW d \in 1..2, Replay!Tick(d) PROVE ReplayTypes'
  <2>0. replaying /\ Replay!Duration \in Nat /\ position + d \in Nat
    BY <1>10, <1>g DEF Replay!Tick, ReplayInv
  <2>1. replaying /\ position' \in 0..Replay!Duration
    BY <1>10, <1>f, <2>0 DEF Replay!Tick
  <2>2. position' \in 0..MaxClip /\ applied' \in 0..MaxClip
    BY <1>10, <1>d, <2>1 DEF Replay!Tick
  <2>3. playing' \in BOOLEAN
    <3>1. playing' = (position' < Replay!Duration)
      BY <1>10 DEF Replay!Tick
    <3>2. (position' < Replay!Duration) \in BOOLEAN
      OBVIOUS
    <3>. QED BY <3>1, <3>2, Zenon
  <2>. QED BY <1>10, <2>2, <2>3 DEF Replay!Tick, Replay!Duration
<1>11. CASE Replay!Play
  BY <1>11, <1>a DEF Replay!Play, Replay!ToStart, Replay!Duration
<1>12. CASE Replay!Pause
  BY <1>12 DEF Replay!Pause, Replay!Duration
<1>13. ASSUME NEW t \in 0..MaxClip, Replay!Seek(t) PROVE ReplayTypes'
  <2>1. replaying /\ position' \in 0..Replay!Duration
    BY <1>13, <1>a, <1>f, <1>g DEF Replay!Seek
  <2>2. position' \in 0..MaxClip /\ applied' \in 0..MaxClip
    BY <1>13, <1>a, <1>d, <2>1 DEF Replay!Seek
  <2>. QED BY <1>13, <2>2 DEF Replay!Seek, Replay!Duration
<1>14. CASE Replay!ExitReplay
  BY <1>14 DEF Replay!ExitReplay, Replay!Duration
<1>15. CASE UNCHANGED Replay!vars
  BY <1>15 DEF Replay!vars, Replay!Duration
<1>. QED BY <1>1, <1>2, <1>3, <1>4, <1>5, <1>6, <1>7, <1>8, <1>9, <1>10, <1>11, <1>12, <1>13, <1>14, <1>15 DEF Replay!Next

-----------------------------------------------------------------------------
(* The types of what a tab shows of a node, and of the graph.              *)

\* An aborted load is on one of its steps.
PanelTypes ==
  /\ {shownNode, acting} \subseteq GraphNodes \cup {Nil}
  /\ tab \in {"info", "logs", "exec"} /\ term \in {"unmounted", "loading", "ready", "failed"}
  /\ late.step \in {"none", "capabilities", "data"}

\* With the invariant, these are all the types of the sidebar.
LEMMA PanelIsTyped ==
  ASSUME PanelInv, PanelTypes PROVE Panel!TypeOK
<1>1. load.step \in {"none", "capabilities", "data"}
  BY DEF PanelInv, Panel!NoLoad
<1>2. socket.at \in {"closed", "connecting", "open"}
  BY DEF PanelInv, Panel!NoSocket
<1>. QED BY <1>1, <1>2 DEF PanelInv, PanelTypes, Panel!TypeOK

\* No load was aborted yet.
LEMMA PanelBeginsTyped ==
  ASSUME Panel!Init PROVE PanelTypes
BY DEF Panel!Init, PanelTypes, Panel!NoLoad

\* Each step of the sidebar keeps them.
LEMMA PanelStaysTyped ==
  ASSUME PanelInv, PanelTypes, Panel!Next \/ UNCHANGED Panel!vars PROVE PanelTypes'
<1>. USE DEF PanelTypes
<1>1. load.step \in {"none", "capabilities", "data"} /\ Panel!NoLoad.step \in {"none", "capabilities", "data"}
  BY DEF PanelInv, Panel!NoLoad
<1>2. ASSUME Panel!Effects PROVE term' \in {"unmounted", "loading", "ready", "failed"}
  BY <1>2 DEF Panel!Effects, Panel!ExecEffect, Panel!Reconnect, Panel!execVars
<1>3. ASSUME Panel!Reset PROVE late'.step \in {"none", "capabilities", "data"}
  BY <1>1, <1>3 DEF Panel!Reset
<1>4. ASSUME NEW n \in GraphNodes \cup {Nil}, Panel!Select(n) PROVE PanelTypes'
  BY <1>2, <1>3, <1>4 DEF Panel!Select
<1>5. CASE Panel!ChangeRole
  BY <1>2, <1>5 DEF Panel!ChangeRole
<1>6. CASE Panel!ToggleReplay
  BY <1>2, <1>3, <1>6 DEF Panel!ToggleReplay
<1>7. ASSUME NEW t \in {"info", "logs", "exec"}, Panel!OpenTab(t) PROVE PanelTypes'
  BY <1>2, <1>7 DEF Panel!OpenTab
<1>8. ASSUME NEW aborted \in BOOLEAN, Panel!CapabilitiesLoaded(aborted) PROVE PanelTypes'
  <2>1. late' \in {late, Panel!NoLoad}
    BY <1>8, Zenon DEF Panel!CapabilitiesLoaded, Panel!Proceed, Panel!Signal, Panel!Loaded
  <2>2. tab' \in {tab, "info"}
    BY <1>8, Zenon DEF Panel!CapabilitiesLoaded
  <2>. QED BY <1>1, <1>2, <1>8, <2>1, <2>2 DEF Panel!CapabilitiesLoaded
<1>9. ASSUME NEW aborted \in BOOLEAN, Panel!DataLoaded(aborted) PROVE PanelTypes'
  <2>1. late' \in {late, Panel!NoLoad}
    BY <1>9, Zenon DEF Panel!DataLoaded, Panel!Proceed
  <2>. QED BY <1>1, <1>9, <2>1 DEF Panel!DataLoaded, Panel!execVars
<1>10. CASE Panel!LoadFails
  BY <1>2, <1>10 DEF Panel!LoadFails
<1>11. ASSUME NEW ok \in BOOLEAN, Panel!LogsRead(ok) \/ Panel!TerminalLoads(ok) PROVE PanelTypes'
  BY <1>11 DEF Panel!LogsRead, Panel!TerminalLoads, Panel!panelVars, Panel!execVars
<1>12. ASSUME NEW ok \in BOOLEAN, Panel!ActionRan(ok) PROVE PanelTypes'
  BY <1>2, <1>3, <1>12 DEF Panel!ActionRan, Panel!execVars
<1>13. CASE Panel!AskAction \/ Panel!ActionFailed \/ Panel!CancelDialog
  BY <1>13 DEF Panel!AskAction, Panel!ActionFailed, Panel!CancelDialog, Panel!panelVars, Panel!execVars
<1>14. ASSUME NEW m \in {offered, dialog}, Panel!RunAction(m) PROVE PanelTypes'
  BY <1>14 DEF Panel!RunAction, Panel!panelVars, Panel!execVars
<1>15. CASE Panel!Connect \/ Panel!Opened \/ Panel!Disconnect \/ Panel!TypeOrWrite
  BY <1>15 DEF Panel!Connect, Panel!Opened, Panel!Disconnect, Panel!TypeOrWrite, Panel!panelVars, Panel!execVars
<1>16. CASE UNCHANGED Panel!vars
  BY <1>16 DEF Panel!vars, Panel!panelVars, Panel!execVars
<1>. QED BY <1>4, <1>5, <1>6, <1>7, <1>8, <1>9, <1>10, <1>11, <1>12, <1>13, <1>14, <1>15, <1>16 DEF Panel!Next

\* A frame asks no more than the limit, and so do its messages and the query of the page.
FramesTypes ==
  /\ frame.token <= MaxLoads /\ frame.asked <= MaxQueries /\ frame.pending <= MaxQueries
  /\ hostQuery.id <= MaxQueries /\ \A i \in 1..Len(posted) : posted[i].id <= MaxQueries
  /\ invoking \in GraphNodes \cup {Nil}

\* With the invariant, these are all the types of a frame and its page.
LEMMA FramesAreTyped ==
  ASSUME FramesInv, FramesTypes PROVE Frames!TypeOK
<1>1. /\ frame.token \in Nat /\ frame.asked \in Nat /\ frame.pending \in Nat
      /\ frame.of \in GraphNodes \cup {Nil} /\ frame.at \in {"none", "loading", "running", "failed"}
  BY DEF FramesInv
<1>2. hostQuery.id \in Nat /\ hostQuery.of \in GraphNodes \cup {Nil}
  BY <1>1 DEF FramesInv, Frames!NoQuery
<1>3. panel.asking \in GraphNodes \cup {Nil} /\ panel.content \in GraphNodes \cup {Nil}
  BY DEF FramesInv
<1>4. /\ frame.token \in 0..MaxLoads /\ frame.asked \in 0..MaxQueries /\ frame.pending \in 0..MaxQueries
      /\ hostQuery.id \in 0..MaxQueries
  <2>1. MaxLoads \in Nat /\ MaxQueries \in Nat
    BY BoundsAssumption
  <2>. QED BY <1>1, <1>2, <2>1 DEF FramesTypes
<1>. QED BY <1>1, <1>2, <1>3, <1>4 DEF FramesInv, FramesTypes, Frames!TypeOK

\* Nothing was asked yet.
LEMMA FramesBeginTyped ==
  ASSUME Frames!Init PROVE FramesTypes
<1>1. Len(posted) = 0
  BY EmptySeq DEF Frames!Init
<1>2. frame.token = 0 /\ frame.asked = 0 /\ frame.pending = 0 /\ hostQuery.id = 0
  BY DEF Frames!Init, Frames!Unmounted, Frames!NoQuery
<1>. QED BY <1>1, <1>2, BoundsAssumption DEF Frames!Init, FramesTypes

\* Each step of a page or of its frame keeps them.
LEMMA FramesStayTyped ==
  ASSUME FramesInv, FramesTypes, Frames!Next \/ UNCHANGED Frames!vars PROVE FramesTypes'
<1>. USE DEF FramesTypes
<1>0. MaxLoads \in Nat /\ MaxQueries \in Nat
  BY BoundsAssumption
<1>1. /\ frame.token \in Nat /\ frame.asked \in Nat /\ frame.pending \in Nat
      /\ frame = [token |-> frame.token, of |-> frame.of, at |-> frame.at, asked |-> frame.asked, pending |-> frame.pending]
  BY DEF FramesInv
<1>2. posted \in Seq(FrameQueries) /\ Len(posted) \in Nat /\ Frames!NoQuery.id = 0
  <2>1. posted \in Seq(FrameQueries)
    BY DEF FramesInv
  <2>. QED BY <2>1, LenProperties DEF Frames!NoQuery
<1>3. ASSUME Frames!Render, frame.token < MaxLoads \/ ~Frames!Visible' \/ Frames!FrameKey' = Frames!FrameKey,
             invoking' = invoking
      PROVE  FramesTypes'
  <2>1. CASE Frames!FrameKey' = Frames!FrameKey
    BY <1>3, <2>1, Zenon DEF Frames!Render, Frames!frameVars
  <2>2. CASE Frames!FrameKey' # Frames!FrameKey
    <3>1. hostQuery'.id = 0 /\ posted' = posted
      BY <1>2, <1>3, <2>2 DEF Frames!Render
    <3>2. frame'.token <= MaxLoads /\ frame'.asked = 0 /\ frame'.pending = 0
      <4>1. CASE Frames!Visible' /\ ~showsReplay'
        <5>1. frame' = Frames!NewFrame(frame.token + 1) /\ frame.token < MaxLoads
          BY <1>3, <2>2, <4>1 DEF Frames!Render
        <5>. QED BY <1>0, <1>1, <5>1 DEF Frames!NewFrame
      <4>2. CASE ~(Frames!Visible' /\ ~showsReplay')
        <5>1. frame' = [Frames!Unmounted EXCEPT !.token = frame.token]
          BY <1>3, <2>2, <4>2 DEF Frames!Render
        <5>. QED BY <5>1 DEF Frames!Unmounted
      <4>. QED BY <4>1, <4>2
    <3>. QED BY <1>0, <1>3, <3>1, <3>2
  <2>. QED BY <2>1, <2>2
<1>4. ASSUME NEW c \in GraphNodes \cup {Nil}, Frames!Select(c) PROVE FramesTypes'
  BY <1>3, <1>4 DEF Frames!Select
<1>5. ASSUME NEW there \in BOOLEAN, Frames!Poll(there) PROVE FramesTypes'
  BY <1>3, <1>5 DEF Frames!Poll, Frames!Visible
<1>6. CASE Frames!ChangeRole \/ Frames!ToggleReplay
  BY <1>3, <1>6 DEF Frames!ChangeRole, Frames!ToggleReplay
<1>7. ASSUME NEW ok \in BOOLEAN, Frames!PanelAnswers(ok) \/ Frames!PanelAsks PROVE FramesTypes'
  BY <1>7 DEF Frames!PanelAnswers, Frames!PanelAsks, Frames!frameVars
<1>8. ASSUME NEW ok \in BOOLEAN, Frames!FrameBoots(ok) PROVE FramesTypes'
  <2>1. frame'.token = frame.token /\ frame'.asked = frame.asked /\ frame'.pending = frame.pending
    BY <1>1, <1>8 DEF Frames!FrameBoots
  <2>. QED BY <1>8, <2>1 DEF Frames!FrameBoots
\* What is posted is numbered as the frame is.
<1>9. ASSUME NEW type \in {"query", "action"}, NEW id \in 0..MaxQueries, Frames!Post(type, id)
      PROVE  \A i \in 1..Len(posted') : posted'[i].id <= MaxQueries
  <2>1. [token |-> frame.token, type |-> type, id |-> id] \in FrameQueries
    BY <1>0, <1>1 DEF FrameQueries
  <2>2. /\ Len(posted') = Len(posted) + 1 /\ posted'[Len(posted) + 1].id = id
        /\ \A i \in 1..Len(posted) : posted'[i] = posted[i]
    BY <1>2, <1>9, <2>1, AppendProperties DEF Frames!Post
  <2>. QED BY <1>0, <1>2, <2>2
<1>10. CASE Frames!FrameAsks
  <2>1. /\ frame'.token = frame.token /\ frame'.asked = frame.asked + 1 /\ frame'.pending = frame.asked + 1
        /\ frame.asked < MaxQueries
    BY <1>1, <1>10 DEF Frames!FrameAsks
  <2>2. frame.asked + 1 \in 0..MaxQueries /\ Frames!Post("query", frame.asked + 1)
    BY <1>0, <1>1, <1>10, <2>1 DEF Frames!FrameAsks
  <2>. QED BY <1>0, <1>9, <1>10, <2>1, <2>2 DEF Frames!FrameAsks
<1>11. CASE Frames!FrameTimesOut
  <2>1. frame'.token = frame.token /\ frame'.asked = frame.asked /\ frame'.pending = 0
    BY <1>1, <1>11 DEF Frames!FrameTimesOut
  <2>. QED BY <1>0, <1>11, <2>1 DEF Frames!FrameTimesOut
<1>12. CASE Frames!FrameActs
  <2>1. Frames!Post("action", 0) /\ 0 \in 0..MaxQueries
    BY <1>0, <1>12 DEF Frames!FrameActs
  <2>. QED BY <1>9, <1>12, <2>1 DEF Frames!FrameActs
<1>13. CASE Frames!FrameHears
  <2>1. frame' = frame \/ frame' = [frame EXCEPT !.pending = 0]
    BY <1>13, Zenon DEF Frames!FrameHears
  <2>2. frame'.token = frame.token /\ frame'.asked = frame.asked /\ frame'.pending \in {frame.pending, 0}
    BY <1>1, <2>1
  <2>. QED BY <1>0, <1>13, <2>2 DEF Frames!FrameHears
<1>14. CASE Frames!PageHears
  <2>1. /\ Len(posted') \in Nat /\ Len(posted') < Len(posted)
        /\ \A i \in 1..Len(posted') : posted'[i] = posted[i + 1]
        /\ Head(posted) = posted[1] /\ Len(posted) >= 1
    <3>1. posted # <<>> /\ posted' = Tail(posted)
      BY <1>14 DEF Frames!PageHears
    <3>2. Len(posted) >= 1
      BY <1>2, <3>1, EmptySeq
    <3>. QED BY <1>2, <3>1, <3>2, HeadTailProperties
  <2>2. \A i \in 1..Len(posted') : posted'[i].id <= MaxQueries
    BY <1>2, <2>1
  <2>3. hostQuery'.id <= MaxQueries
    <3>1. Head(posted).id <= MaxQueries
      BY <1>2, <2>1
    <3>2. hostQuery' = hostQuery \/ hostQuery' = [id |-> Head(posted).id, of |-> context]
      BY <1>14, Zenon DEF Frames!PageHears
    <3>. QED BY <3>1, <3>2
  <2>4. invoking' \in {invoking, context} /\ context \in GraphNodes \cup {Nil} /\ frame' = frame
    BY <1>14 DEF Frames!PageHears, FramesInv
  <2>. QED BY <2>2, <2>3, <2>4
<1>15. CASE Frames!PageReplies
  BY <1>0, <1>2, <1>15 DEF Frames!PageReplies
<1>16. CASE Frames!Invoke \/ Frames!ActionEnds
  BY <1>16 DEF Frames!Invoke, Frames!ActionEnds, Frames!frameVars, FramesInv
<1>17. CASE UNCHANGED Frames!vars
  BY <1>17 DEF Frames!vars, Frames!frameVars
<1>. QED BY <1>4, <1>5, <1>6, <1>7, <1>8, <1>10, <1>11, <1>12, <1>13, <1>14, <1>15, <1>16, <1>17 DEF Frames!Next

\* The snapshot is a graph; and the filter knows the projects, the clusters the hosts.
ViewTypes ==
  /\ snapshot \in View!Graphs /\ framed \in BOOLEAN
  /\ scope \subseteq View!Projects /\ hostClusters \subseteq View!Hosts

\* With the invariant, these are all the types of the 3D view.
LEMMA ViewIsTyped ==
  ASSUME ViewInv, ViewTypes PROVE View!TypeOK
<1>1. DOMAIN drawn \subseteq data.nodes /\ data.nodes \subseteq GraphNodes /\ rings = View!Rings(drawn)
  BY DEF ViewInv, View!ViewIsOfData, View!Graphs
<1>2. rings \subseteq GraphNodes
  BY <1>1 DEF View!Rings
<1>. QED BY <1>1, <1>2 DEF ViewInv, ViewTypes, View!TypeOK

\* The first snapshot is a graph.
LEMMA ViewBeginsTyped ==
  ASSUME View!Init PROVE ViewTypes
BY DEF View!Init, ViewTypes, View!Graphs

\* Each step of the 3D view keeps them.
LEMMA ViewStaysTyped ==
  ASSUME ViewInv, ViewTypes, View!Next \/ UNCHANGED View!vars PROVE ViewTypes'
<1>. USE DEF ViewTypes
<1>1. data \in View!Graphs
  BY DEF ViewInv
<1>2. ASSUME NEW g \in View!Graphs, View!SetData(g) PROVE ViewTypes'
  BY <1>2 DEF View!SetData, View!Reconcile
<1>3. ASSUME NEW n \in GraphNodes, View!BuildNodeObject(n) PROVE ViewTypes'
  BY <1>3 DEF View!BuildNodeObject
<1>4. CASE View!Mount \/ View!Unmount
  BY <1>1, <1>4 DEF View!Mount, View!Unmount
<1>5. ASSUME NEW ps \in SUBSET View!Projects, View!SetScope(ps) PROVE ViewTypes'
  BY <1>5 DEF View!SetScope
<1>6. CASE View!AnimationFrame
  <2>1. View!SeenHosts \subseteq View!Hosts
    BY <1>1 DEF View!SeenHosts, View!Visible, View!Hosts, View!Graphs
  <2>2. hostClusters' \subseteq hostClusters \cup View!SeenHosts
    BY <1>6, Zenon DEF View!AnimationFrame
  <2>. QED BY <1>6, <2>1, <2>2 DEF View!AnimationFrame
<1>7. CASE UNCHANGED View!vars
  BY <1>7 DEF View!vars
<1>. QED BY <1>2, <1>3, <1>4, <1>5, <1>6, <1>7 DEF View!Next

-----------------------------------------------------------------------------
(* The types of the panels of the gate and of webhooks.                    *)

\* No more events than their limit.
LEMMA GateIsTyped ==
  ASSUME GateInv, gateEvents \in 0..MaxGateEvents PROVE Gate!TypeOK
<1>1. gateServer.token \in Gate!Tokens \cup {Nil} /\ {gateServer.mine, known.role} \subseteq GateRoles
  <2>1. gateServer \in GateServers /\ known \in GateAuths
    BY Zenon DEF GateInv
  <2>. QED BY <2>1 DEF GateServers, GateAuths
<1>2. GateRoles = {"none", "reader", "operator"}
  BY DEF GateRoles
<1>3. /\ gate \in GateEntries \cup {Nil} /\ security.typed \in GateEntries \cup {Nil}
      /\ gateRequest.entry \in GateEntries \cup {Nil} /\ gateRequest.at \in {"none", "sent", "answered", "failed"}
      /\ gateCheck.at \in {"none", "sent", "answered"}
  <2>1. security \in [typed : GateEntries \cup {Nil}, removing : BOOLEAN] /\ gate \in GateEntries \cup {Nil}
    BY Zenon DEF GateInv
  <2>2. security.typed \in GateEntries \cup {Nil}
    BY <2>1
  <2>3. gateCheck \in [at : {"none", "sent", "answered"}, status : GateStatuses]
    BY Zenon DEF GateInv
  <2>4. gateCheck.at \in {"none", "sent", "answered"}
    BY <2>3
  <2>5. gateRequest.entry \in GateEntries \cup {Nil} /\ gateRequest.at \in {"none", "sent", "answered", "failed"}
    BY Zenon DEF GateInv
  <2>. QED BY <2>1, <2>2, <2>4, <2>5, Zenon
<1>. QED BY <1>1, <1>2, <1>3, Zenon DEF Gate!TypeOK

\* Nothing happened yet.
LEMMA GateBeginsTyped ==
  ASSUME Gate!Init PROVE gateEvents \in 0..MaxGateEvents
<1>1. MaxGateEvents \in Nat
  BY BoundsAssumption
<1>. QED BY <1>1 DEF Gate!Init

\* No step counts beyond the limit.
LEMMA GateStaysTyped ==
  ASSUME gateEvents \in 0..MaxGateEvents, Gate!Next \/ UNCHANGED Gate!vars
  PROVE  (gateEvents \in 0..MaxGateEvents)'
<1>1. ASSUME Gate!Counted PROVE (gateEvents \in 0..MaxGateEvents)'
  <2>1. MaxGateEvents \in Nat
    BY BoundsAssumption
  <2>. QED BY <1>1, <2>1 DEF Gate!Counted
<1>2. Gate!Counted \/ gateEvents' = gateEvents
  <2>1. CASE Gate!Serve \/ Gate!Answered \/ Gate!Failed \/ Gate!ServeCheck \/ Gate!Checked
    BY <2>1, Zenon DEF Gate!Serve, Gate!Answered, Gate!Failed, Gate!ServeCheck, Gate!Checked
  <2>2. CASE Gate!CheckAuth \/ Gate!Outside
    BY <2>2, Zenon DEF Gate!CheckAuth, Gate!Outside
  <2>3. ASSUME NEW entry \in GateEntries \cup {Nil}, Gate!TypeAtGate(entry) \/ Gate!TypeInPanel(entry)
        PROVE  gateEvents' = gateEvents
    BY <2>3, Zenon DEF Gate!TypeAtGate, Gate!TypeInPanel
  <2>4. CASE Gate!Submit \/ Gate!Save \/ Gate!Remove \/ Gate!ToggleReminder
    BY <2>4, Zenon DEF Gate!Submit, Gate!Save, Gate!Remove, Gate!ToggleReminder, Gate!Send
  <2>5. CASE Gate!DismissSetup \/ Gate!OpenPanel \/ Gate!ClosePanel
    BY <2>5, Zenon DEF Gate!DismissSetup, Gate!OpenPanel, Gate!ClosePanel
  <2>6. ASSUME NEW removing \in BOOLEAN, Gate!ConfirmRemoval(removing) PROVE gateEvents' = gateEvents
    BY <2>6, Zenon DEF Gate!ConfirmRemoval
  <2>7. CASE UNCHANGED Gate!vars
    BY <2>7 DEF Gate!vars
  <2>. QED BY <2>1, <2>2, <2>3, <2>4, <2>5, <2>6, <2>7 DEF Gate!Next
<1>. QED BY <1>1, <1>2

\* What is answered is settings.
WebhooksTypes ==
  /\ status = Nil \/ status \in [enabled : BOOLEAN, selection : HookSelections]
  /\ byEnvironment \in BOOLEAN /\ confirming \in BOOLEAN

\* With the invariant, these are all the types of the panel of webhooks.
LEMMA WebhooksAreTyped ==
  ASSUME WebhooksInv, WebhooksTypes PROVE Webhooks!TypeOK
<1>1. typedUrl \in HookUrls \cup {Nil}
  BY DEF WebhooksInv
<1>. QED BY <1>1 DEF WebhooksInv, WebhooksTypes, Webhooks!TypeOK

\* Nothing was answered yet.
LEMMA WebhooksBeginTyped ==
  ASSUME Webhooks!Init PROVE WebhooksTypes
BY DEF Webhooks!Init, WebhooksTypes

\* Each step of that panel keeps them.
LEMMA WebhooksStayTyped ==
  ASSUME WebhooksInv, WebhooksTypes, Webhooks!Next \/ UNCHANGED Webhooks!vars PROVE WebhooksTypes'
<1>. USE DEF WebhooksTypes
<1>1. CASE Webhooks!Serve
  BY <1>1, Zenon DEF Webhooks!Serve
<1>2. CASE Webhooks!Answered
  <2>1. saveRequest.answer \in [enabled : BOOLEAN, selection : HookSelections]
    BY <1>2 DEF Webhooks!Answered, WebhooksInv
  <2>2. byEnvironment' = byEnvironment /\ status' \in {status, saveRequest.answer} /\ confirming' \in {confirming, FALSE}
    BY <1>2, Zenon DEF Webhooks!Answered, Webhooks!Loaded, Webhooks!server
  <2>. QED BY <2>1, <2>2
<1>3. CASE Webhooks!Refused \/ Webhooks!Save \/ Webhooks!Disable
  BY <1>3, Zenon DEF Webhooks!Refused, Webhooks!Save, Webhooks!Disable, Webhooks!server
<1>4. ASSUME NEW u \in HookUrls \cup {Nil}, Webhooks!Type(u) PROVE WebhooksTypes'
  BY <1>4, Zenon DEF Webhooks!Type, Webhooks!server
<1>5. ASSUME NEW u \in HookUrls \cup {Nil}, NEW s \in HookSelections, Webhooks!Elsewhere(u, s) PROVE WebhooksTypes'
  BY <1>5, Zenon DEF Webhooks!Elsewhere
<1>6. ASSUME NEW s \in HookSelections, Webhooks!Choose(s) PROVE WebhooksTypes'
  BY <1>6, Zenon DEF Webhooks!Choose, Webhooks!server
<1>7. ASSUME NEW ask \in BOOLEAN, Webhooks!Confirm(ask) PROVE WebhooksTypes'
  BY <1>7, Zenon DEF Webhooks!Confirm, Webhooks!server
<1>8. CASE UNCHANGED Webhooks!vars
  BY <1>8 DEF Webhooks!vars
<1>. QED BY <1>1, <1>2, <1>3, <1>4, <1>5, <1>6, <1>7, <1>8 DEF Webhooks!Next

=============================================================================
