--------------------------- MODULE ReplayClient ----------------------------
(***************************************************************************)
(* Live graph, recording and replay in a browser tab                       *)
(* (web/stores/docker.svelte.ts, web/stores/recorder.svelte.ts,            *)
(* web/lib/graphMerge.ts).                                                 *)
(*                                                                         *)
(* The server's graphs are numbered 1, 2, ..., MaxVersion, those in files  *)
(* of recordings above; Listings[v] are the nodes of graph v.  Of a node   *)
(* on the screen "of" is the graph its description comes from, 0 that of a *)
(* pod that leaves; "cpu" is the number of its last stats; and "gone" says *)
(* that it is a pod shown as terminating.  A message is a graph, an event, *)
(* or the stats of the node it is about, of the time of graph "of".  The   *)
(* k-th frame of a recording has the time k.  Anomalies and diagnostics    *)
(* are kept and cleared as events are, and are left out, as is the limit   *)
(* of 200 events on the screen.                                            *)
(* Fetches of the graph are answered in one step and applied in another.   *)
(***************************************************************************)
EXTENDS Naturals, Sequences

CONSTANTS MaxVersion, MaxFrames,
          Nodes,
          Pods,         \* those of Kubernetes, which leave gradually
          Measured,     \* nodes there are stats of
          Listings,
          Files,        \* the recordings in files
          Nothing

VARIABLES
  version,    \* the number of the server's graph
  screen,     \* the graph on the screen, and the events
  fetches,    \* answers on their way, of fetches that were not applied yet
  recording,  \* the recording being made; Nothing when there is none
  clip,       \* the recording that can be replayed
  loading,    \* is a file being read?
  replaying, playing,
  position,   \* of the scrubber
  applied     \* frames applied

vars == <<version, screen, fetches, recording, clip, loading, replaying, playing, position, applied>>

\* The state of the replay.
Replay == <<clip, loading, replaying, playing, position, applied>>

Numbers == 0..Len(Listings)
Subjects == {"graph", "event"} \cup Measured
Messages == [about : Subjects, of : 1..Len(Listings)]
Message(about) == [about |-> about, of |-> version]

\* Graphs as they are sent and recorded, and as they are shown.
Graphs(values) == UNION {[S -> values] : S \in SUBSET Nodes}
Sent == Graphs([of : Numbers, cpu : Numbers])
Shown == Graphs([of : Numbers, cpu : Numbers, gone : BOOLEAN])

Recordings == [initial : Sent, frames : Seq(Messages)]
Duration == Len(clip.frames)
Least(a, b) == IF a < b THEN a ELSE b

-----------------------------------------------------------------------------
(* What messages do to the screen.                                         *)

\* The graph v of the server, which knows no stats.
Graph(v) == [n \in Listings[v] |-> [of |-> v, cpu |-> 0]]

\* mergeGraphData: nodes that are there already keep their stats, and pods that are not
\* sent any more are shown as terminating.
Merge(shown, sent) ==
  LET leaving == {n \in DOMAIN shown \ DOMAIN sent : n \in Pods}
  IN [n \in DOMAIN sent \cup leaving |->
       IF n \in leaving THEN [of |-> 0, cpu |-> shown[n].cpu, gone |-> TRUE]
       ELSE [of |-> sent[n].of, gone |-> FALSE,
             cpu |-> IF n \in DOMAIN shown THEN shown[n].cpu ELSE sent[n].cpu]]

\* handleMessage.
Handled(s, m) ==
  CASE m.about = "graph" -> [s EXCEPT !.graph = Merge(@, Graph(m.of))]
    [] m.about = "event" -> [s EXCEPT !.events = @ \cup {m.of}]
    [] m.about \in DOMAIN s.graph -> [s EXCEPT !.graph[m.about].cpu = m.of]
    [] OTHER -> s

\* Defect: going back to the start, the events stay.
MutReset(initial) == [screen EXCEPT !.graph = Merge(@, initial)]

\* clearTransientState, and with it resetReplayGraph.
Cleared == [screen EXCEPT !.events = {}]
Reset(initial) == [graph |-> Merge(screen.graph, initial), events |-> {}]

\* sanitizeGraph.
Sanitized(shown) == [n \in DOMAIN shown |-> [of |-> shown[n].of, cpu |-> shown[n].cpu]]

-----------------------------------------------------------------------------
(* The server, and what the tab hears of it.                               *)

Advance ==
  /\ version < MaxVersion /\ version' = version + 1
  /\ UNCHANGED <<screen, fetches, recording, Replay>>

\* A message: the tap of the recorder sees it first (and stops at the limit of frames); a
\* tab that replays ignores it.
Hear(about) ==
  /\ LET captured == [recording EXCEPT !.frames = Append(@, Message(about))]
     IN IF recording = Nothing THEN UNCHANGED <<recording, clip>>
        ELSE IF Len(captured.frames) >= MaxFrames THEN recording' = Nothing /\ clip' = captured
        ELSE recording' = captured /\ UNCHANGED clip
  /\ screen' = IF replaying THEN screen ELSE Handled(screen, Message(about))
  /\ UNCHANGED <<version, fetches, loading, replaying, playing, position, applied>>

\* The prune timer: a pod has been shown as terminating for long enough.
Expire(n) ==
  /\ n \in DOMAIN screen.graph /\ screen.graph[n].gone
  /\ screen' = [screen EXCEPT !.graph = [m \in DOMAIN @ \ {n} |-> @[m]]]
  /\ UNCHANGED <<version, fetches, recording, Replay>>

\* The fetch of initDocker (also after a new sign-in), answered.
Fetch ==
  /\ fetches' = fetches \cup {version}
  /\ UNCHANGED <<version, screen, recording, Replay>>

\* Defect: what was fetched is merged in a replay too.
MutFetched(v) ==
  /\ v \in fetches /\ fetches' = fetches \ {v}
  /\ screen' = Handled(screen, [about |-> "graph", of |-> v])
  /\ UNCHANGED <<version, recording, Replay>>

Fetched(v) ==
  /\ v \in fetches /\ fetches' = fetches \ {v}
  /\ screen' = IF replaying THEN screen ELSE Handled(screen, [about |-> "graph", of |-> v])
  /\ UNCHANGED <<version, recording, Replay>>

-----------------------------------------------------------------------------
(* The recorder.                                                           *)

\* Bound: a recording is made while there is none to replay.
StartRecording ==
  /\ recording = Nothing /\ ~replaying
  /\ clip = Nothing
  /\ recording' = [initial |-> Sanitized(screen.graph), frames |-> <<>>]
  /\ UNCHANGED <<version, screen, fetches, Replay>>

StopRecording ==
  /\ recording # Nothing
  /\ recording' = Nothing /\ clip' = recording
  /\ UNCHANGED <<version, screen, fetches, loading, replaying, playing, position, applied>>

\* resetToStart, of the recording r.
ToStart(r) == screen' = Reset(r.initial) /\ position' = 0 /\ applied' = 0

\* startReplay: nothing without a recording, or during one.  (Playing from the start, play
\* resets nothing that is not reset already.)
Begins(r) ==
  IF r = Nothing \/ recording # Nothing THEN UNCHANGED <<screen, replaying, playing, position, applied>>
  ELSE replaying' = TRUE /\ playing' = TRUE /\ ToStart(r)

StartReplay ==
  /\ Begins(clip)
  /\ UNCHANGED <<version, fetches, recording, clip, loading>>

\* loadRecordingFile: not during a recording; then the file is read.
Load ==
  /\ recording = Nothing /\ ~loading
  /\ loading' = TRUE
  /\ UNCHANGED <<version, screen, fetches, recording, clip, replaying, playing, position, applied>>

\* A recording may have been started since; a file that is not one changes nothing.
Loaded ==
  /\ loading /\ loading' = FALSE
  /\ \/ \E r \in Files : clip' = r /\ Begins(r)
     \/ UNCHANGED <<clip, screen, replaying, playing, position, applied>>
  /\ UNCHANGED <<version, fetches, recording>>

-----------------------------------------------------------------------------
(* The scrubber.                                                           *)

\* The screen s after the frames from the next one to that of time t, one after the other.
After(s, from, t) ==
  LET after[k \in 0..t] == IF k <= from THEN s ELSE Handled(after[k - 1], clip.frames[k])
  IN after[t]

\* applyUpTo.
AppliesUpTo(t, s, from) ==
  /\ applied' = IF from < t THEN t ELSE from
  /\ screen' = After(s, from, t)

\* tick, after d: at the end it pauses.
Tick(d) ==
  /\ playing
  /\ position' = Least(Duration, position + d)
  /\ AppliesUpTo(position', screen, applied)
  /\ playing' = (position' < Duration)
  /\ UNCHANGED <<version, fetches, recording, clip, loading, replaying>>

\* play, from the end: from the start.
Play ==
  /\ replaying /\ ~playing
  /\ playing' = TRUE
  /\ IF position >= Duration THEN ToStart(clip) ELSE UNCHANGED <<screen, position, applied>>
  /\ UNCHANGED <<version, fetches, recording, clip, loading, replaying>>

Pause ==
  /\ playing /\ playing' = FALSE
  /\ UNCHANGED <<version, screen, fetches, recording, clip, loading, replaying, position, applied>>

\* seek: back means again from the start.
Seek(t) ==
  /\ replaying /\ position' = Least(Duration, t)
  /\ IF position' < position THEN AppliesUpTo(position', Reset(clip.initial), 0)
     ELSE AppliesUpTo(position', screen, applied)
  /\ UNCHANGED <<version, fetches, recording, clip, loading, replaying, playing>>

\* exitReplay, with the fetch of setReplayMode, answered.
ExitReplay ==
  /\ replaying
  /\ replaying' = FALSE /\ playing' = FALSE
  /\ screen' = Cleared
  /\ fetches' = fetches \cup {version}
  /\ UNCHANGED <<version, recording, clip, loading, position, applied>>

-----------------------------------------------------------------------------
Init ==
  /\ version = 1 /\ screen = [graph |-> <<>>, events |-> {}] /\ fetches = {1}
  /\ recording = Nothing /\ clip = Nothing /\ loading = FALSE
  /\ replaying = FALSE /\ playing = FALSE /\ position = 0 /\ applied = 0

Next ==
  \/ Advance \/ Fetch \/ \E v \in 1..MaxVersion : Fetched(v)
  \/ \E a \in Subjects : Hear(a)
  \/ \E n \in Nodes : Expire(n)
  \/ StartRecording \/ StopRecording \/ StartReplay \/ Load \/ Loaded
  \/ \E d \in 1..2 : Tick(d)
  \/ Play \/ Pause \/ ExitReplay \/ \E t \in 0..MaxFrames : Seek(t)

Spec == Init /\ [][Next]_vars

-----------------------------------------------------------------------------
(* Properties.                                                             *)

TypeOK ==
  /\ version \in 1..MaxVersion /\ fetches \subseteq 1..MaxVersion
  /\ screen \in [graph : Shown, events : SUBSET Numbers]
  /\ {recording, clip} \subseteq Recordings \cup {Nothing}
  /\ clip # Nothing => Duration <= MaxFrames
  /\ {loading, replaying, playing} \subseteq BOOLEAN
  /\ position \in 0..MaxFrames /\ applied \in 0..MaxFrames

\* The graph that is told at the time k of the recording r: that of frame g, the last one
\* until then, or the initial one.
IsGraph(r, g) == g = 0 \/ r.frames[g].about = "graph"
ToldAt(r, k, g) == g \in 0..k /\ IsGraph(r, g) /\ \A i \in (g + 1)..k : ~IsGraph(r, i)
Told(r, g) == IF g = 0 THEN r.initial ELSE Graph(r.frames[g].of)

\* Frame j is the last one until k with stats of n, and n has been told of ever since.
LastStats(r, k, j, n) ==
  /\ r.frames[j].about = n /\ \A i \in (j + 1)..k : r.frames[i].about # n
  /\ \A i \in j..k : \A g \in 0..i : ToldAt(r, i, g) => n \in DOMAIN Told(r, g)

\* Besides the nodes of the graph told at k, only pods that leave are shown; and the stats
\* are those that were recorded, of a node for which there are any.
Shows(s, r, k) ==
  /\ s.events = {r.frames[j].of : j \in {i \in 1..k : r.frames[i].about = "event"}}
  /\ \E g \in 0..k :
       /\ ToldAt(r, k, g)
       /\ DOMAIN Told(r, g) = {n \in DOMAIN s.graph : ~s.graph[n].gone}
       /\ \A n \in DOMAIN Told(r, g) : s.graph[n].of = Told(r, g)[n].of
  /\ \A n \in DOMAIN s.graph : s.graph[n].gone => n \in Pods
  /\ \A j \in 1..k, n \in DOMAIN s.graph :
       LastStats(r, k, j, n) => s.graph[n].cpu = r.frames[j].of

\* A tab that replays shows what the recording tells at the scrubber's position, wherever it
\* was dragged and whatever the server sends or has answered meanwhile
\* (docker.svelte.ts:268, "the recording owns the graph"); it records nothing of a replay,
\* and shows no events of one when it is over.  It may show, besides, pods that have left
\* and stats from before where the recording has none: mergeGraphData keeps both.
ReplayOwnsGraph ==
  /\ replaying => recording = Nothing /\ Shows(screen, clip, position)
  /\ recording # Nothing => \A k \in 1..Len(recording.frames) : recording.frames[k].of <= MaxVersion
  /\ ~replaying => screen.events \subseteq 1..MaxVersion

=============================================================================
