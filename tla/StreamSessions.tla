--------------------------- MODULE StreamSessions ---------------------------
(***************************************************************************)
(* The log and exec streams of one WebSocket client (server/websocket.ts), *)
(* through the plugin's sandbox (openStream, openExecSession of            *)
(* plugins/processSandbox.ts), to the worker that runs them                *)
(* (plugins/processSandboxWorker.ts).                                      *)
(*                                                                         *)
(* A stream is numbered by the request that asks for it.  The registry     *)
(* first looks for a provider (canHandle, an await), then the sandbox      *)
(* enters the stream in its map and sends the start request; a log handler *)
(* has its stop function at once, an exec handler waits for the answer.    *)
(* The two IPC directions are FIFO.  MaxStreams bounds the requests of the *)
(* client, MaxData what one stream says, and MaxWaiting the messages of    *)
(* the worker that wait to be handled.                                     *)
(***************************************************************************)
EXTENDS Naturals, Sequences

CONSTANTS MaxStreams, MaxData, MaxWaiting

VARIABLES
  asked,       \* subscribe_logs and exec_start messages so far
  wsOpen,      \* is the client's socket open?
  kind,        \* what each stream is
  handler,     \* where the handler of its message is
  logStream,   \* the client's entry in clientLogStreams; 0 for none
  execStream,  \* the client's entry in clientExecStreams
  streams,     \* the sandbox's map of streams: those that have handlers
  request,     \* streams whose start request is pending
  stopped,     \* streams whose stop function was called, or that are destroyed
  toWorker, toParent,
  worker,      \* what each stream is in the worker
  said,        \* chunks each stream has produced
  heard,       \* chunks each stream has brought to the client
  alive,       \* does the server run?
  overlap,     \* history: kinds for which a message came during an await
  missed       \* history: streams whose stop reached the worker before the
               \* provider had returned

vars == <<asked, wsOpen, kind, handler, logStream, execStream, streams, request,
          stopped, toWorker, toParent, worker, said, heard, alive, overlap, missed>>
clientVars == <<wsOpen, logStream, execStream>>
workerVars == <<worker, said, missed>>

Streams == 1..MaxStreams
Kinds == {"log", "exec"}
Waiting == {"finding", "opening"}
Message(t, s) == [type |-> t, stream |-> s]

-----------------------------------------------------------------------------
(* The parts handlers are made of.                                         *)

Entry(k) == IF k = "log" THEN logStream ELSE execStream

\* A message or a close comes for kind k while a handler of k is awaiting.
Overlaps(ks) ==
  overlap' = overlap \cup {k \in ks : \E s \in Streams : kind[s] = k /\ handler[s] \in Waiting}

\* Defect: a stopped stream stays in the sandbox's map, where its data still
\* finds handlers.
MutStopStreams(ss) ==
  /\ stopped' = stopped \cup ss
  /\ UNCHANGED <<streams, toWorker>>

\* The stop functions of the streams ss (at most one of each kind), or destroy()
\* of their Duplex: a second call does nothing.
StopStreams(ss) ==
  LET new == ss \ stopped
      one(k) == LET of == {s \in new : kind[s] = k}
                IN IF of = {} THEN <<>> ELSE <<Message("stop", CHOOSE s \in of : TRUE)>>
  IN /\ stopped' = stopped \cup ss
     /\ streams' = streams \ ss
     /\ toWorker' = toWorker \o one("log") \o one("exec")

Entries(ks) == {Entry(k) : k \in ks} \ {0}
Forget(ks) ==
  /\ logStream' = IF "log" \in ks THEN 0 ELSE logStream
  /\ execStream' = IF "exec" \in ks THEN 0 ELSE execStream

-----------------------------------------------------------------------------
(* Messages of the client.                                                 *)

\* subscribe_logs and exec_start: stop what is there, then look for a provider.
Ask(k) ==
  /\ alive /\ wsOpen /\ asked < MaxStreams
  /\ asked' = asked + 1
  /\ kind' = [kind EXCEPT ![asked + 1] = k]
  /\ handler' = [handler EXCEPT ![asked + 1] = "finding"]
  /\ StopStreams(Entries({k}))
  /\ Forget({k})
  /\ Overlaps({k})
  /\ UNCHANGED <<wsOpen, request, toParent, workerVars, heard, alive>>

\* unsubscribe_logs and exec_stop.
Unsubscribe(k) ==
  /\ alive /\ wsOpen /\ \E s \in Streams : kind[s] = k
  /\ StopStreams(Entries({k}))
  /\ Forget({k})
  /\ Overlaps({k})
  /\ UNCHANGED <<asked, wsOpen, kind, handler, request, toParent, workerVars, heard, alive>>

\* The socket closes.
CloseSocket ==
  /\ alive /\ wsOpen
  /\ wsOpen' = FALSE
  /\ StopStreams(Entries(Kinds))
  /\ Forget(Kinds)
  /\ Overlaps(Kinds)
  /\ UNCHANGED <<asked, kind, handler, request, toParent, workerVars, heard, alive>>

\* requireProvider found the provider: the sandbox opens the stream.  A log
\* handler goes on at once and enters the stop function, whatever has happened
\* since its message came.
OpenStream(s) ==
  /\ alive /\ handler[s] = "finding"
  /\ streams' = streams \cup {s}
  /\ request' = request \cup {s}
  /\ toWorker' = Append(toWorker, Message("start", s))
  /\ \/ /\ kind[s] = "log"
        /\ handler' = [handler EXCEPT ![s] = "held"]
        /\ logStream' = s
     \/ /\ kind[s] = "exec"
        /\ handler' = [handler EXCEPT ![s] = "opening"]
        /\ UNCHANGED logStream
  /\ UNCHANGED <<asked, wsOpen, kind, execStream, stopped, toParent, workerVars, heard,
                 alive, overlap>>

\* No plugin handles the entity.
NoProvider(s) ==
  /\ alive /\ handler[s] = "finding"
  /\ handler' = [handler EXCEPT ![s] = "failed"]
  /\ UNCHANGED <<asked, clientVars, kind, streams, request, stopped, toWorker, toParent,
                 workerVars, heard, alive, overlap>>

-----------------------------------------------------------------------------
(* The worker.                                                             *)

Received ==
  /\ alive /\ toWorker # <<>>
  /\ toWorker' = Tail(toWorker)
  /\ UNCHANGED <<asked, clientVars, kind, handler, streams, request, stopped, toParent,
                 said, heard, alive, overlap>>

WorkerStart ==
  /\ Received /\ Head(toWorker).type = "start"
  /\ worker' = [worker EXCEPT ![Head(toWorker).stream] = "starting"]
  /\ UNCHANGED missed

\* Defect: a stream that is stopped is only taken out of the map.
MutWorkerStop ==
  /\ Received /\ Head(toWorker).type = "stop"
  /\ UNCHANGED <<worker, missed>>

\* stopStream: nothing is there to stop while the provider has not returned.
WorkerStop ==
  LET s == Head(toWorker).stream IN
  /\ Received /\ Head(toWorker).type = "stop"
  /\ worker' = [worker EXCEPT ![s] = IF @ = "open" THEN "closed" ELSE @]
  /\ missed' = IF worker[s] = "starting" THEN missed \cup {s} ELSE missed

Says(t, s) ==
  /\ Len(toParent) < MaxWaiting
  /\ toParent' = Append(toParent, Message(t, s))
  /\ UNCHANGED <<asked, clientVars, kind, handler, streams, request, stopped, toWorker,
                 heard, alive, overlap, missed>>

\* The provider has returned, and the stop function or the session is entered.
ProviderReturns(s) ==
  /\ alive /\ worker[s] = "starting"
  /\ \/ worker' = [worker EXCEPT ![s] = "open"] /\ Says("result", s)
     \/ worker' = [worker EXCEPT ![s] = "closed"] /\ Says("refused", s)
  /\ UNCHANGED said

\* Data; a log provider may have some before it has returned.
Emit(s) ==
  /\ alive /\ said[s] < MaxData
  /\ \/ worker[s] = "open"
     \/ worker[s] = "starting" /\ kind[s] = "log"
  /\ said' = [said EXCEPT ![s] = @ + 1]
  /\ Says("data", s)
  /\ UNCHANGED worker

\* The stream is over by itself: an error, or the end of an exec session.
EndStream(s) ==
  /\ alive /\ worker[s] = "open"
  /\ worker' = [worker EXCEPT ![s] = "closed"]
  /\ \/ Says("error", s)
     \/ kind[s] = "exec" /\ Says("end", s)
  /\ UNCHANGED said

-----------------------------------------------------------------------------
(* Messages of the worker: handleMessage of the sandbox.                   *)

Message1(t) == alive /\ toParent # <<>> /\ Head(toParent).type = t
Taken == toParent' = Tail(toParent)

\* Defect: the session becomes the client's before the answer is there.
MutHandleResult ==
  LET s == Head(toParent).stream IN
  /\ Message1("result") /\ Taken
  /\ request' = request \ {s}
  /\ handler' = [handler EXCEPT ![s] = "held"]
  /\ UNCHANGED <<asked, clientVars, kind, streams, stopped, toWorker, workerVars,
                 heard, alive, overlap>>

\* The start request is answered; an exec handler goes on and enters the stream.
HandleResult ==
  LET s == Head(toParent).stream IN
  /\ Message1("result") /\ Taken
  /\ request' = request \ {s}
  /\ handler' = [handler EXCEPT ![s] = "held"]
  /\ execStream' = IF kind[s] = "exec" THEN s ELSE execStream
  /\ UNCHANGED <<asked, wsOpen, logStream, kind, streams, stopped, toWorker, workerVars,
                 heard, alive, overlap>>

\* It is rejected: the stream leaves the map, and an exec stream is destroyed.
HandleRefused ==
  LET s == Head(toParent).stream IN
  /\ Message1("refused") /\ Taken
  /\ request' = request \ {s}
  /\ handler' = [handler EXCEPT ![s] = IF kind[s] = "exec" THEN "failed" ELSE @]
  /\ IF kind[s] = "exec" THEN StopStreams({s})
     ELSE streams' = streams \ {s} /\ UNCHANGED <<stopped, toWorker>>
  /\ UNCHANGED <<asked, clientVars, kind, workerVars, heard, alive, overlap>>

HandleData ==
  LET s == Head(toParent).stream IN
  /\ Message1("data") /\ Taken
  /\ heard' = IF s \in streams /\ wsOpen THEN [heard EXCEPT ![s] = @ + 1] ELSE heard
  /\ UNCHANGED <<asked, clientVars, kind, handler, streams, request, stopped, toWorker,
                 workerVars, alive, overlap>>

\* The last event of a stream.  The exec handlers of it delete the entry of the
\* client, whichever stream that is; an error destroys the Duplex.
HandleEnd ==
  LET s == Head(toParent).stream
      t == Head(toParent).type
  IN /\ Message1("end") \/ Message1("error")
     /\ Taken
     /\ IF s \in streams /\ t = "error" /\ kind[s] = "exec" THEN StopStreams({s})
        ELSE streams' = streams \ {s} /\ UNCHANGED <<stopped, toWorker>>
     /\ execStream' = IF s \in streams /\ kind[s] = "exec" THEN 0 ELSE execStream
     /\ UNCHANGED <<asked, wsOpen, logStream, kind, handler, request, workerVars, heard,
                    alive, overlap>>

\* handleCrash, or disposeProcess of a plugin that is stopped.  The process is
\* gone with its streams and with what was on its way; handlers that wait for
\* it fail, and every stream is told.
ProcessGone ==
  /\ \E s \in Streams : handler[s] \in Waiting \/ s \in streams
  /\ worker' = [s \in Streams |-> IF worker[s] = "none" THEN "none" ELSE "closed"]
  /\ toWorker' = <<>> /\ toParent' = <<>>
  /\ request' = {} /\ streams' = {}
  /\ handler' = [s \in Streams |-> IF handler[s] \in Waiting THEN "failed" ELSE handler[s]]
  /\ execStream' = IF \E s \in streams : kind[s] = "exec" /\ handler[s] = "held"
                   THEN 0 ELSE execStream
  /\ UNCHANGED <<asked, wsOpen, logStream, kind, said, missed, heard, overlap>>

\* A crash destroys the Duplex of every exec stream with the error.  One whose
\* start request is pending has no listener for "error" yet: Node throws it, and
\* nothing in the server catches it.
Crash ==
  /\ alive /\ ProcessGone
  /\ stopped' = stopped \cup {s \in streams : kind[s] = "exec"}
  /\ alive' = \A s \in streams : handler[s] # "opening"

\* The plugin is stopped: exec streams end, and pending requests are rejected.
Dispose ==
  /\ alive /\ ProcessGone
  /\ stopped' = stopped \cup {s \in streams : handler[s] = "opening"}
  /\ UNCHANGED alive

-----------------------------------------------------------------------------
Init ==
  /\ asked = 0 /\ wsOpen = TRUE
  /\ kind = [s \in Streams |-> "none"] /\ handler = [s \in Streams |-> "none"]
  /\ logStream = 0 /\ execStream = 0
  /\ streams = {} /\ request = {} /\ stopped = {}
  /\ toWorker = <<>> /\ toParent = <<>>
  /\ worker = [s \in Streams |-> "none"]
  /\ said = [s \in Streams |-> 0] /\ heard = [s \in Streams |-> 0]
  /\ alive = TRUE /\ overlap = {} /\ missed = {}

Next ==
  \/ \E k \in Kinds : Ask(k) \/ Unsubscribe(k)
  \/ CloseSocket \/ Crash \/ Dispose
  \/ \E s \in Streams : \/ OpenStream(s) \/ NoProvider(s) \/ ProviderReturns(s)
                        \/ Emit(s) \/ EndStream(s)
  \/ WorkerStart \/ WorkerStop
  \/ HandleResult \/ HandleRefused \/ HandleData \/ HandleEnd

Spec == Init /\ [][Next]_vars

-----------------------------------------------------------------------------
(* Properties.                                                             *)

TypeOK ==
  /\ asked \in 0..MaxStreams
  /\ kind \in [Streams -> Kinds \cup {"none"}]
  /\ handler \in [Streams -> Waiting \cup {"none", "held", "failed"}]
  /\ wsOpen \in BOOLEAN /\ alive \in BOOLEAN
  /\ logStream \in 0..MaxStreams /\ execStream \in 0..MaxStreams
  /\ UNION {streams, request, stopped, missed} \subseteq Streams
  /\ overlap \subseteq Kinds
  /\ worker \in [Streams -> {"none", "starting", "open", "closed"}]
  /\ said \in [Streams -> 0..MaxData] /\ heard \in [Streams -> 0..MaxData]

\* A stream that runs belongs to an entry of the client, which a new request,
\* a stop and the close of the socket will find; so nothing is left running
\* for a client that has gone.  The exception is a message of the same kind,
\* or the close, that falls into the await of a handler (websocket.ts:67, 90):
\* such a handler enters its stream over another one, or after the close.
NothingIsForgotten ==
  \A s \in streams : handler[s] = "held" /\ kind[s] \notin overlap => Entry(kind[s]) = s

\* Once a stream is stopped its client hears nothing of it, although the worker
\* goes on until the notification arrives and messages are on their way.
StoppedIsSilent == [][\A s \in stopped : heard'[s] = heard[s]]_heard

\* A stopped stream also stops in the worker: as long as it runs there, its stop is
\* on the way, also when the stop came before the answer, from an error, or with the
\* socket.  The exception is a notification that overtakes the provider
\* (processSandboxWorker.ts:556): it finds nothing to stop, the stream is entered
\* afterwards, and it runs until it ends by itself.
StopsArrive ==
  \A s \in stopped :
    alive /\ worker[s] = "open" =>
      s \in missed \/ \E i \in DOMAIN toWorker : toWorker[i] = Message("stop", s)

\* docs/plugins.md:696, "without taking down DockScope": the crash of a plugin is
\* not the end of the server.
SurvivesPluginCrash == alive

=============================================================================
