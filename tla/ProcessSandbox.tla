--------------------------- MODULE ProcessSandbox ---------------------------
(***************************************************************************)
(* PluginProcessSandbox (plugins/processSandbox.ts): the requests to one   *)
(* plugin that runs in a child process, and the processes that come and go *)
(* under them.  The worker's side (plugins/processSandboxWorker.ts) is     *)
(* modelled by what decides its answers: whether its plugin is loaded.     *)
(*                                                                         *)
(* A call is a request of the registry, a route or the loader.  It waits   *)
(* for the initialization of a process, or it is in the pending map, sent  *)
(* to a process.  Promise continuations run before the next event, so what *)
(* follows a settled promise is part of the action that settles it.        *)
(*                                                                         *)
(* MaxSpawns bounds how many processes a behaviour starts.  The system     *)
(* may report the end of a dying process's IPC channel (child.connected    *)
(* becomes false) before or with its exit; closesEarly says which of the   *)
(* two systems a behaviour is about.                                       *)
(***************************************************************************)
EXTENDS Naturals

CONSTANTS Calls,       \* calls in flight at a time
          MaxSpawns    \* bound: processes forked

ASSUME SandboxAssumption == MaxSpawns \in Nat \ {0}

VARIABLES
  child,          \* this.child, a number; 0 for undefined
  spawned,        \* processes forked so far
  process,        \* what each process is
  plugin,         \* is the plugin loaded in the worker of the child?
  descriptor,     \* is this.descriptor set?
  step,           \* the request this.initializing waits for
  pluginStarted,
  disposed,
  restartCount,
  call,           \* the calls
  closesEarly     \* may a channel be seen closed before the exit?

vars == <<child, spawned, process, plugin, descriptor, step, pluginStarted,
          disposed, restartCount, call, closesEarly>>

Numbers == 1..MaxSpawns
Kinds == {"initialize", "request", "start", "stop", "health"}
\* "sent" and what becomes of it in the worker: "working" on it or "refused",
\* because the plugin of the worker is not loaded.
Pending == {"sent", "working", "refused"}
CallStates == [op : Kinds \cup {"none"}, at : Pending \cup {"idle", "waiting"},
               to : 0..MaxSpawns]
Idle == [op |-> "none", at |-> "idle", to |-> 0]
AllIdle == [c \in Calls |-> Idle]

Connected == child # 0 /\ process[child] = "connected"

-----------------------------------------------------------------------------
(* The parts handlers are made of.                                         *)

\* The definitions named Mut... are defects the properties must detect; they
\* are no part of the specification.  Here: requests that wait for the
\* initialization, or requests that were sent, are forgotten.
MutForgetWaiting ==
  /\ call' = [c \in Calls |-> IF call[c].at = "waiting" THEN call[c] ELSE Idle]
  /\ step' = "none"
  /\ UNCHANGED disposed
MutForgetSent ==
  /\ call' = [c \in Calls |-> IF call[c].at \in Pending THEN call[c] ELSE Idle]
  /\ step' = "none"
  /\ UNCHANGED disposed

\* Everything pending is rejected, and with the pending request of the
\* initialization everything that waits for it.  The loader disposes of the
\* sandbox when its initialize() is rejected.
RejectAll ==
  /\ call' = AllIdle
  /\ step' = "none"
  /\ disposed' = (disposed \/ \E c \in Calls : call[c].op = "initialize")

\* handleCrash of the child, whose process becomes s: "gone" when it has
\* exited, "closing" when it is killed.
HandleCrash(s) ==
  /\ child' = 0
  /\ process' = [process EXCEPT ![child] = s]
  /\ restartCount' = restartCount + 1
  /\ RejectAll
  /\ UNCHANGED <<spawned, plugin, descriptor, pluginStarted>>

Terminate == HandleCrash("closing")

\* Defects: the process is left running; a stop counts as a restart.
MutDisposeLeaks ==
  /\ child' = 0
  /\ RejectAll
  /\ UNCHANGED <<spawned, process, plugin, descriptor, restartCount>>
MutDisposeCounts ==
  /\ child' = 0
  /\ process' = [p \in Numbers |-> IF p = child THEN "closing" ELSE process[p]]
  /\ restartCount' = restartCount + 1
  /\ RejectAll
  /\ UNCHANGED <<spawned, plugin, descriptor>>

\* disposeProcess: the same, but the process is not wanted any more.
DisposeProcess ==
  /\ child' = 0
  /\ process' = [p \in Numbers |-> IF p = child /\ process[p] = "connected"
                                   THEN "closing" ELSE process[p]]
  /\ RejectAll
  /\ UNCHANGED <<spawned, plugin, descriptor, restartCount>>

At(op, at, to) == [op |-> op, at |-> at, to |-> to]

\* What a call does once it has an initialized process: the request goes to
\* the child.
Send(c, op) == call' = [call EXCEPT ![c] = At(op, "sent", child)]

\* ensureInitialized for a call that is new.
EnsureInitialized(c, op) ==
  \/ /\ Connected /\ descriptor
     /\ Send(c, op)
     /\ pluginStarted' = (pluginStarted \/ op = "start")
     /\ UNCHANGED <<child, spawned, process, plugin, step>>
  \/ /\ ~(Connected /\ descriptor) /\ step # "none"
     /\ call' = [call EXCEPT ![c] = At(op, "waiting", 0)]
     /\ UNCHANGED <<child, spawned, process, plugin, step, pluginStarted>>
  \/ /\ ~(Connected /\ descriptor) /\ step = "none" /\ spawned < MaxSpawns
     /\ spawned' = spawned + 1
     /\ child' = spawned + 1
     /\ process' = [process EXCEPT ![spawned + 1] = "connected"]
     /\ plugin' = FALSE
     /\ step' = "initialize"
     /\ call' = [call EXCEPT ![c] = At(op, "waiting", 0)]
     /\ UNCHANGED pluginStarted

\* The initialization is over: who waited for it goes on.
Initialized ==
  /\ step' = "none"
  /\ call' = [c \in Calls |->
               IF call[c].at # "waiting" THEN call[c]
               ELSE IF call[c].op = "initialize" THEN Idle
               ELSE At(call[c].op, "sent", child)]
  /\ pluginStarted' = (pluginStarted \/ \E c \in Calls :
                         call[c].at = "waiting" /\ call[c].op = "start")

-----------------------------------------------------------------------------
(* The calls.  The plugin is known to others once the loader has it.       *)

Ready(c) == call[c] = Idle /\ ~disposed

Initialize(c) ==
  /\ Ready(c) /\ ~descriptor /\ call = AllIdle
  /\ EnsureInitialized(c, "initialize")
  /\ UNCHANGED <<descriptor, disposed, restartCount>>

\* request, configure, openStream, openExecSession.
Request(c) ==
  /\ Ready(c) /\ descriptor
  /\ EnsureInitialized(c, "request")
  /\ UNCHANGED <<descriptor, disposed, restartCount>>

StartPlugin(c) ==
  /\ Ready(c) /\ descriptor
  /\ EnsureInitialized(c, "start")
  /\ UNCHANGED <<descriptor, disposed, restartCount>>

StopPlugin(c) ==
  /\ Ready(c) /\ descriptor
  /\ pluginStarted' = FALSE
  /\ \/ ~Connected /\ DisposeProcess
     \/ /\ Connected
        /\ Send(c, "stop")
        /\ UNCHANGED <<child, spawned, process, plugin, descriptor, step, disposed,
                       restartCount>>

GetRuntimeHealth(c) ==
  /\ Ready(c) /\ descriptor /\ Connected
  /\ Send(c, "health")
  /\ UNCHANGED <<child, spawned, process, plugin, descriptor, step, pluginStarted,
                 disposed, restartCount>>

-----------------------------------------------------------------------------
(* The worker.                                                             *)

\* instantiatePlugin has returned.  "initialize" was the first message.
LoadPlugin ==
  /\ Connected /\ step = "initialize" /\ ~plugin
  /\ plugin' = TRUE
  /\ UNCHANGED <<child, spawned, process, descriptor, step, pluginStarted, disposed,
                 restartCount, call>>

\* requirePlugin throws in every operation but runtimeMetrics.
HandleOperation(c) ==
  /\ call[c].at = "sent" /\ call[c].to = child /\ Connected
  /\ call' = [call EXCEPT ![c].at = IF plugin \/ call[c].op = "health"
                                    THEN "working" ELSE "refused"]
  /\ UNCHANGED <<child, spawned, process, plugin, descriptor, step, pluginStarted,
                 disposed, restartCount>>

-----------------------------------------------------------------------------
(* Messages of the child, timers, and the exits of processes.              *)

\* A result or an error of a call, for which a stop() disposes of the process.
HandleResult(c) ==
  /\ call[c].at \in {"working", "refused"} /\ call[c].to = child /\ Connected
  /\ \/ /\ call[c].op = "stop"
        /\ DisposeProcess
        /\ UNCHANGED pluginStarted
     \/ /\ call[c].op # "stop"
        /\ call' = [call EXCEPT ![c] = Idle]
        /\ UNCHANGED <<child, spawned, process, plugin, descriptor, step, pluginStarted,
                       disposed, restartCount>>

\* The descriptor, or the result of a replayed configure or start.
StepSucceeds ==
  /\ Connected
  /\ \/ /\ step = "initialize" /\ plugin
        /\ descriptor' = TRUE
        /\ \/ pluginStarted /\ step' = "configure" /\ UNCHANGED <<call, pluginStarted>>
           \/ ~pluginStarted /\ Initialized
     \/ /\ step = "configure" /\ step' = "start"
        /\ UNCHANGED <<descriptor, call, pluginStarted>>
     \/ /\ step = "start" /\ Initialized
        /\ UNCHANGED descriptor
  /\ UNCHANGED <<child, spawned, process, plugin, disposed, restartCount>>

\* An error instead: who waited is rejected, and the process stays, unless it
\* is the loader who waited.
StepFails ==
  /\ Connected /\ step # "none"
  /\ \/ /\ \E c \in Calls : call[c].at = "waiting" /\ call[c].op = "initialize"
        /\ DisposeProcess
        /\ UNCHANGED pluginStarted
     \/ /\ \A c \in Calls : call[c].at = "waiting" => call[c].op # "initialize"
        /\ step' = "none"
        /\ call' = [c \in Calls |-> IF call[c].at = "waiting" THEN Idle ELSE call[c]]
        /\ UNCHANGED <<child, spawned, process, plugin, descriptor, pluginStarted,
                       disposed, restartCount>>

\* The timer of a pending request; that of runtimeMetrics does not terminate.
Timeout(c) ==
  /\ call[c].at \in Pending
  /\ \/ call[c].op # "health" /\ Terminate
     \/ /\ call[c].op = "health"
        /\ call' = [call EXCEPT ![c] = Idle]
        /\ UNCHANGED <<child, spawned, process, plugin, descriptor, step, pluginStarted,
                       disposed, restartCount>>

StepTimeout == step # "none" /\ Terminate

\* The plugin writes too much to stderr.
StderrLimit == child # 0 /\ Terminate

\* The IPC channel of the child closes, and child.send calls back with errors.
Close ==
  /\ closesEarly /\ Connected
  /\ process' = [process EXCEPT ![child] = "closing"]
  /\ UNCHANGED <<child, spawned, plugin, descriptor, step, pluginStarted, disposed,
                 restartCount, call>>

SendFails(c) ==
  /\ call[c].at = "sent" /\ process[call[c].to] = "closing"
  /\ \/ /\ call[c].op = "stop" /\ DisposeProcess
        /\ UNCHANGED pluginStarted
     \/ /\ call[c].op # "stop"
        /\ call' = [call EXCEPT ![c] = Idle]
        /\ UNCHANGED <<child, spawned, process, plugin, descriptor, step, pluginStarted,
                       disposed, restartCount>>

\* Defect: the exit of any process is taken for a crash of the child.
MutExit(p) ==
  /\ process[p] \in {"connected", "closing"} /\ child # 0
  /\ process' = [process EXCEPT ![child] = "closing", ![p] = "gone"]
  /\ child' = 0
  /\ restartCount' = restartCount + 1
  /\ RejectAll
  /\ UNCHANGED <<spawned, plugin, descriptor, pluginStarted>>

\* The exit event of a process (or its error event); only that of the child
\* is a crash.
Exit(p) ==
  /\ process[p] \in {"connected", "closing"}
  /\ \/ p = child /\ HandleCrash("gone")
     \/ /\ p # child
        /\ process' = [process EXCEPT ![p] = "gone"]
        /\ UNCHANGED <<child, spawned, plugin, descriptor, step, pluginStarted,
                       disposed, restartCount, call>>

-----------------------------------------------------------------------------
Init ==
  /\ child = 0 /\ spawned = 0
  /\ process = [p \in Numbers |-> "unborn"]
  /\ plugin = FALSE /\ descriptor = FALSE /\ step = "none"
  /\ pluginStarted = FALSE /\ disposed = FALSE /\ restartCount = 0
  /\ call = AllIdle
  /\ closesEarly \in BOOLEAN

Step ==
  \/ \E c \in Calls :
       \/ Initialize(c) \/ Request(c) \/ StartPlugin(c) \/ StopPlugin(c)
       \/ GetRuntimeHealth(c)
       \/ HandleOperation(c) \/ HandleResult(c) \/ Timeout(c) \/ SendFails(c)
  \/ LoadPlugin \/ StepSucceeds \/ StepFails \/ StepTimeout
  \/ StderrLimit \/ Close
  \/ \E p \in Numbers : Exit(p)

Next == Step /\ UNCHANGED closesEarly

Spec == Init /\ [][Next]_vars

\* Timers fire; the worker and the processes owe nothing.
Fairness ==
  /\ WF_vars(StepTimeout /\ UNCHANGED closesEarly)
  /\ \A c \in Calls : WF_vars(Timeout(c) /\ UNCHANGED closesEarly)
FairSpec == Spec /\ Fairness

-----------------------------------------------------------------------------
(* Properties.                                                             *)

TypeOK ==
  /\ child \in 0..MaxSpawns /\ spawned \in 0..MaxSpawns
  /\ process \in [Numbers -> {"unborn", "connected", "closing", "gone"}]
  /\ plugin \in BOOLEAN /\ descriptor \in BOOLEAN
  /\ step \in {"none", "initialize", "configure", "start"}
  /\ pluginStarted \in BOOLEAN /\ disposed \in BOOLEAN
  /\ restartCount \in 0..spawned
  /\ call \in [Calls -> CallStates]
  /\ closesEarly \in BOOLEAN

\* A pending request was sent to the process that is the child now.  What is
\* done to the child because of a request (terminate() after a timeout,
\* disposeProcess() after a stop) is done to the process that has the request.
\* (On systems that close channels early a call may outlive its process.)
PendingIsCurrent ==
  ~closesEarly =>
    \A c \in Calls : call[c].at \in Pending => child # 0 /\ call[c].to = child

\* Only the child is connected: no crash, stop or timeout leaves a process
\* behind that nothing will ever stop.
OneProcess == \A p \in Numbers : process[p] = "connected" => p = child

\* A working process is given up because of itself only: it exits, it floods
\* stderr, or a request it was sent times out or stops it; never because an
\* earlier process exits late.
KeptUnlessItsOwn ==
  ~closesEarly /\ Connected /\ child' # child =>
    \/ process'[child] = "gone"
    \/ StderrLimit \/ StepTimeout \/ StepFails
    \/ \E c \in Calls : call[c].to = child
ProcessIsKept == [][KeptUnlessItsOwn]_vars

\* Every call is settled, whatever the worker does: no request is lost when a
\* process crashes, is stopped or never answers.
EveryCallSettles == \A c \in Calls : call[c] # Idle ~> call[c] = Idle

\* The sandbox is a fail-stop service to its callers, if channels close with the
\* exit; nothing is claimed of the other systems.
Service == INSTANCE FailStopService WITH
  life <- IF closesEarly THEN 0 ELSE child,
  lives <- IF closesEarly THEN 0 ELSE spawned,
  open <- IF closesEarly THEN {} ELSE {c \in Calls : call[c] # Idle},
  server <- [c \in Calls |-> IF closesEarly THEN 0 ELSE call[c].to]
IsFailStop == Service!Spec

\* docs/plugins.md:696, "the next operation starts a fresh worker": no operation
\* is turned away because the plugin of the fresh worker is not there yet.
OperationsFindThePlugin == \A c \in Calls : call[c].at # "refused"

=============================================================================
