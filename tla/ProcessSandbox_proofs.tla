----------------------- MODULE ProcessSandbox_proofs -----------------------
(***************************************************************************)
(* For any calls and any number of processes: the types are right, only    *)
(* the child is connected, a pending request is pending on the child, no   *)
(* child is given up for another's sake, and the sandbox implements        *)
(* FailStopService.                                                        *)
(*                                                                         *)
(* None of this is inductive by itself.  A successor is forked whenever    *)
(* the child is not connected or the descriptor is not set, so what keeps  *)
(* two processes from being connected at once is that a connected child    *)
(* without a descriptor is still being initialized, by a call of the       *)
(* loader.                                                                 *)
(***************************************************************************)
EXTENDS ProcessSandbox, TLAPS

Loading == At("initialize", "waiting", 0)

\* The calls: what is not pending is on no process, and without a child there
\* are none.
CallsOK ==
  /\ \A c \in Calls : /\ call[c].at = "idle" => call[c] = Idle
                      /\ call[c].at = "waiting" => call[c].to = 0 /\ call[c].op # "none"
                      /\ call[c].at \in Pending => call[c].op # "none"
  /\ child = 0 => call = AllIdle /\ step = "none"

\* Before the descriptor there is only the loader's call, and the child is being
\* initialized for it; afterwards that call is gone.
LoadingOK ==
  /\ ~descriptor => /\ ~pluginStarted
                    /\ \A c \in Calls : call[c] \in {Idle, Loading}
                    /\ Connected => step = "initialize"
                    /\ step # "none" => \E c \in Calls : call[c] = Loading
  /\ descriptor => \A c \in Calls : call[c].op # "initialize"

\* A process is a restart only once it is gone.
CountOK == restartCount + (IF child = 0 THEN 0 ELSE 1) <= spawned

\* A child is connected, on systems that close the channel with the exit.
ChildOK == ~closesEarly /\ child # 0 => process[child] = "connected"

IInv == TypeOK /\ CallsOK /\ LoadingOK /\ CountOK /\ ChildOK /\ OneProcess /\ PendingIsCurrent

USE SandboxAssumption DEF Numbers

-----------------------------------------------------------------------------
(* The parts of the handlers.                                              *)

\* The process is given up: everything is settled, and nothing is left that has
\* to be related to the child.
LEMMA GiveUpOK ==
  ASSUME IInv, child' = 0, RejectAll, UNCHANGED <<spawned, plugin, descriptor, closesEarly>>,
         process' \in [Numbers -> {"unborn", "connected", "closing", "gone"}],
         \A p \in Numbers : process'[p] = "connected" => process[p] = "connected" /\ p # child,
         pluginStarted' \in {pluginStarted, FALSE},
         restartCount' = restartCount \/ (child # 0 /\ restartCount' = restartCount + 1)
  PROVE  IInv'
<1>1. call' = AllIdle /\ step' = "none" /\ disposed' \in BOOLEAN
  BY DEF RejectAll, IInv, TypeOK
<1>2. call' \in [Calls -> CallStates] /\ \A c \in Calls : call'[c] = Idle
  BY <1>1 DEF AllIdle, Idle, CallStates
<1>3. restartCount' \in 0..spawned /\ CountOK'
  BY DEF IInv, TypeOK, CountOK
<1>4. TypeOK'
  <2>1. pluginStarted' \in BOOLEAN
    BY DEF IInv, TypeOK
  <2>2. plugin' \in BOOLEAN /\ descriptor' \in BOOLEAN /\ closesEarly' \in BOOLEAN
    BY DEF IInv, TypeOK
  <2>3. child' \in 0..MaxSpawns /\ spawned' \in 0..MaxSpawns /\ restartCount' \in 0..spawned'
    BY <1>3 DEF IInv, TypeOK
  <2>. QED BY <1>1, <1>2, <2>1, <2>2, <2>3 DEF TypeOK
<1>5. CallsOK' /\ PendingIsCurrent'
  BY <1>1, <1>2 DEF CallsOK, PendingIsCurrent, Idle, Pending
<1>6. LoadingOK'
  <2>1. ~descriptor => ~pluginStarted'
    BY DEF IInv, LoadingOK
  <2>2. ~Connected' /\ \A c \in Calls : call'[c].op # "initialize"
    BY <1>2 DEF Connected, Idle
  <2>. QED BY <1>1, <1>2, <2>1, <2>2 DEF LoadingOK
<1>7. OneProcess' /\ ChildOK'
  BY DEF IInv, OneProcess, ChildOK
<1>. QED BY <1>3, <1>4, <1>5, <1>6, <1>7 DEF IInv

\* handleCrash of a child.
LEMMA CrashOK ==
  ASSUME IInv, NEW s \in {"closing", "gone"}, child # 0, HandleCrash(s), UNCHANGED closesEarly
  PROVE  IInv'
<1>1. child \in Numbers
  BY DEF IInv, TypeOK
<1>2. /\ process' \in [Numbers -> {"unborn", "connected", "closing", "gone"}]
      /\ \A p \in Numbers : process'[p] = "connected" => process[p] = "connected" /\ p # child
  BY <1>1 DEF IInv, TypeOK, HandleCrash
<1>. QED BY <1>2, GiveUpOK DEF HandleCrash

\* disposeProcess, whatever the child is.
LEMMA DisposeOK ==
  ASSUME IInv, DisposeProcess, pluginStarted' \in {pluginStarted, FALSE}, UNCHANGED closesEarly
  PROVE  IInv'
<1>1. /\ process' \in [Numbers -> {"unborn", "connected", "closing", "gone"}]
      /\ \A p \in Numbers : process'[p] = "connected" => process[p] = "connected" /\ p # child
  BY DEF IInv, TypeOK, DisposeProcess
<1>. QED BY <1>1, GiveUpOK DEF DisposeProcess

\* The calls change, the process stays: what has to be shown of them then.
LEMMA CallsChangeOK ==
  ASSUME IInv, UNCHANGED <<child, spawned, process, restartCount, disposed, closesEarly>>,
         plugin' \in BOOLEAN, pluginStarted' \in BOOLEAN, descriptor' \in BOOLEAN,
         step' \in {"none", "initialize", "configure", "start"},
         call' \in [Calls -> CallStates], CallsOK', LoadingOK', PendingIsCurrent'
  PROVE  IInv'
BY DEF IInv, TypeOK, CountOK, ChildOK, OneProcess

\* A call c is settled and the process stays.
LEMMA SettleOK ==
  ASSUME IInv, NEW c \in Calls, call[c].at \in Pending,
         call' = [call EXCEPT ![c] = Idle],
         UNCHANGED <<child, spawned, process, plugin, descriptor, step, pluginStarted,
                     disposed, restartCount, closesEarly>>
  PROVE  IInv'
<1>1. /\ call' \in [Calls -> CallStates]
      /\ \A d \in Calls : call'[d] = IF d = c THEN Idle ELSE call[d]
  BY DEF IInv, TypeOK, CallStates, Idle
<1>2. child # 0 /\ descriptor
  BY DEF IInv, CallsOK, LoadingOK, AllIdle, Idle, Loading, At, Pending
<1>3. CallsOK' /\ PendingIsCurrent'
  BY <1>1, <1>2 DEF IInv, CallsOK, PendingIsCurrent, Idle, Pending
<1>4. LoadingOK'
  BY <1>1, <1>2 DEF IInv, LoadingOK, Idle
<1>. QED BY <1>1, <1>3, <1>4, CallsChangeOK DEF IInv, TypeOK

\* A call goes to the child.
LEMMA SendOK ==
  ASSUME IInv, NEW c \in Calls, NEW op \in Kinds \ {"initialize"}, Connected, descriptor,
         Send(c, op), pluginStarted' \in BOOLEAN,
         UNCHANGED <<child, spawned, process, plugin, descriptor, step, disposed,
                     restartCount, closesEarly>>
  PROVE  IInv'
<1>1. /\ call' \in [Calls -> CallStates]
      /\ \A d \in Calls : call'[d] = IF d = c THEN At(op, "sent", child) ELSE call[d]
  BY DEF IInv, TypeOK, CallStates, Send, At, Kinds, Pending
<1>2. child # 0
  BY DEF Connected
<1>3. CallsOK' /\ PendingIsCurrent'
  BY <1>1, <1>2 DEF IInv, CallsOK, PendingIsCurrent, Pending, At, Kinds
<1>4. LoadingOK'
  BY <1>1 DEF IInv, LoadingOK, At
<1>. QED BY <1>1, <1>3, <1>4, CallsChangeOK DEF IInv, TypeOK

\* A call that needs an initialized process: it is sent, it joins those that
\* wait, or it forks a successor, and then the old child is not connected.
LEMMA EnsureOK ==
  ASSUME IInv, NEW c \in Calls, NEW op \in {"initialize", "request", "start"},
         call[c] = Idle, IF op = "initialize" THEN ~descriptor /\ call = AllIdle ELSE descriptor,
         EnsureInitialized(c, op), UNCHANGED <<descriptor, disposed, restartCount, closesEarly>>
  PROVE  IInv'
<1>1. CASE Connected /\ descriptor
  <2>1. Send(c, op) /\ pluginStarted' \in BOOLEAN /\ UNCHANGED <<child, spawned, process, plugin, step>>
    BY <1>1 DEF EnsureInitialized, IInv, TypeOK
  <2>. QED BY <1>1, <2>1, SendOK DEF Kinds
<1>2. ASSUME ~(Connected /\ descriptor),
             call' = [call EXCEPT ![c] = At(op, "waiting", 0)], UNCHANGED pluginStarted
      PROVE  /\ call' \in [Calls -> CallStates]
             /\ \A d \in Calls : call'[d] = IF d = c THEN At(op, "waiting", 0) ELSE call[d]
             /\ child' # 0 => CallsOK'
             /\ step' \in {step, "initialize"} /\ (Connected' => step' = "initialize" \/ descriptor)
                  => LoadingOK'
  <2>1. /\ call' \in [Calls -> CallStates]
        /\ \A d \in Calls : call'[d] = IF d = c THEN At(op, "waiting", 0) ELSE call[d]
    BY <1>2 DEF IInv, TypeOK, CallStates, At, Kinds
  <2>2. child' # 0 => CallsOK'
    BY <2>1 DEF IInv, CallsOK, Pending, At
  <2>3. ASSUME step' \in {step, "initialize"}, Connected' => step' = "initialize" \/ descriptor
        PROVE  LoadingOK'
    <3>1. CASE descriptor
      BY <1>2, <2>1, <3>1 DEF IInv, LoadingOK, At
    <3>2. CASE ~descriptor
      BY <1>2, <2>1, <2>3, <3>2 DEF IInv, LoadingOK, Loading
    <3>. QED BY <3>1, <3>2
  <2>. QED BY <2>1, <2>2, <2>3
<1>3. CASE /\ ~(Connected /\ descriptor) /\ step # "none"
           /\ call' = [call EXCEPT ![c] = At(op, "waiting", 0)]
           /\ UNCHANGED <<child, spawned, process, plugin, step, pluginStarted>>
  <2>1. child # 0
    BY <1>3 DEF IInv, CallsOK
  <2>2. CallsOK' /\ LoadingOK' /\ call' \in [Calls -> CallStates]
    BY <1>2, <1>3, <2>1 DEF IInv, LoadingOK, Connected
  <2>3. PendingIsCurrent'
    BY <1>2, <1>3 DEF IInv, PendingIsCurrent, Pending, At
  <2>. QED BY <1>3, <2>2, <2>3, CallsChangeOK DEF IInv, TypeOK
<1>4. CASE /\ ~(Connected /\ descriptor) /\ step = "none" /\ spawned < MaxSpawns
           /\ spawned' = spawned + 1
           /\ child' = spawned + 1
           /\ process' = [process EXCEPT ![spawned + 1] = "connected"]
           /\ plugin' = FALSE
           /\ step' = "initialize"
           /\ call' = [call EXCEPT ![c] = At(op, "waiting", 0)]
           /\ UNCHANGED pluginStarted
  <2>1. ~Connected
    BY <1>4 DEF IInv, LoadingOK
  <2>2. spawned + 1 \in Numbers /\ child \in 0..MaxSpawns /\ restartCount \in Nat /\ child' # 0
    BY <1>4 DEF IInv, TypeOK
  <2>3. CallsOK' /\ LoadingOK' /\ call' \in [Calls -> CallStates]
    BY <1>2, <1>4, <2>2
  <2>4. /\ process' \in [Numbers -> {"unborn", "connected", "closing", "gone"}]
        /\ \A p \in Numbers : process'[p] = IF p = spawned + 1 THEN "connected" ELSE process[p]
    BY <1>4, <2>2 DEF IInv, TypeOK
  <2>5. OneProcess' /\ ChildOK'
    BY <1>4, <2>1, <2>2, <2>4 DEF IInv, OneProcess, ChildOK, Connected
  <2>6. PendingIsCurrent'
    <3>1. ~closesEarly => call = AllIdle
      BY <2>1 DEF IInv, ChildOK, CallsOK, Connected
    <3>. QED BY <1>2, <1>4, <3>1 DEF PendingIsCurrent, AllIdle, Idle, Pending, At
  <2>7. CountOK' /\ restartCount' \in 0..spawned' /\ spawned' \in 0..MaxSpawns
    BY <1>4, <2>2 DEF IInv, TypeOK, CountOK
  <2>8. TypeOK'
    BY <1>4, <2>2, <2>3, <2>4, <2>7 DEF IInv, TypeOK
  <2>. QED BY <2>3, <2>5, <2>6, <2>7, <2>8 DEF IInv
<1>. QED BY <1>1, <1>3, <1>4 DEF EnsureInitialized

-----------------------------------------------------------------------------
(* The actions.                                                            *)

\* Nothing has been forked at the start.
LEMMA InitOK == Init => IInv
<1>. SUFFICES ASSUME Init PROVE IInv
  OBVIOUS
<1>1. \A c \in Calls : call[c] = Idle
  BY DEF Init, AllIdle
<1>2. TypeOK
  <2>1. Idle \in CallStates
    BY DEF Idle, CallStates
  <2>2. call \in [Calls -> CallStates]
    BY <2>1 DEF Init, AllIdle
  <2>3. process \in [Numbers -> {"unborn", "connected", "closing", "gone"}]
    BY DEF Init
  <2>4. child \in 0..MaxSpawns /\ spawned \in 0..MaxSpawns /\ restartCount \in 0..spawned
    BY DEF Init
  <2>5. /\ {plugin, descriptor, pluginStarted, disposed, closesEarly} \subseteq BOOLEAN
        /\ step \in {"none", "initialize", "configure", "start"}
    BY DEF Init
  <2>. QED BY <2>2, <2>3, <2>4, <2>5 DEF TypeOK
<1>3. CallsOK /\ LoadingOK /\ CountOK
  BY <1>1 DEF Init, CallsOK, LoadingOK, CountOK, Idle, Pending, Connected
<1>4. ChildOK /\ OneProcess /\ PendingIsCurrent
  BY <1>1 DEF Init, ChildOK, OneProcess, PendingIsCurrent, Idle, Pending
<1>. QED BY <1>2, <1>3, <1>4 DEF IInv

\* The requests of the registry, the routes and the loader.
LEMMA RequestOK ==
  ASSUME IInv, NEW c \in Calls, UNCHANGED closesEarly,
         Initialize(c) \/ Request(c) \/ StartPlugin(c) \/ StopPlugin(c) \/ GetRuntimeHealth(c)
  PROVE  IInv'
<1>1. CASE Initialize(c)
  BY <1>1, EnsureOK DEF Initialize, Ready
<1>2. CASE Request(c)
  BY <1>2, EnsureOK DEF Request, Ready
<1>3. CASE StartPlugin(c)
  BY <1>3, EnsureOK DEF StartPlugin, Ready
<1>4. CASE StopPlugin(c)
  <2>1. CASE DisposeProcess
    BY <1>4, <2>1, DisposeOK DEF StopPlugin
  <2>2. CASE Connected /\ Send(c, "stop")
    BY <1>4, <2>2, SendOK DEF StopPlugin, Kinds
  <2>. QED BY <1>4, <2>1, <2>2 DEF StopPlugin
<1>5. CASE GetRuntimeHealth(c)
  BY <1>5, SendOK DEF GetRuntimeHealth, Kinds, IInv, TypeOK
<1>. QED BY <1>1, <1>2, <1>3, <1>4, <1>5

\* The worker loads its plugin, or takes up an operation.
LEMMA WorkerOK ==
  ASSUME IInv, UNCHANGED closesEarly, LoadPlugin \/ \E c \in Calls : HandleOperation(c)
  PROVE  IInv'
<1>1. CASE LoadPlugin
  <2>1. CallsOK' /\ LoadingOK' /\ PendingIsCurrent'
    BY <1>1 DEF LoadPlugin, IInv, CallsOK, LoadingOK, PendingIsCurrent, Connected
  <2>. QED BY <1>1, <2>1, CallsChangeOK DEF LoadPlugin, IInv, TypeOK
<1>2. ASSUME NEW c \in Calls, HandleOperation(c) PROVE IInv'
  <2>. DEFINE at == IF plugin \/ call[c].op = "health" THEN "working" ELSE "refused"
  <2>1. /\ call' \in [Calls -> CallStates]
        /\ \A d \in Calls : d # c => call'[d] = call[d]
        /\ call'[c].at \in Pending /\ call'[c].op = call[c].op /\ call'[c].to = call[c].to
    BY <1>2 DEF HandleOperation, IInv, TypeOK, CallStates, Pending
  <2>2. call[c].at \in Pending /\ child # 0 /\ descriptor
    BY <1>2 DEF HandleOperation, IInv, CallsOK, LoadingOK, Connected, Idle, Loading, At, Pending
  <2>3. CallsOK' /\ PendingIsCurrent'
    BY <1>2, <2>1, <2>2 DEF HandleOperation, IInv, CallsOK, PendingIsCurrent, Pending
  <2>4. LoadingOK'
    BY <1>2, <2>1, <2>2 DEF HandleOperation, IInv, LoadingOK
  <2>. QED BY <1>2, <2>1, <2>3, <2>4, CallsChangeOK DEF HandleOperation, IInv, TypeOK
<1>. QED BY <1>1, <1>2

\* A message, a timer or a failed send ends a call.
LEMMA CallEndsOK ==
  ASSUME IInv, NEW c \in Calls, UNCHANGED closesEarly,
         HandleResult(c) \/ Timeout(c) \/ SendFails(c)
  PROVE  IInv'
<1>1. call[c].at \in Pending /\ child # 0
  BY DEF HandleResult, Timeout, SendFails, IInv, CallsOK, AllIdle, Idle, Pending
<1>2. CASE DisposeProcess /\ UNCHANGED pluginStarted
  BY <1>2, DisposeOK
<1>3. CASE Terminate
  BY <1>1, <1>3, CrashOK DEF Terminate
<1>4. CASE /\ call' = [call EXCEPT ![c] = Idle]
           /\ UNCHANGED <<child, spawned, process, plugin, descriptor, step, pluginStarted,
                          disposed, restartCount>>
  BY <1>1, <1>4, SettleOK
<1>. QED BY <1>2, <1>3, <1>4 DEF HandleResult, Timeout, SendFails

\* The initialization is over, once the descriptor is set or just being set:
\* either everyone who waits is sent, or only the loader waited.
LEMMA InitializedOK ==
  ASSUME IInv, Connected, Initialized, descriptor' = TRUE, step # "none",
         UNCHANGED <<child, spawned, process, plugin, disposed, restartCount, closesEarly>>
  PROVE  IInv'
<1>1. child # 0 /\ child \in 0..MaxSpawns
  BY DEF Connected, IInv, TypeOK
<1>2. \A c \in Calls :
        call'[c] = IF call[c].at # "waiting" THEN call[c]
                   ELSE IF call[c].op = "initialize" THEN Idle
                   ELSE At(call[c].op, "sent", child)
  BY DEF Initialized
<1>3. \A c \in Calls : At(call[c].op, "sent", child) \in CallStates
  BY <1>1 DEF IInv, TypeOK, At, CallStates, Pending
<1>4. call' \in [Calls -> CallStates]
  <2>1. \A c \in Calls : call'[c] \in CallStates
    BY <1>2, <1>3 DEF IInv, TypeOK, Idle, CallStates
  <2>. QED BY <2>1 DEF Initialized
<1>5. CallsOK' /\ PendingIsCurrent'
  <2>1. ASSUME NEW c \in Calls, call[c].at = "waiting", call[c].op # "initialize"
        PROVE  call'[c].at = "sent" /\ call'[c].to = child /\ call'[c].op = call[c].op
    <3>1. call'[c] = At(call[c].op, "sent", child)
      BY <1>2, <2>1
    <3>. QED BY <3>1 DEF At
  <2>2. \A c \in Calls : \/ call'[c] = call[c] /\ call[c].at # "waiting"
                        \/ call'[c] = Idle
                        \/ /\ call'[c].at = "sent" /\ call'[c].to = child
                           /\ call'[c].op # "none"
    BY <1>2, <2>1 DEF IInv, CallsOK
  <2>3. CallsOK'
    BY <1>1, <2>2 DEF IInv, CallsOK, Idle, Pending
  <2>4. PendingIsCurrent'
    BY <1>1, <2>2 DEF IInv, PendingIsCurrent, Idle, Pending
  <2>. QED BY <2>3, <2>4
<1>6. LoadingOK'
  <2>1. ASSUME NEW c \in Calls PROVE call'[c].op # "initialize"
    <3>1. call[c].at # "waiting" => call[c].op # "initialize"
      BY DEF IInv, LoadingOK, Loading, Idle, At
    <3>2. CASE call[c].at # "waiting"
      <4>1. call'[c] = call[c]
        BY <1>2, <3>2
      <4>. QED BY <3>1, <3>2, <4>1
    <3>3. CASE call[c].at = "waiting" /\ call[c].op = "initialize"
      <4>1. call'[c] = Idle
        BY <1>2, <3>3
      <4>. QED BY <4>1 DEF Idle
    <3>4. CASE call[c].at = "waiting" /\ call[c].op # "initialize"
      <4>1. call'[c] = At(call[c].op, "sent", child)
        BY <1>2, <3>4
      <4>. QED BY <3>4, <4>1 DEF At
    <3>. QED BY <3>2, <3>3, <3>4
  <2>. QED BY <2>1 DEF LoadingOK
<1>7. step' = "none" /\ pluginStarted' \in BOOLEAN
  BY DEF Initialized, IInv, TypeOK
<1>. QED BY <1>4, <1>5, <1>6, <1>7, CallsChangeOK DEF IInv, TypeOK

\* The answers to the requests of the initialization, and their timer.
LEMMA StepOK ==
  ASSUME IInv, UNCHANGED closesEarly, StepSucceeds \/ StepFails \/ StepTimeout
  PROVE  IInv'
<1>1. CASE StepSucceeds
  <2>1. CASE Initialized /\ step = "initialize"
    BY <1>1, <2>1, InitializedOK DEF StepSucceeds
  <2>2. CASE Initialized /\ step = "start"
    <3>1. descriptor = TRUE
      BY <1>1, <2>2 DEF StepSucceeds, IInv, TypeOK, LoadingOK
    <3>. QED BY <1>1, <2>2, <3>1, InitializedOK DEF StepSucceeds
  <2>3. CASE /\ step' \in {"configure", "start"} /\ descriptor' = TRUE
             /\ UNCHANGED <<call, pluginStarted>> /\ (descriptor \/ pluginStarted)
    <3>1. descriptor /\ child # 0
      BY <1>1, <2>3 DEF StepSucceeds, IInv, LoadingOK, Connected
    <3>2. CallsOK' /\ LoadingOK' /\ PendingIsCurrent'
      BY <1>1, <2>3, <3>1 DEF StepSucceeds, IInv, CallsOK, LoadingOK, PendingIsCurrent
    <3>. QED BY <1>1, <2>3, <3>2, CallsChangeOK DEF StepSucceeds, IInv, TypeOK
  <2>4. step = "configure" => descriptor = TRUE
    BY <1>1 DEF StepSucceeds, IInv, LoadingOK, TypeOK
  <2>. QED BY <1>1, <2>1, <2>2, <2>3, <2>4 DEF StepSucceeds
<1>2. CASE StepFails
  <2>1. CASE DisposeProcess /\ UNCHANGED pluginStarted
    BY <2>1, DisposeOK
  <2>2. CASE /\ \A c \in Calls : call[c].at = "waiting" => call[c].op # "initialize"
             /\ step' = "none"
             /\ call' = [c \in Calls |-> IF call[c].at = "waiting" THEN Idle ELSE call[c]]
             /\ UNCHANGED <<child, spawned, process, plugin, descriptor, pluginStarted,
                            disposed, restartCount>>
    <3>1. descriptor /\ child # 0
      BY <1>2, <2>2 DEF StepFails, IInv, LoadingOK, Loading, At, Connected
    <3>2. call' \in [Calls -> CallStates]
      BY <2>2 DEF IInv, TypeOK, Idle, CallStates
    <3>3. CallsOK' /\ LoadingOK' /\ PendingIsCurrent'
      BY <2>2, <3>1 DEF IInv, CallsOK, LoadingOK, PendingIsCurrent, Idle, Pending
    <3>. QED BY <2>2, <3>2, <3>3, CallsChangeOK DEF IInv, TypeOK
  <2>. QED BY <1>2, <2>1, <2>2 DEF StepFails
<1>3. CASE StepTimeout
  BY <1>3, CrashOK DEF StepTimeout, Terminate, IInv, CallsOK
<1>. QED BY <1>1, <1>2, <1>3

\* A channel that closes, or a process that exits: only that of the child is a
\* crash.
LEMMA ProcessOK ==
  ASSUME IInv, UNCHANGED closesEarly,
         StderrLimit \/ Close \/ \E p \in Numbers : Exit(p)
  PROVE  IInv'
<1>1. CASE StderrLimit
  BY <1>1, CrashOK DEF StderrLimit, Terminate
<1>2. ASSUME NEW p \in Numbers, NEW s \in {"closing", "gone"},
             process' = [process EXCEPT ![p] = s], p = child => closesEarly,
             UNCHANGED <<child, spawned, plugin, descriptor, step, pluginStarted, disposed,
                         restartCount, call>>
      PROVE  IInv'
  <2>1. TypeOK' /\ CallsOK' /\ CountOK' /\ PendingIsCurrent'
    BY <1>2 DEF IInv, TypeOK, CallsOK, CountOK, PendingIsCurrent
  <2>2. \A q \in Numbers : process'[q] = IF q = p THEN s ELSE process[q]
    BY <1>2 DEF IInv, TypeOK
  <2>3. ChildOK' /\ OneProcess' /\ (Connected' => Connected)
    BY <1>2, <2>2 DEF IInv, TypeOK, ChildOK, OneProcess, Connected
  <2>4. LoadingOK'
    BY <1>2, <2>3 DEF IInv, LoadingOK
  <2>. QED BY <2>1, <2>3, <2>4 DEF IInv
<1>3. CASE Close
  <2>1. child \in Numbers /\ closesEarly
    BY <1>3 DEF Close, Connected, IInv, TypeOK
  <2>2. /\ process' = [process EXCEPT ![child] = "closing"]
        /\ UNCHANGED <<child, spawned, plugin, descriptor, step, pluginStarted, disposed,
                       restartCount, call>>
    BY <1>3 DEF Close
  <2>. QED BY <1>2, <2>1, <2>2
<1>4. ASSUME NEW p \in Numbers, Exit(p) PROVE IInv'
  <2>1. CASE p = child /\ HandleCrash("gone")
    BY <2>1, CrashOK
  <2>2. CASE /\ p # child
             /\ process' = [process EXCEPT ![p] = "gone"]
             /\ UNCHANGED <<child, spawned, plugin, descriptor, step, pluginStarted,
                            disposed, restartCount, call>>
    BY <1>2, <2>2
  <2>. QED BY <1>4, <2>1, <2>2 DEF Exit
<1>. QED BY <1>1, <1>3, <1>4

\* Every step keeps the invariant.
LEMMA NextOK == IInv /\ [Next]_vars => IInv'
<1>. SUFFICES ASSUME IInv, [Next]_vars PROVE IInv'
  OBVIOUS
<1>1. CASE Next
  BY <1>1, RequestOK, WorkerOK, CallEndsOK, StepOK, ProcessOK DEF Next, Step
<1>2. CASE UNCHANGED vars
  BY <1>2 DEF vars, IInv, TypeOK, CallsOK, LoadingOK, CountOK, ChildOK, OneProcess,
              PendingIsCurrent, Connected
<1>. QED BY <1>1, <1>2

\* The invariant that the properties follow from.
THEOREM Invariance == Spec => []IInv
BY InitOK, NextOK, PTL DEF Spec

\* The types are right; a sandbox never counts more restarts than processes.
THEOREM TypeCorrect == Spec => []TypeOK
<1>1. IInv => TypeOK
  BY DEF IInv
<1>. QED BY <1>1, Invariance, PTL

\* No process but the child is ever left connected.
THEOREM OneIsConnected == Spec => []OneProcess
<1>1. IInv => OneProcess
  BY DEF IInv
<1>. QED BY <1>1, Invariance, PTL

\* What is pending is pending on the child.
THEOREM PendingOnTheChild == Spec => []PendingIsCurrent
<1>1. IInv => PendingIsCurrent
  BY DEF IInv
<1>. QED BY <1>1, Invariance, PTL

-----------------------------------------------------------------------------
(* What a process is given up for.                                         *)

LEMMA StepKeeps == IInv /\ [Next]_vars => KeptUnlessItsOwn
<1>. SUFFICES ASSUME IInv, [Next]_vars, ~closesEarly, Connected, child' # child
              PROVE  \/ process'[child] = "gone"
                     \/ StderrLimit \/ StepTimeout \/ StepFails
                     \/ \E c \in Calls : call[c].to = child
  BY DEF KeptUnlessItsOwn
<1>1. Step
  BY DEF Next, vars
<1>2. ASSUME NEW c \in Calls,
             Initialize(c) \/ Request(c) \/ StartPlugin(c) \/ StopPlugin(c) \/ GetRuntimeHealth(c)
      PROVE  FALSE
  <2>1. ~descriptor => step # "none"
    BY DEF IInv, LoadingOK
  <2>2. \A op : ~EnsureInitialized(c, op)
    BY <2>1 DEF EnsureInitialized
  <2>. QED BY <1>2, <2>2 DEF Initialize, Request, StartPlugin, StopPlugin, GetRuntimeHealth
<1>3. ASSUME NEW c \in Calls, HandleResult(c) \/ Timeout(c) \/ SendFails(c)
      PROVE  call[c].to = child
  <2>1. call[c].at \in Pending
    BY <1>3 DEF HandleResult, Timeout, SendFails, Pending
  <2>. QED BY <2>1 DEF IInv, PendingIsCurrent
<1>4. ASSUME NEW p \in Numbers, Exit(p) PROVE process'[child] = "gone"
  <2>1. p = child
    BY <1>4 DEF Exit
  <2>. QED BY <1>4, <2>1 DEF Exit, HandleCrash, IInv, TypeOK
<1>5. ~LoadPlugin /\ ~StepSucceeds /\ ~Close /\ \A c \in Calls : ~HandleOperation(c)
  BY DEF LoadPlugin, StepSucceeds, Close, HandleOperation
<1>. QED BY <1>1, <1>2, <1>3, <1>4, <1>5 DEF Step

\* A working process is given up only because of itself: the late exit of an
\* earlier one, a request or the loading of a plugin never takes it.
THEOREM ProcessKept == Spec => ProcessIsKept
<1>1. IInv /\ [Next]_vars => [KeptUnlessItsOwn]_vars
  BY StepKeeps
<1>. QED BY <1>1, Invariance, PTL DEF Spec, ProcessIsKept

-----------------------------------------------------------------------------
(* The sandbox implements FailStopService.                                 *)

\* What the calls are for the service, where channels do not close early.
Open == {c \in Calls : call[c] # Idle}
Server == [c \in Calls |-> call[c].to]

\* Everything is settled and the process goes.
LEMMA StopMaps ==
  ASSUME ~closesEarly, UNCHANGED <<closesEarly, spawned>>, child' = 0, RejectAll
  PROVE  Service!Next
<1>1. \A c \in Calls : call'[c] = Idle
  BY DEF RejectAll, AllIdle
<1>2. Service!Stop
  BY <1>1 DEF Service!Stop, Idle
<1>. QED BY <1>2 DEF Service!Next

\* Calls are settled.
LEMMA SettleMaps ==
  ASSUME ~closesEarly, UNCHANGED <<closesEarly, spawned, child>>, NEW C \in SUBSET Open,
         \A c \in Calls : call'[c] = IF c \in C THEN Idle ELSE call[c]
  PROVE  Service!Next
<1>1. Open' = Open \ C
  BY DEF Open
<1>2. Server' = [c \in Calls |-> IF c \in C THEN 0 ELSE Server[c]]
  BY DEF Server, Idle
<1>3. Service!Settle(C)
  BY <1>1, <1>2 DEF Service!Settle, Open, Server
<1>. QED BY <1>3 DEF Service!Next, Open

\* Calls are passed to the child.
LEMMA PassMaps ==
  ASSUME ~closesEarly, UNCHANGED <<closesEarly, spawned, child>>, child # 0,
         NEW C \in SUBSET Open, Open' = Open,
         \A c \in Calls : call'[c].to = IF c \in C THEN child ELSE call[c].to
  PROVE  Service!Next
<1>1. Server' = [c \in Calls |-> IF c \in C THEN child ELSE Server[c]]
  BY DEF Server
<1>2. Service!Pass(C)
  BY <1>1 DEF Service!Pass, Open, Server
<1>. QED BY <1>2 DEF Service!Next, Open

\* A call comes in, and is passed on at once or not.
LEMMA OpenMaps ==
  ASSUME ~closesEarly, UNCHANGED <<closesEarly, spawned, child>>, NEW c \in Calls,
         call[c] = Idle, call'[c] # Idle, \A d \in Calls : d # c => call'[d] = call[d],
         call'[c].to = 0 \/ (child # 0 /\ call'[c].to = child)
  PROVE  Service!Next
<1>1. c \notin Open /\ Open' = Open \cup {c}
  BY DEF Open
<1>2. Server' = Server \/ (child # 0 /\ Server' = [Server EXCEPT ![c] = child])
  <2>1. \A d \in Calls : d # c => call'[d].to = call[d].to
    OBVIOUS
  <2>2. CASE call'[c].to = 0
    <3>1. call[c].to = 0
      BY DEF Idle
    <3>. QED BY <2>1, <2>2, <3>1 DEF Server
  <2>3. CASE child # 0 /\ call'[c].to = child
    BY <2>1, <2>3 DEF Server
  <2>. QED BY <2>2, <2>3
<1>3. Service!Open(c)
  BY <1>1, <1>2 DEF Service!Open, Open, Server
<1>. QED BY <1>3 DEF Service!Next

\* A call comes in for which a process is forked.
LEMMA OpenFreshMaps ==
  ASSUME ~closesEarly, UNCHANGED closesEarly, NEW c \in Calls, call = AllIdle, child = 0,
         spawned' = spawned + 1, child' = spawned + 1,
         call'[c] # Idle, call'[c].to = 0, \A d \in Calls : d # c => call'[d] = call[d]
  PROVE  Service!Next
<1>1. c \notin Open /\ Open' = Open \cup {c}
  BY DEF Open, AllIdle
<1>2. Server = [d \in Calls |-> 0] /\ Server' = Server
  <2>1. \A d \in Calls : call[d].to = 0
    BY DEF AllIdle, Idle
  <2>2. \A d \in Calls : call'[d].to = 0
    BY <2>1
  <2>. QED BY <2>1, <2>2 DEF Server
<1>3. Service!OpenFresh(c)
  BY <1>1, <1>2 DEF Service!OpenFresh, Open, Server
<1>. QED BY <1>3 DEF Service!Next

\* A step in which no call is opened, passed or settled.
LEMMA StutterMaps ==
  ASSUME ~closesEarly, UNCHANGED <<closesEarly, spawned, child>>,
         Open' = Open, Server' = Server
  PROVE  UNCHANGED Service!vars
BY DEF Service!vars, Open, Server

\* Before anything is forked there is nothing to serve.
LEMMA InitMaps == Init => Service!Init
BY DEF Init, AllIdle, Idle, Service!Init

LEMMA EnsureMaps ==
  ASSUME IInv, ~closesEarly, UNCHANGED closesEarly, NEW c \in Calls,
         NEW op \in {"initialize", "request", "start"},
         call[c] = Idle, EnsureInitialized(c, op)
  PROVE  Service!Next
<1>1. call \in [Calls -> CallStates] /\ child \in 0..MaxSpawns
  BY DEF IInv, TypeOK
<1>2. ASSUME NEW at \in {"sent", "waiting"}, NEW to, call' = [call EXCEPT ![c] = At(op, at, to)]
      PROVE  /\ call'[c] # Idle /\ call'[c].to = to
             /\ \A d \in Calls : d # c => call'[d] = call[d]
  <2>1. call'[c] = At(op, at, to) /\ \A d \in Calls : d # c => call'[d] = call[d]
    BY <1>1, <1>2
  <2>. QED BY <2>1 DEF At, Idle
<1>3. CASE Connected /\ Send(c, op) /\ UNCHANGED <<child, spawned>>
  BY <1>2, <1>3, OpenMaps DEF Send, Connected
<1>4. CASE call' = [call EXCEPT ![c] = At(op, "waiting", 0)] /\ UNCHANGED <<child, spawned>>
  BY <1>2, <1>4, OpenMaps
<1>5. CASE /\ ~(Connected /\ descriptor) /\ step = "none"
           /\ spawned' = spawned + 1 /\ child' = spawned + 1
           /\ call' = [call EXCEPT ![c] = At(op, "waiting", 0)]
  <2>1. child = 0 /\ call = AllIdle
    BY <1>5 DEF IInv, LoadingOK, ChildOK, CallsOK, Connected
  <2>. QED BY <1>2, <1>5, <2>1, OpenFreshMaps
<1>. QED BY <1>3, <1>4, <1>5 DEF EnsureInitialized

LEMMA RequestMaps ==
  ASSUME IInv, ~closesEarly, UNCHANGED closesEarly, NEW c \in Calls,
         Initialize(c) \/ Request(c) \/ StartPlugin(c) \/ StopPlugin(c) \/ GetRuntimeHealth(c)
  PROVE  Service!Next
<1>1. CASE Initialize(c) \/ Request(c) \/ StartPlugin(c)
  BY <1>1, EnsureMaps DEF Initialize, Request, StartPlugin, Ready
<1>2. CASE DisposeProcess
  BY <1>2, StopMaps DEF DisposeProcess
<1>3. ASSUME NEW op \in {"stop", "health"}, call[c] = Idle, Connected, Send(c, op),
             UNCHANGED <<child, spawned>>
      PROVE  Service!Next
  <2>1. call'[c] = At(op, "sent", child) /\ \A d \in Calls : d # c => call'[d] = call[d]
    BY <1>3 DEF Send, IInv, TypeOK
  <2>2. call'[c] # Idle /\ call'[c].to = child /\ child # 0
    BY <1>3, <2>1 DEF At, Idle, Connected
  <2>. QED BY <1>3, <2>1, <2>2, OpenMaps
<1>. QED BY <1>1, <1>2, <1>3 DEF StopPlugin, GetRuntimeHealth, Ready

LEMMA WorkerMaps ==
  ASSUME IInv, ~closesEarly, UNCHANGED closesEarly,
         LoadPlugin \/ \E c \in Calls : HandleOperation(c)
  PROVE  UNCHANGED Service!vars
<1>1. CASE LoadPlugin
  BY <1>1, StutterMaps DEF LoadPlugin, Open, Server
<1>2. ASSUME NEW c \in Calls, HandleOperation(c) PROVE UNCHANGED Service!vars
  <2>1. /\ \A d \in Calls : d # c => call'[d] = call[d]
        /\ call'[c].at \in Pending /\ call'[c].to = call[c].to
    BY <1>2 DEF HandleOperation, IInv, TypeOK, CallStates, Pending
  <2>2. call[c] # Idle /\ call'[c] # Idle
    BY <1>2, <2>1 DEF HandleOperation, Idle, Pending
  <2>3. Open' = Open /\ Server' = Server
    BY <2>1, <2>2 DEF Open, Server
  <2>. QED BY <1>2, <2>3, StutterMaps DEF HandleOperation
<1>. QED BY <1>1, <1>2

LEMMA CallEndsMaps ==
  ASSUME IInv, ~closesEarly, UNCHANGED closesEarly, NEW c \in Calls,
         HandleResult(c) \/ Timeout(c) \/ SendFails(c)
  PROVE  Service!Next
<1>1. c \in Open
  BY DEF HandleResult, Timeout, SendFails, Open, Idle, Pending
<1>2. CASE DisposeProcess
  BY <1>2, StopMaps DEF DisposeProcess
<1>3. CASE Terminate
  BY <1>3, StopMaps DEF Terminate, HandleCrash
<1>4. CASE call' = [call EXCEPT ![c] = Idle] /\ UNCHANGED <<child, spawned>>
  <2>1. \A d \in Calls : call'[d] = IF d \in {c} THEN Idle ELSE call[d]
    BY <1>4 DEF IInv, TypeOK
  <2>. QED BY <1>1, <1>4, <2>1, SettleMaps
<1>. QED BY <1>2, <1>3, <1>4 DEF HandleResult, Timeout, SendFails

\* At the end of the initialization the loader's call is settled, or those that
\* waited are passed on, never both.
LEMMA InitializedMaps ==
  ASSUME IInv, ~closesEarly, UNCHANGED <<closesEarly, child, spawned>>, Connected, Initialized
  PROVE  Service!Next
<1>. DEFINE W == {c \in Calls : call[c].at = "waiting"}
<1>1. W \in SUBSET Open /\ child # 0
  BY DEF Open, Idle, Connected
<1>2. \A c \in Calls :
        call'[c] = IF c \notin W THEN call[c]
                   ELSE IF call[c].op = "initialize" THEN Idle
                   ELSE At(call[c].op, "sent", child)
  BY DEF Initialized
<1>3. CASE ~descriptor
  <2>1. \A c \in W : call[c].op = "initialize"
    BY <1>3 DEF IInv, LoadingOK, Loading, At, Idle
  <2>2. \A c \in Calls : call'[c] = IF c \in W THEN Idle ELSE call[c]
    BY <1>2, <2>1
  <2>. QED BY <1>1, <2>2, SettleMaps
<1>4. CASE descriptor
  <2>1. \A c \in W : call'[c] = At(call[c].op, "sent", child)
    BY <1>2, <1>4 DEF IInv, LoadingOK
  <2>2. ASSUME NEW c \in W PROVE call'[c].to = child /\ call'[c] # Idle
    <3>1. call'[c] = At(call[c].op, "sent", child)
      BY <2>1
    <3>. QED BY <3>1 DEF At, Idle
  <2>3. \A c \in Calls \ W : call'[c] = call[c]
    BY <1>2
  <2>4. Open' = Open
    BY <1>1, <2>2, <2>3 DEF Open
  <2>. QED BY <1>1, <2>2, <2>3, <2>4, PassMaps
<1>. QED BY <1>3, <1>4

LEMMA StepMaps ==
  ASSUME IInv, ~closesEarly, UNCHANGED closesEarly, StepSucceeds \/ StepFails \/ StepTimeout
  PROVE  Service!Next \/ UNCHANGED Service!vars
<1>1. CASE Connected /\ Initialized /\ UNCHANGED <<child, spawned>>
  BY <1>1, InitializedMaps
<1>2. CASE UNCHANGED <<child, spawned, call>>
  BY <1>2, StutterMaps DEF Open, Server
<1>3. CASE DisposeProcess
  BY <1>3, StopMaps DEF DisposeProcess
<1>4. CASE Terminate
  BY <1>4, StopMaps DEF Terminate, HandleCrash
<1>5. CASE /\ call' = [c \in Calls |-> IF call[c].at = "waiting" THEN Idle ELSE call[c]]
           /\ UNCHANGED <<child, spawned>>
  <2>. DEFINE W == {c \in Calls : call[c].at = "waiting"}
  <2>1. W \in SUBSET Open
    BY DEF Open, Idle
  <2>2. \A c \in Calls : call'[c] = IF c \in W THEN Idle ELSE call[c]
    BY <1>5
  <2>. QED BY <1>5, <2>1, <2>2, SettleMaps
<1>. QED BY <1>1, <1>2, <1>3, <1>4, <1>5 DEF StepSucceeds, StepFails, StepTimeout

LEMMA ProcessMaps ==
  ASSUME IInv, ~closesEarly, UNCHANGED closesEarly,
         StderrLimit \/ Close \/ \E p \in Numbers : Exit(p)
  PROVE  Service!Next \/ UNCHANGED Service!vars
<1>1. CASE \E s \in {"closing", "gone"} : HandleCrash(s)
  BY <1>1, StopMaps DEF HandleCrash
<1>2. CASE UNCHANGED <<child, spawned, call>>
  BY <1>2, StutterMaps DEF Open, Server
<1>. QED BY <1>1, <1>2 DEF StderrLimit, Close, Exit, Terminate

\* Where channels close early the service does nothing.
LEMMA EarlyMaps == ASSUME closesEarly, UNCHANGED closesEarly PROVE UNCHANGED Service!vars
BY DEF Service!vars

\* Every step of the sandbox is one of the service, or none.
LEMMA NextMaps == IInv /\ [Next]_vars => [Service!Next]_(Service!vars)
<1>. SUFFICES ASSUME IInv, [Next]_vars PROVE Service!Next \/ UNCHANGED Service!vars
  OBVIOUS
<1>1. UNCHANGED closesEarly
  BY DEF Next, vars
<1>2. CASE closesEarly
  BY <1>1, <1>2, EarlyMaps
<1>3. CASE ~closesEarly /\ Next
  BY <1>1, <1>3, RequestMaps, WorkerMaps, CallEndsMaps, StepMaps, ProcessMaps DEF Next, Step
<1>4. CASE ~closesEarly /\ UNCHANGED vars
  BY <1>4, StutterMaps DEF vars, Open, Server
<1>. QED BY <1>2, <1>3, <1>4

\* To its callers the sandbox is the fail-stop service, whatever exits, answers
\* and timers do.
THEOREM Refinement == Spec => IsFailStop
BY Invariance, InitMaps, NextMaps, PTL DEF Spec, IsFailStop, Service!Spec

=============================================================================
