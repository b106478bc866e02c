----------------------- MODULE PluginLifecycle_proofs -----------------------
(***************************************************************************)
(* For any numbers of concurrent calls and crash reports and any threshold *)
(* the registry's state is well typed, the status of a plugin agrees with  *)
(* its enabled flag, and the state file with both.  None of it is          *)
(* inductive: start() and stop() write back the entry they read before     *)
(* their await, so the invariant also says which entries can be waiting in *)
(* the calls, and which writes are waiting for the file.                   *)
(***************************************************************************)
EXTENDS PluginLifecycle, SequenceTheorems, TLAPS

\* The entry a call has read and may write back: start() reads an enabled
\* plugin's, stop() a started one's.
SnapOK(s) ==
  /\ Consistent(s.snap)
  /\ s.at \in {"configuring", "starting"} => s.snap.enabled
  /\ s.at = "stopping" => s.snap.status = "started"

\* What the invariant says of the calls, of the registry's maps, of the plugin
\* object and of the state file.
CallsOK(f) == /\ f \in [Actors -> CallStates]
              /\ \A a \in Actors : SnapOK(f[a])

RegistryOK == /\ plugins \in BOOLEAN
              /\ runtime \in Entries
              /\ announced \in BOOLEAN
              /\ Consistent(runtime)
              /\ plugins => runtime.status # "none"

CountOK == crashHistory \in 0..Threshold

ObjectOK == process \in {"down", "idle", "running"} /\ wants \in BOOLEAN

DiskOK == stored \in StoredStates /\ writeQueue \in Seq(Writes) /\ stale \in BOOLEAN

IInv == RegistryOK /\ CountOK /\ ObjectOK /\ DiskOK /\ CallsOK(call)

-----------------------------------------------------------------------------
(* The parts of the handlers.                                              *)

\* Neither a process exit nor the replacement of the plugin object changes
\* what the calls have read (Doom and Orphan mark calls, no more).
LEMMA DoomOK == ASSUME NEW f, CallsOK(f) PROVE CallsOK(Doom(f))
BY DEF CallsOK, Doom, CallStates, SnapOK

LEMMA OrphanOK == ASSUME NEW f, CallsOK(f) PROVE CallsOK(Orphan(f))
BY DEF CallsOK, Orphan, CallStates, SnapOK

\* A call that moves on with an entry fit for its next position keeps the
\* calls well formed.
LEMMA GotoOK ==
  ASSUME NEW f, CallsOK(f), NEW c \in Actors,
         NEW op \in Operations, NEW at \in Positions, NEW r \in Entries,
         SnapOK(At(op, at, r)), Goto(f, c, op, at, r)
  PROVE  CallsOK(call')
BY DEF CallsOK, Goto, At, CallStates

LEMMA ReturnOK ==
  ASSUME NEW f, CallsOK(f), NEW c \in Actors, Return(f, c)
  PROVE  CallsOK(call')
BY DEF CallsOK, Return, Idle, CallStates, SnapOK, Consistent, NoEntry, Entry,
       Entries, Statuses, Operations, Positions

\* Enqueuing a write of a consistent entry.
LEMMA SaveOK ==
  ASSUME NEW f, CallsOK(f), NEW c \in Actors, DiskOK,
         NEW op \in Operations, NEW r \in Entries, Consistent(r),
         NEW h \in 0..Threshold, Save(f, c, op, r, h)
  PROVE  DiskOK' /\ CallsOK(call')
<1>1. Snapshot(r, h) \in StoredStates
  BY DEF Snapshot, StoredStates, Entries
<1>2. [by |-> c, partial |-> FALSE, entry |-> Snapshot(r, h)] \in Writes
  BY <1>1 DEF Writes
<1>3. DiskOK'
  BY <1>2, AppendProperties DEF Save, DiskOK
<1>4. SnapOK(At(op, "saving", r))
  BY DEF SnapOK, At
<1>5. CallsOK(call')
  <2>1. "saving" \in Positions
    BY DEF Positions
  <2>2. Goto(f, c, op, "saving", r)
    BY DEF Save
  <2>. QED  BY <1>4, <2>1, <2>2, GotoOK
<1>. QED  BY <1>3, <1>5

\* start() only goes on with an enabled plugin.
LEMMA StartOK ==
  ASSUME NEW f, CallsOK(f), NEW c \in Actors, ObjectOK,
         NEW op \in Operations, NEW r \in Entries, Consistent(r),
         Start(f, c, op, r)
  PROVE  ObjectOK' /\ CallsOK(call')
<1>1. CASE Return(f, c) /\ UNCHANGED object
  BY <1>1, ReturnOK DEF object, ObjectOK
<1>2. CASE /\ r.enabled
           /\ Goto(f, c, op, "configuring", r)
           /\ process' \in Spawned
           /\ UNCHANGED wants
  <2>1. ObjectOK'
    BY <1>2 DEF Spawned, ObjectOK
  <2>2. SnapOK(At(op, "configuring", r)) /\ "configuring" \in Positions
    BY <1>2 DEF SnapOK, At, Positions
  <2>. QED  BY <1>2, <2>1, <2>2, GotoOK
<1>. QED  BY <1>1, <1>2 DEF Start

\* What follows a stop: the entry written back must be one of an enabled
\* plugin, or the entry that is there already.
LEMMA AfterStopOK ==
  ASSUME NEW f, CallsOK(f), NEW c \in Actors, RegistryOK, CountOK, DiskOK,
         NEW op \in Operations, NEW old \in Entries, Consistent(old),
         NEW r \in Entries, Consistent(r), plugins /\ op # "unregister" => r.status # "none",
         AfterStop(f, c, op, old, r)
  PROVE  RegistryOK' /\ CountOK' /\ DiskOK' /\ CallsOK(call')
<1>1. CASE op = "disable"
  <2>1. Disabled \in Entries /\ Consistent(Disabled) /\ Disabled.status # "none"
    BY DEF Disabled, Entry, Entries, Statuses, Consistent
  <2>2. /\ runtime' = Disabled /\ announced' = FALSE
        /\ Save(f, c, op, Disabled, crashHistory)
        /\ UNCHANGED <<plugins, crashHistory>>
    BY <1>1 DEF AfterStop
  <2>3. RegistryOK'
    BY <2>1, <2>2 DEF RegistryOK
  <2>4. CountOK' /\ DiskOK' /\ CallsOK(call')
    BY <2>1, <2>2, SaveOK DEF CountOK
  <2>. QED  BY <2>3, <2>4
<1>2. CASE op = "unregister"
  <2>1. /\ plugins' = FALSE /\ runtime' = NoEntry /\ crashHistory' = 0
        /\ announced' = FALSE /\ Return(Orphan(f), c) /\ UNCHANGED disk
    BY <1>2 DEF AfterStop
  <2>2. RegistryOK'
    BY <2>1 DEF RegistryOK, NoEntry, Entry, Entries, Statuses, Consistent
  <2>3. CallsOK(call')
    BY <2>1, OrphanOK, ReturnOK
  <2>4. CountOK'
    BY <2>1, LifecycleAssumption DEF CountOK
  <2>. QED  BY <2>1, <2>2, <2>3, <2>4 DEF DiskOK, disk
<1>3. CASE op = "reload"
  <2>1. /\ runtime' = r /\ Goto(f, c, op, "reloading", old)
        /\ UNCHANGED <<plugins, crashHistory, disk, announced>>
    BY <1>3 DEF AfterStop
  <2>2. SnapOK(At(op, "reloading", old)) /\ "reloading" \in Positions
    BY DEF SnapOK, At, Positions
  <2>3. CallsOK(call')
    BY <2>1, <2>2, GotoOK
  <2>. QED  BY <1>3, <2>1, <2>3 DEF RegistryOK, CountOK, DiskOK, disk
<1>4. CASE op = "stopAll"
  <2>1. /\ runtime' = r /\ Return(f, c)
        /\ UNCHANGED <<plugins, crashHistory, disk, announced>>
    BY <1>4 DEF AfterStop
  <2>. QED  BY <1>4, <2>1, ReturnOK DEF RegistryOK, CountOK, DiskOK, disk
<1>. QED  BY <1>1, <1>2, <1>3, <1>4 DEF AfterStop

\* A failure keeps a quarantine and leaves the flag alone.
LEMMA FailedOK ==
  ASSUME RegistryOK, CallsOK(call), NEW c \in Actors
  PROVE  Failed(c) \in Entries /\ Consistent(Failed(c)) /\ Failed(c).status # "none"
<1>. DEFINE base == IF runtime = NoEntry THEN call[c].snap ELSE runtime
<1>1. call[c].snap \in Entries /\ Consistent(call[c].snap)
  BY DEF CallsOK, CallStates, SnapOK
<1>2. base \in Entries /\ Consistent(base)
  BY <1>1 DEF RegistryOK
<1>3. Failed(c) = [base EXCEPT !.status = IF base.status = "quarantined"
                                          THEN base.status ELSE "failed"]
  BY DEF Failed
<1>. HIDE DEF base
<1>. QED  BY <1>2, <1>3 DEF Entries, Statuses, Consistent

-----------------------------------------------------------------------------
(* Every step keeps the invariant.                                         *)

LEMMA InitOK == Init => IInv
<1>. SUFFICES ASSUME Init PROVE IInv
  OBVIOUS
<1>1. RegistryOK /\ ObjectOK
  BY DEF Init, RegistryOK, ObjectOK, Entry, Entries, Statuses, Consistent
<1>2. CountOK
  BY LifecycleAssumption DEF Init, CountOK
<1>3. DiskOK
  <2>1. NothingStored \in StoredStates
    BY LifecycleAssumption DEF StoredStates, NothingStored
  <2>. QED  BY <2>1, EmptySeq DEF Init, DiskOK
<1>4. CallsOK(call)
  BY DEF Init, CallsOK, CallStates, SnapOK, Consistent, At, Idle, NoEntry, Entry,
         Entries, Statuses, Operations, Positions
<1>. QED  BY <1>1, <1>2, <1>3, <1>4 DEF IInv

\* The requests that stop a plugin first.
LEMMA StopOK ==
  ASSUME IInv, NEW c \in Calls, NEW op \in Operations, plugins, Stop(c, op)
  PROVE  IInv'
<1>1. /\ c \in Actors /\ RegistryOK /\ CountOK /\ ObjectOK /\ DiskOK /\ CallsOK(call)
      /\ runtime \in Entries /\ Consistent(runtime) /\ runtime.status # "none"
  BY DEF IInv, RegistryOK, Actors
<1>2. CASE AfterStop(call, c, op, runtime, runtime) /\ UNCHANGED object
  BY <1>1, <1>2, AfterStopOK DEF IInv, ObjectOK, object
<1>3. CASE /\ runtime.status = "started"
           /\ AfterStop(call, c, op, runtime, [runtime EXCEPT !.status = "stopped"])
           /\ wants' = FALSE /\ UNCHANGED process
  <2>. DEFINE r == [runtime EXCEPT !.status = "stopped"]
  <2>1. r \in Entries /\ Consistent(r) /\ r.status # "none"
    BY <1>1, <1>3 DEF Entries, Statuses, Consistent
  <2>2. AfterStop(call, c, op, runtime, r)
    BY <1>3
  <2>. HIDE DEF r
  <2>3. RegistryOK' /\ CountOK' /\ DiskOK' /\ CallsOK(call')
    BY <1>1, <2>1, <2>2, AfterStopOK
  <2>. QED  BY <1>1, <1>3, <2>3 DEF IInv, ObjectOK
<1>4. CASE /\ runtime.status = "started"
           /\ Goto(call, c, op, "stopping", runtime)
           /\ wants' = FALSE
           /\ UNCHANGED <<registry, process, disk, announced>>
  <2>1. SnapOK(At(op, "stopping", runtime)) /\ "stopping" \in Positions
    BY <1>1, <1>4 DEF SnapOK, At, Positions
  <2>2. CallsOK(call')
    BY <1>1, <1>4, <2>1, GotoOK
  <2>3. RegistryOK' /\ CountOK' /\ ObjectOK' /\ DiskOK'
    BY <1>1, <1>4 DEF RegistryOK, CountOK, ObjectOK, DiskOK, registry, disk
  <2>. QED  BY <2>2, <2>3 DEF IInv
<1>. QED  BY <1>2, <1>3, <1>4 DEF Stop

LEMMA RequestOK == ASSUME IInv, NEW c \in Calls, Request(c) PROVE IInv'
<1>1. c \in Actors /\ RegistryOK /\ CountOK /\ ObjectOK /\ DiskOK /\ CallsOK(call)
  BY DEF IInv, Actors
<1>2. /\ {"enable", "disable", "reload", "unregister", "stopAll", "configure",
          "install"} \subseteq Operations
      /\ {"applying", "installing"} \subseteq Positions
  BY DEF Operations, Positions
<1>3. CASE EnablePlugin(c)
  <2>. DEFINE enabled == Entry(IF runtime.status \in {"disabled", "quarantined"}
                               THEN "registered" ELSE runtime.status, TRUE)
  <2>1. enabled \in Entries /\ Consistent(enabled) /\ enabled.status # "none"
    BY <1>1, <1>3 DEF EnablePlugin, RegistryOK, Entry, Entries, Statuses, Consistent
  <2>2. /\ crashHistory' = 0 /\ runtime' = enabled /\ announced' = FALSE
        /\ Save(call, c, "enable", enabled, 0) /\ UNCHANGED <<plugins, object>>
    BY <1>3 DEF EnablePlugin
  <2>. HIDE DEF enabled
  <2>3. 0 \in 0..Threshold
    BY LifecycleAssumption
  <2>4. RegistryOK' /\ ObjectOK'
    BY <1>1, <2>1, <2>2 DEF RegistryOK, ObjectOK, object
  <2>5. CountOK' /\ DiskOK' /\ CallsOK(call')
    BY <1>1, <1>2, <2>1, <2>2, <2>3, SaveOK DEF CountOK
  <2>. QED  BY <2>4, <2>5 DEF IInv
<1>4. CASE DisablePlugin(c)
  BY <1>2, <1>4, StopOK DEF DisablePlugin
<1>5. CASE ReloadPlugin(c)
  BY <1>2, <1>5, StopOK DEF ReloadPlugin
<1>6. CASE UnregisterPlugin(c)
  BY <1>2, <1>6, StopOK DEF UnregisterPlugin
<1>7. CASE StopAll(c)
  BY <1>2, <1>7, StopOK DEF StopAll
<1>8. CASE UpdatePluginConfig(c)
  <2>1. /\ Goto(call, c, "configure", "applying", runtime)
        /\ process' \in Spawned
        /\ UNCHANGED <<registry, wants, disk, announced>>
    BY <1>8 DEF UpdatePluginConfig
  <2>2. SnapOK(At("configure", "applying", runtime)) /\ runtime \in Entries
    BY <1>1 DEF RegistryOK, SnapOK, At
  <2>3. CallsOK(call')
    BY <1>1, <1>2, <2>1, <2>2, GotoOK
  <2>4. RegistryOK' /\ CountOK' /\ ObjectOK' /\ DiskOK'
    BY <1>1, <2>1 DEF RegistryOK, CountOK, ObjectOK, DiskOK, registry, disk, Spawned
  <2>. QED  BY <2>3, <2>4 DEF IInv
<1>9. CASE InstallPlugin(c)
  <2>1. /\ Goto(call, c, "install", "installing", NoEntry)
        /\ UNCHANGED <<registry, object, disk, announced>>
    BY <1>9 DEF InstallPlugin
  <2>2. SnapOK(At("install", "installing", NoEntry)) /\ NoEntry \in Entries
    BY DEF SnapOK, At, NoEntry, Entry, Entries, Statuses, Consistent
  <2>3. CallsOK(call')
    BY <1>1, <1>2, <2>1, <2>2, GotoOK
  <2>4. RegistryOK' /\ CountOK' /\ ObjectOK' /\ DiskOK'
    BY <1>1, <2>1 DEF RegistryOK, CountOK, ObjectOK, DiskOK, registry, disk, object
  <2>. QED  BY <2>3, <2>4 DEF IInv
<1>. QED  BY <1>3, <1>4, <1>5, <1>6, <1>7, <1>8, <1>9 DEF Request

\* What a call has read, and its failure, whatever it waits for.
LEMMA SnapFacts ==
  ASSUME IInv, NEW c \in Actors
  PROVE  /\ RegistryOK /\ CountOK /\ ObjectOK /\ DiskOK /\ CallsOK(call)
         /\ call[c].op \in Operations /\ call[c].snap \in Entries
         /\ Consistent(call[c].snap) /\ SnapOK(call[c])
         /\ Failed(c) \in Entries /\ Consistent(Failed(c)) /\ Failed(c).status # "none"
BY FailedOK DEF IInv, CallsOK, CallStates, SnapOK

LEMMA StopAnswerOK ==
  ASSUME IInv, NEW c \in Calls, StopSucceeds(c) \/ StopFails(c)
  PROVE  IInv'
<1>1. c \in Actors
  BY DEF Actors
<1>. DEFINE others == IF Isolated /\ call[c].current THEN Doom(call) ELSE call
<1>2. CallsOK(others)
  BY <1>1, SnapFacts, DoomOK
<1>3. CASE StopSucceeds(c)
  <2>. DEFINE r == [call[c].snap EXCEPT !.status = "stopped"]
  <2>1. /\ call[c].at = "stopping"
        /\ AfterStop(others, c, call[c].op, call[c].snap, r)
        /\ process' \in {process, "down", "idle"} /\ UNCHANGED wants
    BY <1>3 DEF StopSucceeds
  <2>2. r \in Entries /\ Consistent(r) /\ r.status # "none"
    BY <1>1, <2>1, SnapFacts DEF SnapOK, Entries, Statuses, Consistent
  <2>. HIDE DEF r, others
  <2>3. RegistryOK' /\ CountOK' /\ DiskOK' /\ CallsOK(call')
    BY <1>1, <1>2, <2>1, <2>2, SnapFacts, AfterStopOK
  <2>. QED  BY <1>1, <2>1, <2>3, SnapFacts DEF IInv, ObjectOK
<1>4. CASE StopFails(c)
  <2>1. /\ runtime' = Failed(c) /\ process' \in {process, "down"} /\ Return(others, c)
        /\ UNCHANGED <<plugins, crashHistory, wants, disk, announced>>
    BY <1>4 DEF StopFails
  <2>. HIDE DEF others
  <2>2. RegistryOK' /\ ObjectOK' /\ DiskOK'
    BY <1>1, <2>1, SnapFacts DEF RegistryOK, ObjectOK, DiskOK, disk
  <2>3. CountOK' /\ CallsOK(call')
    BY <1>1, <1>2, <2>1, ReturnOK, SnapFacts DEF CountOK
  <2>. QED  BY <2>2, <2>3 DEF IInv
<1>. QED  BY <1>3, <1>4

LEMMA StartAnswerOK ==
  ASSUME IInv, NEW c \in Calls,
         ConfigureSucceeds(c) \/ StartSucceeds(c) \/ StartFails(c)
  PROVE  IInv'
<1>1. c \in Actors
  BY DEF Actors
<1>2. CASE ConfigureSucceeds(c)
  <2>1. /\ call[c].at = "configuring"
        /\ call' = [call EXCEPT ![c].at = "starting"]
        /\ wants' = (wants \/ call[c].current)
        /\ UNCHANGED <<registry, process, disk, announced>>
    BY <1>2 DEF ConfigureSucceeds
  <2>2. CallsOK(call')
    BY <1>1, <2>1, SnapFacts DEF CallsOK, CallStates, SnapOK, Positions
  <2>3. RegistryOK' /\ CountOK' /\ DiskOK'
    BY <1>1, <2>1, SnapFacts DEF RegistryOK, CountOK, DiskOK, registry, disk
  <2>4. ObjectOK'
    BY <1>1, <2>1, SnapFacts DEF ObjectOK, CallsOK, CallStates
  <2>. QED  BY <2>2, <2>3, <2>4 DEF IInv
<1>3. CASE StartSucceeds(c)
  <2>. DEFINE r == [call[c].snap EXCEPT !.status = "started"]
  <2>1. /\ call[c].at = "starting" /\ runtime' = r
        /\ process' \in {process, "running"} /\ Return(call, c)
        /\ UNCHANGED <<plugins, crashHistory, wants, disk, announced>>
    BY <1>3 DEF StartSucceeds
  <2>2. r \in Entries /\ Consistent(r) /\ r.status # "none"
    BY <1>1, <2>1, SnapFacts DEF SnapOK, Entries, Statuses, Consistent
  <2>. HIDE DEF r
  <2>3. RegistryOK' /\ ObjectOK' /\ DiskOK'
    BY <1>1, <2>1, <2>2, SnapFacts DEF RegistryOK, ObjectOK, DiskOK, disk
  <2>4. CountOK' /\ CallsOK(call')
    BY <1>1, <2>1, ReturnOK, SnapFacts DEF CountOK
  <2>. QED  BY <2>3, <2>4 DEF IInv
<1>4. CASE StartFails(c)
  <2>1. CASE /\ runtime' = Failed(c) /\ Return(call, c)
             /\ UNCHANGED <<plugins, crashHistory, disk, announced>>
    <3>1. RegistryOK' /\ DiskOK'
      BY <1>1, <2>1, SnapFacts DEF RegistryOK, DiskOK, disk
    <3>2. CountOK' /\ CallsOK(call')
      BY <1>1, <2>1, ReturnOK, SnapFacts DEF CountOK
    <3>. QED  BY <1>1, <1>4, <3>1, <3>2, SnapFacts DEF StartFails, IInv, ObjectOK, object
  <2>2. CASE AfterStop(call, c, "unregister", NoEntry, NoEntry)
    <3>1. NoEntry \in Entries /\ Consistent(NoEntry) /\ "unregister" \in Operations
      BY DEF NoEntry, Entry, Entries, Statuses, Consistent, Operations
    <3>2. RegistryOK' /\ CountOK' /\ DiskOK' /\ CallsOK(call')
      BY <1>1, <2>2, <3>1, SnapFacts, AfterStopOK
    <3>. QED  BY <1>1, <1>4, <3>2, SnapFacts DEF StartFails, IInv, ObjectOK, object
  <2>. QED  BY <1>4, <2>1, <2>2 DEF StartFails
<1>. QED  BY <1>2, <1>3, <1>4

LEMMA ResolveOK == ASSUME IInv, NEW c \in Calls, Resolve(c) PROVE IInv'
<1>1. c \in Actors
  BY DEF Actors
<1>2. CASE ApplyReturns(c)
  <2>1. /\ runtime' \in {runtime, Failed(c)} /\ Return(call, c)
        /\ plugins' = plugins /\ announced' = announced
        /\ UNCHANGED <<crashHistory, object, disk>>
    BY <1>2 DEF ApplyReturns
  <2>2. RegistryOK' /\ ObjectOK' /\ DiskOK'
    BY <1>1, <2>1, SnapFacts DEF RegistryOK, ObjectOK, DiskOK, object, disk
  <2>3. CountOK' /\ CallsOK(call')
    BY <1>1, <2>1, ReturnOK, SnapFacts DEF CountOK
  <2>. QED  BY <2>2, <2>3 DEF IInv
<1>3. CASE ReloadSucceeds(c)
  <2>. DEFINE enabled == call[c].snap.status = "quarantined" \/ call[c].snap.enabled
              fresh == IF enabled THEN Entry("registered", TRUE) ELSE Disabled
  <2>1. /\ plugins' = TRUE /\ runtime' = fresh /\ crashHistory' = 0
        /\ process' = "idle" /\ wants' = FALSE /\ announced' = FALSE
        /\ Save(Orphan(call), c, "reload", fresh, 0)
    BY <1>3 DEF ReloadSucceeds
  <2>2. fresh \in Entries /\ Consistent(fresh) /\ fresh.status # "none"
    BY DEF Disabled, Entry, Entries, Statuses, Consistent
  <2>. HIDE DEF fresh
  <2>3. RegistryOK' /\ ObjectOK'
    BY <2>1, <2>2 DEF RegistryOK, ObjectOK
  <2>4. 0 \in 0..Threshold /\ "reload" \in Operations
    BY LifecycleAssumption DEF Operations
  <2>5. CountOK' /\ DiskOK' /\ CallsOK(call')
    BY <1>1, <2>1, <2>2, <2>4, SnapFacts, OrphanOK, SaveOK DEF CountOK
  <2>. QED  BY <2>3, <2>5 DEF IInv
<1>4. CASE ReloadFails(c) \/ InstallFails(c)
  <2>1. Return(call, c) /\ UNCHANGED <<registry, object, disk, announced>>
    BY <1>4 DEF ReloadFails, InstallFails
  <2>2. RegistryOK' /\ CountOK' /\ ObjectOK' /\ DiskOK'
    BY <1>1, <2>1, SnapFacts
       DEF RegistryOK, CountOK, ObjectOK, DiskOK, registry, object, disk
  <2>. QED  BY <1>1, <2>1, <2>2, ReturnOK, SnapFacts DEF IInv
<1>5. CASE InstallReady(c)
  <2>. DEFINE w == [by |-> c, partial |-> TRUE, entry |-> NothingStored]
              r == Entry("registered", TRUE)
  <2>1. /\ writeQueue' = Append(writeQueue, w) /\ Goto(call, c, "install", "saving", r)
        /\ UNCHANGED <<registry, object, stored, stale, announced>>
    BY <1>5 DEF InstallReady
  <2>2. NothingStored \in StoredStates
    BY LifecycleAssumption DEF StoredStates, NothingStored
  <2>3. w \in Writes
    BY <1>1, <2>2 DEF Writes
  <2>4. /\ r \in Entries /\ SnapOK(At("install", "saving", r))
        /\ "install" \in Operations /\ "saving" \in Positions
    BY DEF Entry, Entries, Statuses, SnapOK, Consistent, At, Operations, Positions
  <2>. HIDE DEF w, r
  <2>5. DiskOK'
    BY <1>1, <2>1, <2>3, AppendProperties, SnapFacts DEF DiskOK
  <2>6. RegistryOK' /\ CountOK' /\ ObjectOK'
    BY <1>1, <2>1, SnapFacts DEF RegistryOK, CountOK, ObjectOK, registry, object
  <2>7. CallsOK(call')
    BY <1>1, <2>1, <2>4, GotoOK, SnapFacts
  <2>. QED  BY <2>5, <2>6, <2>7 DEF IInv
<1>. QED  BY <1>2, <1>3, <1>4, <1>5, StopAnswerOK, StartAnswerOK DEF Resolve

\* The disk and the continuation that waits for it.
LEMMA AfterSaveOK ==
  ASSUME IInv, NEW c \in Actors, AfterSave(c)
  PROVE  RegistryOK' /\ CountOK' /\ ObjectOK' /\ CallsOK(call')
<1>1. CASE /\ plugins /\ Start(call, c, call[c].op, runtime)
           /\ UNCHANGED <<registry, announced>>
  <2>1. runtime \in Entries /\ Consistent(runtime)
    BY SnapFacts DEF RegistryOK
  <2>2. ObjectOK' /\ CallsOK(call')
    BY <1>1, <2>1, SnapFacts, StartOK
  <2>. QED  BY <1>1, <2>2, SnapFacts DEF RegistryOK, CountOK, registry
<1>2. CASE Return(call, c) /\ UNCHANGED <<registry, object, announced>>
  BY <1>2, ReturnOK, SnapFacts DEF RegistryOK, CountOK, ObjectOK, registry, object
<1>3. CASE /\ announced' \in BOOLEAN /\ Return(call, c)
           /\ UNCHANGED <<registry, object>>
  BY <1>3, ReturnOK, SnapFacts DEF RegistryOK, CountOK, ObjectOK, registry, object
<1>4. CASE /\ plugins' = TRUE /\ runtime' = Entry("registered", TRUE)
           /\ process' = "idle" /\ wants' = FALSE
           /\ Goto(call, c, "install", "configuring", Entry("registered", TRUE))
           /\ UNCHANGED <<crashHistory, announced>>
  <2>. DEFINE r == Entry("registered", TRUE)
  <2>1. /\ r \in Entries /\ SnapOK(At("install", "configuring", r))
        /\ Consistent(r) /\ r.status # "none"
        /\ "install" \in Operations /\ "configuring" \in Positions
    BY DEF Entry, Entries, Statuses, SnapOK, Consistent, At, Operations, Positions
  <2>2. runtime' = r /\ Goto(call, c, "install", "configuring", r)
    BY <1>4
  <2>. HIDE DEF r
  <2>3. CallsOK(call')
    BY <2>1, <2>2, GotoOK, SnapFacts
  <2>4. RegistryOK' /\ CountOK' /\ ObjectOK'
    BY <1>4, <2>1, <2>2, SnapFacts DEF RegistryOK, CountOK, ObjectOK
  <2>. QED  BY <2>3, <2>4
<1>. QED  BY <1>1, <1>2, <1>3, <1>4 DEF AfterSave, Starts

LEMMA WriteOK == ASSUME IInv, NEW c \in Actors, Write(c) PROVE IInv'
<1>1. /\ writeQueue # <<>> /\ writeQueue' = Tail(writeQueue)
      /\ stale' \in BOOLEAN /\ stored' \in {stored, Written(Head(writeQueue))}
  BY DEF Write, WriteSucceeds, WriteFails
<1>2. Head(writeQueue) \in Writes /\ Tail(writeQueue) \in Seq(Writes)
  BY <1>1, HeadTailProperties, SnapFacts DEF DiskOK
<1>3. Written(Head(writeQueue)) \in StoredStates
  BY <1>2, SnapFacts DEF Written, Writes, StoredStates, DiskOK
<1>4. DiskOK'
  BY <1>1, <1>2, <1>3, SnapFacts DEF DiskOK
<1>5. CASE WriteSucceeds(c)
  BY <1>4, <1>5, AfterSaveOK DEF WriteSucceeds, IInv
<1>6. CASE WriteFails(c)
  <2>1. Return(call, c) /\ UNCHANGED <<registry, object, announced>>
    BY <1>6 DEF WriteFails
  <2>2. RegistryOK' /\ CountOK' /\ ObjectOK'
    BY <2>1, SnapFacts DEF RegistryOK, CountOK, ObjectOK, registry, object
  <2>. QED  BY <1>4, <2>1, <2>2, ReturnOK, SnapFacts DEF IInv
<1>. QED  BY <1>5, <1>6 DEF Write

\* A crash, counted or quarantined, and the process that takes its place.
LEMMA CrashOK == ASSUME IInv, NEW r \in Reports, RecordRuntimeCrash(r) PROVE IInv'
<1>1. /\ r \in Actors /\ CallsOK(Doom(call))
      /\ {"crash", "quarantine"} \subseteq Operations
  BY SnapFacts, DoomOK DEF Actors, Operations
<1>2. PICK kept \in 0..crashHistory :
        /\ crashHistory' = Counted(kept)
        /\ \/ /\ runtime' = Quarantined
              /\ wants' = (wants /\ runtime.status # "started")
              /\ announced' = FALSE
              /\ Save(Doom(call), r, "quarantine", Quarantined, Counted(kept))
           \/ /\ Save(Doom(call), r, "crash", runtime, Counted(kept))
              /\ UNCHANGED <<runtime, wants, announced>>
  BY DEF RecordRuntimeCrash
<1>3. process' = "down" /\ UNCHANGED plugins
  BY DEF RecordRuntimeCrash
<1>4. Counted(kept) \in 0..Threshold
  BY <1>1, <1>2, LifecycleAssumption, SnapFacts DEF CountOK, Counted
<1>5. Quarantined \in Entries /\ Consistent(Quarantined) /\ Quarantined.status # "none"
  BY DEF Quarantined, Entry, Entries, Statuses, Consistent
<1>6. runtime \in Entries /\ Consistent(runtime)
  BY <1>1, SnapFacts DEF RegistryOK
<1>7. CountOK'
  BY <1>2, <1>4 DEF CountOK
<1>8. RegistryOK' /\ ObjectOK'
  BY <1>1, <1>2, <1>3, <1>5, SnapFacts DEF RegistryOK, ObjectOK
<1>9. DiskOK' /\ CallsOK(call')
  BY <1>1, <1>2, <1>4, <1>5, <1>6, SnapFacts, SaveOK
<1>. QED  BY <1>7, <1>8, <1>9 DEF IInv

LEMMA RespawnOK == ASSUME IInv, Respawn PROVE IInv'
BY DEF IInv, Respawn, Spawned, RegistryOK, CountOK, ObjectOK, DiskOK, registry, disk

\* What is loaded from the state file is consistent, whatever was written.
LEMMA RestartOK == ASSUME IInv, NEW c \in Calls, Restart(c) PROVE IInv'
<1>. DEFINE entry == IF stored.quarantined THEN Quarantined
                     ELSE IF stored.enabled THEN Entry("registered", TRUE) ELSE Disabled
<1>1. /\ plugins' \in BOOLEAN /\ runtime' = (IF plugins' THEN entry ELSE NoEntry)
      /\ process' = "idle" /\ wants' = FALSE
      /\ writeQueue' = <<>> /\ stale' = FALSE /\ stored' = stored
      /\ announced' = (announced /\ runtime'.status = "quarantined")
  BY DEF Restart, IInv, RegistryOK
<1>2. /\ entry \in Entries /\ Consistent(entry) /\ entry.status # "none"
      /\ NoEntry \in Entries /\ Consistent(NoEntry)
  BY DEF Quarantined, Disabled, NoEntry, Entry, Entries, Statuses, Consistent
<1>3. call' = [a \in Actors |-> IF a = c /\ runtime'.enabled
                                THEN At("startAll", "configuring", runtime') ELSE Idle]
  BY DEF Restart
<1>. HIDE DEF entry
<1>4. RegistryOK' /\ ObjectOK'
  BY <1>1, <1>2 DEF RegistryOK, ObjectOK, IInv
<1>5. CountOK'
  <2>1. stored.recent \in 0..Threshold
    BY DEF IInv, DiskOK, StoredStates
  <2>2. crashHistory' \in 0..stored.recent \/ crashHistory' = 0
    BY <1>1 DEF Restart
  <2>. QED  BY <2>1, <2>2, LifecycleAssumption DEF CountOK
<1>6. DiskOK'
  BY <1>1, EmptySeq DEF DiskOK, IInv
<1>7. CallsOK(call')
  <2>1. runtime' \in Entries /\ Consistent(runtime')
    BY <1>1, <1>2
  <2>. QED  BY <1>3, <2>1
            DEF CallsOK, CallStates, SnapOK, Consistent, At, Idle, NoEntry, Entry,
                Entries, Statuses, Operations, Positions
<1>. QED  BY <1>4, <1>5, <1>6, <1>7 DEF IInv

LEMMA NextOK == IInv /\ [Next]_vars => IInv'
<1>. SUFFICES ASSUME IInv, [Next]_vars PROVE IInv'
  OBVIOUS
<1>1. ASSUME NEW c \in Calls, Request(c) \/ Resolve(c) \/ Restart(c) PROVE IInv'
  BY <1>1, RequestOK, ResolveOK, RestartOK
<1>2. ASSUME NEW a \in Actors, Write(a) PROVE IInv'
  BY <1>2, WriteOK
<1>3. ASSUME NEW r \in Reports, RecordRuntimeCrash(r) PROVE IInv'
  BY <1>3, CrashOK
<1>4. CASE UNCHANGED vars
  BY <1>4 DEF vars, IInv, RegistryOK, CountOK, ObjectOK, DiskOK
<1>. QED  BY <1>1, <1>2, <1>3, <1>4, RespawnOK DEF Next, Step

\* The ghost is a Boolean, whatever the step.
LateOK == late \in BOOLEAN

LEMMA LateInit == Init => LateOK
BY DEF Init, LateOK

LEMMA LateNext == LateOK /\ [Next]_vars => LateOK'
<1>. SUFFICES ASSUME LateOK, [Next]_vars PROVE LateOK'
  OBVIOUS
<1>1. CASE UNCHANGED vars
  BY <1>1 DEF vars, LateOK
<1>2. CASE late' = (Unsaved \/ (late /\ Len(writeQueue') <= Len(writeQueue)))
  BY <1>2 DEF LateOK
<1>. QED  BY <1>1, <1>2 DEF Next, LateOK

-----------------------------------------------------------------------------
\* The strengthened invariant holds in every reachable state of the registry.
THEOREM Invariance == Spec => []IInv
BY InitOK, NextOK, PTL DEF Spec

\* The variables of the registry, of the calls and of the state file keep their types.
THEOREM TypeCorrect == Spec => []TypeOK
<1>1. IInv /\ LateOK => TypeOK
  BY DEF IInv, LateOK, RegistryOK, CountOK, ObjectOK, DiskOK, CallsOK, TypeOK
<1>. QED  BY <1>1, LateInit, LateNext, Invariance, PTL DEF Spec

\* However many operators and crash reports interleave at the awaits, no late
\* answer of a start or a stop leaves an entry whose status contradicts its
\* enabled flag (PluginRegistry.start, stop, recordRuntimeCrash).
THEOREM StatusAgrees == Spec => []StatusMatchesEnabled
<1>1. IInv => StatusMatchesEnabled
  BY DEF IInv, RegistryOK, StatusMatchesEnabled
<1>. QED  BY <1>1, Invariance, PTL


-----------------------------------------------------------------------------
(* The state file: which writes wait for the disk, and what a step does to *)
(* them.  Three facts about a plugin depend on this queue: that its        *)
(* enabled flag is saved, that a published quarantine is, and that nothing *)
(* but an operator ends a quarantine.                                      *)

Queued == 1..Len(writeQueue)
Writer(i) == call[writeQueue[i].by]

\* Each write waiting for the disk has a call of its own that awaits it; those
\* of a quarantine say so, those of an install set enabled.
QueueOK ==
  /\ \A i \in Queued : Writer(i).at = "saving"
  /\ \A i, j \in Queued : writeQueue[i].by = writeQueue[j].by => i = j
  /\ \A i \in Queued : Writer(i).op = "install" => writeQueue[i].entry.enabled
  /\ \A i \in Queued : Writer(i).op = "quarantine"
                         => ~writeQueue[i].partial /\ writeQueue[i].entry.quarantined
  /\ \A a \in Actors : call[a].op = "quarantine" => \E i \in Queued : writeQueue[i].by = a
  /\ \A a \in Actors : call[a].op = "none" => call[a].at # "saving"

\* A registered plugin is in quarantine.
InForce == plugins /\ runtime.status = "quarantined"

\* A process exit, a replaced object and an answer leave the other calls where
\* they are.
SamePlaces(f) == /\ f \in [Actors -> CallStates]
                 /\ \A a \in Actors : f[a].op = call[a].op /\ f[a].at = call[a].at
OthersStay(c) == \A a \in Actors \ {c} :
                   call'[a].op = call[a].op /\ call'[a].at = call[a].at

\* What steps other than the end of a write do to what was published.
NothingPublished == announced' => announced /\ plugins' = plugins

\* The three ways in which a step of call c treats the queue: it leaves it
\* alone, it appends a write, it takes the first one.
Keeps(c) ==
  /\ OthersStay(c) /\ UNCHANGED disk
  /\ call[c].at # "saving" /\ call'[c].at # "saving" /\ call'[c].op # "quarantine"
  /\ NothingPublished /\ (InForce' => InForce) /\ (plugins' => plugins)

Saves(c) ==
  /\ OthersStay(c) /\ UNCHANGED <<stored, stale>>
  /\ call[c].at # "saving" /\ call'[c].at = "saving" /\ call'[c].op # "none"
  /\ NothingPublished
  /\ \E h \in 0..Threshold :
       \/ /\ writeQueue' = Append(writeQueue, [by |-> c, partial |-> FALSE,
                                               entry |-> Snapshot(runtime', h)])
          /\ call'[c].op # "install"
          /\ call'[c].op = "quarantine" => runtime'.status = "quarantined" /\ ~announced'
          /\ InForce' => InForce \/ call'[c].op = "quarantine"
       \/ /\ writeQueue' = Append(writeQueue, [by |-> c, partial |-> TRUE,
                                               entry |-> NothingStored])
          /\ call'[c].op = "install" /\ ~plugins /\ UNCHANGED <<plugins, runtime>>

Takes(c) ==
  /\ OthersStay(c) /\ writeQueue # <<>> /\ Head(writeQueue).by = c
  /\ writeQueue' = Tail(writeQueue)
  /\ call'[c].at # "saving" /\ call'[c].op # "quarantine"
  /\ \/ stale' = TRUE /\ stored' = stored
     \/ stale' = FALSE /\ stored' = Written(Head(writeQueue))
  /\ InForce' => InForce
  /\ \/ /\ announced' => announced
        /\ \/ UNCHANGED plugins
           \/ call[c].op = "install" /\ plugins' /\ ~plugins /\ runtime'.enabled
     \/ /\ stored' = Written(Head(writeQueue)) /\ plugins' = plugins
        /\ call[c].op = "quarantine"
        /\ announced' => InForce /\ Last(c)

Shape == \/ UNCHANGED <<call, disk, registry, announced>>
         \/ \E c \in Actors : Keeps(c) \/ Saves(c) \/ Takes(c)

LEMMA DoomPlaces == ASSUME NEW f, SamePlaces(f) PROVE SamePlaces(Doom(f))
BY DEF SamePlaces, Doom, CallStates

LEMMA OrphanPlaces == ASSUME NEW f, SamePlaces(f) PROVE SamePlaces(Orphan(f))
BY DEF SamePlaces, Orphan, CallStates

\* Where a call that moves on or returns is afterwards.
LEMMA GotoPlaces ==
  ASSUME NEW f, SamePlaces(f), NEW c \in Actors, NEW op, NEW at, NEW r, Goto(f, c, op, at, r)
  PROVE  OthersStay(c) /\ call'[c].op = op /\ call'[c].at = at
BY DEF SamePlaces, Goto, At, OthersStay

LEMMA ReturnPlaces ==
  ASSUME NEW f, SamePlaces(f), NEW c \in Actors, Return(f, c)
  PROVE  OthersStay(c) /\ call'[c].op = "none" /\ call'[c].at = "idle"
BY DEF SamePlaces, Return, Idle, OthersStay

LEMMA SamePlacesNow == IInv => SamePlaces(call)
BY DEF IInv, CallsOK, SamePlaces

\* What follows a stop only ends a quarantine, never starts one.
LEMMA AfterStopShape ==
  ASSUME IInv, NEW f, SamePlaces(f), NEW c \in Actors, call[c].at # "saving",
         NEW op \in Operations, NEW old, NEW r,
         r.status # "quarantined" \/ r = runtime,
         AfterStop(f, c, op, old, r)
  PROVE  Keeps(c) \/ Saves(c)
<1>1. CASE op = "disable"
  <2>1. /\ runtime' = Disabled /\ announced' = FALSE
        /\ Save(f, c, op, Disabled, crashHistory)
        /\ UNCHANGED <<plugins, crashHistory>>
    BY <1>1 DEF AfterStop
  <2>2. OthersStay(c) /\ call'[c].op = op /\ call'[c].at = "saving"
    BY <2>1, GotoPlaces DEF Save
  <2>3. Disabled.status # "quarantined" /\ crashHistory \in 0..Threshold
    BY DEF Disabled, Entry, IInv, CountOK
  <2>. QED  BY <1>1, <2>1, <2>2, <2>3 DEF Saves, Save, NothingPublished, InForce
<1>2. CASE op = "unregister"
  <2>1. plugins' = FALSE /\ announced' = FALSE /\ Return(Orphan(f), c) /\ UNCHANGED disk
    BY <1>2 DEF AfterStop
  <2>2. OthersStay(c) /\ call'[c].op = "none" /\ call'[c].at = "idle"
    BY <2>1, ReturnPlaces, OrphanPlaces
  <2>. QED  BY <2>1, <2>2 DEF Keeps, NothingPublished, InForce
<1>3. CASE op = "reload"
  <2>1. /\ runtime' = r /\ Goto(f, c, op, "reloading", old)
        /\ UNCHANGED <<plugins, disk, announced>>
    BY <1>3 DEF AfterStop
  <2>2. OthersStay(c) /\ call'[c].op = op /\ call'[c].at = "reloading"
    BY <2>1, GotoPlaces
  <2>. QED  BY <1>3, <2>1, <2>2 DEF Keeps, NothingPublished, InForce
<1>4. CASE op = "stopAll"
  <2>1. /\ runtime' = r /\ Return(f, c)
        /\ UNCHANGED <<plugins, disk, announced>>
    BY <1>4 DEF AfterStop
  <2>2. OthersStay(c) /\ call'[c].op = "none" /\ call'[c].at = "idle"
    BY <2>1, ReturnPlaces
  <2>. QED  BY <2>1, <2>2 DEF Keeps, NothingPublished, InForce
<1>. QED  BY <1>1, <1>2, <1>3, <1>4 DEF AfterStop

LEMMA StopShape ==
  ASSUME IInv, QueueOK, NEW c \in Calls, call[c].op = "none", NEW op \in Operations,
         op # "quarantine", Stop(c, op)
  PROVE  Keeps(c) \/ Saves(c)
<1>1. c \in Actors /\ SamePlaces(call) /\ call[c].at # "saving"
  BY SamePlacesNow DEF Actors, QueueOK
<1>2. CASE AfterStop(call, c, op, runtime, runtime)
  BY <1>1, <1>2, AfterStopShape
<1>3. CASE AfterStop(call, c, op, runtime, [runtime EXCEPT !.status = "stopped"])
  <2>. DEFINE r == [runtime EXCEPT !.status = "stopped"]
  <2>1. r.status # "quarantined" /\ AfterStop(call, c, op, runtime, r)
    BY <1>3 DEF IInv, RegistryOK, Entries
  <2>. HIDE DEF r
  <2>. QED  BY <1>1, <2>1, AfterStopShape
<1>4. CASE /\ Goto(call, c, op, "stopping", runtime)
           /\ UNCHANGED <<registry, process, disk, announced>>
  <2>1. OthersStay(c) /\ call'[c].op = op /\ call'[c].at = "stopping"
    BY <1>1, <1>4, GotoPlaces
  <2>. QED  BY <1>1, <1>4, <2>1 DEF Keeps, NothingPublished, InForce, registry
<1>. QED  BY <1>2, <1>3, <1>4 DEF Stop

LEMMA RequestShape ==
  ASSUME IInv, QueueOK, NEW c \in Calls, Request(c)
  PROVE  Keeps(c) \/ Saves(c)
<1>1. c \in Actors /\ SamePlaces(call)
  BY SamePlacesNow DEF Actors
<1>2. call[c].op = "none" /\ call[c].at # "saving"
  BY <1>1 DEF Request, EnablePlugin, DisablePlugin, ReloadPlugin, UnregisterPlugin,
              StopAll, UpdatePluginConfig, InstallPlugin, Ready, QueueOK
<1>3. CASE EnablePlugin(c)
  <2>. DEFINE enabled == Entry(IF runtime.status \in {"disabled", "quarantined"}
                               THEN "registered" ELSE runtime.status, TRUE)
  <2>1. /\ runtime' = enabled /\ announced' = FALSE
        /\ Save(call, c, "enable", enabled, 0) /\ UNCHANGED plugins
    BY <1>3 DEF EnablePlugin
  <2>2. enabled.status # "quarantined" /\ 0 \in 0..Threshold
    BY LifecycleAssumption DEF Entry
  <2>. HIDE DEF enabled
  <2>3. OthersStay(c) /\ call'[c].op = "enable" /\ call'[c].at = "saving"
    BY <1>1, <2>1, GotoPlaces DEF Save
  <2>. QED  BY <1>2, <2>1, <2>2, <2>3 DEF Saves, Save, NothingPublished, InForce
<1>4. CASE DisablePlugin(c) \/ ReloadPlugin(c) \/ UnregisterPlugin(c) \/ StopAll(c)
  <2>1. {"disable", "reload", "unregister", "stopAll"} \subseteq Operations
    BY DEF Operations
  <2>. QED  BY <1>2, <1>4, <2>1, StopShape
            DEF DisablePlugin, ReloadPlugin, UnregisterPlugin, StopAll
<1>5. CASE UpdatePluginConfig(c)
  <2>1. /\ Goto(call, c, "configure", "applying", runtime)
        /\ UNCHANGED <<registry, disk, announced>>
    BY <1>5 DEF UpdatePluginConfig
  <2>2. OthersStay(c) /\ call'[c].op = "configure" /\ call'[c].at = "applying"
    BY <1>1, <2>1, GotoPlaces
  <2>. QED  BY <1>2, <2>1, <2>2 DEF Keeps, NothingPublished, InForce, registry
<1>6. CASE InstallPlugin(c)
  <2>1. /\ Goto(call, c, "install", "installing", NoEntry)
        /\ UNCHANGED <<registry, disk, announced>>
    BY <1>6 DEF InstallPlugin
  <2>2. OthersStay(c) /\ call'[c].op = "install" /\ call'[c].at = "installing"
    BY <1>1, <2>1, GotoPlaces
  <2>. QED  BY <1>2, <2>1, <2>2 DEF Keeps, NothingPublished, InForce, registry
<1>. QED  BY <1>3, <1>4, <1>5, <1>6 DEF Request

\* A late failure neither starts nor ends the quarantine of a plugin.
LEMMA FailedKeeps ==
  ASSUME IInv, NEW c \in Actors, runtime # NoEntry
  PROVE  Failed(c).status = "quarantined" <=> runtime.status = "quarantined"
<1>1. /\ runtime \in Entries
      /\ Failed(c) = [runtime EXCEPT !.status = IF runtime.status = "quarantined"
                                                THEN runtime.status ELSE "failed"]
  BY DEF Failed, IInv, RegistryOK
<1>. QED  BY <1>1 DEF Entries

\* Answers of the plugin: the call was waiting for it, not for the disk.
LEMMA AnswerShape ==
  ASSUME IInv, QueueOK, NEW c \in Calls,
         \/ StopSucceeds(c) \/ StopFails(c) \/ ConfigureSucceeds(c)
         \/ StartSucceeds(c) \/ StartFails(c) \/ ApplyReturns(c)
  PROVE  Keeps(c) \/ Saves(c)
<1>1. /\ c \in Actors /\ SamePlaces(call) /\ call[c].at # "saving"
      /\ call[c].op \in Operations
  BY SamePlacesNow, SnapFacts
     DEF Actors, StopSucceeds, StopFails, ConfigureSucceeds, StartSucceeds, StartFails,
         ApplyReturns
<1>2. call[c].op # "quarantine"
  BY <1>1 DEF QueueOK, Writer
<1>3. plugins => runtime # NoEntry
  BY DEF IInv, RegistryOK, NoEntry, Entry
<1>4. CASE StopSucceeds(c)
  <2>. DEFINE others == IF Isolated /\ call[c].current THEN Doom(call) ELSE call
              r == [call[c].snap EXCEPT !.status = "stopped"]
  <2>1. AfterStop(others, c, call[c].op, call[c].snap, r)
    BY <1>4 DEF StopSucceeds
  <2>2. SamePlaces(others) /\ r.status # "quarantined"
    BY <1>1, DoomPlaces, SnapFacts DEF Entries
  <2>. HIDE DEF others, r
  <2>. QED  BY <1>1, <2>1, <2>2, AfterStopShape
<1>5. CASE StopFails(c)
  <2>. DEFINE others == IF Isolated /\ call[c].current THEN Doom(call) ELSE call
  <2>1. /\ runtime' = Failed(c) /\ Return(others, c)
        /\ UNCHANGED <<plugins, disk, announced>>
    BY <1>5 DEF StopFails
  <2>2. SamePlaces(others)
    BY <1>1, DoomPlaces
  <2>. HIDE DEF others
  <2>3. OthersStay(c) /\ call'[c].op = "none" /\ call'[c].at = "idle"
    BY <1>1, <2>1, <2>2, ReturnPlaces
  <2>. QED  BY <1>1, <1>3, <2>1, <2>3, FailedKeeps DEF Keeps, NothingPublished, InForce
<1>6. CASE ConfigureSucceeds(c)
  <2>1. /\ call' = [call EXCEPT ![c].at = "starting"]
        /\ UNCHANGED <<registry, disk, announced>>
    BY <1>6 DEF ConfigureSucceeds
  <2>2. OthersStay(c) /\ call'[c].op = call[c].op /\ call'[c].at = "starting"
    BY <1>1, <2>1 DEF SamePlaces, OthersStay, CallStates
  <2>. QED  BY <1>1, <1>2, <2>1, <2>2 DEF Keeps, NothingPublished, InForce, registry
<1>7. CASE StartSucceeds(c)
  <2>1. /\ runtime' = [call[c].snap EXCEPT !.status = "started"] /\ Return(call, c)
        /\ UNCHANGED <<plugins, disk, announced>>
    BY <1>7 DEF StartSucceeds
  <2>2. OthersStay(c) /\ call'[c].op = "none" /\ call'[c].at = "idle"
    BY <1>1, <2>1, ReturnPlaces
  <2>3. runtime'.status # "quarantined"
    BY <1>1, <2>1, SnapFacts DEF Entries
  <2>. QED  BY <1>1, <2>1, <2>2, <2>3 DEF Keeps, NothingPublished, InForce
<1>8. CASE StartFails(c)
  <2>1. CASE /\ runtime' = Failed(c) /\ Return(call, c)
             /\ UNCHANGED <<plugins, disk, announced>>
    <3>1. OthersStay(c) /\ call'[c].op = "none" /\ call'[c].at = "idle"
      BY <1>1, <2>1, ReturnPlaces
    <3>. QED  BY <1>1, <1>3, <2>1, <3>1, FailedKeeps DEF Keeps, NothingPublished, InForce
  <2>2. CASE AfterStop(call, c, "unregister", NoEntry, NoEntry)
    <3>1. NoEntry.status # "quarantined" /\ "unregister" \in Operations
      BY DEF NoEntry, Entry, Operations
    <3>. QED  BY <1>1, <2>2, <3>1, AfterStopShape
  <2>. QED  BY <1>8, <2>1, <2>2 DEF StartFails
<1>9. CASE ApplyReturns(c)
  <2>1. /\ runtime' \in {runtime, Failed(c)} /\ Return(call, c)
        /\ plugins' = plugins /\ announced' = announced /\ UNCHANGED disk
    BY <1>9 DEF ApplyReturns
  <2>2. OthersStay(c) /\ call'[c].op = "none" /\ call'[c].at = "idle"
    BY <1>1, <2>1, ReturnPlaces
  <2>. QED  BY <1>1, <1>3, <2>1, <2>2, FailedKeeps DEF Keeps, NothingPublished, InForce
<1>. QED  BY <1>4, <1>5, <1>6, <1>7, <1>8, <1>9

LEMMA ResolveShape ==
  ASSUME IInv, QueueOK, NEW c \in Calls, Resolve(c)
  PROVE  Keeps(c) \/ Saves(c)
<1>1. c \in Actors /\ SamePlaces(call) /\ 0 \in 0..Threshold
  BY SamePlacesNow, LifecycleAssumption DEF Actors
<1>2. CASE ReloadSucceeds(c)
  <2>. DEFINE enabled == call[c].snap.status = "quarantined" \/ call[c].snap.enabled
              fresh == IF enabled THEN Entry("registered", TRUE) ELSE Disabled
  <2>1. /\ call[c].at = "reloading" /\ runtime' = fresh /\ announced' = FALSE
        /\ Save(Orphan(call), c, "reload", fresh, 0)
    BY <1>2 DEF ReloadSucceeds
  <2>2. OthersStay(c) /\ call'[c].op = "reload" /\ call'[c].at = "saving"
    BY <1>1, <2>1, OrphanPlaces, GotoPlaces DEF Save
  <2>3. fresh.status # "quarantined"
    BY DEF Disabled, Entry
  <2>. HIDE DEF fresh
  <2>. QED  BY <1>1, <2>1, <2>2, <2>3 DEF Saves, Save, NothingPublished, InForce
<1>3. CASE ReloadFails(c) \/ InstallFails(c)
  <2>1. /\ call[c].at # "saving" /\ Return(call, c)
        /\ UNCHANGED <<registry, disk, announced>>
    BY <1>3 DEF ReloadFails, InstallFails
  <2>2. OthersStay(c) /\ call'[c].op = "none" /\ call'[c].at = "idle"
    BY <1>1, <2>1, ReturnPlaces
  <2>. QED  BY <2>1, <2>2 DEF Keeps, NothingPublished, InForce, registry
<1>4. CASE InstallReady(c)
  <2>. DEFINE w == [by |-> c, partial |-> TRUE, entry |-> NothingStored]
  <2>1. /\ call[c].at = "installing" /\ runtime = NoEntry
        /\ writeQueue' = Append(writeQueue, w)
        /\ Goto(call, c, "install", "saving", Entry("registered", TRUE))
        /\ UNCHANGED <<registry, stored, stale, announced>>
    BY <1>4 DEF InstallReady
  <2>2. OthersStay(c) /\ call'[c].op = "install" /\ call'[c].at = "saving"
    BY <1>1, <2>1, GotoPlaces
  <2>3. ~plugins
    BY <2>1 DEF IInv, RegistryOK, NoEntry, Entry
  <2>. QED  BY <1>1, <2>1, <2>2, <2>3 DEF Saves, NothingPublished, registry
<1>. QED  BY <1>2, <1>3, <1>4, AnswerShape DEF Resolve

LEMMA WriteShape ==
  ASSUME IInv, QueueOK, NEW c \in Actors, Write(c)
  PROVE  Takes(c)
<1>1. SamePlaces(call)
  BY SamePlacesNow
<1>2. /\ writeQueue # <<>> /\ Head(writeQueue).by = c
      /\ writeQueue' = Tail(writeQueue)
  BY DEF Write, WriteSucceeds, WriteFails
<1>3. CASE WriteSucceeds(c)
  <2>1. stored' = Written(Head(writeQueue)) /\ stale' = FALSE /\ AfterSave(c)
    BY <1>3 DEF WriteSucceeds
  <2>2. CASE /\ Starts(c) /\ Start(call, c, call[c].op, runtime)
             /\ UNCHANGED <<registry, announced>>
    <3>1. call[c].op # "quarantine" /\ call[c].op # "none"
      BY <2>2 DEF Starts
    <3>2. OthersStay(c) /\ call'[c].op # "quarantine" /\ call'[c].at # "saving"
      BY <1>1, <2>2, <3>1, GotoPlaces, ReturnPlaces DEF Start
    <3>. QED  BY <1>2, <2>1, <2>2, <3>2 DEF Takes, InForce, registry
  <2>3. CASE Return(call, c) /\ UNCHANGED <<registry, object, announced>>
    <3>1. OthersStay(c) /\ call'[c].op = "none" /\ call'[c].at = "idle"
      BY <1>1, <2>3, ReturnPlaces
    <3>. QED  BY <1>2, <2>1, <2>3, <3>1 DEF Takes, InForce, registry
  <2>4. CASE /\ call[c].op = "quarantine"
             /\ announced' = (plugins /\ runtime.status = "quarantined" /\ Last(c))
             /\ Return(call, c) /\ UNCHANGED <<registry, object>>
    <3>1. OthersStay(c) /\ call'[c].op = "none" /\ call'[c].at = "idle"
      BY <1>1, <2>4, ReturnPlaces
    <3>2. announced' => InForce /\ Last(c)
      BY <2>4 DEF InForce
    <3>. QED  BY <1>2, <2>1, <2>4, <3>1, <3>2 DEF Takes, InForce, registry
  <2>5. CASE /\ call[c].op = "install" /\ ~plugins
             /\ plugins' = TRUE /\ runtime' = Entry("registered", TRUE)
             /\ Goto(call, c, "install", "configuring", Entry("registered", TRUE))
             /\ UNCHANGED <<crashHistory, announced>>
    <3>1. OthersStay(c) /\ call'[c].op = "install" /\ call'[c].at = "configuring"
      BY <1>1, <2>5, GotoPlaces
    <3>2. ~InForce' /\ runtime'.enabled
      BY <2>5 DEF InForce, Entry
    <3>. QED  BY <1>2, <2>1, <2>5, <3>1, <3>2 DEF Takes
  <2>. QED  BY <2>1, <2>2, <2>3, <2>4, <2>5 DEF AfterSave
<1>4. CASE WriteFails(c)
  <2>1. /\ stale' = TRUE /\ Return(call, c)
        /\ UNCHANGED <<registry, stored, announced>>
    BY <1>4 DEF WriteFails
  <2>2. OthersStay(c) /\ call'[c].op = "none" /\ call'[c].at = "idle"
    BY <1>1, <2>1, ReturnPlaces
  <2>. QED  BY <1>2, <2>1, <2>2 DEF Takes, InForce, registry
<1>. QED  BY <1>3, <1>4 DEF Write

LEMMA CrashShape ==
  ASSUME IInv, QueueOK, NEW r \in Reports, RecordRuntimeCrash(r)
  PROVE  Saves(r)
<1>1. r \in Actors /\ SamePlaces(Doom(call)) /\ call[r].at # "saving"
  BY SamePlacesNow, DoomPlaces DEF Actors, RecordRuntimeCrash, QueueOK
<1>2. PICK kept \in 0..crashHistory :
        \/ /\ runtime' = Quarantined /\ announced' = FALSE
           /\ Save(Doom(call), r, "quarantine", Quarantined, Counted(kept))
        \/ /\ Save(Doom(call), r, "crash", runtime, Counted(kept))
           /\ UNCHANGED <<runtime, announced>>
  BY DEF RecordRuntimeCrash
<1>3. Counted(kept) \in 0..Threshold /\ plugins' = plugins
  BY <1>1, <1>2, LifecycleAssumption, SnapFacts DEF CountOK, Counted, RecordRuntimeCrash
<1>4. CASE /\ runtime' = Quarantined /\ announced' = FALSE
           /\ Save(Doom(call), r, "quarantine", Quarantined, Counted(kept))
  <2>1. OthersStay(r) /\ call'[r].op = "quarantine" /\ call'[r].at = "saving"
    BY <1>1, <1>4, GotoPlaces DEF Save
  <2>2. Quarantined.status = "quarantined"
    BY DEF Quarantined, Entry
  <2>. QED  BY <1>1, <1>3, <1>4, <2>1, <2>2 DEF Saves, Save, NothingPublished
<1>5. CASE /\ Save(Doom(call), r, "crash", runtime, Counted(kept))
           /\ UNCHANGED <<runtime, announced>>
  <2>1. OthersStay(r) /\ call'[r].op = "crash" /\ call'[r].at = "saving"
    BY <1>1, <1>5, GotoPlaces DEF Save
  <2>. QED  BY <1>1, <1>3, <1>5, <2>1 DEF Saves, Save, NothingPublished, InForce
<1>. QED  BY <1>2, <1>4, <1>5

LEMMA StepShape == IInv /\ QueueOK /\ Step => Shape
<1>. SUFFICES ASSUME IInv, QueueOK, Step PROVE Shape
  OBVIOUS
<1>1. ASSUME NEW c \in Calls, Request(c) \/ Resolve(c) PROVE Shape
  BY <1>1, RequestShape, ResolveShape DEF Shape, Actors
<1>2. ASSUME NEW a \in Actors, Write(a) PROVE Shape
  BY <1>2, WriteShape DEF Shape
<1>3. ASSUME NEW r \in Reports, RecordRuntimeCrash(r) PROVE Shape
  BY <1>3, CrashShape DEF Shape, Actors
<1>4. CASE Respawn
  BY <1>4 DEF Respawn, Shape
<1>. QED  BY <1>1, <1>2, <1>3, <1>4 DEF Step

-----------------------------------------------------------------------------
(* The queue.                                                              *)

\* The elements of a queue to which a write is appended, or whose first write
\* is taken.
LEMMA AppendElements ==
  ASSUME NEW q \in Seq(Writes), NEW w \in Writes
  PROVE  /\ Append(q, w) \in Seq(Writes) /\ Len(Append(q, w)) = Len(q) + 1
         /\ Append(q, w)[Len(q) + 1] = w
         /\ \A i \in 1..Len(q) : Append(q, w)[i] = q[i]
BY AppendProperties

LEMMA TailElements ==
  ASSUME NEW q \in Seq(Writes), q # <<>>
  PROVE  /\ Head(q) = q[1] /\ Len(q) \in Nat /\ Len(q) >= 1
         /\ Tail(q) \in Seq(Writes) /\ Len(Tail(q)) = Len(q) - 1
         /\ \A i \in 1..(Len(q) - 1) : Tail(q)[i] = q[i + 1]
BY HeadTailProperties, LenProperties

\* What Saves appends.
LEMMA SavedWrite ==
  ASSUME IInv, NEW c \in Actors, Saves(c), IInv'
  PROVE  \E w \in Writes :
           /\ writeQueue' = Append(writeQueue, w) /\ w.by = c
           /\ w.entry.enabled = TRUE \/ call'[c].op # "install"
           /\ \/ /\ ~w.partial
                 /\ w.entry.enabled = runtime'.enabled
                 /\ w.entry.quarantined = (runtime'.status = "quarantined")
              \/ w.partial /\ ~plugins /\ UNCHANGED <<plugins, runtime>>
                 /\ call'[c].op = "install"
           /\ InForce' => InForce \/ call'[c].op = "quarantine"
           /\ call'[c].op = "quarantine" => ~announced'
<1>1. PICK h \in 0..Threshold :
        \/ /\ writeQueue' = Append(writeQueue, [by |-> c, partial |-> FALSE,
                                                entry |-> Snapshot(runtime', h)])
           /\ call'[c].op # "install"
           /\ call'[c].op = "quarantine" => ~announced'
           /\ InForce' => InForce \/ call'[c].op = "quarantine"
        \/ /\ writeQueue' = Append(writeQueue, [by |-> c, partial |-> TRUE,
                                                entry |-> NothingStored])
           /\ call'[c].op = "install" /\ ~plugins /\ UNCHANGED <<plugins, runtime>>
  BY DEF Saves
<1>2. runtime' \in Entries
  BY DEF IInv, RegistryOK
<1>3. Snapshot(runtime', h) \in StoredStates /\ NothingStored \in StoredStates
  BY <1>2, LifecycleAssumption DEF Snapshot, StoredStates, Entries, NothingStored
<1>4. /\ [by |-> c, partial |-> FALSE, entry |-> Snapshot(runtime', h)] \in Writes
      /\ [by |-> c, partial |-> TRUE, entry |-> NothingStored] \in Writes
  BY <1>3 DEF Writes
<1>. QED  BY <1>1, <1>4 DEF Snapshot, NothingStored, InForce

LEMMA QueueInit == Init => QueueOK
BY EmptySeq DEF Init, QueueOK, Queued, Idle, At

LEMMA QueuedBy ==
  ASSUME IInv
  PROVE  \A i \in Queued : writeQueue[i] \in Writes /\ writeQueue[i].by \in Actors
<1>1. \A i \in Queued : writeQueue[i] \in Writes
  BY ElementOfSeq DEF IInv, DiskOK, Queued
<1>. QED  BY <1>1 DEF Writes

LEMMA KeepsQueue ==
  ASSUME IInv, QueueOK, NEW c \in Actors, Keeps(c)
  PROVE  QueueOK'
<1>1. \A i \in Queued : writeQueue[i].by \in Actors \ {c}
  BY QueuedBy DEF QueueOK, Writer, Keeps
<1>2. \A a \in Actors \ {c} : call'[a].op = call[a].op /\ call'[a].at = call[a].at
  BY DEF Keeps, OthersStay
<1>3. writeQueue' = writeQueue /\ Queued' = Queued
  BY DEF Keeps, disk, Queued
<1>4. \A i \in Queued : /\ (Writer(i).op)' = Writer(i).op
                        /\ (Writer(i).at)' = Writer(i).at
  BY <1>1, <1>2, <1>3 DEF Writer
<1>5. \A a \in Actors : /\ call'[a].op = "quarantine" => call[a].op = "quarantine"
                        /\ call'[a].op = "none" => call'[a].at # "saving"
  BY <1>2 DEF Keeps, QueueOK
<1>. QED  BY <1>3, <1>4, <1>5 DEF QueueOK

LEMMA SavesQueue ==
  ASSUME IInv, IInv', QueueOK, NEW c \in Actors, Saves(c)
  PROVE  QueueOK'
<1>1. PICK w \in Writes :
        /\ writeQueue' = Append(writeQueue, w) /\ w.by = c
        /\ w.entry.enabled = TRUE \/ call'[c].op # "install"
        /\ \/ /\ ~w.partial
              /\ w.entry.quarantined = (runtime'.status = "quarantined")
           \/ call'[c].op = "install"
  BY SavedWrite
<1>2. /\ writeQueue \in Seq(Writes) /\ Len(writeQueue) \in Nat
  BY LenProperties DEF IInv, DiskOK
<1>3. /\ Len(writeQueue') = Len(writeQueue) + 1
      /\ writeQueue'[Len(writeQueue) + 1] = w
      /\ \A i \in Queued : writeQueue'[i] = writeQueue[i]
  BY <1>1, <1>2, AppendElements DEF Queued
<1>4. \A i \in Queued : writeQueue[i].by # c
  BY DEF QueueOK, Writer, Saves
<1>5. \A i \in Queued : writeQueue[i].by \in Actors
  BY QueuedBy
<1>6. Queued' = Queued \cup {Len(writeQueue) + 1} /\ Len(writeQueue) + 1 \notin Queued
  BY <1>2, <1>3 DEF Queued
<1>7. \A i \in Queued : /\ (Writer(i).op)' = Writer(i).op
                        /\ (Writer(i).at)' = Writer(i).at
  BY <1>3, <1>4, <1>5 DEF Writer, Saves, OthersStay
<1>8. /\ call'[c].at = "saving" /\ call'[c].op # "none"
      /\ call'[c].op = "quarantine" => runtime'.status = "quarantined"
  BY DEF Saves
<1>. DEFINE n == Len(writeQueue) + 1
<1>9. n \in Queued' /\ writeQueue'[n] = w /\ w.by = c
  BY <1>1, <1>3, <1>6
<1>10. \A a \in Actors : call'[a].op = "quarantine" => \E i \in Queued' : writeQueue'[i].by = a
  <2>. SUFFICES ASSUME NEW a \in Actors, call'[a].op = "quarantine"
                PROVE  \E i \in Queued' : writeQueue'[i].by = a
    OBVIOUS
  <2>1. CASE a = c
    BY <1>9, <2>1
  <2>2. CASE a # c
    BY <1>3, <1>6, <2>2 DEF QueueOK, Saves, OthersStay
  <2>. QED  BY <2>1, <2>2
<1>11. \A a \in Actors : call'[a].op = "none" => call'[a].at # "saving"
  BY DEF Saves, OthersStay, QueueOK
<1>12. \A i, j \in Queued' : writeQueue'[i].by = writeQueue'[j].by => i = j
  BY <1>3, <1>4, <1>6, <1>9 DEF QueueOK
<1>13. \A i \in Queued' :
         /\ (Writer(i).at)' = "saving"
         /\ (Writer(i).op)' = "install" => writeQueue'[i].entry.enabled
         /\ (Writer(i).op)' = "quarantine"
              => ~writeQueue'[i].partial /\ writeQueue'[i].entry.quarantined
  <2>. SUFFICES ASSUME NEW i \in Queued'
                PROVE  /\ call'[writeQueue'[i].by].at = "saving"
                       /\ call'[writeQueue'[i].by].op = "install"
                            => writeQueue'[i].entry.enabled
                       /\ call'[writeQueue'[i].by].op = "quarantine"
                            => ~writeQueue'[i].partial /\ writeQueue'[i].entry.quarantined
    BY DEF Writer
  <2>1. CASE i = n
    BY <1>1, <1>8, <1>9, <2>1
  <2>2. CASE i \in Queued
    BY <1>3, <1>7, <2>2 DEF QueueOK, Writer
  <2>. QED  BY <1>6, <2>1, <2>2
<1>. QED  BY <1>10, <1>11, <1>12, <1>13 DEF QueueOK, Writer

LEMMA TakesQueue ==
  ASSUME IInv, IInv', QueueOK, NEW c \in Actors, Takes(c)
  PROVE  QueueOK'
<1>1. writeQueue \in Seq(Writes) /\ writeQueue # <<>> /\ writeQueue' = Tail(writeQueue)
  BY DEF IInv, DiskOK, Takes
<1>2. /\ Len(writeQueue) \in Nat /\ Len(writeQueue) >= 1
      /\ Len(writeQueue') = Len(writeQueue) - 1 /\ writeQueue[1].by = c
      /\ \A i \in Queued' : i + 1 \in Queued /\ writeQueue'[i] = writeQueue[i + 1]
  BY <1>1, TailElements DEF Queued, Takes
<1>3. \A i \in Queued : writeQueue[i].by = c => i = 1
  BY <1>2 DEF QueueOK, Queued
<1>4. \A i \in Queued : writeQueue[i].by \in Actors
  BY QueuedBy
<1>5. \A i \in Queued' : /\ i # 0 /\ writeQueue'[i] = writeQueue[i + 1] /\ i + 1 \in Queued
                         /\ writeQueue[i + 1].by \in Actors \ {c}
  BY <1>2, <1>3, <1>4 DEF Queued
<1>6. \A a \in Actors \ {c} : call'[a].op = call[a].op /\ call'[a].at = call[a].at
  BY DEF Takes, OthersStay
<1>7. \A i, j \in Queued' : writeQueue'[i].by = writeQueue'[j].by => i = j
  <2>. SUFFICES ASSUME NEW i \in Queued', NEW j \in Queued',
                       writeQueue'[i].by = writeQueue'[j].by
                PROVE  i = j
    OBVIOUS
  <2>1. i + 1 = j + 1
    BY <1>5 DEF QueueOK
  <2>. QED  BY <2>1 DEF Queued
<1>8. \A i \in Queued' :
         /\ (Writer(i).at)' = "saving"
         /\ (Writer(i).op)' = "install" => writeQueue'[i].entry.enabled
         /\ (Writer(i).op)' = "quarantine"
              => ~writeQueue'[i].partial /\ writeQueue'[i].entry.quarantined
  BY <1>5, <1>6 DEF QueueOK, Writer
<1>9. \A a \in Actors : call'[a].op = "quarantine" => \E i \in Queued' : writeQueue'[i].by = a
  <2>. SUFFICES ASSUME NEW a \in Actors, call'[a].op = "quarantine"
                PROVE  \E i \in Queued' : writeQueue'[i].by = a
    OBVIOUS
  <2>1. a # c /\ call[a].op = "quarantine"
    BY <1>6 DEF Takes
  <2>2. PICK k \in Queued : writeQueue[k].by = a
    BY <2>1 DEF QueueOK
  <2>3. k # 1 /\ k \in 1..Len(writeQueue)
    BY <1>2, <2>1, <2>2 DEF Queued
  <2>4. k - 1 \in Queued' /\ (k - 1) + 1 = k
    BY <1>2, <2>3 DEF Queued
  <2>. QED  BY <1>5, <2>2, <2>4
<1>10. \A a \in Actors : call'[a].op = "none" => call'[a].at # "saving"
  BY <1>6 DEF Takes, QueueOK
<1>. QED  BY <1>7, <1>8, <1>9, <1>10 DEF QueueOK, Writer

\* A restart forgets the calls and what they had not written.
LEMMA RestartQueue == ASSUME NEW c \in Calls, Restart(c) PROVE QueueOK'
<1>1. /\ writeQueue' = <<>>
      /\ \A a \in Actors : \/ call'[a].op = "none" /\ call'[a].at = "idle"
                           \/ call'[a].op = "startAll" /\ call'[a].at = "configuring"
  BY DEF Restart, At, Idle
<1>. QED  BY <1>1, EmptySeq DEF QueueOK, Queued

LEMMA QueueNext == IInv /\ IInv' /\ QueueOK /\ [Next]_vars => QueueOK'
<1>. SUFFICES ASSUME IInv, IInv', QueueOK, [Next]_vars PROVE QueueOK'
  OBVIOUS
<1>1. CASE Step
  <2>1. CASE UNCHANGED <<call, disk, registry, announced>>
    BY <2>1 DEF QueueOK, Queued, Writer, disk
  <2>. QED  BY <1>1, <2>1, StepShape, KeepsQueue, SavesQueue, TakesQueue DEF Shape
<1>2. CASE UNCHANGED vars
  BY <1>2 DEF vars, QueueOK, Queued, Writer
<1>. QED  BY <1>1, <1>2, RestartQueue DEF Next

-----------------------------------------------------------------------------
(* The enabled flag.                                                       *)

\* A stored entry says of the plugin what the registry says.
Agrees(e) == runtime.enabled \in {e.enabled, e.enabled /\ ~e.quarantined}

\* The last write that waits holds the whole entry, and that flag.
LastSaved == /\ ~writeQueue[Len(writeQueue)].partial
             /\ Agrees(writeQueue[Len(writeQueue)].entry)

\* The last write that waits, or else the state file, holds the flag of a
\* registered plugin, unless it was changed behind the store's back.
SavedOK ==
  plugins /\ ~late =>
    IF writeQueue = <<>> THEN ~stale => Agrees(stored)
    ELSE LastSaved

LEMMA SavedInit == Init => SavedOK
BY DEF Init, SavedOK, Agrees, NothingStored, Entry

LEMMA SavesFlag ==
  ASSUME IInv, IInv', NEW c \in Actors, Saves(c)
  PROVE  SavedOK'
<1>1. PICK w \in Writes :
        /\ writeQueue' = Append(writeQueue, w)
        /\ \/ /\ ~w.partial
              /\ w.entry.enabled = runtime'.enabled
              /\ w.entry.quarantined = (runtime'.status = "quarantined")
           \/ ~plugins /\ UNCHANGED plugins
  BY SavedWrite
<1>2. /\ writeQueue \in Seq(Writes) /\ Len(writeQueue) \in Nat
  BY LenProperties DEF IInv, DiskOK
<1>3. /\ Len(writeQueue') = Len(writeQueue) + 1
      /\ writeQueue'[Len(writeQueue) + 1] = w /\ writeQueue' # <<>>
  BY <1>1, <1>2, AppendElements, EmptySeq
<1>. QED  BY <1>1, <1>3 DEF SavedOK, LastSaved, Agrees

\* A step that appends nothing leaves the flag of a registered plugin alone, or
\* the ghost records it.
LEMMA TakesFlag ==
  ASSUME IInv, IInv', QueueOK, SavedOK, NEW c \in Actors, Takes(c),
         late' = (Unsaved \/ (late /\ Len(writeQueue') <= Len(writeQueue)))
  PROVE  SavedOK'
<1>. SUFFICES ASSUME plugins', ~late'
              PROVE  /\ writeQueue' = <<>> /\ ~stale' => Agrees(stored)'
                     /\ writeQueue' # <<>> => LastSaved'
  BY DEF SavedOK
<1>1. writeQueue \in Seq(Writes) /\ writeQueue # <<>> /\ writeQueue' = Tail(writeQueue)
  BY DEF IInv, DiskOK, Takes
<1>2. /\ Len(writeQueue) \in Nat /\ Len(writeQueue) >= 1 /\ 1 \in Queued
      /\ Head(writeQueue) = writeQueue[1] /\ writeQueue[1].by = c
      /\ Len(writeQueue') = Len(writeQueue) - 1 /\ writeQueue' \in Seq(Writes)
      /\ \A i \in Queued' : writeQueue'[i] = writeQueue[i + 1]
  BY <1>1, TailElements DEF Queued, Takes
<1>3. ~late /\ ~Unsaved /\ Len(writeQueue') <= Len(writeQueue)
  <2>1. Len(writeQueue') <= Len(writeQueue)
    BY <1>2
  <2>. QED  BY <2>1, Zenon
<1>4. CASE plugins
  <2>1. runtime'.enabled = runtime.enabled
    BY <1>3, <1>4 DEF Unsaved
  <2>. DEFINE last == writeQueue[Len(writeQueue)]
  <2>2. ~last.partial /\ Agrees(last.entry)
    BY <1>1, <1>3, <1>4 DEF SavedOK, LastSaved
  <2>3. CASE writeQueue' = <<>>
    <3>1. Head(writeQueue) = last
      <4>1. Len(writeQueue) - 1 = 0
        BY <1>2, <2>3, EmptySeq
      <4>2. Len(writeQueue) \in Nat
        BY <1>2
      <4>3. Len(writeQueue) = 1
        BY <4>1, <4>2
      <4>. QED  BY <1>2, <4>3
    <3>2. stale' = FALSE => stored' = last.entry
      BY <2>2, <3>1 DEF Takes, Written
    <3>. QED  BY <2>1, <2>2, <2>3, <3>2 DEF Agrees, Takes
  <2>4. CASE writeQueue' # <<>>
    <3>1. Len(writeQueue') \in Queued'
      BY <1>2, <2>4, EmptySeq DEF Queued
    <3>2. writeQueue'[Len(writeQueue')] = last
      BY <1>2, <3>1
    <3>. QED  BY <2>1, <2>2, <2>4, <3>2 DEF Agrees, LastSaved
  <2>. QED  BY <2>3, <2>4
<1>5. CASE ~plugins
  <2>1. call[c].op = "install" /\ runtime'.enabled
    BY <1>5 DEF Takes
  <2>2. Head(writeQueue).entry.enabled /\ Head(writeQueue) \in Writes
    BY <1>2, <2>1, QueuedBy DEF QueueOK, Writer
  <2>3. writeQueue' = <<>>
    BY <1>3, <1>5 DEF Unsaved
  <2>4. ~stale' => stored' = Written(Head(writeQueue))
    BY DEF Takes
  <2>5. Written(Head(writeQueue)).enabled
    BY <2>2 DEF Written, IInv, DiskOK, StoredStates
  <2>6. runtime'.enabled = TRUE
    BY <2>1 DEF IInv, RegistryOK, Entries
  <2>7. ~stale' => stored'.enabled = TRUE /\ stored'.quarantined \in BOOLEAN
    BY <2>4, <2>5 DEF IInv, DiskOK, StoredStates
  <2>. QED  BY <2>3, <2>6, <2>7 DEF Agrees
<1>. QED  BY <1>4, <1>5

LEMMA SavedNext == IInv /\ IInv' /\ QueueOK /\ SavedOK /\ [Next]_vars => SavedOK'
<1>. SUFFICES ASSUME IInv, IInv', QueueOK, SavedOK, [Next]_vars PROVE SavedOK'
  OBVIOUS
<1>1. ASSUME Step, late' = (Unsaved \/ (late /\ Len(writeQueue') <= Len(writeQueue)))
      PROVE  SavedOK'
  <2>1. CASE disk' = disk /\ (plugins' => plugins)
    <3>. SUFFICES ASSUME plugins', ~late' PROVE SavedOK'
      BY DEF SavedOK
    <3>1. Len(writeQueue) \in Nat /\ writeQueue' = writeQueue
      BY <2>1, LenProperties DEF IInv, DiskOK, disk
    <3>2. ~Unsaved /\ ~late /\ Len(writeQueue') <= Len(writeQueue)
      <4>1. Len(writeQueue') <= Len(writeQueue)
        BY <3>1
      <4>. QED  BY <1>1, <4>1, Zenon
    <3>3. runtime'.enabled = runtime.enabled
      BY <2>1, <3>2 DEF Unsaved
    <3>. QED  BY <2>1, <3>2, <3>3 DEF SavedOK, LastSaved, Agrees, disk
  <2>2. ASSUME NEW c \in Actors, Takes(c) PROVE SavedOK'
    BY <1>1, <2>2, TakesFlag
  <2>. QED  BY <1>1, <2>1, <2>2, StepShape, SavesFlag DEF Shape, Keeps, registry
<1>2. ASSUME NEW c \in Calls, Restart(c) PROVE SavedOK'
  BY <1>2 DEF Restart, SavedOK, Agrees, Quarantined, Disabled, Entry, IInv, DiskOK, StoredStates
<1>3. CASE UNCHANGED vars
  BY <1>3 DEF vars, SavedOK, LastSaved, Agrees
<1>. QED  BY <1>1, <1>2, <1>3 DEF Next

-----------------------------------------------------------------------------
(* A published quarantine.                                                 *)

\* A write that does not lift a quarantine that is on disk.
Safe(w) == w.partial \/ w.entry.quarantined

\* What was published of the quarantine in force is on disk and no write that
\* waits takes it away; what is not yet published waits in the queue, and
\* nothing behind it takes it away.
QuarantineOK ==
  /\ announced => plugins
  /\ InForce /\ announced => stored.quarantined /\ \A i \in Queued : Safe(writeQueue[i])
  /\ InForce /\ (\E a \in Actors : call[a].op = "quarantine") =>
       \E i \in Queued : /\ Writer(i).op = "quarantine"
                         /\ \A j \in i..Len(writeQueue) : Safe(writeQueue[j])

LEMMA QuarantineInit == Init => QuarantineOK
BY DEF Init, QuarantineOK, InForce, Entry

LEMMA KeepsQuarantine ==
  ASSUME IInv, QueueOK, QuarantineOK, NEW c \in Actors, Keeps(c)
  PROVE  QuarantineOK'
<1>1. \A i \in Queued : writeQueue[i].by \in Actors \ {c}
  BY QueuedBy DEF QueueOK, Writer, Keeps
<1>2. \A a \in Actors \ {c} : call'[a].op = call[a].op
  BY DEF Keeps, OthersStay
<1>3. writeQueue' = writeQueue /\ Queued' = Queued /\ stored' = stored
  BY DEF Keeps, disk, Queued
<1>4. \A i \in Queued : (Writer(i).op)' = Writer(i).op
  BY <1>1, <1>2, <1>3 DEF Writer
<1>5. \A a \in Actors : call'[a].op = "quarantine" => call[a].op = "quarantine"
  BY <1>2 DEF Keeps
<1>6. (InForce' => InForce) /\ (announced' => announced /\ plugins' = plugins)
  BY DEF Keeps, NothingPublished
<1>. QED  BY <1>3, <1>4, <1>5, <1>6 DEF QuarantineOK, Safe

LEMMA SavesQuarantine ==
  ASSUME IInv, IInv', QueueOK, QuarantineOK, NEW c \in Actors, Saves(c)
  PROVE  QuarantineOK'
<1>1. PICK w \in Writes :
        /\ writeQueue' = Append(writeQueue, w) /\ w.by = c
        /\ \/ /\ ~w.partial
              /\ w.entry.quarantined = (runtime'.status = "quarantined")
           \/ w.partial /\ ~plugins /\ UNCHANGED plugins
        /\ InForce' => InForce \/ call'[c].op = "quarantine"
        /\ call'[c].op = "quarantine" => ~announced'
  BY SavedWrite
<1>2. /\ writeQueue \in Seq(Writes) /\ Len(writeQueue) \in Nat
  BY LenProperties DEF IInv, DiskOK
<1>. DEFINE n == Len(writeQueue) + 1
<1>3. /\ Len(writeQueue') = n /\ writeQueue'[n] = w
      /\ \A i \in Queued : writeQueue'[i] = writeQueue[i]
  BY <1>1, <1>2, AppendElements DEF Queued
<1>4. Queued' = Queued \cup {n} /\ n \in Nat
  BY <1>2, <1>3 DEF Queued
<1>5. InForce' => Safe(w)
  BY <1>1 DEF InForce, Safe
<1>6. \A i \in Queued : writeQueue[i].by \in Actors \ {c}
  BY QueuedBy DEF QueueOK, Writer, Saves
<1>7. \A i \in Queued : (Writer(i).op)' = Writer(i).op
  BY <1>3, <1>6 DEF Writer, Saves, OthersStay
<1>8. UNCHANGED stored /\ (announced' => announced /\ plugins' = plugins)
  BY DEF Saves, NothingPublished
<1>9. ASSUME InForce', announced'
      PROVE  stored'.quarantined /\ \A i \in Queued' : Safe(writeQueue'[i])
  <2>1. InForce /\ announced
    BY <1>1, <1>8, <1>9
  <2>. QED  BY <1>3, <1>4, <1>5, <1>8, <1>9, <2>1 DEF QuarantineOK
<1>10. ASSUME InForce', NEW a \in Actors, call'[a].op = "quarantine"
       PROVE  \E i \in Queued' : /\ call'[writeQueue'[i].by].op = "quarantine"
                                 /\ \A j \in i..n : Safe(writeQueue'[j])
  <2>1. CASE call'[c].op = "quarantine"
    <3>1. \A j \in n..n : j = n
      BY <1>4
    <3>. QED  BY <1>1, <1>3, <1>4, <1>5, <1>10, <2>1, <3>1
  <2>2. CASE call'[c].op # "quarantine"
    <3>1. InForce /\ a # c /\ call[a].op = "quarantine"
      BY <1>1, <1>10, <2>2 DEF Saves, OthersStay
    <3>2. PICK i \in Queued : /\ Writer(i).op = "quarantine"
                              /\ \A j \in i..Len(writeQueue) : Safe(writeQueue[j])
      BY <3>1 DEF QuarantineOK
    <3>3. \A j \in i..n : j = n \/ (j \in i..Len(writeQueue) /\ j \in Queued)
      BY <1>2, <3>2 DEF Queued
    <3>4. \A j \in i..n : Safe(writeQueue'[j])
      BY <1>3, <1>5, <1>10, <3>2, <3>3
    <3>. QED  BY <1>4, <1>7, <3>2, <3>4 DEF Writer
  <2>. QED  BY <2>1, <2>2
<1>11. announced' => plugins'
  BY <1>8 DEF QuarantineOK
<1>. QED  BY <1>3, <1>9, <1>10, <1>11 DEF QuarantineOK, Writer

LEMMA TakesQuarantine ==
  ASSUME IInv, IInv', QueueOK, QuarantineOK, NEW c \in Actors, Takes(c)
  PROVE  QuarantineOK'
<1>1. writeQueue \in Seq(Writes) /\ writeQueue # <<>> /\ writeQueue' = Tail(writeQueue)
  BY DEF IInv, DiskOK, Takes
<1>2. /\ Len(writeQueue) \in Nat /\ Len(writeQueue) >= 1
      /\ Len(writeQueue') = Len(writeQueue) - 1
      /\ Head(writeQueue) = writeQueue[1] /\ writeQueue[1].by = c
      /\ \A i \in Queued' : i + 1 \in Queued /\ writeQueue'[i] = writeQueue[i + 1]
  BY <1>1, TailElements DEF Queued, Takes
<1>. DEFINE n == Len(writeQueue)
<1>3. n \in Nat /\ n >= 1 /\ Len(writeQueue') = n - 1 /\ Queued = 1..n /\ Queued' = 1..(n - 1)
  BY <1>2 DEF Queued
<1>. HIDE DEF n
<1>4. \A i \in Queued : writeQueue[i].by = c => i = 1
  BY <1>2, <1>3 DEF QueueOK
<1>5. \A i \in Queued : i # 1 => /\ i - 1 \in Queued' /\ writeQueue'[i - 1] = writeQueue[i]
                                 /\ call'[writeQueue[i].by].op = Writer(i).op
  <2>. SUFFICES ASSUME NEW i \in Queued, i # 1
                PROVE  /\ i - 1 \in Queued' /\ writeQueue'[i - 1] = writeQueue[i]
                       /\ call'[writeQueue[i].by].op = Writer(i).op
    OBVIOUS
  <2>1. i - 1 \in Queued' /\ (i - 1) + 1 = i
    BY <1>3
  <2>2. writeQueue[i].by \in Actors \ {c}
    BY <1>4, QueuedBy
  <2>. QED  BY <1>2, <2>1, <2>2 DEF Writer, Takes, OthersStay
<1>6. /\ stored \in StoredStates /\ Head(writeQueue) \in Writes
      /\ \A w \in Writes : w.partial \in BOOLEAN /\ w.entry.quarantined \in BOOLEAN
  BY <1>2, <1>3, QueuedBy DEF IInv, DiskOK, Writes, StoredStates
<1>7. stored.quarantined /\ Safe(Head(writeQueue)) => Written(Head(writeQueue)).quarantined
  BY <1>6 DEF Safe, Written, StoredStates
<1>8. InForce' => InForce
  BY DEF Takes
<1>9. ASSUME NEW a \in Actors, call'[a].op = "quarantine"
      PROVE  \E k \in Queued : k # 1 /\ Writer(k).op = "quarantine"
  <2>1. a # c /\ call[a].op = "quarantine"
    BY <1>9 DEF Takes, OthersStay
  <2>2. PICK k \in Queued : writeQueue[k].by = a
    BY <2>1 DEF QueueOK
  <2>. QED  BY <1>2, <2>1, <2>2 DEF Writer
<1>10. ASSUME InForce', NEW a \in Actors, call'[a].op = "quarantine"
       PROVE  \E i \in Queued' : /\ call'[writeQueue'[i].by].op = "quarantine"
                                 /\ \A j \in i..(n - 1) : Safe(writeQueue'[j])
  <2>1. PICK k \in Queued : k # 1 /\ Writer(k).op = "quarantine"
    BY <1>9, <1>10
  <2>2. PICK i \in Queued : /\ Writer(i).op = "quarantine"
                            /\ \A j \in i..n : Safe(writeQueue[j])
    <3>1. call[writeQueue[k].by].op = "quarantine" /\ writeQueue[k].by \in Actors
      BY <2>1, QueuedBy DEF Writer
    <3>. QED  BY <1>8, <1>10, <3>1 DEF QuarantineOK, n
  <2>3. PICK m \in Queued : /\ m # 1 /\ Writer(m).op = "quarantine"
                            /\ \A j \in m..n : Safe(writeQueue[j])
    <3>1. CASE i # 1
      BY <2>2, <3>1
    <3>2. CASE i = 1
      <4>1. \A j \in k..n : j \in 1..n
        BY <1>3
      <4>. QED  BY <2>1, <2>2, <3>2, <4>1
    <3>. QED  BY <3>1, <3>2
  <2>4. /\ m - 1 \in Queued'
        /\ \A j \in (m - 1)..(n - 1) : j \in Queued' /\ j + 1 \in m..n
    BY <1>3, <2>3
  <2>5. \A j \in (m - 1)..(n - 1) : Safe(writeQueue'[j])
    BY <1>2, <2>3, <2>4
  <2>6. call'[writeQueue'[m - 1].by].op = "quarantine"
    BY <1>5, <2>3
  <2>. QED  BY <2>4, <2>5, <2>6
<1>11. ASSUME InForce', announced'
       PROVE  stored'.quarantined /\ \A i \in Queued' : Safe(writeQueue'[i])
  <2>1. CASE announced
    <3>1. stored.quarantined /\ \A i \in Queued : Safe(writeQueue[i])
      BY <1>8, <1>11, <2>1 DEF QuarantineOK
    <3>2. Safe(Head(writeQueue))
      BY <1>2, <1>3, <3>1
    <3>. QED  BY <1>2, <1>7, <3>1, <3>2 DEF Takes
  <2>2. CASE /\ stored' = Written(Head(writeQueue))
             /\ call[c].op = "quarantine" /\ InForce /\ Last(c)
    <3>1. PICK i \in Queued : /\ Writer(i).op = "quarantine"
                              /\ \A j \in i..n : Safe(writeQueue[j])
      BY <2>2 DEF QuarantineOK, n
    <3>2. i = 1
      BY <1>4, <2>2, <3>1, QueuedBy DEF Writer, Last
    <3>3. \A j \in Queued : Safe(writeQueue[j])
      BY <1>3, <3>1, <3>2
    <3>4. ~Head(writeQueue).partial /\ Head(writeQueue).entry.quarantined
      BY <1>2, <1>3, <2>2 DEF QueueOK, Writer
    <3>. QED  BY <1>2, <2>2, <3>3, <3>4 DEF Written
  <2>. QED  BY <1>11, <2>1, <2>2 DEF Takes
<1>12. announced' => plugins'
  BY DEF Takes, QuarantineOK, InForce
<1>. QED  BY <1>3, <1>10, <1>11, <1>12 DEF QuarantineOK, Writer

LEMMA RestartQuarantine == ASSUME IInv, NEW c \in Calls, Restart(c) PROVE QuarantineOK'
<1>1. /\ writeQueue' = <<>> /\ stored' = stored
      /\ \A a \in Actors : call'[a].op # "quarantine"
      /\ announced' => runtime'.status = "quarantined"
  BY DEF Restart, At, Idle
<1>2. runtime'.status = "quarantined" => plugins' /\ stored.quarantined
  BY DEF Restart, Quarantined, Disabled, NoEntry, Entry
<1>. QED  BY <1>1, <1>2, EmptySeq DEF QuarantineOK, Queued

LEMMA QuarantineNext ==
  IInv /\ IInv' /\ QueueOK /\ QuarantineOK /\ [Next]_vars => QuarantineOK'
<1>. SUFFICES ASSUME IInv, IInv', QueueOK, QuarantineOK, [Next]_vars PROVE QuarantineOK'
  OBVIOUS
<1>1. CASE UNCHANGED <<call, disk, registry, announced>> \/ UNCHANGED vars
  BY <1>1 DEF vars, QuarantineOK, InForce, Queued, Writer, Safe, disk, registry
<1>2. CASE Step
  BY <1>1, <1>2, StepShape, KeepsQuarantine, SavesQuarantine, TakesQuarantine DEF Shape
<1>. QED  BY <1>1, <1>2, RestartQuarantine DEF Next

-----------------------------------------------------------------------------
(* The answers a quarantined plugin can still give.                        *)

Answering == {"configuring", "starting", "stopping"}

\* While a plugin is in quarantine, every start or stop of its present object
\* that is still under way will be rejected; of a plugin that was removed only
\* replaced objects have anything to answer.
AnswersOK ==
  /\ runtime.status = "quarantined" =>
       \A a \in Actors : call[a].at \in Answering /\ call[a].current => call[a].doomed
  /\ ~plugins => \A a \in Actors : call[a].at \in OnProcess => ~call[a].current

\* What a step did to the other calls only takes from them.
Milder(f) ==
  /\ SamePlaces(f)
  /\ \A a \in Actors : /\ f[a].current => call[a].current
                       /\ call[a].doomed => f[a].doomed

\* The step does not quarantine a registered plugin, nor remove it.
NoLoss == /\ runtime'.status = "quarantined" => runtime.status = "quarantined" \/ ~plugins
          /\ plugins => plugins'

LEMMA DoomMilder == IInv => Milder(Doom(call)) /\ Milder(call)
BY SamePlacesNow, DoomPlaces DEF Milder, Doom, SamePlaces, CallStates

LEMMA OrphanMilder == ASSUME NEW f, Milder(f) PROVE Milder(Orphan(f))
BY OrphanPlaces DEF Milder, Orphan, SamePlaces, CallStates

LEMMA AnswersInit == Init => AnswersOK
BY DEF Init, AnswersOK, Entry

\* A call that goes on to the process does so for a registered plugin, and to a
\* start or a stop for one that is not in quarantine.
LEMMA GotoAnswers ==
  ASSUME AnswersOK, NEW f, Milder(f), NEW c \in Actors, NEW op, NEW at, NEW r,
         Goto(f, c, op, at, r), NoLoss,
         at \in OnProcess => plugins',
         at \in Answering => runtime'.status # "quarantined"
  PROVE  AnswersOK'
<1>1. call'[c].at = at /\ \A a \in Actors \ {c} : call'[a] = f[a]
  BY DEF Goto, At, Milder, SamePlaces
<1>2. Answering \subseteq OnProcess
  BY DEF Answering, OnProcess
<1>. QED  BY <1>1, <1>2 DEF AnswersOK, Milder, SamePlaces, NoLoss

LEMMA ReturnAnswers ==
  ASSUME AnswersOK, NEW f, Milder(f), NEW c \in Actors, Return(f, c), NoLoss
  PROVE  AnswersOK'
<1>1. call'[c].at = "idle" /\ \A a \in Actors \ {c} : call'[a] = f[a]
  BY DEF Return, Idle, Milder, SamePlaces
<1>2. Answering \subseteq OnProcess /\ "idle" \notin OnProcess
  BY DEF Answering, OnProcess
<1>. QED  BY <1>1, <1>2 DEF AnswersOK, Milder, SamePlaces, NoLoss

LEMMA AfterStopAnswers ==
  ASSUME AnswersOK, NEW f, Milder(f), NEW c \in Actors, NEW op, NEW old, NEW r,
         r.status # "quarantined" \/ r = runtime,
         AfterStop(f, c, op, old, r)
  PROVE  AnswersOK'
<1>1. CASE op = "disable"
  <2>1. /\ runtime' = Disabled /\ Save(f, c, op, Disabled, crashHistory)
        /\ UNCHANGED plugins
    BY <1>1 DEF AfterStop
  <2>. QED  BY <2>1, GotoAnswers
            DEF Save, NoLoss, Disabled, Entry, OnProcess, Answering
<1>2. CASE op = "unregister"
  <2>1. runtime' = NoEntry /\ Return(Orphan(f), c)
    BY <1>2 DEF AfterStop
  <2>2. call'[c].at = "idle" /\ \A a \in Actors \ {c} : call'[a].current = FALSE
    BY <2>1, OrphanMilder DEF Return, Idle, Orphan, Milder, SamePlaces, CallStates
  <2>. QED  BY <2>1, <2>2 DEF AnswersOK, NoEntry, Entry, OnProcess
<1>3. CASE op = "reload"
  <2>1. runtime' = r /\ Goto(f, c, op, "reloading", old) /\ UNCHANGED plugins
    BY <1>3 DEF AfterStop
  <2>. QED  BY <2>1, GotoAnswers DEF NoLoss, OnProcess, Answering
<1>4. CASE op = "stopAll"
  <2>1. runtime' = r /\ Return(f, c) /\ UNCHANGED plugins
    BY <1>4 DEF AfterStop
  <2>. QED  BY <2>1, ReturnAnswers DEF NoLoss
<1>. QED  BY <1>1, <1>2, <1>3, <1>4 DEF AfterStop

LEMMA RequestAnswers ==
  ASSUME IInv, AnswersOK, NEW c \in Calls, Request(c) PROVE AnswersOK'
<1>1. c \in Actors /\ Milder(call)
  BY DoomMilder DEF Actors
<1>2. CASE EnablePlugin(c)
  <2>. DEFINE enabled == Entry(IF runtime.status \in {"disabled", "quarantined"}
                               THEN "registered" ELSE runtime.status, TRUE)
  <2>1. /\ runtime' = enabled /\ Goto(call, c, "enable", "saving", enabled)
        /\ UNCHANGED plugins
    BY <1>2 DEF EnablePlugin, Save
  <2>2. enabled.status # "quarantined"
    BY DEF Entry
  <2>. HIDE DEF enabled
  <2>. QED  BY <1>1, <2>1, <2>2, GotoAnswers DEF NoLoss, OnProcess, Answering
<1>3. ASSUME NEW op, plugins, Stop(c, op) PROVE AnswersOK'
  <2>1. CASE AfterStop(call, c, op, runtime, runtime)
    BY <1>1, <2>1, AfterStopAnswers
  <2>2. CASE AfterStop(call, c, op, runtime, [runtime EXCEPT !.status = "stopped"])
    <3>. DEFINE r == [runtime EXCEPT !.status = "stopped"]
    <3>1. r.status # "quarantined" /\ AfterStop(call, c, op, runtime, r)
      BY <2>2 DEF IInv, RegistryOK, Entries
    <3>. HIDE DEF r
    <3>. QED  BY <1>1, <3>1, AfterStopAnswers
  <2>3. CASE /\ runtime.status = "started" /\ Goto(call, c, op, "stopping", runtime)
             /\ UNCHANGED <<registry, process, disk, announced>>
    <3>1. NoLoss /\ plugins' /\ runtime'.status # "quarantined"
      BY <1>3, <2>3 DEF NoLoss, registry
    <3>. QED  BY <1>1, <2>3, <3>1, GotoAnswers
  <2>. QED  BY <1>3, <2>1, <2>2, <2>3 DEF Stop
<1>4. CASE UpdatePluginConfig(c)
  <2>1. /\ Goto(call, c, "configure", "applying", runtime) /\ plugins
        /\ UNCHANGED <<plugins, runtime>>
    BY <1>4 DEF UpdatePluginConfig, registry
  <2>. QED  BY <1>1, <2>1, GotoAnswers DEF NoLoss, Answering
<1>5. CASE InstallPlugin(c)
  <2>1. /\ Goto(call, c, "install", "installing", NoEntry)
        /\ UNCHANGED <<plugins, runtime>>
    BY <1>5 DEF InstallPlugin, registry
  <2>. QED  BY <1>1, <2>1, GotoAnswers DEF NoLoss, OnProcess, Answering
<1>. QED  BY <1>2, <1>3, <1>4, <1>5
          DEF Request, DisablePlugin, ReloadPlugin, UnregisterPlugin, StopAll

LEMMA ResolveAnswers ==
  ASSUME IInv, AnswersOK, NEW c \in Calls, Resolve(c) PROVE AnswersOK'
<1>1. /\ c \in Actors /\ Milder(call) /\ Milder(Doom(call))
      /\ call[c].snap \in Entries
  BY DoomMilder, SnapFacts DEF Actors
<1>2. runtime' = Failed(c) /\ plugins' = plugins => NoLoss
  <2>1. plugins => runtime # NoEntry
    BY DEF IInv, RegistryOK, NoEntry, Entry
  <2>. QED  BY <1>1, <2>1, FailedKeeps DEF NoLoss
<1>3. CASE StopSucceeds(c)
  <2>. DEFINE others == IF Isolated /\ call[c].current THEN Doom(call) ELSE call
              r == [call[c].snap EXCEPT !.status = "stopped"]
  <2>1. AfterStop(others, c, call[c].op, call[c].snap, r)
    BY <1>3 DEF StopSucceeds
  <2>2. Milder(others) /\ r.status # "quarantined"
    BY <1>1 DEF Entries
  <2>. HIDE DEF others, r
  <2>. QED  BY <1>1, <2>1, <2>2, AfterStopAnswers
<1>4. CASE StopFails(c)
  <2>. DEFINE others == IF Isolated /\ call[c].current THEN Doom(call) ELSE call
  <2>1. runtime' = Failed(c) /\ Return(others, c) /\ UNCHANGED plugins
    BY <1>4 DEF StopFails
  <2>2. Milder(others)
    BY <1>1
  <2>. HIDE DEF others
  <2>. QED  BY <1>1, <1>2, <2>1, <2>2, ReturnAnswers
<1>5. CASE ConfigureSucceeds(c)
  <2>1. /\ call[c].at = "configuring" /\ ~call[c].doomed
        /\ call' = [call EXCEPT ![c].at = "starting"]
        /\ UNCHANGED <<plugins, runtime>>
    BY <1>5 DEF ConfigureSucceeds, registry
  <2>2. /\ \A a \in Actors \ {c} : call'[a] = call[a]
        /\ call'[c].current = call[c].current
    BY <1>1, <2>1 DEF Milder, SamePlaces, CallStates
  <2>3. runtime.status = "quarantined" \/ ~plugins => ~call[c].current
    BY <1>1, <2>1 DEF AnswersOK, Answering, OnProcess
  <2>. QED  BY <2>1, <2>2, <2>3 DEF AnswersOK
<1>6. CASE StartSucceeds(c)
  <2>1. /\ runtime' = [call[c].snap EXCEPT !.status = "started"] /\ Return(call, c)
        /\ UNCHANGED plugins
    BY <1>6 DEF StartSucceeds
  <2>2. runtime'.status # "quarantined"
    BY <1>1, <2>1 DEF Entries
  <2>. QED  BY <1>1, <2>1, <2>2, ReturnAnswers DEF NoLoss
<1>7. CASE StartFails(c)
  <2>1. CASE runtime' = Failed(c) /\ Return(call, c) /\ UNCHANGED plugins
    BY <1>1, <1>2, <2>1, ReturnAnswers
  <2>2. CASE AfterStop(call, c, "unregister", NoEntry, NoEntry)
    <3>1. NoEntry.status # "quarantined"
      BY DEF NoEntry, Entry
    <3>. QED  BY <1>1, <2>2, <3>1, AfterStopAnswers
  <2>. QED  BY <1>7, <2>1, <2>2 DEF StartFails
<1>8. CASE ApplyReturns(c)
  <2>1. runtime' \in {runtime, Failed(c)} /\ Return(call, c) /\ plugins' = plugins
    BY <1>8 DEF ApplyReturns
  <2>2. NoLoss
    BY <1>2, <2>1 DEF NoLoss
  <2>. QED  BY <1>1, <2>1, <2>2, ReturnAnswers
<1>9. CASE ReloadSucceeds(c)
  <2>. DEFINE enabled == call[c].snap.status = "quarantined" \/ call[c].snap.enabled
              fresh == IF enabled THEN Entry("registered", TRUE) ELSE Disabled
  <2>1. /\ plugins' = TRUE /\ runtime' = fresh
        /\ Goto(Orphan(call), c, "reload", "saving", fresh)
    BY <1>9 DEF ReloadSucceeds, Save
  <2>2. fresh.status # "quarantined"
    BY DEF Disabled, Entry
  <2>. HIDE DEF fresh
  <2>. QED  BY <1>1, <2>1, <2>2, OrphanMilder, GotoAnswers DEF NoLoss, OnProcess, Answering
<1>10. CASE ReloadFails(c) \/ InstallFails(c)
  <2>1. Return(call, c) /\ UNCHANGED <<plugins, runtime>>
    BY <1>10 DEF ReloadFails, InstallFails, registry
  <2>. QED  BY <1>1, <2>1, ReturnAnswers DEF NoLoss
<1>11. CASE InstallReady(c)
  <2>1. /\ Goto(call, c, "install", "saving", Entry("registered", TRUE))
        /\ UNCHANGED <<plugins, runtime>>
    BY <1>11 DEF InstallReady, registry
  <2>. QED  BY <1>1, <2>1, GotoAnswers DEF NoLoss, OnProcess, Answering
<1>. QED  BY <1>3, <1>4, <1>5, <1>6, <1>7, <1>8, <1>9, <1>10, <1>11 DEF Resolve

LEMMA WriteAnswers ==
  ASSUME IInv, AnswersOK, NEW c \in Actors, Write(c) PROVE AnswersOK'
<1>1. Milder(call)
  BY DoomMilder
<1>2. CASE Return(call, c) /\ UNCHANGED registry
  BY <1>1, <1>2, ReturnAnswers DEF NoLoss, registry
<1>3. CASE Starts(c) /\ Start(call, c, call[c].op, runtime) /\ UNCHANGED registry
  <2>1. plugins /\ UNCHANGED <<plugins, runtime>>
    BY <1>3 DEF Starts, registry
  <2>2. CASE runtime.enabled /\ Goto(call, c, call[c].op, "configuring", runtime)
    <3>1. runtime.status # "quarantined"
      BY <2>2 DEF IInv, RegistryOK, Consistent
    <3>. QED  BY <1>1, <2>1, <2>2, <3>1, GotoAnswers DEF NoLoss
  <2>. QED  BY <1>2, <1>3, <2>2 DEF Start
<1>4. CASE /\ plugins' = TRUE /\ runtime' = Entry("registered", TRUE)
           /\ Goto(call, c, "install", "configuring", Entry("registered", TRUE))
  <2>1. runtime'.status # "quarantined"
    BY <1>4 DEF Entry
  <2>. QED  BY <1>1, <1>4, <2>1, GotoAnswers DEF NoLoss
<1>. QED  BY <1>2, <1>3, <1>4 DEF Write, WriteSucceeds, WriteFails, AfterSave

LEMMA CrashAnswers ==
  ASSUME IInv, AnswersOK, NEW r \in Reports, RecordRuntimeCrash(r) PROVE AnswersOK'
<1>1. /\ plugins /\ plugins' = plugins /\ r \in Actors /\ Milder(Doom(call))
      /\ call \in [Actors -> CallStates]
  BY DoomMilder DEF RecordRuntimeCrash, Actors, IInv, CallsOK
<1>2. \E op : \E e : Goto(Doom(call), r, op, "saving", e)
  BY DEF RecordRuntimeCrash, Save
<1>3. /\ call'[r].at = "saving"
      /\ \A a \in Actors \ {r} : call'[a] = Doom(call)[a]
  BY <1>1, <1>2 DEF Goto, At, Milder, SamePlaces
<1>4. \A a \in Actors : Doom(call)[a].at \in Answering /\ Doom(call)[a].current
                          => Doom(call)[a].doomed
  BY <1>1 DEF Doom, Answering, OnProcess, CallStates
<1>5. \A a \in Actors : call'[a].at \in Answering /\ call'[a].current => call'[a].doomed
  BY <1>3, <1>4 DEF Answering
<1>. QED  BY <1>1, <1>5 DEF AnswersOK

LEMMA RestartAnswers == ASSUME IInv, NEW c \in Calls, Restart(c) PROVE AnswersOK'
<1>1. \A a \in Actors : call'[a].at \in OnProcess => a = c /\ runtime'.enabled
  BY DEF Restart, At, Idle, OnProcess
<1>2. runtime'.enabled => plugins' /\ runtime'.status # "quarantined"
  BY DEF Restart, Quarantined, Disabled, NoEntry, Entry
<1>3. Answering \subseteq OnProcess
  BY DEF Answering, OnProcess
<1>. QED  BY <1>1, <1>2, <1>3 DEF AnswersOK

LEMMA AnswersNext == IInv /\ AnswersOK /\ [Next]_vars => AnswersOK'
<1>. SUFFICES ASSUME IInv, AnswersOK, [Next]_vars PROVE AnswersOK'
  OBVIOUS
<1>1. ASSUME NEW c \in Calls, Request(c) \/ Resolve(c) \/ Restart(c) PROVE AnswersOK'
  BY <1>1, RequestAnswers, ResolveAnswers, RestartAnswers
<1>2. CASE Respawn \/ UNCHANGED vars
  BY <1>2 DEF Respawn, vars, AnswersOK, registry
<1>. QED  BY <1>1, <1>2, WriteAnswers, CrashAnswers DEF Next, Step

-----------------------------------------------------------------------------
(* The end of a quarantine.                                                *)

\* A crash report saves the entry and, perhaps, a quarantine; no more.
ReportsOK == \A r \in Reports : call[r].op \in {"none", "crash", "quarantine"}

LEMMA ReportsInit == Init => ReportsOK
BY LifecycleAssumption DEF Init, ReportsOK, Idle, At, Actors

LEMMA ReportsNext == IInv /\ QueueOK /\ ReportsOK /\ [Next]_vars => ReportsOK'
<1>. SUFFICES ASSUME IInv, QueueOK, ReportsOK, [Next]_vars PROVE ReportsOK'
  OBVIOUS
<1>1. ASSUME NEW c \in Calls, Request(c) \/ Resolve(c) PROVE ReportsOK'
  <2>1. OthersStay(c)
    BY <1>1, RequestShape, ResolveShape DEF Keeps, Saves
  <2>. QED  BY <2>1, LifecycleAssumption DEF OthersStay, ReportsOK, Actors
<1>2. ASSUME NEW a \in Actors, Write(a) PROVE ReportsOK'
  <2>1. OthersStay(a)
    BY <1>2, WriteShape DEF Takes
  <2>2. a \in Reports => call'[a].op = "none"
    <3>. SUFFICES ASSUME a \in Reports PROVE call'[a].op = "none"
      OBVIOUS
    <3>1. Return(call, a)
      BY <1>2 DEF Write, WriteSucceeds, WriteFails, AfterSave, Starts, ReportsOK
    <3>. QED  BY <3>1, SamePlacesNow, ReturnPlaces
  <2>. QED  BY <2>1, <2>2 DEF OthersStay, ReportsOK, Actors
<1>3. ASSUME NEW r \in Reports, RecordRuntimeCrash(r) PROVE ReportsOK'
  <2>1. OthersStay(r)
    BY <1>3, CrashShape DEF Saves
  <2>2. \E op \in {"crash", "quarantine"} : \E e : Goto(Doom(call), r, op, "saving", e)
    BY <1>3 DEF RecordRuntimeCrash, Save
  <2>3. call'[r].op \in {"crash", "quarantine"}
    BY <2>2, SamePlacesNow, DoomPlaces, GotoPlaces DEF Actors
  <2>. QED  BY <2>1, <2>3 DEF OthersStay, ReportsOK, Actors
<1>4. ASSUME NEW c \in Calls, Restart(c) PROVE ReportsOK'
  BY <1>4, LifecycleAssumption DEF Restart, Idle, At, ReportsOK, Actors
<1>5. CASE Respawn \/ UNCHANGED vars
  BY <1>5 DEF Respawn, vars, ReportsOK
<1>. QED  BY <1>1, <1>2, <1>3, <1>4, <1>5 DEF Next, Step

\* The states in which the end of a quarantine is looked at.
Settled == IInv /\ QueueOK /\ QuarantineOK /\ AnswersOK /\ ReportsOK

\* What a stop leads to: the operator's decision, or nothing.
LEMMA AfterStopKept ==
  ASSUME NEW f, SamePlaces(f), NEW c \in Calls, call[c].at # "saving",
         NEW op, NEW old, NEW r,
         AfterStop(f, c, op, old, r)
  PROVE  Operator \/ runtime' = r
<1>1. c \in Actors
  BY DEF Actors
<1>2. CASE op = "disable"
  <2>1. Goto(f, c, op, "saving", Disabled)
    BY <1>2 DEF AfterStop, Save
  <2>2. call'[c].op = op /\ call'[c].at = "saving"
    BY <1>1, <2>1, GotoPlaces
  <2>. QED  BY <1>2, <2>2 DEF Operator
<1>3. CASE op # "disable"
  BY <1>3 DEF AfterStop, Operator
<1>. QED  BY <1>2, <1>3

LEMMA ResolveKept ==
  ASSUME Settled, NEW c \in Calls, Resolve(c) PROVE QuarantineKept
<1>. SUFFICES ASSUME runtime.status = "quarantined", runtime'.status # "quarantined"
              PROVE  Operator \/ Replaced
  BY DEF QuarantineKept
<1>1. /\ c \in Actors /\ SamePlaces(call) /\ SamePlaces(Doom(call))
      /\ runtime # NoEntry /\ call[c].snap \in Entries
  BY SamePlacesNow, DoomPlaces, SnapFacts DEF Settled, Actors, NoEntry, Entry
<1>2. Failed(c).status = "quarantined"
  BY <1>1, FailedKeeps DEF Settled
<1>3. call[c].at \in {"starting", "stopping"} /\ ~call[c].doomed => ~call[c].current
  BY <1>1 DEF Settled, AnswersOK, Answering
<1>4. ~call[c].current /\ call'[c] # call[c] => Replaced
  BY DEF Replaced
<1>5. CASE StopSucceeds(c)
  <2>. DEFINE others == IF Isolated /\ call[c].current THEN Doom(call) ELSE call
              r == [call[c].snap EXCEPT !.status = "stopped"]
  <2>1. /\ call[c].at = "stopping" /\ ~call[c].doomed
        /\ AfterStop(others, c, call[c].op, call[c].snap, r)
    BY <1>5 DEF StopSucceeds
  <2>2. SamePlaces(others)
    BY <1>1
  <2>. HIDE DEF others, r
  <2>3. call'[c].at # "stopping"
    <3>1. /\ call[c].at # "saving" /\ call[c].op \in Operations
          /\ r.status # "quarantined" \/ r = runtime
      BY <1>1, <2>1, SnapFacts DEF r, Settled, Entries
    <3>2. SamePlaces(Orphan(others))
      BY <2>2, OrphanPlaces
    <3>. QED  BY <1>1, <2>1, <2>2, <3>2, GotoPlaces, ReturnPlaces DEF AfterStop, Save
  <2>. QED  BY <1>3, <1>4, <2>1, <2>3
<1>6. CASE StartSucceeds(c)
  <2>1. call[c].at = "starting" /\ ~call[c].doomed /\ Return(call, c)
    BY <1>6 DEF StartSucceeds
  <2>2. call'[c].at = "idle"
    BY <1>1, <2>1, ReturnPlaces
  <2>. QED  BY <1>3, <1>4, <2>1, <2>2
<1>7. CASE StartFails(c)
  <2>1. CASE AfterStop(call, c, "unregister", NoEntry, NoEntry)
    BY <2>1 DEF AfterStop, Operator
  <2>. QED  BY <1>2, <1>7, <2>1 DEF StartFails
<1>8. CASE ReloadSucceeds(c)
  <2>1. /\ call[c].at = "reloading"
        /\ \E e : Goto(Orphan(call), c, "reload", "saving", e)
    BY <1>8 DEF ReloadSucceeds, Save
  <2>2. call'[c].op = "reload" /\ call'[c].at = "saving"
    BY <1>1, <2>1, OrphanPlaces, GotoPlaces
  <2>. QED  BY <2>1, <2>2 DEF Operator
<1>9. CASE StopFails(c) \/ ApplyReturns(c)
  BY <1>2, <1>9 DEF StopFails, ApplyReturns
<1>10. CASE ConfigureSucceeds(c) \/ ReloadFails(c) \/ InstallReady(c) \/ InstallFails(c)
  BY <1>10 DEF ConfigureSucceeds, ReloadFails, InstallReady, InstallFails, registry
<1>. QED  BY <1>5, <1>6, <1>7, <1>8, <1>9, <1>10 DEF Resolve

LEMMA RequestKept ==
  ASSUME Settled, NEW c \in Calls, Request(c) PROVE QuarantineKept
<1>. SUFFICES ASSUME runtime.status = "quarantined", runtime'.status # "quarantined"
              PROVE  Operator
  BY DEF QuarantineKept
<1>1. c \in Actors /\ SamePlaces(call)
  BY SamePlacesNow DEF Settled, Actors
<1>2. CASE EnablePlugin(c)
  <2>1. /\ call[c].op = "none"
        /\ \E e : Goto(call, c, "enable", "saving", e)
    BY <1>2 DEF EnablePlugin, Save, Ready
  <2>2. call'[c].op = "enable" /\ call'[c].at = "saving"
    BY <1>1, <2>1, GotoPlaces
  <2>. QED  BY <2>1, <2>2 DEF Operator
<1>3. ASSUME NEW op, Stop(c, op), call[c].op = "none" PROVE Operator
  <2>1. AfterStop(call, c, op, runtime, runtime)
    BY <1>3 DEF Stop
  <2>2. call[c].at # "saving"
    BY <1>1, <1>3 DEF Settled, QueueOK
  <2>. QED  BY <1>1, <2>1, <2>2, AfterStopKept
<1>4. CASE UpdatePluginConfig(c) \/ InstallPlugin(c)
  BY <1>4 DEF UpdatePluginConfig, InstallPlugin, registry
<1>. QED  BY <1>2, <1>3, <1>4
          DEF Request, DisablePlugin, ReloadPlugin, UnregisterPlugin, StopAll, Ready

LEMMA StepKept == Settled /\ [Next]_vars => QuarantineKept
<1>. SUFFICES ASSUME Settled, [Next]_vars, runtime.status = "quarantined",
                     runtime'.status # "quarantined"
              PROVE  QuarantineKept
  BY DEF QuarantineKept
<1>1. ASSUME NEW c \in Calls, Request(c) \/ Resolve(c) PROVE QuarantineKept
  BY <1>1, RequestKept, ResolveKept
<1>2. ASSUME NEW a \in Actors, Write(a) PROVE QuarantineKept
  <2>1. /\ call[a].op = "install"
        /\ Goto(call, a, "install", "configuring", Entry("registered", TRUE))
    BY <1>2 DEF Write, WriteSucceeds, WriteFails, AfterSave, registry
  <2>2. call[a].at = "saving"
    <3>1. /\ writeQueue \in Seq(Writes) /\ writeQueue # <<>>
          /\ writeQueue[1].by = a
      BY <1>2, TailElements
         DEF Write, WriteSucceeds, WriteFails, Settled, IInv, DiskOK
    <3>2. 1 \in Queued
      BY <3>1, TailElements DEF Queued
    <3>. QED  BY <3>1, <3>2 DEF Settled, QueueOK, Writer
  <2>3. call'[a].op = "install" /\ call'[a].at = "configuring"
    BY <2>1, SamePlacesNow, GotoPlaces DEF Settled
  <2>4. a \in Calls
    BY <2>1 DEF Settled, ReportsOK, Actors
  <2>5. Operator
    BY <2>2, <2>3, <2>4 DEF Operator
  <2>. QED  BY <2>5 DEF QuarantineKept
<1>3. ASSUME NEW r \in Reports, RecordRuntimeCrash(r) PROVE QuarantineKept
  BY <1>3 DEF RecordRuntimeCrash, Quarantined, Entry
<1>4. ASSUME NEW c \in Calls, Restart(c) PROVE QuarantineKept
  <2>1. announced => stored.quarantined
    BY DEF Settled, QuarantineOK, InForce
  <2>2. announced => ~plugins'
    BY <1>4, <2>1 DEF Restart, Quarantined, Entry
  <2>. QED  BY <1>4, <2>2 DEF QuarantineKept, Operator
<1>5. CASE Respawn \/ UNCHANGED vars
  BY <1>5 DEF Respawn, vars, registry
<1>. QED  BY <1>1, <1>2, <1>3, <1>4, <1>5 DEF Next, Step

-----------------------------------------------------------------------------
\* The queue, the flag, the quarantine and the answers together.
LEMMA Settles == Spec => [](Settled /\ SavedOK)
<1>1. Spec => []IInv
  BY Invariance
<1>2. Spec => []QueueOK
  BY <1>1, QueueInit, QueueNext, PTL DEF Spec
<1>3. Spec => []QuarantineOK
  BY <1>1, <1>2, QuarantineInit, QuarantineNext, PTL DEF Spec
<1>4. Spec => []AnswersOK
  BY <1>1, AnswersInit, AnswersNext, PTL DEF Spec
<1>5. Spec => []ReportsOK
  BY <1>1, <1>2, ReportsInit, ReportsNext, PTL DEF Spec
<1>6. Spec => []SavedOK
  BY <1>1, <1>2, SavedInit, SavedNext, PTL DEF Spec
<1>. QED  BY <1>1, <1>2, <1>3, <1>4, <1>5, <1>6, PTL DEF Settled

\* However many requests and crash reports save the entry at the same time, the
\* state file says of a registered plugin what the registry says once nothing
\* is in flight (JsonPluginStateStore.writeQueue, saveRuntimeState).
THEOREM FlagIsStored == Spec => []EnabledIsStored
<1>1. Settled /\ SavedOK => EnabledIsStored
  <2>. SUFFICES ASSUME Settled, SavedOK, Quiet, plugins, ~stale, ~late
                PROVE  Agrees(stored)
    BY DEF EnabledIsStored, Agrees
  <2>1. Queued = {}
    <3>1. \A i \in Queued : writeQueue[i].by \in Actors /\ Writer(i).at = "saving"
      BY QueuedBy DEF Settled, QueueOK
    <3>. QED  BY <3>1 DEF Quiet, Writer, Idle
  <2>2. writeQueue = <<>>
    BY <2>1, TailElements DEF Queued, Settled, IInv, DiskOK
  <2>. QED  BY <2>2 DEF SavedOK
<1>. QED  BY <1>1, Settles, PTL

\* A quarantine that runtime.quarantined announced is in the state file as long
\* as it lasts, whatever is saved meanwhile (recordRuntimeCrash).
THEOREM AnnouncedIsStored == Spec => []AnnouncedQuarantineIsStored
<1>1. Settled => AnnouncedQuarantineIsStored
  BY DEF Settled, QuarantineOK, InForce, AnnouncedQuarantineIsStored
<1>. QED  BY <1>1, Settles, PTL

\* No late answer of the plugin and no restart ends an announced quarantine: an
\* operator does, or the answer of an object that was replaced.
THEOREM QuarantineSticks == Spec => QuarantineIsSticky
<1>1. Settled /\ [Next]_vars => [QuarantineKept]_vars
  BY StepKept
<1>. QED  BY <1>1, Settles, PTL DEF Spec, QuarantineIsSticky

-----------------------------------------------------------------------------
(* The crashes of a plugin.                                                *)

\* No crashes are remembered of a plugin that is not registered.
ForgottenOK == ~plugins => crashHistory = 0

\* What a step does to the crashes and the flag: it forgets them; it leaves them, and enables
\* no plugin when it saves; it registers a plugin; or it is a crash.
Counts ==
  \/ crashHistory' = 0
  \/ /\ UNCHANGED <<plugins, crashHistory>>
     /\ ~runtime'.enabled \/ UNCHANGED runtime \/ UNCHANGED writeQueue
  \/ ~plugins /\ UNCHANGED crashHistory
  \/ /\ plugins /\ UNCHANGED plugins
     /\ ~runtime'.enabled \/ ~AtThreshold(crashHistory')

LEMMA AfterStopCounts ==
  ASSUME NEW f, NEW c, NEW op, NEW old, NEW r, AfterStop(f, c, op, old, r)
  PROVE  Counts
BY DEF AfterStop, Counts, Disabled, Entry, disk

LEMMA RequestCounts == ASSUME NEW c \in Calls, Request(c) PROVE Counts
<1>1. CASE EnablePlugin(c)
  BY <1>1 DEF EnablePlugin, Counts
<1>2. ASSUME NEW op, Stop(c, op) PROVE Counts
  BY <1>2, AfterStopCounts DEF Stop, Counts, registry
<1>3. CASE UpdatePluginConfig(c) \/ InstallPlugin(c)
  BY <1>3 DEF UpdatePluginConfig, InstallPlugin, Counts, registry
<1>. QED  BY <1>1, <1>2, <1>3 DEF Request, DisablePlugin, ReloadPlugin, UnregisterPlugin, StopAll

LEMMA ResolveCounts == ASSUME NEW c \in Calls, Resolve(c) PROVE Counts
<1>1. CASE StopSucceeds(c)
  BY <1>1, AfterStopCounts DEF StopSucceeds
<1>2. CASE StopFails(c) \/ StartSucceeds(c) \/ ApplyReturns(c)
  BY <1>2 DEF StopFails, StartSucceeds, ApplyReturns, Counts, disk
<1>3. CASE StartFails(c)
  BY <1>3, AfterStopCounts DEF StartFails, Counts, disk
<1>4. CASE ConfigureSucceeds(c) \/ ReloadFails(c) \/ InstallReady(c) \/ InstallFails(c)
  BY <1>4 DEF ConfigureSucceeds, ReloadFails, InstallReady, InstallFails, Counts, registry
<1>5. CASE ReloadSucceeds(c)
  BY <1>5 DEF ReloadSucceeds, Counts
<1>. QED  BY <1>1, <1>2, <1>3, <1>4, <1>5 DEF Resolve

LEMMA StepCounts == ASSUME Step PROVE Counts
<1>1. ASSUME NEW c \in Calls, Request(c) \/ Resolve(c) PROVE Counts
  BY <1>1, RequestCounts, ResolveCounts
<1>2. ASSUME NEW a \in Actors, Write(a) PROVE Counts
  BY <1>2 DEF Write, WriteSucceeds, WriteFails, AfterSave, Counts, registry
<1>3. ASSUME NEW r \in Reports, RecordRuntimeCrash(r) PROVE Counts
  <2>1. plugins /\ UNCHANGED plugins
    BY <1>3 DEF RecordRuntimeCrash
  <2>2. \/ runtime' = Quarantined
        \/ UNCHANGED runtime /\ ~(runtime.enabled /\ AtThreshold(crashHistory'))
    BY <1>3 DEF RecordRuntimeCrash
  <2>. QED  BY <2>1, <2>2 DEF Counts, Quarantined, Entry
<1>4. CASE Respawn
  BY <1>4 DEF Respawn, Counts, registry
<1>. QED  BY <1>1, <1>2, <1>3, <1>4 DEF Step

LEMMA ForgottenNext == ForgottenOK /\ [Next]_vars => ForgottenOK'
<1>. SUFFICES ASSUME ForgottenOK, [Next]_vars PROVE ForgottenOK'
  OBVIOUS
<1>1. CASE Step
  BY <1>1, StepCounts DEF Counts, ForgottenOK
<1>2. ASSUME NEW c \in Calls, Restart(c) PROVE ForgottenOK'
  BY <1>2 DEF Restart, ForgottenOK
<1>3. CASE UNCHANGED vars
  BY <1>3 DEF vars, ForgottenOK
<1>. QED  BY <1>1, <1>2, <1>3 DEF Next

\* A step that leaves a plugin overdue found it so, or enabled it behind the store's back.
LEMMA StepQuarantines ==
  ASSUME IInv, ForgottenOK, Step, Overdue' PROVE Overdue \/ Unsaved
<1>1. Counts
  BY StepCounts
<1>2. ~(0 >= Threshold) /\ runtime.enabled \in BOOLEAN /\ Len(writeQueue) \in Nat
  BY LifecycleAssumption DEF IInv, RegistryOK, DiskOK, Entries
<1>3. CASE UNCHANGED <<plugins, crashHistory>> /\ UNCHANGED runtime
  BY <1>3 DEF Overdue
<1>4. CASE UNCHANGED <<plugins, crashHistory>> /\ UNCHANGED writeQueue
  <2>1. Len(writeQueue') <= Len(writeQueue)
    BY <1>2, <1>4
  <2>2. plugins /\ plugins' /\ runtime'.enabled /\ crashHistory >= Threshold
    BY <1>4 DEF Overdue
  <2>3. CASE ~runtime.enabled
    BY <2>1, <2>2, <2>3 DEF Unsaved
  <2>. QED  BY <2>2, <2>3 DEF Overdue
<1>. QED  BY <1>1, <1>2, <1>3, <1>4 DEF Counts, Overdue, AtThreshold, ForgottenOK

\* However crashes, requests, late answers and restarts interleave, a plugin that has crashed
\* so often is quarantined (recordRuntimeCrash), but for the two exceptions of the property.
THEOREM CrashesAreCounted == Spec => CrashesQuarantine
<1>1. IInv /\ ForgottenOK /\ [Next]_vars
        => [Overdue' => Overdue \/ Unsaved \/ (\E c \in Calls : Restart(c))]_vars
  BY StepQuarantines DEF Next
<1>2. Init => ForgottenOK
  BY DEF Init, ForgottenOK
<1>. QED  BY <1>1, <1>2, ForgottenNext, Invariance, PTL DEF Spec, CrashesQuarantine

=============================================================================
