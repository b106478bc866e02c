-------------------------- MODULE PluginLifecycle --------------------------
(***************************************************************************)
(* The lifecycle of one external plugin in the PluginRegistry              *)
(* (core/plugin-contract/registry.ts) together with the two things that    *)
(* outlive or escape the registry's own maps: the entry of the plugin in   *)
(* plugin-state.json (plugins/stateStore.ts) and the plugin's process      *)
(* (plugins/processSandbox.ts).                                            *)
(*                                                                         *)
(* The server is single threaded, but every operation of the registry      *)
(* awaits the plugin or the disk, and no lock spans those awaits.  A call  *)
(* is therefore a record with a position "at": the part of the handler     *)
(* between two awaits is one action, and calls interleave at the awaits.   *)
(* A call keeps in "snap" the runtime entry it read before its await,      *)
(* because start() and stop() write that copy back when they succeed.      *)
(*                                                                         *)
(* Abstractions: one plugin id; configuration values, timestamps and error *)
(* texts are left out; a crash time is only "inside or outside the         *)
(* window", so crashHistory is a count, saturated at Threshold.  Isolated  *)
(* selects execution.isolation "process" or "in-process".                  *)
(***************************************************************************)
EXTENDS Naturals, Sequences

CONSTANTS Calls,      \* requests of operators the server handles at a time
          Reports,    \* recordRuntimeCrash calls in flight at a time
          Threshold,  \* PLUGIN_CRASH_QUARANTINE_THRESHOLD
          Isolated    \* TRUE: the plugin runs in a process of its own

ASSUME LifecycleAssumption ==
  /\ Calls # {}
  /\ Calls \cap Reports = {}
  /\ Threshold \in Nat \ {0}
  /\ Isolated \in BOOLEAN

VARIABLES
  plugins,       \* is the plugin in the registry's plugins map?
  runtime,       \* its entry in the runtime map
  crashHistory,  \* crashes inside the window, saturated at Threshold
  process,       \* the current plugin object: "down", "idle" or "running"
  wants,         \* PluginProcessSandbox.pluginStarted of that object
  stored,        \* the plugin's entry in plugin-state.json
  writeQueue,    \* JsonPluginStateStore.writeQueue: writes not yet done
  stale,         \* did the last write fail? (its caller got the error)
  announced,     \* runtime.quarantined was published for this quarantine
  call,          \* the calls in flight
  late           \* ghost: the registry has a flag that no write queued since holds

vars == <<plugins, runtime, crashHistory, process, wants, stored, writeQueue,
          stale, announced, call, late>>
registry == <<plugins, runtime, crashHistory>>
object == <<process, wants>>
disk == <<stored, writeQueue, stale>>

Actors == Calls \cup Reports

Statuses == {"registered", "started", "stopped", "failed", "disabled",
             "quarantined", "none"}
Entries == [status : Statuses, enabled : BOOLEAN]

Entry(s, e) == [status |-> s, enabled |-> e]
NoEntry == Entry("none", FALSE)
Disabled == Entry("disabled", FALSE)
Quarantined == Entry("quarantined", FALSE)

StoredStates == [enabled : BOOLEAN, quarantined : BOOLEAN, recent : 0..Threshold]
NothingStored == [enabled |-> TRUE, quarantined |-> FALSE, recent |-> 0]

Operations == {"none", "startAll", "enable", "disable", "reload", "unregister",
               "stopAll", "configure", "install", "crash", "quarantine"}
Positions == {"idle", "configuring", "starting", "stopping", "reloading",
              "saving", "applying", "installing"}
\* The positions at which a call waits for the plugin's process.
OnProcess == {"configuring", "starting", "stopping", "applying"}

CallStates == [op : Operations, at : Positions, snap : Entries,
               doomed : BOOLEAN, current : BOOLEAN]
Idle == [op |-> "none", at |-> "idle", snap |-> NoEntry,
         doomed |-> FALSE, current |-> TRUE]
At(op, at, snap) == [op |-> op, at |-> at, snap |-> snap,
                     doomed |-> FALSE, current |-> TRUE]

\* The definitions named Mut... are defects the properties must detect; they
\* are no part of the specification.  This one: a failure during a quarantine
\* makes it a plain failure.
MutFailed(c) ==
  [(IF runtime = NoEntry THEN call[c].snap ELSE runtime) EXCEPT !.status = "failed"]

\* A failure of start, stop or configure: the current entry, if there still
\* is one, and a quarantine is never overwritten by it.
Failed(c) ==
  LET base == IF runtime = NoEntry THEN call[c].snap ELSE runtime
  IN  [base EXCEPT !.status = IF @ = "quarantined" THEN @ ELSE "failed"]

\* Defect: a quarantine is saved as if the plugin were only disabled.
MutSnapshot(r, h) == [enabled |-> r.enabled, quarantined |-> FALSE, recent |-> h]

\* What saveRuntimeState hands to the store, and the enabled-only variant.
Snapshot(r, h) == [enabled |-> r.enabled, quarantined |-> r.status = "quarantined",
                   recent |-> h]
Writes == [by : Actors, partial : BOOLEAN, entry : StoredStates]

-----------------------------------------------------------------------------
(* The parts handlers are made of.  The parameter f is the calls in flight *)
(* after what the step did to the other calls.                             *)

Goto(f, c, op, at, snap) == call' = [f EXCEPT ![c] = At(op, at, snap)]
Return(f, c) == call' = [f EXCEPT ![c] = Idle]

\* The exit of the process rejects every request pending on it ...
Doom(f) == [a \in Actors |->
  IF f[a].current /\ f[a].at \in OnProcess THEN [f[a] EXCEPT !.doomed = TRUE] ELSE f[a]]
\* ... and a replaced or removed plugin object is no longer the one in the map.
Orphan(f) == [a \in Actors |-> [f[a] EXCEPT !.current = FALSE]]

\* Enqueue a write of the whole entry and await it.
Save(f, c, op, r, h) ==
  /\ writeQueue' = Append(writeQueue, [by |-> c, partial |-> FALSE,
                                       entry |-> Snapshot(r, h)])
  /\ Goto(f, c, op, "saving", r)
  /\ UNCHANGED <<stored, stale>>

\* A request to the plugin spawns its process when there is none, and the
\* sandbox replays start() in it when pluginStarted is still set.
Spawned ==
  IF process # "down" THEN {process} ELSE IF wants THEN {"idle", "running"} ELSE {"idle"}

\* Defect: start() does not look at enabled.
MutStart(f, c, op, r) ==
  \/ r.status = "started" /\ Return(f, c) /\ UNCHANGED object
  \/ /\ r.status # "started"
     /\ Goto(f, c, op, "configuring", r)
     /\ process' \in Spawned
     /\ UNCHANGED wants

\* start() up to its first await, for the entry r it reads: nothing to do for
\* a started or a disabled plugin.
Start(f, c, op, r) ==
  \/ /\ r.status = "started" \/ ~r.enabled
     /\ Return(f, c)
     /\ UNCHANGED object
  \/ /\ r.status # "started" /\ r.enabled
     /\ Goto(f, c, op, "configuring", r)
     /\ process' \in Spawned
     /\ UNCHANGED wants

\* What the callers of stop() do once it has returned, r being the entry then
\* and old the entry the caller read first.
AfterStop(f, c, op, old, r) ==
  \/ /\ op = "disable"
     /\ runtime' = Disabled
     /\ announced' = FALSE
     /\ Save(f, c, op, Disabled, crashHistory)
     /\ UNCHANGED <<plugins, crashHistory>>
  \/ /\ op = "unregister"
     /\ plugins' = FALSE
     /\ runtime' = NoEntry
     /\ crashHistory' = 0
     /\ announced' = FALSE
     /\ Return(Orphan(f), c)
     /\ UNCHANGED disk
  \/ /\ op = "reload"
     /\ runtime' = r
     /\ Goto(f, c, op, "reloading", old)
     /\ UNCHANGED <<plugins, crashHistory, disk, announced>>
  \/ /\ op = "stopAll"
     /\ runtime' = r
     /\ Return(f, c)
     /\ UNCHANGED <<plugins, crashHistory, disk, announced>>

\* stop() up to its await.  It returns at once unless the status is "started",
\* and PluginProcessSandbox.stop needs no answer when there is no process.
Stop(c, op) ==
  \/ /\ runtime.status # "started"
     /\ AfterStop(call, c, op, runtime, runtime)
     /\ UNCHANGED object
  \/ /\ runtime.status = "started" /\ process = "down"
     /\ AfterStop(call, c, op, runtime, [runtime EXCEPT !.status = "stopped"])
     /\ wants' = FALSE
     /\ UNCHANGED process
  \/ /\ runtime.status = "started" /\ process # "down"
     /\ Goto(call, c, op, "stopping", runtime)
     /\ wants' = FALSE
     /\ UNCHANGED <<registry, process, disk, announced>>

-----------------------------------------------------------------------------
(* Requests of operators.                                                  *)

\* The server listens only after startAll has returned.
Ready(c) == /\ call[c].op = "none"
            /\ \A a \in Calls : call[a].op # "startAll"

EnablePlugin(c) ==
  LET enabled == Entry(IF runtime.status \in {"disabled", "quarantined"}
                       THEN "registered" ELSE runtime.status, TRUE)
  IN  /\ Ready(c) /\ plugins
      /\ crashHistory' = 0
      /\ runtime' = enabled
      /\ announced' = FALSE
      /\ Save(call, c, "enable", enabled, 0)
      /\ UNCHANGED <<plugins, object>>

DisablePlugin(c) == Ready(c) /\ plugins /\ Stop(c, "disable")

ReloadPlugin(c) == Ready(c) /\ plugins /\ Stop(c, "reload")

UnregisterPlugin(c) == Ready(c) /\ plugins /\ Stop(c, "unregister")

\* The shutdown of the server, during which it still answers requests.
StopAll(c) == Ready(c) /\ plugins /\ Stop(c, "stopAll")

UpdatePluginConfig(c) ==
  /\ Ready(c) /\ plugins
  /\ Goto(call, c, "configure", "applying", runtime)
  /\ process' \in Spawned
  /\ UNCHANGED <<registry, wants, disk, announced>>

\* PluginMarketplaceService.install of a plugin that is not installed; one at a
\* time, and not while a reload is still putting the removed plugin back.
InstallPlugin(c) ==
  /\ Ready(c) /\ ~plugins /\ runtime = NoEntry
  /\ \A a \in Calls : call[a].op \notin {"install", "reload"}
  /\ Goto(call, c, "install", "installing", NoEntry)
  /\ UNCHANGED <<registry, object, disk, announced>>

-----------------------------------------------------------------------------
(* What the awaits resolve to.                                             *)

StopSucceeds(c) ==
  LET others == IF Isolated /\ call[c].current THEN Doom(call) ELSE call
  IN  /\ call[c].at = "stopping" /\ ~call[c].doomed
      /\ AfterStop(others, c, call[c].op, call[c].snap,
                   [call[c].snap EXCEPT !.status = "stopped"])
      /\ process' = IF ~call[c].current THEN process
                    ELSE IF Isolated THEN "down" ELSE "idle"
      /\ UNCHANGED wants

\* The sandbox disposes of the process even when plugin.stop throws; a plugin
\* in the server's own process stays what it was.
StopFails(c) ==
  LET others == IF Isolated /\ call[c].current THEN Doom(call) ELSE call
  IN  /\ call[c].at = "stopping"
      /\ runtime' = Failed(c)
      /\ process' = IF Isolated /\ call[c].current THEN "down" ELSE process
      /\ Return(others, c)
      /\ UNCHANGED <<plugins, crashHistory, wants, disk, announced>>

ConfigureSucceeds(c) ==
  /\ call[c].at = "configuring" /\ ~call[c].doomed
  /\ call' = [call EXCEPT ![c].at = "starting"]
  /\ wants' = (wants \/ call[c].current)
  /\ UNCHANGED <<registry, process, disk, announced>>

StartSucceeds(c) ==
  /\ call[c].at = "starting" /\ ~call[c].doomed
  /\ runtime' = [call[c].snap EXCEPT !.status = "started"]
  /\ process' = IF call[c].current THEN "running" ELSE process
  /\ Return(call, c)
  /\ UNCHANGED <<plugins, crashHistory, wants, disk, announced>>

\* A failed install is rolled back, which unregisters the plugin again.
StartFails(c) ==
  /\ call[c].at \in {"configuring", "starting"}
  /\ \/ /\ call[c].op # "install"
        /\ runtime' = Failed(c)
        /\ Return(call, c)
        /\ UNCHANGED <<plugins, crashHistory, disk, announced>>
     \/ /\ call[c].op = "install"
        /\ AfterStop(call, c, "unregister", NoEntry, NoEntry)
  /\ UNCHANGED object

ApplyReturns(c) ==
  /\ call[c].at = "applying"
  /\ runtime' \in IF call[c].doomed THEN {Failed(c)} ELSE {runtime, Failed(c)}
  /\ Return(call, c)
  /\ UNCHANGED <<plugins, crashHistory, object, disk, announced>>

\* A reload puts a new plugin object in the map, whoever removed the old one.
ReloadSucceeds(c) ==
  LET enabled == call[c].snap.status = "quarantined" \/ call[c].snap.enabled
      fresh == IF enabled THEN Entry("registered", TRUE) ELSE Disabled
  IN  /\ call[c].at = "reloading"
      /\ plugins' = TRUE
      /\ runtime' = fresh
      /\ crashHistory' = 0
      /\ process' = "idle"
      /\ wants' = FALSE
      /\ announced' = FALSE
      /\ Save(Orphan(call), c, "reload", fresh, 0)

ReloadFails(c) ==
  /\ call[c].at = "reloading"
  /\ Return(call, c)
  /\ UNCHANGED <<registry, object, disk, announced>>

\* registerInstalledPlugin saves enabled, and only that, before it registers.
InstallReady(c) ==
  /\ call[c].at = "installing" /\ runtime = NoEntry
  /\ writeQueue' = Append(writeQueue,
       [by |-> c, partial |-> TRUE, entry |-> NothingStored])
  /\ Goto(call, c, "install", "saving", Entry("registered", TRUE))
  /\ UNCHANGED <<registry, object, stored, stale, announced>>

InstallFails(c) ==
  /\ call[c].at = "installing"
  /\ Return(call, c)
  /\ UNCHANGED <<registry, object, disk, announced>>

-----------------------------------------------------------------------------
(* The state file: one write at a time, in the order of the calls.         *)

\* Defect: the state file already has an entry, so an install saves nothing.
MutWritten(w) == IF w.partial THEN stored ELSE w.entry

Written(w) == IF w.partial THEN [stored EXCEPT !.enabled = w.entry.enabled] ELSE w.entry

\* An enable, and a reload that found the plugin enabled, go on to start().
Starts(c) == /\ plugins
             /\ call[c].op = "enable" \/ (call[c].op = "reload" /\ call[c].snap.enabled)

\* Whether no later report has quarantined the plugin again meanwhile: what an
\* earlier one publishes says nothing of the quarantine in force.
Last(c) == \A a \in Actors \ {c} : call[a].op # "quarantine"

\* The continuation of each operation once its write is on disk.
AfterSave(c) ==
  \/ /\ Starts(c)
     /\ Start(call, c, call[c].op, runtime)
     /\ UNCHANGED <<registry, announced>>
  \/ /\ call[c].op \in {"enable", "reload", "disable", "crash"} /\ ~Starts(c)
     /\ Return(call, c)
     /\ UNCHANGED <<registry, object, announced>>
  \/ /\ call[c].op = "quarantine"
     /\ announced' = (plugins /\ runtime.status = "quarantined" /\ Last(c))
     /\ Return(call, c)
     /\ UNCHANGED <<registry, object>>
  \/ /\ call[c].op = "install" /\ ~plugins
     /\ plugins' = TRUE
     /\ runtime' = Entry("registered", TRUE)
     /\ process' = "idle"
     /\ wants' = FALSE
     /\ Goto(call, c, "install", "configuring", Entry("registered", TRUE))
     /\ UNCHANGED <<crashHistory, announced>>

WriteSucceeds(c) ==
  /\ writeQueue # <<>> /\ Head(writeQueue).by = c
  /\ stored' = Written(Head(writeQueue))
  /\ writeQueue' = Tail(writeQueue)
  /\ stale' = FALSE
  /\ AfterSave(c)

WriteFails(c) ==
  /\ writeQueue # <<>> /\ Head(writeQueue).by = c
  /\ writeQueue' = Tail(writeQueue)
  /\ stale' = TRUE
  /\ Return(call, c)
  /\ UNCHANGED <<registry, object, stored, announced>>

-----------------------------------------------------------------------------
(* The environment: crashes, requests routed to the plugin, restarts.      *)

\* One more crash, after those that are still inside the window (further ones make no
\* difference to AtThreshold).
Counted(kept) == IF kept < Threshold THEN kept + 1 ELSE Threshold

\* Defect: the plugin may crash once more.
MutAtThreshold(history) == history > Threshold

AtThreshold(history) == history >= Threshold

\* The process exits.  handleCrash rejects what is pending and reports the
\* crash in the same turn; kept of the earlier crashes are inside the window.
\* At the threshold the plugin is stopped, which needs no answer from a process
\* that is gone, and quarantined.
RecordRuntimeCrash(r) ==
  /\ Isolated /\ plugins /\ process # "down" /\ call[r].op = "none"
  /\ process' = "down"
  /\ \E kept \in 0..crashHistory :
       LET history == Counted(kept)
       IN  /\ crashHistory' = history
           /\ \/ /\ runtime.enabled /\ AtThreshold(history)
                 /\ runtime' = Quarantined
                 /\ wants' = (wants /\ runtime.status # "started")
                 /\ announced' = FALSE
                 /\ Save(Doom(call), r, "quarantine", Quarantined, history)
              \/ /\ ~(runtime.enabled /\ AtThreshold(history))
                 /\ Save(Doom(call), r, "crash", runtime, history)
                 /\ UNCHANGED <<runtime, wants, announced>>
  /\ UNCHANGED plugins

\* Any request routed to an enabled plugin whose process is gone.
Respawn ==
  /\ Isolated /\ plugins /\ runtime.enabled /\ process = "down"
  /\ process' \in Spawned
  /\ UNCHANGED <<registry, wants, disk, announced, call>>

\* Stop of the server at any point, and its next start: register() from what
\* the state file says, then startAll.  Calls and unwritten writes are lost; an
\* install or an uninstall that was under way may or may not be on disk.
Restart(c) ==
  LET moving == \E a \in Calls : call[a].op \in {"install", "unregister"}
      entry == IF stored.quarantined THEN Quarantined
               ELSE IF stored.enabled THEN Entry("registered", TRUE) ELSE Disabled
  IN  /\ plugins' \in IF moving THEN BOOLEAN ELSE {plugins}
      /\ runtime' = IF plugins' THEN entry ELSE NoEntry
      /\ crashHistory' \in IF plugins' THEN 0..stored.recent ELSE {0}
      /\ process' = "idle"
      /\ wants' = FALSE
      /\ writeQueue' = <<>>
      /\ stale' = FALSE
      /\ announced' = (announced /\ runtime'.status = "quarantined")
      /\ call' = [a \in Actors |->
                    IF a = c /\ runtime'.enabled
                    THEN At("startAll", "configuring", runtime') ELSE Idle]
      /\ UNCHANGED stored

-----------------------------------------------------------------------------
Init ==
  /\ plugins = TRUE
  /\ runtime = Entry("registered", TRUE)
  /\ crashHistory = 0
  /\ process = "idle"
  /\ wants = FALSE
  /\ stored = NothingStored
  /\ writeQueue = <<>>
  /\ stale = FALSE
  /\ announced = FALSE
  /\ late = FALSE
  /\ \E c \in Calls :
       call = [a \in Actors |-> IF a = c
                 THEN At("startAll", "configuring", Entry("registered", TRUE)) ELSE Idle]

Request(c) ==
  \/ EnablePlugin(c) \/ DisablePlugin(c) \/ ReloadPlugin(c) \/ UnregisterPlugin(c)
  \/ StopAll(c) \/ UpdatePluginConfig(c) \/ InstallPlugin(c)

Resolve(c) ==
  \/ StopSucceeds(c) \/ StopFails(c)
  \/ ConfigureSucceeds(c) \/ StartSucceeds(c) \/ StartFails(c)
  \/ ApplyReturns(c)
  \/ ReloadSucceeds(c) \/ ReloadFails(c)
  \/ InstallReady(c) \/ InstallFails(c)

Write(a) == WriteSucceeds(a) \/ WriteFails(a)

Step ==
  \/ \E c \in Calls : Request(c) \/ Resolve(c)
  \/ \E a \in Actors : Write(a)
  \/ \E r \in Reports : RecordRuntimeCrash(r)
  \/ Respawn

\* The flag of a registered plugin changes and nothing is saved with it, or the
\* plugin is registered while older decisions about it wait to be saved.
Unsaved ==
  /\ plugins' /\ Len(writeQueue') <= Len(writeQueue)
  /\ IF plugins THEN runtime'.enabled # runtime.enabled ELSE writeQueue' # <<>>

Next ==
  \/ /\ Step
     /\ late' = (Unsaved \/ (late /\ Len(writeQueue') <= Len(writeQueue)))
  \/ /\ \E c \in Calls : Restart(c)
     /\ late' = FALSE

Spec == Init /\ [][Next]_vars

-----------------------------------------------------------------------------
(* Properties.                                                             *)

TypeOK ==
  /\ plugins \in BOOLEAN
  /\ runtime \in Entries
  /\ crashHistory \in 0..Threshold
  /\ process \in {"down", "idle", "running"}
  /\ wants \in BOOLEAN
  /\ stored \in StoredStates
  /\ writeQueue \in Seq(Writes)
  /\ stale \in BOOLEAN
  /\ announced \in BOOLEAN
  /\ late \in BOOLEAN
  /\ call \in [Actors -> CallStates]

\* The entries in which status and enabled flag agree.
Consistent(r) ==
  /\ r.status \in {"disabled", "quarantined", "none"} => ~r.enabled
  /\ r.status \in {"registered", "started", "stopped"} => r.enabled

\* The status of a plugin and its enabled flag never contradict each other,
\* although start() and stop() write back entries read before their awaits:
\* what is reported as disabled or quarantined is kept from the providers
\* (activePlugins), what is reported as started is offered to them.
StatusMatchesEnabled == Consistent(runtime)

\* No call is in flight and nothing is left to write.
Quiet == \A a \in Actors : call[a] = Idle

\* The step in which a request of an operator decides on the entry: enable and
\* disable set it, a reload or an install registers a new plugin, an uninstall
\* removes it.  The start that follows is not such a step.
Operator ==
  \/ ~plugins'
  \/ \E c \in Calls :
       /\ call'[c] # call[c]
       /\ <<call'[c].op, call'[c].at>> \in
            {"enable", "disable", "reload"} \X {"saving"} \cup {<<"install", "configuring">>}

\* A step of a call whose plugin object was replaced or removed meanwhile.
Replaced == \E c \in Calls : ~call[c].current /\ call'[c] # call[c]

\* A quarantine ends only when an operator enables, reloads, disables, removes or
\* installs the plugin: no late answer of a start, a stop or a configure of it
\* writes an older entry over it.  (A restart before the write is on disk forgets
\* it, and a start of a replaced object overwrites it, as in DisabledIsSticky.)
QuarantineKept ==
  runtime.status = "quarantined" /\ runtime'.status # "quarantined"
    => \/ Operator \/ Replaced
       \/ ~announced /\ \E c \in Calls : Restart(c)
QuarantineIsSticky == [][QuarantineKept]_vars

\* Once runtime.quarantined is published, the quarantine is on disk and outlives
\* a restart, until an operator ends it.
AnnouncedQuarantineIsStored ==
  announced /\ runtime.status = "quarantined" => stored.quarantined

\* An enabled plugin that has crashed too often.
Overdue == plugins /\ runtime.enabled /\ crashHistory >= Threshold

\* No plugin is left enabled with as many crashes as quarantine it, nor does one become it:
\* an enable or a reload forgets the crashes, also those of a disabled plugin, whatever
\* start, stop or write is under way (registry.ts:236-257).  (Exceptions are a start that
\* overwrites a disable, see DisabledIsSticky, and a restart that finds an entry from
\* before the last decision.)
CrashesQuarantine ==
  [][Overdue' => Overdue \/ Unsaved \/ (\E c \in Calls : Restart(c))]_vars

\* With nothing in flight and no write refused, the state file agrees with the
\* registry: no enable, disable, reload or install an operator was told of is
\* lost by a restart, nor by a crash report that saves the entry at the same
\* time.  (The exception is a flag that was set behind the back of the
\* store: a start that overwrites a disable, see DisabledIsSticky, or an install
\* that overtakes one.)
EnabledIsStored ==
  Quiet /\ plugins /\ ~stale /\ ~late
    => runtime.enabled \in {stored.enabled, stored.enabled /\ ~stored.quarantined}

\* docs/plugins.md:512: disabled plugins "are not started": the disabled status
\* ends only when an operator changes it, not when an earlier start returns.
DisabledIsSticky ==
  [][runtime.status = "disabled" /\ runtime'.status = "started"
       => Operator \/ (\E c \in Calls : Restart(c))]_vars

\* docs/plugins.md:512 and docs/plugin-operations.md:161: a plugin that is
\* disabled or quarantined does not run.
InactiveIsNotRunning ==
  Quiet /\ runtime.status \in {"disabled", "quarantined"} => process # "running"

\* docs/plugins.md:514: the plugin state is persisted: what runs before a
\* restart is not in quarantine after it.
StartedSurvivesRestart ==
  [][Quiet /\ ~stale /\ runtime.status = "started" /\ (\E c \in Calls : Restart(c))
       => runtime'.enabled]_vars

=============================================================================
