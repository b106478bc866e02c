---------------------------- MODULE PluginStores ----------------------------
(***************************************************************************)
(* What is kept of a plugin outside of it: its configuration, its secrets, *)
(* its approval and its events (plugins/configStore.ts, secretStore.ts,    *)
(* approvalStore.ts, eventStore.ts; core/plugin-contract/config.ts,        *)
(* secrets.ts, events.ts, registry.ts; server/routes/plugins.ts).          *)
(*                                                                         *)
(* Each store is one file that is written whole.  The configuration and    *)
(* the secrets are read, changed and written; approvals and events are     *)
(* written from memory.  There is no queue.  A file that cannot be parsed  *)
(* counts as empty.  A version of the plugin stands for the configuration  *)
(* keys it declares; its values are of the right types; it is not updated  *)
(* while its configuration is being written.  MaxOps bounds the operations *)
(* and MaxEvents is the code's limit of 500 events.                        *)
(***************************************************************************)
EXTENDS Naturals, Sequences

CONSTANTS
  Versions,    \* versions of the plugin: sets of configuration keys
  Secrets,     \* keys of secrets
  Values,
  Ciphers,     \* keys to encrypt secrets with
  MaxOps, MaxEvents,
  None, Torn

VARIABLES
  version,   \* the registered version
  running,   \* the configuration the plugin was given last
  configs, approval, events,  \* the registry's
  failed,    \* the plugin's status is "failed"
  cipher,    \* --plugin-secret-key, or None
  file,      \* contents of the four files
  ops,       \* operations under way
  count,     \* how many there have been
  saved,     \* history: secrets as they were acknowledged
  lossy      \* history: two operations on a file met, or the server was killed in one

stores == <<configs, approval, events, file>>
vars == <<version, running, failed, cipher, stores, ops, count, saved, lossy>>

Empty == [config |-> <<>>, secrets |-> <<>>, approvals |-> None, events |-> <<>>]
Stores == DOMAIN Empty
Nothing == <<>>

\* What a file may hold.
Configurations == UNION {[keys -> Values] : keys \in SUBSET UNION Versions}
SecretFiles == UNION {[keys -> [value : Values, cipher : Ciphers \cup {None}]] : keys \in SUBSET Secrets}
Approvals == Versions \cup {None}

\* f, with v under k.
With(f, k, v) == [j \in DOMAIN f \cup {k} |-> IF j = k THEN v ELSE f[j]]

\* readAll and load
Loaded(store) == IF file[store] = Torn THEN Empty[store] ELSE file[store]

\* validatePluginConfigValues: no key is unknown.
ValidConfig(c, v) == DOMAIN c \subseteq v

\* PluginEventBus.publish: newest first, and bounded.
Published(n) == SubSeq(<<n>> \o events, 1, IF Len(events) < MaxEvents THEN Len(events) + 1 ELSE MaxEvents)

-----------------------------------------------------------------------------
(* The beginning of an operation.                                          *)

\* One more operation; they are told apart by their numbers.
Pending == DOMAIN ops
Busy(store) == \E i \in Pending : ops[i].store = store
Ended(i) == [j \in Pending \ {i} |-> ops[j]]
Step(i, at) == [ops EXCEPT ![i].at = at]

Begin(store, at, key, data) ==
  /\ count < MaxOps
  /\ count' = count + 1
  /\ ops' = With(ops, count, [store |-> store, at |-> at, key |-> key, data |-> data])
  /\ lossy' = (lossy \/ Busy(store))
  /\ UNCHANGED <<version, running, configs, failed, cipher, file, saved>>

\* updatePluginConfig merges what is changed into what is there.
UpdateConfig(k, v) ==
  /\ k \in version /\ ValidConfig(With(configs, k, v), version)
  /\ Begin("config", "configuring", None, With(configs, k, v))
  /\ UNCHANGED <<approval, events>>

\* updatePluginSecret, encrypted if there is a key.
UpdateSecret(k, v) ==
  /\ Begin("secrets", "reading", k, [value |-> v, cipher |-> cipher])
  /\ UNCHANGED <<approval, events>>

\* approvePlugin, revokePluginApproval
Approve(v) ==
  /\ v \in {version, None} /\ approval' = v
  /\ Begin("approvals", "writing", None, v)
  /\ UNCHANGED events

\* publishPluginEvent, which does not wait for the file.
PublishEvent ==
  /\ events' = Published(count)
  /\ Begin("events", "writing", None, events')
  /\ UNCHANGED approval

-----------------------------------------------------------------------------
(* Its steps.                                                              *)

\* The plugin takes the configuration, or refuses it.
Configured(i, ok) ==
  LET o == ops[i]
  IN /\ o.at = "configuring"
     /\ IF ok THEN running' = o.data /\ ops' = Step(i, "reading") /\ UNCHANGED failed
        ELSE running' \in {running, o.data} /\ ops' = Ended(i) /\ failed' = TRUE
     /\ UNCHANGED <<version, cipher, stores, count, saved, lossy>>

\* Defect: the other secrets are not kept.
MutWritten(o) == IF o.store = "secrets" THEN With(Nothing, o.key, o.data) ELSE o.data

\* What is written: the secrets that were read, with the new one.
Written(o) == IF o.store = "secrets" THEN With(Loaded("secrets"), o.key, o.data) ELSE o.data

Read(i) ==
  /\ ops[i].at = "reading"
  /\ ops' = [ops EXCEPT ![i].at = "writing", ![i].data = Written(ops[i])]
  /\ UNCHANGED <<version, running, failed, cipher, stores, count, saved, lossy>>

\* writeFile empties the file ...
Truncate(i) ==
  /\ ops[i].at = "writing"
  /\ file' = [file EXCEPT ![ops[i].store] = Torn] /\ ops' = Step(i, "filling")
  /\ UNCHANGED <<version, running, configs, approval, events, failed, cipher, count, saved, lossy>>

\* ... and fills it, with a rest of what another operation has put there meanwhile.
Fill(i, torn) ==
  LET o == ops[i]
  IN /\ o.at = "filling" /\ (torn => file[o.store] # Torn)
     /\ file' = [file EXCEPT ![o.store] = IF torn THEN Torn ELSE o.data]
     /\ ops' = Ended(i)
     /\ configs' = IF o.store = "config" THEN o.data ELSE configs
     /\ saved' = IF o.store = "secrets" THEN With(saved, o.key, o.data[o.key]) ELSE saved
     /\ UNCHANGED <<version, running, approval, events, failed, cipher, count, lossy>>

\* A write fails before it empties the file.
WriteFails(i) ==
  LET o == ops[i]
  IN /\ o.at = "writing"
     /\ ops' = Ended(i) /\ failed' = (failed \/ o.store = "config")
     /\ lossy' = (lossy \/ o.store \in {"approvals", "events"})
     /\ UNCHANGED <<version, running, cipher, stores, count, saved>>

-----------------------------------------------------------------------------
(* Loading.                                                                *)

\* The loader reads and checks the stored configuration, and the registry keeps it.
Load(v) ==
  /\ version' = v /\ configs' = Loaded("config") /\ running' = Loaded("config")
  /\ failed' = FALSE

\* An update to another version, or back; one that does not load for the stored
\* configuration is undone.
Update(v) ==
  /\ v # version /\ ~Busy("config")
  /\ Load(IF ValidConfig(Loaded("config"), v) THEN v ELSE version)
  /\ UNCHANGED <<approval, events, cipher, file, ops, count, saved, lossy>>

\* The server is killed at any moment and starts again, with a key or without.
Restart(c) ==
  /\ lossy' = (lossy \/ \E i \in Pending : ops[i].at \in {"writing", "filling"})
  /\ ops' = <<>> /\ cipher' = c /\ Load(version)
  /\ approval' = Loaded("approvals") /\ events' = Loaded("events")
  /\ UNCHANGED <<file, count, saved>>

\* JsonPluginSecretStore.get: a secret that is encrypted needs its key.  (With another
\* key it fails, and so does the list of all secrets.)
Readable(s, k) ==
  k \in DOMAIN s /\ s[k].cipher \in {None, cipher}

-----------------------------------------------------------------------------
Init ==
  /\ version \in Versions /\ running = Nothing /\ configs = Nothing /\ approval = None
  /\ events = <<>> /\ failed = FALSE /\ cipher = None /\ file = Empty
  /\ ops = <<>> /\ count = 0 /\ saved = Nothing /\ lossy = FALSE

Next ==
  \/ \E k \in UNION Versions, v \in Values : UpdateConfig(k, v)
  \/ \E k \in Secrets, v \in Values : UpdateSecret(k, v)
  \/ \E v \in Versions \cup {None} : Approve(v)
  \/ \E v \in Versions : Update(v)
  \/ PublishEvent
  \/ \E i \in Pending :
       \/ \E b \in BOOLEAN : Configured(i, b) \/ Fill(i, b)
       \/ Read(i) \/ Truncate(i) \/ WriteFails(i)
  \/ \E c \in Ciphers \cup {None} : Restart(c)

Spec == Init /\ [][Next]_vars

-----------------------------------------------------------------------------
(* Properties.                                                             *)

TypeOK ==
  /\ version \in Versions /\ running \in Configurations /\ configs \in Configurations
  /\ approval \in Approvals /\ events \in Seq(Nat) /\ Len(events) <= MaxEvents
  /\ failed \in BOOLEAN /\ cipher \in Ciphers \cup {None} /\ saved \in SecretFiles
  /\ file \in [config : Configurations \cup {Torn}, secrets : SecretFiles \cup {Torn},
              approvals : Approvals \cup {Torn}, events : Seq(Nat) \cup {Torn}]
  /\ \A i \in Pending :
       ops[i].store \in Stores /\ ops[i].at \in {"configuring", "reading", "writing", "filling"}
  /\ count \in 0..MaxOps /\ lossy \in BOOLEAN

\* As long as no two operations on one file meet and the server is not killed while it
\* writes one, what the registry has is what the files have, however operations fail
\* and the plugin and the server are replaced: a plugin that has not failed runs with
\* it, and a secret that was acknowledged is there with the key it was stored with
\* (configStore.ts, secretStore.ts, approvalStore.ts, eventStore.ts).
StoresKeep ==
  ~lossy =>
    /\ ~failed /\ ~Busy("config") => running = configs /\ configs = Loaded("config")
    /\ ~Busy("approvals") => Loaded("approvals") = approval
    /\ ~Busy("events") => Loaded("events") = events
    /\ ~Busy("secrets") =>
         /\ Loaded("secrets") = saved
         /\ \A k \in DOMAIN saved :
              Readable(Loaded("secrets"), k) <=> saved[k].cipher \in {None, cipher}
=============================================================================
