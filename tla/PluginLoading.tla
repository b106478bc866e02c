---------------------------- MODULE PluginLoading ----------------------------
(***************************************************************************)
(* How external plugins get into the registry and what they may do there   *)
(* (plugins/loader.ts, plugins/internal.ts, the manifest of a plugin in    *)
(* core/plugin-contract, plugins/hostApi.ts): the server loads every       *)
(* plugin of its directories when it starts, and again for each reload.    *)
(*                                                                         *)
(* The files of a plugin can change at any moment, so between the read of  *)
(* plugin.json, the import of the module and the start of a new process    *)
(* after a crash.  A module has a manifest of its own, which can claim     *)
(* more than plugin.json asks for.  A plugin.json or module that is not    *)
(* well-formed fails to load, which may happen at every step.  MaxChanges  *)
(* bounds the changes of files and the reloads.                            *)
(***************************************************************************)
EXTENDS Naturals, Sequences

CONSTANTS
  Dirs,          \* plugin directories
  Home,          \* the one that is managed by installs, with recorded grants
  Ids,           \* plugin ids
  Permissions,
  Capabilities,
  Late,          \* capabilities checked when something is used, not at registration
  Contents,      \* the contents that directories may have
  MaxChanges,
  None

VARIABLES
  disk,        \* the files of each directory
  index,       \* the installed plugin: its id and its granted permissions
  policy,      \* permissions that the environment gives to all plugins, as long as the server runs
  pass,        \* the pass over the directories that is under way
  plugins,     \* the registry: function from ids to loaded plugins
  strays,      \* loaded plugins that the registry does not have, but that may run
  consented,   \* history: permissions that installs were granted
  used,        \* history: permissions used by the code of each directory
  undeclared,  \* history: something was used that its plugin does not declare
  changes      \* changes of files and reloads so far

vars == <<disk, index, policy, pass, plugins, strays, consented, used, undeclared, changes>>

\* The files of a plugin: plugin.json with its id and permissions; its module, with
\* the permissions and capabilities of its own manifest, and what it offers; and
\* whether it asks for a process.
Content ==
  [id : Ids, asks : SUBSET Permissions, claims : SUBSET Permissions,
   declares : SUBSET Capabilities, offers : SUBSET Capabilities, isolated : BOOLEAN]

\* A loaded plugin: from where, what its host API and its manifest have, what the
\* registry calls it for, and what the code that runs offers (none: crashed).
Plugin ==
  [dir : Dirs, id : Ids, host : SUBSET Permissions, claims : SUBSET Permissions,
   declares : SUBSET Capabilities, methods : SUBSET Capabilities,
   code : (SUBSET Capabilities) \cup {None}, isolated : BOOLEAN]

NoPass == [for |-> None, at |-> "idle", left |-> {}, grants |-> None, file |-> None,
           dir |-> None, loaded |-> <<>>]

-----------------------------------------------------------------------------
(* The files.                                                              *)

Change == changes < MaxChanges /\ changes' = changes + 1

\* Someone edits or copies files.
Edit(d, c) ==
  /\ Change /\ disk[d] # c /\ disk' = [disk EXCEPT ![d] = c]
  /\ UNCHANGED <<index, policy, pass, plugins, strays, consented, used, undeclared>>

\* installPluginFromPath: the permissions that plugin.json asks for are granted.
Install(c) ==
  /\ Change
  /\ disk' = [disk EXCEPT ![Home] = c]
  /\ index' = [id |-> c.id, granted |-> c.asks]
  /\ index' # index
  /\ consented' = consented \cup c.asks
  /\ UNCHANGED <<policy, pass, plugins, strays, used, undeclared>>

-----------------------------------------------------------------------------
(* loadExternalPlugins: a pass over the directories.                       *)

\* What the pass has loaded so far.
LoadedSet == {pass.loaded[k] : k \in DOMAIN pass.loaded}

\* installedPermissionGrants: by directory and id.
Grants(grants, d, c) == IF d = Home /\ grants # None /\ grants.id = c.id THEN grants.granted ELSE {}

\* deniedPermissions
Denied(d, c) == c.asks \ (policy \cup Grants(pass.grants, d, c))

\* The start of the server, when nothing is loaded, or reloadPlugin, after its stop.
StartPass(for) ==
  /\ pass = NoPass
  /\ IF for = None THEN plugins = <<>> /\ strays = {} /\ UNCHANGED changes
                   ELSE for \in DOMAIN plugins /\ Change
  /\ pass' = [NoPass EXCEPT !.for = for, !.at = "next", !.left = Dirs, !.grants = index]
  /\ plugins' = [i \in DOMAIN plugins |->
       IF i = for /\ plugins[i].isolated THEN [plugins[i] EXCEPT !.code = None] ELSE plugins[i]]
  /\ UNCHANGED <<disk, index, policy, strays, consented, used, undeclared>>

\* plugin.json is read and checked: validatePluginManifest, and the permissions.
ReadManifest(d) ==
  /\ pass.at = "next" /\ d \in pass.left
  /\ \/ /\ disk[d] # None /\ Denied(d, disk[d]) = {}
        /\ pass' = [pass EXCEPT !.at = "module", !.file = disk[d], !.dir = d]
     \/ pass' = [pass EXCEPT !.left = @ \ {d}]
  /\ UNCHANGED <<disk, index, policy, plugins, strays, consented, used, undeclared, changes>>

\* Defect: the host API has the permissions that the manifest of the module claims.
MutHostPermissions(file, module) == module.claims

\* createPluginHostApi has those of plugin.json.
HostPermissions(file, module) == file.asks

\* The module is imported, or a process is started with it, and its factory runs:
\* instantiatePlugin, and what describePlugin says.
Loaded ==
  LET module == disk[pass.dir]
  IN [dir |-> pass.dir, id |-> pass.file.id, host |-> HostPermissions(pass.file, module),
      claims |-> module.claims, declares |-> module.declares, methods |-> module.offers,
      code |-> module.offers, isolated |-> pass.file.isolated]

LoadModule ==
  /\ pass.at = "module"
  /\ LET d == pass.dir
         rest == [pass EXCEPT !.at = "next", !.left = @ \ {d}, !.file = None, !.dir = None]
     IN \/ /\ disk[d] # None /\ disk[d].id = pass.file.id
           /\ pass' = [rest EXCEPT !.loaded = Append(@, Loaded)]
        \/ pass' = rest
  /\ UNCHANGED <<disk, index, policy, plugins, strays, consented, used, undeclared, changes>>

\* Defect: the contract is not checked.
MutKeepsContract(p) == TRUE

\* validatePluginContract: what is offered, as far as it is a method of its own.
KeepsContract(p) == p.methods \ Late \subseteq p.declares

\* The end of the pass at the start: register, in the order of the pass.  One that
\* is refused is reported, and its process stays.
Register ==
  /\ pass.at = "next" /\ pass.left = {} /\ pass.for = None
  /\ LET p == Head(pass.loaded)
     IN IF pass.loaded = <<>>
        THEN pass' = NoPass /\ UNCHANGED <<plugins, strays>>
        ELSE /\ pass' = [pass EXCEPT !.loaded = Tail(@)]
             /\ IF KeepsContract(p) /\ p.id \notin DOMAIN plugins
                THEN /\ plugins' = [i \in DOMAIN plugins \cup {p.id} |->
                                      IF i = p.id THEN p ELSE plugins[i]]
                     /\ UNCHANGED strays
                ELSE strays' = strays \cup {p} /\ UNCHANGED plugins
  /\ UNCHANGED <<disk, index, policy, consented, used, undeclared, changes>>

\* The end of the pass of a reload: the first plugin with the id replaces the old
\* one, which may have been used, and so started, again; all others that were loaded
\* are not used, and their processes stay.
Reloaded ==
  /\ pass.at = "next" /\ pass.left = {} /\ pass.for # None
  /\ LET Works(k) == /\ pass.loaded[k].id = pass.for /\ KeepsContract(pass.loaded[k])
                     /\ \A j \in 1..(k - 1) : pass.loaded[j].id # pass.for
         Old == {p \in {plugins[pass.for]} : p.code # None}
     IN \/ \E k \in DOMAIN pass.loaded :
             /\ Works(k)
             /\ plugins' = [plugins EXCEPT ![pass.for] = pass.loaded[k]]
             /\ strays' = strays \cup (LoadedSet \ {pass.loaded[k]}) \cup Old
        \/ /\ \A k \in DOMAIN pass.loaded : ~Works(k)
           /\ strays' = strays \cup LoadedSet /\ UNCHANGED plugins
  /\ pass' = NoPass
  /\ UNCHANGED <<disk, index, policy, consented, used, undeclared, changes>>

-----------------------------------------------------------------------------
(* What plugins do.                                                        *)

Running == {p \in strays \cup {plugins[i] : i \in DOMAIN plugins} \cup LoadedSet :
              p.code # None}

\* A host call: requirePermission.  The code runs from the moment it is loaded.
HostCall(p, x) ==
  /\ p \in Running /\ x \in p.host
  /\ used' = [used EXCEPT ![p.dir] = @ \cup {x}]
  /\ UNCHANGED <<disk, index, policy, pass, plugins, strays, consented, undeclared, changes>>

\* A command, UI extension, provider or action of a plugin is used: it is one of
\* those that were found when it was loaded and that are still there, and what has
\* no method of its own is checked then (requireManifestCapabilities).
Use(i, c) ==
  /\ i \in DOMAIN plugins
  /\ LET p == plugins[i]
     IN /\ p.code # None /\ c \in p.methods \cap p.code
        /\ c \in Late => p.methods \cap Late \subseteq p.declares
        /\ undeclared' = (undeclared \/ c \notin p.declares)
  /\ UNCHANGED <<disk, index, policy, pass, plugins, strays, consented, used, changes>>

\* The process of a plugin ends; the next operation starts one with the files of
\* that moment.  What the registry has of the plugin stays.
Crash(i) ==
  /\ i \in DOMAIN plugins /\ plugins[i].isolated /\ plugins[i].code # None
  /\ plugins' = [plugins EXCEPT ![i].code = None]
  /\ UNCHANGED <<disk, index, policy, pass, strays, consented, used, undeclared, changes>>

Respawn(i) ==
  /\ i \in DOMAIN plugins /\ plugins[i].isolated /\ plugins[i].code = None
  /\ LET c == disk[plugins[i].dir]
     IN c # None /\ c.id = i /\ plugins' = [plugins EXCEPT ![i].code = c.offers]
  /\ UNCHANGED <<disk, index, policy, pass, strays, consented, used, undeclared, changes>>

-----------------------------------------------------------------------------
Init ==
  /\ disk \in [Dirs -> Contents \cup {None}]
  /\ index = None /\ policy \in SUBSET Permissions /\ pass = NoPass
  /\ plugins = <<>> /\ strays = {}
  /\ consented = {} /\ used = [d \in Dirs |-> {}] /\ undeclared = FALSE /\ changes = 0

Next ==
  \/ \E c \in Contents : Install(c) \/ \E d \in Dirs : Edit(d, c)
  \/ \E for \in Ids \cup {None} : StartPass(for)
  \/ \E d \in Dirs : ReadManifest(d)
  \/ LoadModule \/ Register \/ Reloaded
  \/ \E p \in Running, x \in Permissions : HostCall(p, x)
  \/ \E i \in Ids : Crash(i) \/ Respawn(i) \/ \E c \in Capabilities : Use(i, c)

Spec == Init /\ [][Next]_vars

-----------------------------------------------------------------------------
(* Properties.                                                             *)

TypeOK ==
  /\ disk \in [Dirs -> Contents \cup {None}]
  /\ index = None \/ index \in [id : Ids, granted : SUBSET Permissions]
  /\ policy \subseteq Permissions /\ consented \subseteq Permissions
  /\ used \in [Dirs -> SUBSET Permissions] /\ undeclared \in BOOLEAN /\ changes \in 0..MaxChanges
  /\ pass.at \in {"idle", "next", "module"} /\ LoadedSet \subseteq Plugin
  /\ DOMAIN plugins \subseteq Ids /\ strays \subseteq Plugin
  /\ \A i \in DOMAIN plugins : plugins[i] \in Plugin /\ plugins[i].id = i

\* However its files change between the steps of a load, a reload or a new process,
\* a plugin only does what someone agreed to: its code uses permissions that the
\* environment gives or that an install of its directory was granted, and nothing of
\* it is used that its manifest does not declare (loader.ts, hostApi.ts, manifest.ts).
ActsAsAgreed ==
  /\ \A d \in Dirs : used[d] \subseteq policy \cup (IF d = Home THEN consented ELSE {})
  /\ ~undeclared
=============================================================================
