------------------------- MODULE PluginMarketplace -------------------------
(***************************************************************************)
(* Installing, updating and removing one plugin: the review dialog of a    *)
(* browser tab (web/components/plugins/marketplace.svelte.ts), the service *)
(* behind it (plugins/marketplace.ts), the catalog it loads                *)
(* (plugins/catalog.ts), and the registry directory (plugins/install.ts).  *)
(*                                                                         *)
(* Any step may fail, the failure of a step runs the rollback, whose steps *)
(* may fail too, and the server may be killed between any two.  One action *)
(* at a time, as one tab allows: two tabs, or a tab and the command line,  *)
(* could act at once, which the service does not prevent.                  *)
(*                                                                         *)
(* A version stands for its package with the permissions it asks for; 0 is *)
(* none.  A copy is not atomic: Partial is a directory half copied.        *)
(* MaxVersions bounds the versions the catalog comes to offer.             *)
(***************************************************************************)
EXTENDS Naturals

CONSTANTS MaxVersions

VARIABLES
  catalog,     \* the version the catalog offers
  act,         \* the action of the tab in the server
  dir,         \* what the directory of the plugin holds
  index,       \* its version in installed.json
  registered,  \* the version the plugin registry runs
  leftover,    \* did a crash, or a failed restore, leave a whole copy behind?
  trouble      \* history: "crash", "restore"

vars == <<catalog, act, dir, index, registered, leftover, trouble>>

Versions == 1..MaxVersions
Partial == MaxVersions + 1
Copies == 0..Partial
Kinds == {"install", "update", "uninstall"}
Unread == MaxVersions + 1
NoAction == [kind |-> "none", at |-> "idle", entry |-> 0, had |-> Unread,
             snap |-> 0, prev |-> 0]

-----------------------------------------------------------------------------
(* The tab.                                                                *)

\* confirmMarketplaceReview: the review dialog has an entry that the tab loaded
\* some time ago, and the action that went with it; one action at a time.
Confirm(kind) ==
  /\ act.at = "idle"
  /\ act' = [NoAction EXCEPT !.kind = kind, !.at = "finding"]
  /\ UNCHANGED <<catalog, dir, index, registered, leftover, trouble>>

\* The answer comes: an error, or the new state of the marketplace.
Answer ==
  /\ act.at \in {"failed", "done"}
  /\ act' = NoAction
  /\ UNCHANGED <<catalog, dir, index, registered, leftover, trouble>>

-----------------------------------------------------------------------------
(* The service.  Each step names where the action is, and goes on.         *)

At(at) == act.at = at
Goes(at) == act' = [act EXCEPT !.at = at]
Disk == <<dir, index, leftover>>

\* requireCatalogEntry, the list of what is installed: a transaction.
Find ==
  /\ At("finding")
  /\ act' = [act EXCEPT !.had = index,
       !.at = CASE act.kind = "install" -> IF index = 0 THEN "leaving" ELSE "copying"
                   [] act.kind = "update" -> IF index = 0 THEN "failed" ELSE "copying"
                   [] act.kind = "uninstall" -> IF index = 0 THEN "failed" ELSE "leaving"]
  /\ UNCHANGED <<catalog, Disk, registered, trouble>>

\* Defect: there is no copy of what is installed.
MutSnapshot ==
  /\ At("copying") /\ dir # 0
  /\ Goes("leaving")
  /\ UNCHANGED <<catalog, Disk, registered, trouble>>

\* snapshotInstalledPlugin: a copy of the directory.
Snapshot ==
  /\ At("copying") /\ dir # 0
  /\ act' = [act EXCEPT !.snap = dir, !.at = "leaving"]
  /\ UNCHANGED <<catalog, Disk, registered, trouble>>

\* unregisterPlugin, of a plugin that is registered.
Unregister ==
  /\ At("leaving")
  /\ registered' = 0
  /\ Goes(IF act.kind = "uninstall" THEN "removing" ELSE "fetching")
  /\ UNCHANGED <<catalog, Disk, trouble>>

\* installPluginFromCatalog loads the catalog again, and the package.
Fetch ==
  /\ At("fetching")
  /\ act' = [act EXCEPT !.entry = catalog, !.at = "moving"]
  /\ UNCHANGED <<catalog, Disk, registered, trouble>>

\* The transaction of installPluginFromPath: verify, stage, and then the
\* directory in use is set aside.
Move ==
  /\ At("moving")
  /\ act' = [act EXCEPT !.at = "activating", !.prev = dir]
  /\ dir' = 0
  /\ UNCHANGED <<catalog, index, registered, leftover, trouble>>

Activate ==
  /\ At("activating")
  /\ dir' = act.entry
  /\ Goes("listing")
  /\ UNCHANGED <<catalog, index, registered, leftover, trouble>>

\* writeIndex, and the end of the transaction.
List ==
  /\ At("listing")
  /\ index' = act.entry
  /\ act' = [act EXCEPT !.at = "registering", !.prev = 0]
  /\ UNCHANGED <<catalog, dir, registered, leftover, trouble>>

\* registerInstalledPlugin loads what is in the directory, whatever it is.
Register ==
  /\ At("registering") /\ dir # 0
  /\ registered' = dir
  /\ act' = [NoAction EXCEPT !.kind = act.kind, !.at = "done"]
  /\ UNCHANGED <<catalog, Disk, trouble>>

\* The transaction of uninstallPlugin, also to take back a new install.
Remove ==
  /\ At("removing")
  /\ \/ /\ index = 0
        /\ Goes(IF act.kind = "uninstall" THEN "failed" ELSE "dropping")
        /\ UNCHANGED dir
     \/ /\ index # 0
        /\ act' = [act EXCEPT !.at = "unlisting", !.prev = dir]
        /\ dir' = 0
  /\ UNCHANGED <<catalog, index, registered, leftover, trouble>>

Unlist ==
  /\ At("unlisting")
  /\ index' = 0
  /\ act' = [act EXCEPT !.prev = 0,
                        !.at = IF act.kind = "uninstall" THEN "done" ELSE "dropping"]
  /\ UNCHANGED <<catalog, dir, registered, leftover, trouble>>

\* removeInstalledPluginRecord, whatever became of the directory.
Drop ==
  /\ At("dropping")
  /\ index' = 0
  /\ Goes("failed")
  /\ UNCHANGED <<catalog, dir, registered, leftover, trouble>>

-----------------------------------------------------------------------------
(* Failures, and what follows them.                                        *)

\* Before the try block, and in it but outside the transaction; a plugin may be
\* registered when its start fails.
Fail ==
  /\ act.at \in {"finding", "copying", "leaving", "fetching", "moving", "registering"}
  /\ registered' \in IF At("registering") THEN {registered, dir} ELSE {registered}
  /\ \/ /\ act.at \in {"finding", "copying"} \/ act.kind = "uninstall"
        /\ Goes("failed")
     \/ /\ act.at \notin {"finding", "copying"} /\ act.kind # "uninstall"
        /\ Goes("undoing")
  /\ UNCHANGED <<catalog, Disk, trouble>>

\* In the transaction: restorePreviousInstall, first the new directory.
FailInstall ==
  /\ act.at \in {"activating", "listing"}
  /\ dir' = 0
  /\ Goes("backing")
  /\ UNCHANGED <<catalog, index, registered, leftover, trouble>>

\* Then what was set aside.  When that fails too, it is removed all the same.
MoveBack ==
  /\ At("backing")
  /\ dir' \in IF act.prev = 0 THEN {dir} ELSE {dir, act.prev}
  /\ act' = [act EXCEPT !.at = "undoing", !.prev = 0]
  /\ UNCHANGED <<catalog, index, registered, leftover, trouble>>

\* An uninstall fails, and what was set aside comes back; the rollback of a first
\* install goes on all the same.
FailRemove ==
  /\ act.at \in {"removing", "unlisting"}
  /\ dir' = IF act.prev = 0 THEN dir ELSE act.prev
  /\ act' = [act EXCEPT !.prev = 0,
                        !.at = IF act.kind = "uninstall" THEN "failed" ELSE "dropping"]
  /\ trouble' = trouble \cup {"restore"}
  /\ UNCHANGED <<catalog, index, registered, leftover>>

\* Defect: the rollback of a first install keeps what it can find.
MutUndo ==
  /\ At("undoing")
  /\ registered' = 0
  /\ Goes(IF act.had = 0 THEN "failed" ELSE "clearing")
  /\ UNCHANGED <<catalog, Disk, trouble>>

\* restoreInstalledPluginSnapshot: what runs is stopped, or that fails and is
\* ignored; a first install is removed.
Undo ==
  /\ At("undoing")
  /\ registered' \in {0, registered}
  /\ trouble' = IF act.had = 0 /\ registered' # 0 THEN trouble \cup {"restore"} ELSE trouble
  /\ Goes(IF act.had = 0 THEN "removing" ELSE "clearing")
  /\ UNCHANGED <<catalog, Disk>>

\* An earlier version is copied back, outside of any transaction.
Clear ==
  /\ At("clearing")
  /\ dir' = 0
  /\ Goes("restoring")
  /\ UNCHANGED <<catalog, index, registered, leftover, trouble>>

Copy ==
  /\ At("restoring")
  /\ dir' = Partial
  /\ Goes("copied")
  /\ UNCHANGED <<catalog, index, registered, leftover, trouble>>

\* The copy is complete, and it is the last one.
Copied ==
  /\ At("copied")
  /\ dir' = act.snap
  /\ act' = [act EXCEPT !.at = "saving", !.snap = 0]
  /\ UNCHANGED <<catalog, index, registered, leftover, trouble>>

\* saveInstalledPluginRecord.
Save ==
  /\ At("saving")
  /\ index' = act.had
  /\ Goes("reviving")
  /\ UNCHANGED <<catalog, dir, registered, leftover, trouble>>

\* The earlier version is registered, or its errors are ignored.
Revive ==
  /\ At("reviving")
  /\ \/ registered' = dir /\ UNCHANGED trouble
     \/ UNCHANGED registered /\ trouble' = trouble \cup {"restore"}
  /\ Goes("failed")
  /\ UNCHANGED <<catalog, Disk>>

\* A step of the restore itself fails; a copy that is left stays where it is.
FailRestore ==
  /\ act.at \in {"clearing", "restoring", "copied", "saving", "dropping"}
  /\ act' = [act EXCEPT !.at = "failed", !.snap = 0]
  /\ leftover' = (leftover \/ act.snap \in Versions)
  /\ trouble' = trouble \cup {"restore"}
  /\ UNCHANGED <<catalog, dir, index, registered>>

\* The server is killed, and started: it loads the directory (plugins/internal.ts).
Crash ==
  /\ ~At("idle")
  /\ act' = NoAction
  /\ leftover' = (leftover \/ {act.snap, act.prev} \cap Versions # {})
  /\ registered' \in {0, dir}
  /\ trouble' = trouble \cup {"crash"}
  /\ UNCHANGED <<catalog, dir, index>>

\* The publisher offers another version.
Publish ==
  /\ catalog < MaxVersions /\ catalog' = catalog + 1
  /\ UNCHANGED <<act, Disk, registered, trouble>>

-----------------------------------------------------------------------------
Init ==
  /\ catalog = 1
  /\ index \in {0, 1} /\ dir = index /\ registered = index
  /\ act = NoAction
  /\ leftover = FALSE /\ trouble = {}

Step ==
  \/ \E kind \in Kinds : Confirm(kind)
  \/ Answer
  \/ Find \/ Snapshot \/ Unregister \/ Fetch
  \/ Move \/ Activate \/ List \/ Register \/ Remove \/ Unlist \/ Drop
  \/ Fail \/ FailInstall \/ MoveBack \/ FailRemove
  \/ Undo \/ Clear \/ Copy \/ Copied \/ Save \/ Revive \/ FailRestore

Next == Step \/ Crash \/ Publish

Spec == Init /\ [][Next]_vars

-----------------------------------------------------------------------------
(* Properties.                                                             *)

TypeOK ==
  /\ catalog \in Versions /\ index \in 0..MaxVersions
  /\ dir \in Copies /\ registered \in Copies /\ leftover \in BOOLEAN
  /\ trouble \subseteq {"crash", "restore"}
  /\ act.entry \in 0..MaxVersions /\ act.had \in 0..Unread
  /\ act.snap \in Copies /\ act.prev \in Copies

\* docs/plugin-publishing.md:314, "A failed activation restores the previous
\* version": whichever step of an install or an update fails, the directory, the
\* index and what runs are again as they were; and when it succeeds they agree.
\* A crash, and a failure of the restore, are excepted (an uninstall that fails has
\* already stopped the plugin).
FailureRestores ==
  trouble = {} =>
    /\ act.at \in {"idle", "failed", "done"} => dir = index /\ registered = dir
    /\ At("failed") => act.had \in {index, Unread}

\* As long as the index names the plugin, a whole copy of some version of it is
\* on the disk: in its directory, set aside, or in the copy for rollback; through
\* crashes and failed restores.
PluginIsNotLost ==
  index # 0 => leftover \/ {dir, act.snap, act.prev} \cap Versions # {}

=============================================================================
