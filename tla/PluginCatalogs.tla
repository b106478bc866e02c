--------------------------- MODULE PluginCatalogs ---------------------------
(***************************************************************************)
(* Catalogs of plugins: the official one, whose key is built in, and one   *)
(* that a user adds, which is pinned to the key it is published with       *)
(* (plugins/catalog.ts, catalogConfig.ts, catalogStore.ts,                 *)
(* catalogPreview.ts, catalogAggregate.ts), and the packages they offer    *)
(* (plugins/package.ts).  Both offer one plugin.                           *)
(*                                                                         *)
(* The publisher of the added catalog uploads packages, publishes catalogs *)
(* and changes keys at any moment, so also between two reads of one        *)
(* request.  A release stands for the contents of its package: equal       *)
(* releases are equal hashes.  A source that does not answer, or with a    *)
(* catalog or package that is not well-formed, expired, revoked or         *)
(* incompatible, fails the request, which may happen at every step.        *)
(* MaxReleases bounds the releases.                                        *)
(***************************************************************************)
EXTENDS Naturals

CONSTANTS
  Keys,         \* signing keys of the added catalog
  None,
  MaxReleases

VARIABLES
  uploaded,   \* the release whose package is in its place
  served,     \* the catalog that is served: its key and the release it offers
  besides,    \* the key that is published next to it
  stored,     \* the key that the catalog is pinned to, in catalogs.json
  adding,     \* the request to add it
  install,    \* the request to install the plugin
  installed,  \* what is installed of the added catalog, and on whose word
  pinned,     \* history: the keys that were stored
  unlisted    \* history: an install went on after the catalog was removed

vars == <<uploaded, served, besides, stored, adding, install, installed, pinned, unlisted>>

publisher == <<uploaded, served, besides>>
user == <<stored, adding, install, installed, pinned, unlisted>>

Releases == 1..MaxReleases
NotAdding == [at |-> "idle", key |-> None]
NotInstalling == [at |-> "idle", pin |-> None, entry |-> 0, signedBy |-> None]
NothingInstalled == [release |-> 0, entry |-> 0, signedBy |-> None]

-----------------------------------------------------------------------------
(* The publisher.                                                          *)

\* createPluginPackageFromPath, and the upload.
Upload ==
  /\ uploaded < MaxReleases
  /\ uploaded' = uploaded + 1
  /\ UNCHANGED <<served, besides, user>>

\* signPluginCatalogFile, with the key of the day, or a catalog without signature.
Publish(k) ==
  /\ k \in {besides, None}
  /\ served' = [key |-> k, release |-> uploaded]
  /\ served' # served
  /\ UNCHANGED <<uploaded, besides, user>>

ChangeKey(k) ==
  /\ besides # k
  /\ besides' = k
  /\ UNCHANGED <<uploaded, served, user>>

-----------------------------------------------------------------------------
(* Loading.                                                                *)

\* Defect: any signature will do.
MutVerifies(k) == k # None => served.key # None

\* verifyCatalogSignature; without a key nothing is asked.
Verifies(k) == k # None => served.key = k

-----------------------------------------------------------------------------
(* Adding the catalog.                                                     *)

\* addCatalog, of a source that is not configured.
AddCatalog ==
  /\ adding.at = "idle" /\ stored = None
  /\ adding' = [adding EXCEPT !.at = "reading"]
  /\ UNCHANGED <<publisher, stored, install, installed, pinned, unlisted>>

AddFails ==
  /\ adding.at # "idle"
  /\ adding' = NotAdding
  /\ UNCHANGED <<publisher, stored, install, installed, pinned, unlisted>>

\* previewPluginCatalog: the catalog is read without a key ...
ReadUnverified ==
  /\ adding.at = "reading" /\ Verifies(None) /\ served.key # None
  /\ adding' = [adding EXCEPT !.at = "discovering"]
  /\ UNCHANGED <<publisher, stored, install, installed, pinned, unlisted>>

\* ... then the key next to it ...
DiscoverPublisherKeys ==
  /\ adding.at = "discovering"
  /\ adding' = [at |-> "verifying", key |-> besides]
  /\ UNCHANGED <<publisher, stored, install, installed, pinned, unlisted>>

\* ... and the catalog again, with that key.
VerifyWithKey ==
  /\ adding.at = "verifying" /\ Verifies(adding.key)
  /\ adding' = [adding EXCEPT !.at = "storing"]
  /\ UNCHANGED <<publisher, stored, install, installed, pinned, unlisted>>

\* JsonPluginCatalogStore: one record for each source.
StoreCatalog ==
  /\ adding.at = "storing"
  /\ stored' = adding.key /\ pinned' = pinned \cup {adding.key}
  /\ adding' = NotAdding
  /\ UNCHANGED <<publisher, install, installed, unlisted>>

RemoveCatalog ==
  /\ stored # None
  /\ stored' = None
  /\ UNCHANGED <<publisher, adding, install, installed, pinned, unlisted>>

-----------------------------------------------------------------------------
(* Installing, or updating.                                                *)

\* requireCatalogEntry reads the store, and then all its sources.
Install ==
  /\ install.at = "idle" /\ stored # None
  /\ install' = [install EXCEPT !.at = "finding", !.pin = stored]
  /\ UNCHANGED <<publisher, stored, adding, installed, pinned, unlisted>>

InstallFails ==
  /\ install.at # "idle"
  /\ install' = NotInstalling
  /\ UNCHANGED <<publisher, stored, adding, installed, pinned, unlisted>>

\* The first source that loads provides the entry.  Here it is the added one, and
\* the store is read again for the key to load it with.
FindAdded ==
  /\ install.at = "finding" /\ Verifies(install.pin)
  /\ install' = [install EXCEPT !.at = "loading", !.pin = stored]
  /\ unlisted' = (unlisted \/ stored = None)
  /\ UNCHANGED <<publisher, stored, adding, installed, pinned>>

\* Or it is the official one, whose publisher is not part of the model.
FindOfficial ==
  /\ install.at = "finding"
  /\ install' = NotInstalling /\ installed' = NothingInstalled
  /\ UNCHANGED <<publisher, stored, adding, pinned, unlisted>>

\* installPluginFromCatalog loads the catalog once more ...
LoadCatalog ==
  /\ install.at = "loading" /\ Verifies(install.pin)
  /\ install' = [install EXCEPT !.at = "fetching", !.entry = served.release, !.signedBy = served.key]
  /\ UNCHANGED <<publisher, stored, adding, installed, pinned, unlisted>>

\* verifyPluginPackage, and what installPluginFromCatalog compares with the entry: an
\* entry carries the hash of the package it was made for.
VerifyPackage(release) == release = install.entry

\* ... then the package, and installs it.
InstallPackage ==
  /\ install.at = "fetching" /\ VerifyPackage(uploaded)
  /\ installed' = [release |-> uploaded, entry |-> install.entry, signedBy |-> install.signedBy]
  /\ install' = NotInstalling
  /\ UNCHANGED <<publisher, stored, adding, pinned, unlisted>>

-----------------------------------------------------------------------------
Init ==
  /\ uploaded = 1 /\ besides \in Keys
  /\ served = [key |-> besides, release |-> 1]
  /\ stored = None /\ adding = NotAdding
  /\ install = NotInstalling /\ installed = NothingInstalled
  /\ pinned = {} /\ unlisted = FALSE

Next ==
  \/ Upload \/ \E k \in Keys \cup {None} : Publish(k)
  \/ \E k \in Keys : ChangeKey(k)
  \/ AddCatalog \/ AddFails \/ ReadUnverified \/ DiscoverPublisherKeys \/ VerifyWithKey
  \/ StoreCatalog \/ RemoveCatalog
  \/ Install \/ InstallFails \/ FindAdded \/ FindOfficial \/ LoadCatalog \/ InstallPackage

Spec == Init /\ [][Next]_vars

-----------------------------------------------------------------------------
(* Properties.                                                             *)

TypeOK ==
  /\ {uploaded, served.release} \subseteq Releases /\ served.key \in Keys \cup {None}
  /\ besides \in Keys /\ {stored, adding.key, install.pin} \subseteq Keys \cup {None}
  /\ adding.at \in {"idle", "reading", "discovering", "verifying", "storing"}
  /\ install.at \in {"idle", "finding", "loading", "fetching"}
  /\ {install.entry, installed.entry, installed.release} \subseteq 0..MaxReleases
  /\ {install.signedBy, installed.signedBy} \subseteq Keys \cup {None}
  /\ pinned \subseteq Keys /\ unlisted \in BOOLEAN

\* What is installed of an added catalog is the package its entry described, and
\* the entry was signed with a key the catalog was pinned to, however often the
\* publisher released, replaced packages or changed keys meanwhile, unless the
\* catalog was removed during an install (plugins/catalog.ts, catalogConfig.ts).
InstalledIsTrusted ==
  installed # NothingInstalled =>
    /\ installed.release = installed.entry
    /\ unlisted \/ installed.signedBy \in pinned
=============================================================================
