---------------------------- MODULE PluginManager ---------------------------
(***************************************************************************)
(* The web client's plugin panel: what it shows of the plugins, what is    *)
(* being edited, the operations a user starts in it, and the marketplace   *)
(* with its review dialog and its catalogs (web/components/                *)
(* PluginManager.svelte, web/components/plugins/).                         *)
(*                                                                         *)
(* There is one plugin with one configuration value, one secret, one       *)
(* command with one input and a migration, and an entry of another plugin  *)
(* in the marketplace that is neither withdrawn nor incompatible.  Actions *)
(* of extensions change nothing here and are left out.  The tab, the role, *)
(* a typed value and a typed secret may change at any time and only allow  *)
(* operations or go with them, so they are not kept.  Requests are served  *)
(* in any order.  MaxOps bounds them, beside the first load.               *)
(***************************************************************************)
EXTENDS Naturals

CONSTANTS Values, Sources, MaxOps, None

VARIABLES
  server,   \* what the server has
  shown,    \* PluginManagerData's copy
  draft,    \* the input of the command, None when it is not listed
  loading,
  flags,    \* saving, toggling, reloading, runningCommand, marketplaceAction, catalogBusy
  review,   \* the action the review dialog is about, or None
  adding,   \* the form of a new catalog: open, source, preview
  ops,      \* requests under way
  count,    \* how many there have been
  typed,    \* history: the input of the command as it was typed last
  vetted,   \* history: sources trusted while their verified preview was shown
  behind    \* history: requests crossed or failed since everything was loaded

formVars == <<draft, review, adding, typed, vetted>>
vars == <<server, shown, loading, flags, formVars, ops, count, behind>>

Contents == [enabled: BOOLEAN, config: Values, secret: BOOLEAN, approved: BOOLEAN,
             installed: BOOLEAN, catalogs: SUBSET Sources]
Default == CHOOSE v \in Values : TRUE
\* The panel is not hidden by a load, nor covered by the dialog.
Usable == ~loading /\ review = None

NoForm == [open |-> FALSE, source |-> None, preview |-> None]

-----------------------------------------------------------------------------
(* Requests.                                                               *)

Loads == {"load", "health"}

\* A load sees each part of the contents as it is at some time until it ends.
Request(id, kind, flag, body, alone) ==
  [id |-> id, kind |-> kind, flag |-> flag, body |-> body, at |-> "sent", got |-> None,
   seen |-> IF kind \in Loads THEN [f \in DOMAIN server |-> {server[f]}] ELSE <<>>,
   alone |-> alone]

NewId(kind) == CHOOSE i \in 0..MaxOps : ~\E o \in ops : o.kind = kind /\ o.id = i

Begin(kind, flag, body) ==
  /\ count < MaxOps /\ count' = count + 1
  /\ ops' = {[o EXCEPT !.alone = FALSE] : o \in ops} \cup {Request(NewId(kind), kind, flag, body, ops = {})}
  /\ behind' = (behind \/ ops # {})
  /\ flags' = flags \cup ({flag} \ {None})
  /\ UNCHANGED <<server, shown>>

\* What a request does on the server.
Effect(o) ==
  CASE o.kind = "config" -> [server EXCEPT !.config = o.body]
    [] o.kind = "secret" -> [server EXCEPT !.secret = TRUE]
    [] o.kind = "approval" -> [server EXCEPT !.approved = o.body]
    [] o.kind = "toggle" -> [server EXCEPT !.enabled = o.body]
    [] o.kind = "market" -> [server EXCEPT !.installed = (o.body = "install")]
    [] o.kind = "trust" -> [server EXCEPT !.catalogs = @ \cup {o.body}]
    [] o.kind = "remove" -> [server EXCEPT !.catalogs = @ \ {o.body}]
    [] o.kind \in {"reload", "command", "preview"} -> server

\* It may do so although it fails, or its answer is lost.
Serve(o, done, ok) ==
  /\ o.at = "sent" /\ o.kind \notin Loads /\ (ok => done)
  /\ server' = IF done THEN Effect(o) ELSE server
  /\ ops' = {[o EXCEPT !.at = IF ok THEN "ok" ELSE "failed", !.got = server']} \cup
             {[l EXCEPT !.seen = [f \in DOMAIN @ |-> @[f] \cup {server'[f]}]] : l \in ops \ {o}}
  /\ behind' = (behind \/ (~ok /\ server' # server))
  /\ UNCHANGED <<shown, loading, flags, formVars, count>>

End(o) == ops' = ops \ {o} /\ flags' = flags \ {o.flag}

-----------------------------------------------------------------------------
(* PluginManagerData.                                                      *)

\* The inputs of a command stay as long as it is listed, which it is while its plugin
\* is enabled.
CommandDraft(listed) ==
  IF ~listed THEN None ELSE IF draft = None THEN Default ELSE draft

\* loadPluginState: one failed request fails the load; a value and a secret that are
\* being typed are lost.
LoadEnds(o, ok) ==
  /\ o.kind = "load"
  /\ IF ok
     THEN \E s \in [enabled: o.seen.enabled, config: o.seen.config, secret: o.seen.secret,
                    approved: o.seen.approved, installed: o.seen.installed,
                    catalogs: o.seen.catalogs], listed \in o.seen.enabled :
            /\ shown' = s
            /\ draft' = CommandDraft(listed)
            /\ typed' = IF listed THEN typed ELSE Default
     ELSE UNCHANGED <<shown, draft, typed>>
  /\ loading' = FALSE
  /\ End(o)
  /\ behind' = IF ok /\ o.alone THEN FALSE ELSE behind \/ ~ok
  /\ UNCHANGED <<server, review, adding, vetted, count>>

\* The button beside a catalog that is not available.
RetryCatalog ==
  /\ Usable
  /\ Begin("load", None, None) /\ loading' = TRUE
  /\ UNCHANGED formVars

\* The timer and refreshRuntimeHealth
RefreshHealth ==
  /\ ~loading /\ Begin("health", None, None) /\ UNCHANGED <<loading, formVars>>

HealthEnds(o, ok) ==
  /\ o.kind = "health" /\ End(o)
  /\ \E e \in o.seen.enabled : shown' = [shown EXCEPT !.enabled = IF ok THEN e ELSE @]
  /\ UNCHANGED <<server, loading, formVars, count, behind>>

-----------------------------------------------------------------------------
(* Answers.                                                                *)

Fails(o) ==
  /\ o.at = "failed" /\ End(o)
  /\ UNCHANGED <<server, shown, loading, formVars, count, behind>>

ConfigSaved(o) ==
  /\ o.at = "ok" /\ o.kind = "config" /\ End(o)
  /\ shown' = [shown EXCEPT !.config = o.got.config]
  /\ UNCHANGED <<server, loading, formVars, count, behind>>

SecretSaved(o) ==
  /\ o.at = "ok" /\ o.kind = "secret" /\ End(o)
  /\ shown' = [shown EXCEPT !.secret = o.got.secret]
  /\ UNCHANGED <<server, loading, formVars, count, behind>>

\* What is taken from an answer before everything is loaded again.
Taken(o) ==
  IF o.kind \in {"toggle", "reload"} THEN [shown EXCEPT !.enabled = o.got.enabled]
  ELSE IF o.kind = "market" THEN [shown EXCEPT !.installed = o.got.installed, !.catalogs = o.got.catalogs]
  ELSE shown

\* Defect: an approval is not followed by a load.
MutReloading == {"toggle", "reload", "command", "market"}

Reloading == {"approval", "toggle", "reload", "command", "market"}

\* The flag stays until the load has ended.
ThenLoads(o) ==
  /\ o.at = "ok" /\ o.kind \in {"approval", "toggle", "reload", "command", "market"}
  /\ shown' = Taken(o)
  /\ IF o.kind \in Reloading
     THEN /\ ops' = (ops \ {o}) \cup {Request(NewId("load"), "load", o.flag, None, ops = {o})}
          /\ loading' = TRUE /\ UNCHANGED flags
     ELSE End(o) /\ UNCHANGED loading
  /\ UNCHANGED <<server, formVars, count, behind>>

PreviewEnds(o, verified) ==
  /\ o.at = "ok" /\ o.kind = "preview" /\ End(o)
  /\ adding' = [adding EXCEPT !.preview = [source |-> o.body, verified |-> verified]]
  /\ UNCHANGED <<server, shown, loading, draft, review, typed, vetted, count, behind>>

\* trustCatalog closes the form; both take the marketplace from the answer.
CatalogsChanged(o) ==
  /\ o.at = "ok" /\ o.kind \in {"trust", "remove"} /\ End(o)
  /\ shown' = [shown EXCEPT !.installed = o.got.installed, !.catalogs = o.got.catalogs]
  /\ adding' = IF o.kind = "trust" THEN NoForm ELSE adding
  /\ UNCHANGED <<server, loading, draft, review, typed, vetted, count, behind>>

-----------------------------------------------------------------------------
(* InstalledPluginsModel: operations of one flag exclude each other.       *)

Start(kind, flag, body) ==
  /\ Usable /\ flag \notin flags
  /\ Begin(kind, flag, body) /\ UNCHANGED <<loading, formVars>>

SaveConfig(v) == Start("config", "saving", v)
SaveSecret == Start("secret", "saving", None)
ChangeApproval == Start("approval", "saving", ~shown.approved)
TogglePlugin == Start("toggle", "toggling", ~shown.enabled)
ReloadPlugin == Start("reload", "reloading", None)
RunCommand == draft # None /\ Start("command", "running", None)
RunMigration == Start("command", "running", None)

EditCommand(v) ==
  /\ Usable /\ draft # None
  /\ draft' = v /\ typed' = v
  /\ UNCHANGED <<server, shown, loading, flags, review, adding, vetted, ops, count, behind>>

-----------------------------------------------------------------------------
(* MarketplaceModel.                                                       *)

\* A reader may open the dialog at any time.
RequestReview ==
  /\ Usable
  /\ review' = IF shown.installed THEN "uninstall" ELSE "install"
  /\ UNCHANGED <<server, shown, loading, flags, draft, adding, typed, vetted, ops, count, behind>>

ConfirmReview ==
  /\ review # None /\ "acting" \notin flags
  /\ review' = None /\ Begin("market", "acting", review)
  /\ UNCHANGED <<loading, draft, adding, typed, vetted>>

CancelReview ==
  /\ review # None /\ review' = None
  /\ UNCHANGED <<server, shown, loading, flags, draft, adding, typed, vetted, ops, count, behind>>

\* The button opens and closes the form; its preview of before is still there when
\* one ends after it was closed.
ToggleForm ==
  /\ Usable /\ "busy" \notin flags
  /\ adding' = IF adding.open THEN NoForm ELSE [adding EXCEPT !.open = TRUE]
  /\ UNCHANGED <<server, shown, loading, flags, draft, review, typed, vetted, ops, count, behind>>

Form == Usable /\ adding.open

EditSource(s) ==
  /\ Form /\ adding' = [adding EXCEPT !.source = s]
  /\ UNCHANGED <<server, shown, loading, flags, draft, review, typed, vetted, ops, count, behind>>

\* The key does not wait for what is under way, as the button does.
PreviewCatalog ==
  /\ Form /\ adding.source # None
  /\ adding' = [adding EXCEPT !.preview = None]
  /\ Begin("preview", "busy", adding.source)
  /\ UNCHANGED <<loading, draft, review, typed, vetted>>

\* Defect: what is in the field is trusted.
MutTrustedSource == adding.source

TrustedSource == adding.preview.source

TrustCatalog ==
  /\ Form /\ "busy" \notin flags
  /\ adding.preview # None /\ adding.preview.verified /\ adding.preview.source \notin shown.catalogs
  /\ Begin("trust", "busy", TrustedSource)
  /\ vetted' = vetted \cup {adding.preview.source}
  /\ UNCHANGED <<loading, draft, review, adding, typed>>

RemoveCatalog(s) ==
  /\ Usable /\ "busy" \notin flags /\ s \in shown.catalogs
  /\ Begin("remove", "busy", s) /\ UNCHANGED <<loading, formVars>>

-----------------------------------------------------------------------------
\* onMount loads everything.
Init ==
  /\ server = [enabled |-> TRUE, config |-> Default, secret |-> FALSE, approved |-> FALSE,
               installed |-> FALSE, catalogs |-> {CHOOSE s \in Sources : TRUE}]
  /\ shown = server
  /\ draft = None
  /\ loading = TRUE /\ flags = {} /\ review = None /\ adding = NoForm
  /\ ops = {Request(0, "load", None, None, TRUE)} /\ count = 0
  /\ typed = Default /\ vetted = {} /\ behind = TRUE

Next ==
  \/ \E o \in ops :
       \/ \E ok \in BOOLEAN :
            \/ LoadEnds(o, ok) \/ HealthEnds(o, ok) \/ PreviewEnds(o, ok)
            \/ \E done \in BOOLEAN : Serve(o, done, ok)
       \/ Fails(o) \/ ConfigSaved(o) \/ SecretSaved(o) \/ ThenLoads(o) \/ CatalogsChanged(o)
  \/ RetryCatalog \/ RefreshHealth
  \/ SaveSecret \/ ChangeApproval \/ TogglePlugin \/ ReloadPlugin
  \/ RunCommand \/ RunMigration
  \/ \E v \in Values : SaveConfig(v) \/ EditCommand(v)
  \/ RequestReview \/ ConfirmReview \/ CancelReview
  \/ ToggleForm \/ PreviewCatalog \/ TrustCatalog
  \/ \E s \in Sources : EditSource(s) \/ RemoveCatalog(s)

Spec == Init /\ [][Next]_vars

-----------------------------------------------------------------------------
(* Properties.                                                             *)

TypeOK ==
  /\ {server, shown} \subseteq Contents
  /\ draft \in Values \cup {None}
  /\ {loading, behind} \subseteq BOOLEAN
  /\ flags \subseteq {"saving", "toggling", "reloading", "running", "acting", "busy"}
  /\ review \in {None, "install", "uninstall"} /\ adding.source \in Sources \cup {None}
  /\ \A o \in ops : o.at \in {"sent", "ok", "failed"} /\ o.id \in 0..MaxOps

\* When nothing is under way no button waits, and, unless requests have crossed or
\* failed since everything was loaded, the panel shows what the server has.  The input
\* of a command is the one typed last, through all loads; a catalog that is added is
\* one whose verified preview was shown when the user trusted it, whatever previews
\* and edits cross each other (data.svelte.ts, installed.svelte.ts,
\* marketplace.svelte.ts).
PanelSettles ==
  /\ ops = {} => flags = {} /\ ~loading /\ (~behind => shown = server)
  /\ draft \in {None, typed}
  /\ \A o \in ops : o.kind = "trust" => o.body \in vetted
=============================================================================
