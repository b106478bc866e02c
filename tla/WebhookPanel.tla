---------------------------- MODULE WebhookPanel ----------------------------
(***************************************************************************)
(* The dialog for webhook alerts (web/components/WebhookPanel.svelte): a   *)
(* form over settings that other clients may change too.  What the server  *)
(* does with an update is in WebhookSettings; here it is one step, between *)
(* the request and its answer, which may be lost.                          *)
(*                                                                         *)
(* The format is part of the selection: both are always sent.              *)
(***************************************************************************)

CONSTANTS
  Urls,
  Selections,  \* formats, events and scopes
  None

VARIABLES
  stored,     \* of the server: [url, selection]
  managed,    \* managedByEnv
  status,     \* the settings last answered: [enabled, selection], None before
  url,        \* typed, None for a blank field
  selection,  \* format, events and scope of the form
  request,    \* the one under way: [kind, url, selection, at, answer]
  failed,     \* an error is shown
  confirming, \* confirmingDisable
  wanted,     \* the selection the user last chose or was shown
  typed,      \* the URL the user typed and no server has taken
  alone       \* nobody else changed the settings since the last answer

vars == <<stored, managed, status, url, selection, request, failed, confirming, wanted,
          typed, alone>>
server == <<stored, managed>>

\* What the dialog asks, and how far it is.
RequestSet ==
  [kind : {"load", "save", "disable"}, url : Urls \cup {None}, selection : Selections,
   at : {"sent", "served", "refused"},
   answer : [enabled : BOOLEAN, selection : Selections] \cup {None}]

Busy == request # None
Idle == request = None
Shown(s) == [enabled |-> s.url # None, selection |-> s.selection]

-----------------------------------------------------------------------------
(* The server.                                                             *)

Answer(at) == request' = [request EXCEPT !.at = at, !.answer = Shown(stored')]

\* update: a blank URL keeps the one there is, and one there must be.
Serve ==
  /\ Busy /\ request.at = "sent"
  /\ LET kept == IF request.url = None THEN stored.url ELSE request.url
     IN CASE request.kind = "load" ->
               /\ UNCHANGED <<stored, typed>> /\ Answer("served")
          [] request.kind = "disable" ->
               /\ stored' = [stored EXCEPT !.url = None]
               /\ Answer("served")
               /\ UNCHANGED typed
          [] OTHER ->
               \/ /\ kept # None
                  /\ stored' = [url |-> kept, selection |-> request.selection]
                  /\ Answer("served")
                  /\ typed' = IF request.url = typed THEN None ELSE typed
               \/ /\ UNCHANGED <<stored, typed>>  \* also for a full disk
                  /\ Answer("refused")
  /\ alone' = TRUE
  /\ UNCHANGED <<managed, status, url, selection, failed, confirming, wanted>>

\* Another client saves or disables.
Elsewhere(u, s) ==
  /\ ~managed /\ stored # [url |-> u, selection |-> s]
  /\ stored' = [url |-> u, selection |-> s] /\ alone' = FALSE
  /\ UNCHANGED <<managed, status, url, selection, request, failed, confirming, wanted, typed>>

-----------------------------------------------------------------------------
(* The dialog.                                                             *)

Send(kind) ==
  request' = [kind |-> kind, url |-> IF kind = "save" THEN url ELSE None,
              selection |-> selection, at |-> "sent", answer |-> None]

\* Defect: the settings are taken over and the form is not.
MutLoaded(next) ==
  /\ status' = next /\ UNCHANGED selection
  /\ url' = None /\ confirming' = FALSE
  /\ wanted' = IF request.kind = "save" THEN wanted ELSE next.selection

\* loaded: everything typed gives way to what the server says.
Loaded(next) ==
  /\ status' = next /\ selection' = next.selection
  /\ url' = None /\ confirming' = FALSE
  /\ wanted' = IF request.kind = "save" THEN wanted ELSE next.selection

\* What an answer says was true when it was served.
Answered ==
  /\ Busy /\ request.at = "served"
  /\ \/ Loaded(request.answer) /\ failed' = FALSE
     \/ /\ failed' = TRUE  \* it was lost
        /\ UNCHANGED <<status, url, selection, confirming, wanted>>
  /\ request' = None
  /\ UNCHANGED <<server, typed, alone>>

Refused ==
  /\ Busy /\ request.at = "refused"
  /\ request' = None /\ failed' = TRUE
  /\ UNCHANGED <<server, status, url, selection, confirming, wanted, typed, alone>>

\* The fieldset.
Enabled == status # None /\ ~managed /\ Idle

Type(u) ==
  /\ Enabled /\ u # url /\ url' = u /\ typed' = u
  /\ UNCHANGED <<server, status, selection, request, failed, confirming, wanted, alone>>

\* The format, the events, toggleProject and toggleWorkload.
Choose(s) ==
  /\ Enabled /\ s # selection /\ selection' = s /\ wanted' = s
  /\ UNCHANGED <<server, status, url, request, failed, confirming, typed, alone>>

Save ==
  /\ Enabled /\ Idle /\ (status.enabled \/ url # None)
  /\ Send("save") /\ failed' = FALSE
  /\ UNCHANGED <<server, status, url, selection, confirming, wanted, typed, alone>>

Confirm(ask) ==
  /\ Enabled /\ status.enabled /\ confirming # ask /\ confirming' = ask
  /\ UNCHANGED <<server, status, url, selection, request, failed, wanted, typed, alone>>

\* What is typed is dropped with the answer.
Disable ==
  /\ Enabled /\ confirming /\ Send("disable") /\ failed' = FALSE
  /\ typed' = None
  /\ UNCHANGED <<server, status, url, selection, confirming, wanted, alone>>

-----------------------------------------------------------------------------

\* onMount has asked for the settings.
Init ==
  /\ stored \in [url : Urls \cup {None}, selection : Selections]
  /\ managed \in BOOLEAN
  /\ status = None /\ url = None
  /\ selection \in Selections /\ wanted = selection
  /\ request = [kind |-> "load", url |-> None, selection |-> selection, at |-> "sent",
                answer |-> None]
  /\ failed = FALSE /\ confirming = FALSE /\ typed = None /\ alone = TRUE

Next ==
  \/ Serve \/ Answered \/ Refused \/ Save \/ Disable
  \/ \E u \in Urls \cup {None} : Type(u) \/ \E s \in Selections : Elsewhere(u, s)
  \/ \E s \in Selections : Choose(s)
  \/ \E ask \in BOOLEAN : Confirm(ask)

Spec == Init /\ [][Next]_vars

-----------------------------------------------------------------------------
(* Properties.                                                             *)

TypeOK ==
  /\ stored \in [url : Urls \cup {None}, selection : Selections]
  /\ status = None \/ status \in [enabled : BOOLEAN, selection : Selections]
  /\ {url, typed} \subseteq Urls \cup {None}
  /\ {selection, wanted} \subseteq Selections
  /\ request \in RequestSet \cup {None}
  /\ {managed, failed, confirming, alone} \subseteq BOOLEAN

\* What the user chose stays in the form until the server has it, whatever fails; an answered
\* save leaves in the form, and with nobody else about at the server, what was chosen; and
\* settings of the environment are never changed (WebhookPanel.svelte:98).
WebhookEditsAreKept ==
  /\ typed # None => url = typed
  /\ selection = wanted
  /\ Idle /\ status # None /\ ~failed /\ alone /\ wanted = status.selection
       => stored.selection = wanted /\ status.enabled = (stored.url # None)
  /\ managed => Idle \/ request.kind = "load"

=============================================================================
