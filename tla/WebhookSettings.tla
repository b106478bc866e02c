-------------------------- MODULE WebhookSettings --------------------------
(***************************************************************************)
(* WebhookSettings (server/webhookSettings.ts): the webhook configuration, *)
(* its file webhook.json, and the notifier that is replaced by every       *)
(* change.  Updates are chained on `pending`, so one runs at a time, in    *)
(* the order they came; a crash may fall between any two of its steps.     *)
(*                                                                         *)
(* A configuration is its URL.  A notifier is only whether it has been     *)
(* stopped and whether its drain runs: WebhookNotifier has the detail.  It *)
(* is the environment that does not set DOCKSCOPE_WEBHOOK_URL.             *)
(***************************************************************************)
EXTENDS Naturals, Sequences

CONSTANTS Urls,
          MaxWaiting,    \* bound: updates that wait for their turn
          MaxNotifiers   \* bound: notifiers made

ASSUME SettingsAssumption == {MaxWaiting, MaxNotifiers} \subseteq Nat \ {0}

None == "none"
Keep == "keep"   \* an update with a blank URL: the hidden one stays
ASSUME UrlAssumption == {None, Keep} \cap Urls = {}

VARIABLES
  file,      \* webhook.json
  config,    \* this.config
  current,   \* this.notifier
  sending,   \* the notifiers whose drain runs
  aborted,   \* the notifiers that have been stopped
  waiting,   \* the updates that have not begun
  update,    \* the one that runs: its step, and the configuration it sets
  stopped,   \* this.stopped
  closing,   \* where stop() is
  awaited,   \* the waiting updates that stop() awaits
  up,        \* the server runs
  answered   \* ghost: the configuration of the last update answered with success

vars == <<file, config, current, sending, aborted, waiting, update, stopped,
          closing, awaited, up, answered>>

Configs == Urls \cup {None}
Notifiers == 1..MaxNotifiers
Idle == [at |-> "idle", next |-> None]
Step(at, next) == [at |-> at, next |-> next]

-----------------------------------------------------------------------------
Busy == IF update = Idle THEN 0 ELSE 1

\* PUT (a URL or a blank one) or DELETE /api/webhook.
Submit(input) ==
  /\ up /\ Len(waiting) < MaxWaiting /\ current + Len(waiting) + Busy < MaxNotifiers
  /\ waiting' = Append(waiting, input)
  /\ UNCHANGED <<file, config, current, sending, aborted, update, stopped, closing, awaited, up, answered>>

\* Defect: a blank URL is taken for one.
MutAsked(input) == input

\* The configuration an update asks for: that of its turn, not of its arrival.
Asked(input) == IF input = Keep THEN config ELSE input

\* The definitions named Mut... are defects the properties must detect; they
\* are no part of the specification.  Here: an update behind stop() never ends.
MutBegin ==
  /\ up /\ update = Idle /\ waiting # <<>> /\ ~stopped
  /\ waiting' = Tail(waiting)
  /\ update' = Step("writing", Asked(Head(waiting)))
  /\ UNCHANGED <<file, config, current, sending, aborted, stopped, closing, awaited, up, answered>>

\* The next update begins, or is refused: the server shuts down, or there is no
\* URL to keep.
Begin ==
  /\ up /\ update = Idle /\ waiting # <<>>
  /\ waiting' = Tail(waiting)
  /\ update' = IF stopped \/ (Head(waiting) = Keep /\ config = None)
               THEN Idle
               ELSE Step("writing", Asked(Head(waiting)))
  /\ awaited' = IF awaited = 0 THEN 0 ELSE awaited - 1
  /\ UNCHANGED <<file, config, current, sending, aborted, stopped, closing, up, answered>>

\* Defect: the file is written in place, and what a failure left is kept.
MutWriteFails ==
  /\ up /\ update.at = "writing"
  /\ file' = update.next /\ update' = Idle
  /\ UNCHANGED <<config, current, sending, aborted, waiting, stopped, closing, awaited, up, answered>>

\* mkdir or the temporary file fails: the update is rejected.
WriteFails ==
  /\ up /\ update.at = "writing"
  /\ update' = Idle
  /\ UNCHANGED <<file, config, current, sending, aborted, waiting, stopped, closing, awaited, up, answered>>

\* rename() puts the file in place; then the old notifier is stopped.
Renamed ==
  /\ up /\ update.at = "writing"
  /\ file' = update.next
  /\ update' = [update EXCEPT !.at = "renamed"]
  /\ UNCHANGED <<config, current, sending, aborted, waiting, stopped, closing, awaited, up, answered>>

StopOld ==
  /\ up /\ update.at = "renamed"
  /\ aborted' = aborted \cup {current}
  /\ update' = [update EXCEPT !.at = "stopping"]
  /\ UNCHANGED <<file, config, current, sending, waiting, stopped, closing, awaited, up, answered>>

\* Defect: the new notifier does not wait for the end of the old one's request.
MutSwap ==
  /\ up /\ update.at = "stopping"
  /\ config' = update.next /\ current' = current + 1 /\ answered' = update.next
  /\ update' = Idle
  /\ UNCHANGED <<file, sending, aborted, waiting, stopped, closing, awaited, up>>

\* The old notifier has ended: the new one takes over and the update is answered.
Swap ==
  /\ up /\ update.at = "stopping" /\ current \notin sending
  /\ config' = update.next /\ current' = current + 1 /\ answered' = update.next
  /\ update' = Idle
  /\ UNCHANGED <<file, sending, aborted, waiting, stopped, closing, awaited, up>>

-----------------------------------------------------------------------------
\* An alert the selection lets through starts the current notifier's drain.
NotifyAlert ==
  /\ up /\ config # None /\ current \notin aborted \cup sending
  /\ sending' = sending \cup {current}
  /\ UNCHANGED <<file, config, current, aborted, waiting, update, stopped, closing, awaited, up, answered>>

\* A drain ends: its queue is empty, or stop() aborted its request.
DrainEnds(n) ==
  /\ up /\ n \in sending
  /\ sending' = sending \ {n}
  /\ UNCHANGED <<file, config, current, aborted, waiting, update, stopped, closing, awaited, up, answered>>

\* stop(): no further update begins, and it awaits the last one submitted.
Stop ==
  /\ up /\ ~stopped
  /\ stopped' = TRUE /\ closing' = "pending" /\ awaited' = Len(waiting)
  /\ UNCHANGED <<file, config, current, sending, aborted, waiting, update, up, answered>>

\* Defect: the notifier is stopped while an update that will replace it runs.
MutPendingSettled ==
  /\ up /\ closing = "pending"
  /\ aborted' = aborted \cup {current} /\ closing' = "notifier"
  /\ UNCHANGED <<file, config, current, sending, waiting, update, stopped, awaited, up, answered>>

\* The updates submitted before stop() was called are settled.
PendingSettled ==
  /\ up /\ closing = "pending" /\ update = Idle /\ awaited = 0
  /\ aborted' = aborted \cup {current} /\ closing' = "notifier"
  /\ UNCHANGED <<file, config, current, sending, waiting, update, stopped, awaited, up, answered>>

Closed ==
  /\ up /\ closing = "notifier" /\ current \notin sending
  /\ closing' = "closed"
  /\ UNCHANGED <<file, config, current, sending, aborted, waiting, update, stopped, awaited, up, answered>>

\* The process ends, closed or not; what was in memory is gone.
Exit ==
  /\ up
  /\ up' = FALSE /\ sending' = {} /\ waiting' = <<>> /\ awaited' = 0 /\ update' = Idle
  /\ UNCHANGED <<file, config, current, aborted, stopped, closing, answered>>

\* WebhookSettings.open reads the file.
Open ==
  /\ ~up /\ current < MaxNotifiers
  /\ up' = TRUE /\ stopped' = FALSE /\ closing' = "no"
  /\ config' = file /\ answered' = file /\ current' = current + 1
  /\ UNCHANGED <<file, sending, aborted, waiting, awaited, update>>

-----------------------------------------------------------------------------
Init ==
  /\ file \in Configs /\ config = file /\ answered = file
  /\ current = 1 /\ sending = {} /\ aborted = {}
  /\ waiting = <<>> /\ update = Idle
  /\ stopped = FALSE /\ closing = "no" /\ awaited = 0 /\ up = TRUE

Progress ==
  \/ Begin \/ WriteFails \/ Renamed \/ StopOld \/ Swap
  \/ PendingSettled \/ Closed

Next ==
  \/ \E input \in Configs \cup {Keep} : Submit(input)
  \/ Progress
  \/ NotifyAlert \/ \E n \in Notifiers : DrainEnds(n)
  \/ Stop \/ Exit \/ Open

Spec == Init /\ [][Next]_vars

\* File operations settle, callbacks run, and an aborted request ends.
FairSpec ==
  /\ Spec
  /\ WF_vars(Begin) /\ WF_vars(WriteFails \/ Renamed) /\ WF_vars(StopOld) /\ WF_vars(Swap)
  /\ WF_vars(PendingSettled) /\ WF_vars(Closed)
  /\ \A n \in Notifiers : WF_vars(DrainEnds(n))

-----------------------------------------------------------------------------
(* Properties.                                                             *)

TypeOK ==
  /\ {file, config, answered} \subseteq Configs
  /\ current \in Notifiers /\ sending \subseteq Notifiers /\ aborted \subseteq Notifiers
  /\ waiting \in Seq(Configs \cup {Keep}) /\ Len(waiting) <= MaxWaiting
  /\ update \in [at : {"idle", "writing", "renamed", "stopping"}, next : Configs]
  /\ stopped \in BOOLEAN /\ up \in BOOLEAN
  /\ closing \in {"no", "pending", "notifier", "closed"} /\ awaited \in 0..MaxWaiting

\* Only the notifier in service has a request under way: the destination of a
\* replaced configuration receives nothing while the new one delivers, so there
\* is "one request at a time" (docs/api.md:491) across changes of settings too.
OldIsSilent == sending \subseteq {current}

\* A server that is up serves the configuration its file holds, which is the one
\* it last confirmed or found at its start, except between the rename and the
\* replacement of the notifier: neither a rejected update nor a crash splits them.
ServesItsFile ==
  up /\ update.at \in {"idle", "writing"} => file = config /\ config = answered

\* Once stop() has returned nothing is delivered any more, though an update may
\* have been replacing the notifier when it was called.
SilentOnceClosed == up /\ closing = "closed" => sending = {}

\* stop() returns, whatever updates wait or are submitted meanwhile.
StopReturns == closing = "pending" ~> closing = "closed" \/ ~up

=============================================================================
