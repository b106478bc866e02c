--------------------------- MODULE ConnectionsPanel -------------------------
(***************************************************************************)
(* The connections of the server: their providers, which come and go with  *)
(* their plugins, and the panel that lists, adds and removes them          *)
(* (server/routes/connections.ts, core/plugin-contract/                    *)
(* registryProviders.ts, web/components/HostManager.svelte).               *)
(*                                                                         *)
(* A draft is known by the provider whose fields it has and by whether     *)
(* they are filled in.  The role only forbids operations and is not kept.  *)
(* MaxPolls bounds the requests for the lists, MaxOps the operations, and  *)
(* MaxToggles how often a plugin is enabled or disabled.                   *)
(***************************************************************************)
EXTENDS Naturals

CONSTANTS
  Providers, Owner,    \* Owner[c]: the provider of a connection
  MaxPolls, MaxOps, MaxToggles, None

VARIABLES
  active, toggled,  \* providers of plugins that are active
  conns,            \* connections there are
  lists,            \* what the panel shows: conns, providers
  form,             \* selected, key: the draft's provider, draft, adding
  polls, polled,    \* requests for the lists
  ops, count,       \* operations under way
  behind            \* history: requests crossed or failed since the lists were had

serverVars == <<active, toggled, conns>>
vars == <<serverVars, lists, form, polls, polled, ops, count, behind>>

Connections == DOMAIN Owner

\* listConnections: of active plugins only.
Listed == {c \in conns : Owner[c] \in active}

-----------------------------------------------------------------------------
(* What the panel makes of the lists.                                      *)

\* Defect: the draft of another provider is kept.
MutKeyed(f, ps) == [f EXCEPT !.key = IF f.selected \in ps THEN f.selected ELSE @]

\* A draft is made for the provider that is selected, once it is listed.
Keyed(f, ps) ==
  IF f.selected \in ps /\ f.key # f.selected
  THEN [f EXCEPT !.key = f.selected, !.draft = [of |-> f.selected, filled |-> FALSE]]
  ELSE f

\* The effect that follows a change of the lists or the selection; the first provider
\* is selected when none is.
Shown(l, f) ==
  /\ lists' = l
  /\ \E first \in IF f.selected = None /\ l.providers # {} THEN l.providers ELSE {f.selected} :
       form' = Keyed([f EXCEPT !.selected = first], l.providers)

-----------------------------------------------------------------------------
(* The lists.                                                              *)

\* A poll sees each list as it is at some time until it ends.
NewPoll(adding, alone) ==
  [seen |-> {Listed}, offered |-> {active}, adding |-> adding, alone |-> alone]

Seen(ps) ==
  {[p EXCEPT !.seen = @ \cup {Listed'}, !.offered = @ \cup {active'}, !.alone = FALSE] : p \in ps}

\* The timer
Poll ==
  /\ polled < MaxPolls /\ polled' = polled + 1
  /\ polls' = {[p EXCEPT !.alone = FALSE] : p \in polls} \cup {NewPoll(FALSE, polls = {})}
  /\ behind' = (behind \/ polls # {})
  /\ UNCHANGED <<serverVars, lists, form, ops, count>>

\* fetchConnections; both lists are empty when one cannot be had.
PollEnds(p, ok) ==
  /\ polls' = polls \ {p}
  /\ LET f == IF p.adding THEN [form EXCEPT !.adding = FALSE] ELSE form
     IN IF ok
        THEN \E cs \in p.seen, ps \in p.offered : Shown([conns |-> cs, providers |-> ps], f)
        ELSE Shown([conns |-> {}, providers |-> {}], f)
  /\ behind' = IF ok /\ p.alone THEN FALSE ELSE behind \/ ~ok
  /\ UNCHANGED <<serverVars, polled, ops, count>>

-----------------------------------------------------------------------------
(* The server.                                                             *)

\* A plugin is enabled or disabled; its connections go with it, and come back.
TogglePlugin(p) ==
  /\ toggled < MaxToggles /\ toggled' = toggled + 1
  /\ active' = IF p \in active THEN active \ {p} ELSE active \cup {p}
  /\ conns' = conns /\ polls' = Seen(polls) /\ behind' = TRUE
  /\ UNCHANGED <<lists, form, polled, ops, count>>

\* addConnection and removeConnection find the provider, or fail; what is asked for
\* may be done although the panel has stopped waiting.
Serve(o, done, ok) ==
  /\ o.at = "sent" /\ (ok => done) /\ (done => o.provider \in active)
  /\ conns' \in
       IF ~done THEN {conns}
       ELSE IF o.kind = "remove" THEN {conns \ {o.conn}}
       ELSE {conns \cup {c} : c \in {d \in Connections : Owner[d] = o.provider}}
  /\ active' = active
  /\ ops' = (ops \ {o}) \cup {[o EXCEPT !.at = IF ok THEN "ok" ELSE "failed"]}
  /\ polls' = Seen(polls)
  /\ behind' = (behind \/ (done /\ ~ok))
  /\ UNCHANGED <<toggled, lists, form, polled, count>>

-----------------------------------------------------------------------------
(* Adding and removing.                                                    *)

\* The provider that is selected, if it is listed.
SelectedProvider == IF form.selected \in lists.providers THEN form.selected ELSE None

SelectProvider(p) ==
  /\ p \in lists.providers /\ Shown(lists, [form EXCEPT !.selected = p])
  /\ UNCHANGED <<serverVars, polls, polled, ops, count, behind>>

SetDraft ==
  /\ SelectedProvider # None /\ form' = [form EXCEPT !.draft.filled = TRUE]
  /\ UNCHANGED <<serverVars, lists, polls, polled, ops, count, behind>>

Begin(kind, provider, c, draft) ==
  /\ count < MaxOps /\ count' = count + 1
  /\ ops' = ops \cup {[kind |-> kind, provider |-> provider, conn |-> c, draft |-> draft, at |-> "sent"]}
  /\ UNCHANGED <<serverVars, lists, polls, polled, behind>>

AddConnection ==
  /\ SelectedProvider # None /\ form.draft.filled /\ ~form.adding
  /\ form' = [form EXCEPT !.adding = TRUE]
  /\ Begin("add", SelectedProvider, None, form.draft.of)

RemoveConnection(c) ==
  /\ c \in lists.conns /\ UNCHANGED form
  /\ Begin("remove", Owner[c], c, Owner[c])

\* Defect: what was added shows with the next tick of the timer.
MutRefreshed(o) == IF o.kind = "add" THEN polls ELSE polls \cup {NewPoll(FALSE, polls = {})}

\* Both are followed by a request for the lists.
Refreshed(o) ==
  {[p EXCEPT !.alone = FALSE] : p \in polls} \cup {NewPoll(o.kind = "add", polls = {})}

\* A success empties the draft of the provider that is selected now.  If it is not
\* listed any more that counts as a failure.
Answered(o) ==
  /\ o.at # "sent" /\ ops' = ops \ {o}
  /\ LET good == o.at = "ok" /\ (o.kind = "add" => SelectedProvider # None)
     IN /\ polls' = IF good THEN Refreshed(o) ELSE polls
        /\ behind' = (behind \/ polls # {} \/ (~good /\ o.at = "ok"))
        /\ form' = IF o.kind = "remove" THEN form
                   ELSE IF good THEN [form EXCEPT !.draft = [of |-> SelectedProvider, filled |-> FALSE],
                                                  !.adding = (polls' # polls)]
                   ELSE [form EXCEPT !.adding = FALSE]
  /\ UNCHANGED <<serverVars, lists, polled, count>>

-----------------------------------------------------------------------------
Init ==
  /\ active = Providers /\ toggled = 0 /\ conns \in SUBSET Connections
  /\ lists = [conns |-> {}, providers |-> {}]
  /\ form = [selected |-> None, key |-> None, draft |-> [of |-> None, filled |-> FALSE],
             adding |-> FALSE]
  /\ polls = {NewPoll(FALSE, TRUE)} /\ polled = 0 /\ ops = {} /\ count = 0 /\ behind = TRUE

Next ==
  \/ \E p \in Providers : TogglePlugin(p) \/ SelectProvider(p)
  \/ \E o \in ops : (\E done, ok \in BOOLEAN : Serve(o, done, ok)) \/ Answered(o)
  \/ Poll \/ SetDraft \/ AddConnection
  \/ \E p \in polls, ok \in BOOLEAN : PollEnds(p, ok)
  \/ \E c \in Connections : RemoveConnection(c)

Spec == Init /\ [][Next]_vars

-----------------------------------------------------------------------------
(* Properties.                                                             *)

TypeOK ==
  /\ {active, lists.providers} \subseteq SUBSET Providers
  /\ {conns, lists.conns} \subseteq SUBSET Connections
  /\ {form.selected, form.key, form.draft.of} \subseteq Providers \cup {None}
  /\ {form.adding, form.draft.filled, behind} \subseteq BOOLEAN
  /\ polled \in 0..MaxPolls /\ count \in 0..MaxOps /\ toggled \in 0..MaxToggles

\* However lists, selections and answers cross, a provider gets the fields it asks
\* for, the button waits no longer than something is under way, and, unless requests
\* crossed or failed since, the panel shows the connections and providers there are
\* (web/components/HostManager.svelte).
ConnectionsFit ==
  /\ SelectedProvider # None => form.key = SelectedProvider /\ form.draft.of = form.key
  /\ \A o \in ops : o.draft = o.provider
  /\ ops = {} /\ polls = {} =>
       ~form.adding /\ (~behind => lists = [conns |-> Listed, providers |-> active])
=============================================================================
