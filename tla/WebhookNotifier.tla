-------------------------- MODULE WebhookNotifier --------------------------
(***************************************************************************)
(* One WebhookNotifier (server/webhooks.ts): the coalescing of health and  *)
(* connectivity alerts, the bounded queue and its delivery by one drain().  *)
(*                                                                         *)
(* A coalesced alert is the state it reports of one key (source or         *)
(* workload, and family).  Time is only what the code compares: the window *)
(* of a key is open (now < until) or over.  An alert the selection filters *)
(* out and a duplicate inside 60 s change nothing; a duplicate after that  *)
(* is a new alert.                                                         *)
(*                                                                         *)
(* An alert may be handled after its key's window is over and before the   *)
(* timer set for that moment has fired; it is late by less than another    *)
(* window.                                                                 *)
(***************************************************************************)
EXTENDS Naturals, Sequences, FiniteSets

CONSTANTS Keys,         \* what coalescing tells apart
          MaxPending,   \* MAX_PENDING
          MaxAttempts,  \* MAX_ATTEMPTS
          MaxSubjects,  \* the cooldowns kept (512)
          MaxAlerts     \* bound: alerts that reach the queue

ASSUME NotifierAssumption ==
  {MaxPending, MaxAttempts, MaxSubjects, MaxAlerts} \subseteq Nat \ {0}

VARIABLES
  order,      \* the keys of cooldowns, oldest first
  cooldown,   \* their entries
  orphan,     \* an entry replaced in cooldowns whose timer has not fired yet
  queue,      \* waiting alerts, by number
  numbered,   \* alerts that reached the queue so far
  drain,      \* the drain() calls
  running,    \* this.running, the number of a drain; 0 for null
  aborted,    \* controller.signal.aborted
  reported,   \* ghost: the last state each key was reported in
  passedOn,   \* ghost: the last state of each key that was passed to enqueue
  lost        \* ghost: the keys of which an eviction dropped the waiting state,
              \* or an overtaken timer sends an older one

vars == <<order, cooldown, orphan, queue, numbered, drain, running, aborted,
          reported, passedOn, lost>>
coalescing == <<order, cooldown, orphan, reported, passedOn, lost>>
delivery == <<queue, numbered, drain, running>>

States == {"good", "bad"}
None == "none"
Entries == [window : {"none", "open", "over"}, last : States \cup {None},
            pending : States \cup {None}, timer : BOOLEAN]
NoEntry == [window |-> "none", last |-> None, pending |-> None, timer |-> FALSE]
Opened(s) == [window |-> "open", last |-> s, pending |-> None, timer |-> FALSE]

Drains == 1..2
DrainStates == [at : {"none", "fetching", "waiting", "returned"},
                alert : 0..MaxAlerts, attempt : 0..MaxAttempts]
Gone == [at |-> "none", alert |-> 0, attempt |-> 0]
Returned == [at |-> "returned", alert |-> 0, attempt |-> 0]
Fetching(n, attempt) == [at |-> "fetching", alert |-> n, attempt |-> attempt]

-----------------------------------------------------------------------------
(* Delivery.                                                               *)

\* Drain d at the top of its loop, q being the queue and ds the drains.
Loop(d, q, ds) ==
  IF q # <<>> /\ ~aborted
  THEN drain' = [ds EXCEPT ![d] = Fetching(Head(q), 1)] /\ queue' = Tail(q)
  ELSE drain' = [ds EXCEPT ![d] = Returned] /\ queue' = q

\* The definitions named Mut... are defects the properties must detect; they
\* are no part of the specification.  Here: every alert starts a drain.
MutStartDelivery(q, ds, r) ==
  \E d \in Drains : ds[d] = Gone /\ Loop(d, q, ds) /\ running' = d

\* startDelivery: only when none is running.
StartDelivery(q, ds, r) ==
  \/ r # 0 /\ queue' = q /\ drain' = ds /\ running' = r
  \/ r = 0 /\ \E d \in Drains : /\ ds[d] = Gone
                                /\ Loop(d, q, ds)
                                /\ running' = d

\* Defect: the limit is passed by one.
MutFull == Len(queue) > MaxPending
Full == Len(queue) >= MaxPending

\* enqueue: nothing after stop(), nothing beyond the limits of the queue and of
\* the payload.
Enqueue ==
  \/ UNCHANGED delivery
  \/ /\ ~aborted /\ ~Full /\ numbered < MaxAlerts
     /\ numbered' = numbered + 1
     /\ StartDelivery(Append(queue, numbered + 1), drain, running)

\* Defect: an alert to retry goes back to the end of the queue.
MutFetchSettles(d) ==
  /\ drain[d].at = "fetching"
  /\ \/ Loop(d, queue, drain)
     \/ ~aborted /\ ~Full /\ Loop(d, Append(queue, drain[d].alert), drain)
  /\ UNCHANGED <<numbered, running, aborted, coalescing>>

\* The request of drain d is answered, fails, times out or is aborted.  After
\* an error worth a retry the drain waits, unless that was the last attempt or
\* the delay asked for is too long.
FetchSettles(d) ==
  /\ drain[d].at = "fetching"
  /\ \/ Loop(d, queue, drain)
     \/ /\ ~aborted /\ drain[d].attempt < MaxAttempts
        /\ drain' = [drain EXCEPT ![d].at = "waiting"]
        /\ UNCHANGED queue
  /\ UNCHANGED <<numbered, running, aborted, coalescing>>

\* Defect: the delivery goes on after the wait whatever happened meanwhile.
MutWaitEnds(d) ==
  /\ drain[d].at = "waiting"
  /\ drain' = [drain EXCEPT ![d] = Fetching(drain[d].alert, drain[d].attempt + 1)]
  /\ UNCHANGED <<queue, numbered, running, aborted, coalescing>>

\* The delay is over, or stop() cuts it short.
WaitEnds(d) ==
  /\ drain[d].at = "waiting"
  /\ \/ /\ aborted /\ Loop(d, queue, drain)
     \/ /\ ~aborted
        /\ drain' = [drain EXCEPT ![d] = Fetching(drain[d].alert, drain[d].attempt + 1)]
        /\ UNCHANGED queue
  /\ UNCHANGED <<numbered, running, aborted, coalescing>>

\* Defect: what arrived since drain() returned is left in the queue.
MutFinally(d) ==
  /\ drain[d].at = "returned"
  /\ drain' = [drain EXCEPT ![d] = Gone] /\ running' = 0
  /\ UNCHANGED <<queue, numbered, aborted, coalescing>>

\* The finally callback of a drain.
Finally(d) ==
  LET gone == [drain EXCEPT ![d] = Gone]
  IN  /\ drain[d].at = "returned"
      /\ \/ /\ queue # <<>> /\ ~aborted
            /\ StartDelivery(queue, gone, 0)
         \/ /\ queue = <<>> \/ aborted
            /\ drain' = gone /\ running' = 0
            /\ UNCHANGED queue
      /\ UNCHANGED <<numbered, aborted, coalescing>>

-----------------------------------------------------------------------------
(* Coalescing.                                                             *)

\* Defect: an alert inside the window keeps the first pending one.
MutPended(e, s) == [e EXCEPT !.pending = IF @ = None THEN s ELSE @, !.timer = TRUE]
\* The latest alert inside the window waits for its end.
Pended(e, s) == [e EXCEPT !.pending = s, !.timer = TRUE]

SendNow(k, s) == passedOn' = [passedOn EXCEPT ![k] = s] /\ Enqueue

\* The keys of ks and k when its state is sent: k is lost exactly if an older
\* timer of k will send after it.
Overtaken(k, ks) == IF orphan'[k] = NoEntry THEN ks \ {k} ELSE ks \cup {k}

\* A health or connectivity alert about key k.
NotifyCoalesced(k, s) ==
  /\ ~aborted
  /\ reported' = [reported EXCEPT ![k] = s]
  /\ \/ /\ cooldown[k].window = "open"
        /\ cooldown' = [cooldown EXCEPT ![k] = Pended(cooldown[k], s)]
        /\ UNCHANGED <<order, orphan, passedOn, lost, delivery>>
     \/ /\ cooldown[k].window = "over"
        /\ cooldown[k].timer => orphan[k] = NoEntry
        /\ orphan' = IF cooldown[k].timer THEN [orphan EXCEPT ![k] = cooldown[k]] ELSE orphan
        /\ cooldown' = [cooldown EXCEPT ![k] = Opened(s)]
        /\ lost' = Overtaken(k, lost)
        /\ SendNow(k, s)
        /\ UNCHANGED order
     \/ /\ cooldown[k].window = "none" /\ Len(order) < MaxSubjects
        /\ cooldown' = [cooldown EXCEPT ![k] = Opened(s)]
        /\ order' = Append(order, k)
        /\ UNCHANGED orphan
        /\ lost' = Overtaken(k, lost)
        /\ SendNow(k, s)
     \/ /\ cooldown[k].window = "none" /\ Len(order) >= MaxSubjects
        /\ cooldown' = [cooldown EXCEPT ![Head(order)] = NoEntry, ![k] = Opened(s)]
        /\ order' = Append(Tail(order), k)
        /\ UNCHANGED orphan
        /\ lost' = Overtaken(k, IF cooldown[Head(order)].pending = None THEN lost
                               ELSE lost \cup {Head(order)})
        /\ SendNow(k, s)
  /\ UNCHANGED aborted

\* Any other alert.
NotifyPlain ==
  /\ ~aborted
  /\ Enqueue
  /\ UNCHANGED <<aborted, coalescing>>

\* The timer of entry e has a state to send.
Due(e) == e.pending # None /\ e.pending # e.last

\* The entry after its timer has fired.
Fired(e) ==
  [window |-> IF Due(e) THEN "open" ELSE "over",
   last |-> IF Due(e) THEN e.pending ELSE e.last, pending |-> None, timer |-> FALSE]

\* What the timer of entry e of key k sends.
Send(k, e) ==
  \/ Due(e) /\ SendNow(k, e.pending)
  \/ ~Due(e) /\ UNCHANGED <<passedOn, delivery>>

TimerFires(k) ==
  /\ cooldown[k].timer
  /\ cooldown' = [cooldown EXCEPT ![k] = Fired(@)]
  /\ Send(k, cooldown[k])
  /\ UNCHANGED <<order, orphan, aborted, reported, lost>>

\* Time passes the end of a window.
WindowEnds(k) ==
  /\ cooldown[k].window = "open"
  /\ cooldown' = [cooldown EXCEPT ![k].window = "over"]
  /\ UNCHANGED <<order, orphan, aborted, reported, passedOn, lost, delivery>>

\* The timer of an entry that is no longer in cooldowns.
OrphanFires(k) ==
  /\ orphan[k] # NoEntry
  /\ orphan' = [orphan EXCEPT ![k] = NoEntry]
  /\ Send(k, orphan[k])
  /\ UNCHANGED <<order, cooldown, aborted, reported, lost>>

\* stop(), before it awaits the drain.
Stop ==
  /\ ~aborted
  /\ aborted' = TRUE
  /\ order' = <<>> /\ queue' = <<>>
  /\ cooldown' = [k \in Keys |-> NoEntry]
  /\ UNCHANGED <<orphan, numbered, drain, running, reported, passedOn, lost>>

-----------------------------------------------------------------------------
Init ==
  /\ order = <<>> /\ queue = <<>> /\ numbered = 0
  /\ cooldown = [k \in Keys |-> NoEntry] /\ orphan = [k \in Keys |-> NoEntry]
  /\ drain = [d \in Drains |-> Gone] /\ running = 0
  /\ aborted = FALSE
  /\ reported = [k \in Keys |-> None] /\ passedOn = [k \in Keys |-> None]
  /\ lost = {}

Deliver(d) == FetchSettles(d) \/ WaitEnds(d) \/ Finally(d)

Next ==
  \/ \E k \in Keys :
       \/ \E s \in States : NotifyCoalesced(k, s)
       \/ TimerFires(k) \/ WindowEnds(k) \/ OrphanFires(k)
  \/ NotifyPlain
  \/ \E d \in Drains : Deliver(d)
  \/ Stop

Spec == Init /\ [][Next]_vars

\* Every request is answered or times out after 5 s, waits end, callbacks run;
\* there is at most one drain (OneDrain) to be fair to.
FairSpec == Spec /\ WF_vars(\E d \in Drains : Deliver(d))

-----------------------------------------------------------------------------
(* Properties.                                                             *)

TypeOK ==
  /\ order \in Seq(Keys) /\ Len(order) <= MaxSubjects
  /\ cooldown \in [Keys -> Entries] /\ orphan \in [Keys -> Entries]
  /\ queue \in Seq(1..MaxAlerts) /\ Len(queue) <= MaxPending
  /\ numbered \in 0..MaxAlerts
  /\ drain \in [Drains -> DrainStates] /\ running \in 0..2
  /\ aborted \in BOOLEAN
  /\ reported \in [Keys -> States \cup {None}]
  /\ passedOn \in [Keys -> States \cup {None}]
  /\ lost \subseteq Keys

\* "One request at a time", docs/api.md:491: a drain that is about to end and one
\* that has been started for an alert that just came never run together.
OneDrain == \A d \in Drains : drain[d] # Gone => running = d

\* Alerts are delivered in the order they were queued, none twice: what waits is
\* younger than what is under way.
InOrder ==
  /\ \A i, j \in 1..Len(queue) : i < j => queue[i] < queue[j]
  /\ \A d \in Drains : \A i \in 1..Len(queue) : drain[d].alert < queue[i]

\* After stop() no request is started any more, neither for the next alert nor
\* as a retry after a wait.
NothingAfterStop ==
  [][aborted => \A d \in Drains : drain'[d].at = "fetching" => drain'[d] = drain[d]]_vars

\* No alert is stranded in the queue, whenever it arrives: when no more come (their
\* number is bounded here), the queue empties.  By InOrder every alert leaves it.
QueueEmpties == queue # <<>> ~> queue = <<>>

\* docs/api.md:471-473, "At the end of that window, only the latest state is
\* sent, if it differs from the last sent state": once no timer is left, the last
\* state passed on is the one last reported, however windows, timers and evictions
\* of other keys interleave.  The exceptions are the keys in lost.
LatestStateIsSent ==
  \A k \in Keys \ lost : ~aborted /\ ~cooldown[k].timer => passedOn[k] = reported[k]

=============================================================================
