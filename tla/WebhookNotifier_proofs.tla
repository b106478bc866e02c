---------------------- MODULE WebhookNotifier_proofs ----------------------
(***************************************************************************)
(* For any limits of the queue, the cooldowns and the attempts: the        *)
(* notifier never delivers two alerts at once, it delivers them in the     *)
(* order they were queued, the state that was passed on last is the state  *)
(* that was reported last, and nothing begins after stop().  The order is  *)
(* not inductive by itself: it needs that every alert in the queue or      *)
(* under way has a number already given.                                   *)
(***************************************************************************)
EXTENDS WebhookNotifier, SequenceTheorems, TLAPS

Counts == [Drains -> [at : {"none", "fetching", "waiting", "returned"},
                      alert : Nat, attempt : Nat]]

\* Only the drain this.running stands for is there.
Alone(ds, r) == \A d \in Drains : ds[d] # Gone => r = d

\* The alerts of the queue q and of the drains ds, numbered up to n, in order.
Ordered(q, ds, n) ==
  /\ \A i, j \in 1..Len(q) : i < j => q[i] < q[j]
  /\ \A i \in 1..Len(q) : q[i] <= n
  /\ \A d \in Drains : ds[d].alert <= n
  /\ \A d \in Drains : \A i \in 1..Len(q) : ds[d].alert < q[i]

DeliveryOK == /\ queue \in Seq(Nat \ {0}) /\ numbered \in Nat /\ drain \in Counts
              /\ Ordered(queue, drain, numbered)

IInv == DeliveryOK /\ Alone(drain, running)

-----------------------------------------------------------------------------
(* The parts of the handlers.                                              *)

\* The top of the loop takes the oldest alert, or the drain returns.
LEMMA LoopOK ==
  ASSUME NEW q \in Seq(Nat \ {0}), NEW n \in Nat, NEW ds \in Counts, NEW d \in Drains,
         Ordered(q, ds, n), Loop(d, q, ds)
  PROVE  queue' \in Seq(Nat \ {0}) /\ drain' \in Counts /\ Ordered(queue', drain', n)
<1>1. CASE q # <<>> /\ ~aborted
  <2>1. /\ drain' = [ds EXCEPT ![d] = Fetching(Head(q), 1)] /\ queue' = Tail(q)
    BY <1>1 DEF Loop
  <2>2. /\ Head(q) = q[1] /\ q[1] \in Nat \ {0} /\ Tail(q) \in Seq(Nat \ {0})
        /\ Len(q) \in Nat \ {0} /\ Len(Tail(q)) = Len(q) - 1
        /\ \A i \in 1..Len(Tail(q)) : Tail(q)[i] = q[i + 1]
    BY <1>1
  <2>3. drain' \in Counts
    BY <2>1, <2>2 DEF Counts, Fetching
  <2>4. \A e \in Drains : drain'[e].alert = IF e = d THEN q[1] ELSE ds[e].alert
    BY <2>1, <2>2 DEF Counts, Fetching
  <2>5. Ordered(queue', drain', n)
    <3>1. \A i \in 1..Len(queue') : /\ i + 1 \in 1..Len(q) /\ 1 < i + 1 /\ 1 \in 1..Len(q)
                                    /\ queue'[i] = q[i + 1]
      BY <2>1, <2>2
    <3>2. \A i, j \in 1..Len(queue') : i < j => queue'[i] < queue'[j]
      BY <3>1 DEF Ordered
    <3>3. \A i \in 1..Len(queue') : queue'[i] <= n
      BY <3>1 DEF Ordered
    <3>4. \A e \in Drains : drain'[e].alert <= n
      BY <2>2, <2>4 DEF Ordered
    <3>5. \A e \in Drains : \A i \in 1..Len(queue') : drain'[e].alert < queue'[i]
      BY <2>4, <3>1 DEF Ordered
    <3>. QED BY <3>2, <3>3, <3>4, <3>5 DEF Ordered
  <2>. QED BY <2>1, <2>2, <2>3, <2>5
<1>2. CASE ~(q # <<>> /\ ~aborted)
  <2>1. drain' = [ds EXCEPT ![d] = Returned] /\ queue' = q
    BY <1>2 DEF Loop
  <2>2. drain' \in Counts
    BY <2>1 DEF Counts, Returned
  <2>3. \A e \in Drains : drain'[e].alert = IF e = d THEN 0 ELSE ds[e].alert
    BY <2>1 DEF Counts, Returned
  <2>4. \A i \in 1..Len(q) : 0 < q[i]
    OBVIOUS
  <2>. QED BY <2>1, <2>2, <2>3, <2>4 DEF Ordered
<1>. QED BY <1>1, <1>2

\* It keeps a drain that is alone alone.
LEMMA LoopAlone ==
  ASSUME NEW q, NEW ds \in Counts, NEW d \in Drains, Loop(d, q, ds),
         \A e \in Drains : ds[e] # Gone => e = d
  PROVE  Alone(drain', d)
BY DEF Loop, Alone, Counts

\* A new alert goes behind all others.
LEMMA AppendOK ==
  ASSUME NEW q \in Seq(Nat \ {0}), NEW n \in Nat, NEW ds \in Counts, Ordered(q, ds, n)
  PROVE  /\ Append(q, n + 1) \in Seq(Nat \ {0})
         /\ Ordered(Append(q, n + 1), ds, n + 1)
<1>1. /\ Append(q, n + 1) \in Seq(Nat \ {0}) /\ Len(q) \in Nat
      /\ Len(Append(q, n + 1)) = Len(q) + 1
      /\ \A i \in 1..Len(q) + 1 :
           Append(q, n + 1)[i] = IF i = Len(q) + 1 THEN n + 1 ELSE q[i]
  OBVIOUS
<1>2. \A i \in 1..Len(q) : q[i] \in Nat /\ q[i] <= n
  BY DEF Ordered
<1>3. \A d \in Drains : ds[d].alert \in Nat /\ ds[d].alert <= n
  BY DEF Ordered, Counts
<1>. DEFINE r == Append(q, n + 1)
<1>4. \A i, j \in 1..Len(r) : i < j => r[i] < r[j]
  BY <1>1, <1>2 DEF Ordered
<1>5. \A i \in 1..Len(r) : r[i] <= n + 1
  BY <1>1, <1>2
<1>6. \A d \in Drains : ds[d].alert <= n + 1
  BY <1>3
<1>7. \A d \in Drains : \A i \in 1..Len(r) : ds[d].alert < r[i]
  BY <1>1, <1>3 DEF Ordered
<1>. QED BY <1>1, <1>4, <1>5, <1>6, <1>7 DEF Ordered

\* startDelivery, whatever the queue and the drains are then.
LEMMA StartOK ==
  ASSUME NEW q \in Seq(Nat \ {0}), NEW n \in Nat, NEW ds \in Counts, NEW r,
         Ordered(q, ds, n), Alone(ds, r), StartDelivery(q, ds, r)
  PROVE  /\ queue' \in Seq(Nat \ {0}) /\ drain' \in Counts
         /\ Ordered(queue', drain', n) /\ Alone(drain', running')
<1>1. CASE r # 0 /\ queue' = q /\ drain' = ds /\ running' = r
  BY <1>1
<1>2. ASSUME r = 0, NEW d \in Drains, ds[d] = Gone, Loop(d, q, ds), running' = d
      PROVE  /\ queue' \in Seq(Nat \ {0}) /\ drain' \in Counts
             /\ Ordered(queue', drain', n) /\ Alone(drain', running')
  <2>1. \A e \in Drains : ds[e] = Gone
    BY <1>2 DEF Alone, Drains
  <2>. QED BY <1>2, <2>1, LoopOK, LoopAlone
<1>. QED BY <1>1, <1>2 DEF StartDelivery

\* An alert reaches the queue, or is dropped.
LEMMA EnqueueOK == ASSUME IInv, Enqueue PROVE IInv'
<1>1. CASE UNCHANGED delivery
  BY <1>1 DEF delivery, IInv, DeliveryOK
<1>2. CASE /\ numbered' = numbered + 1
           /\ StartDelivery(Append(queue, numbered + 1), drain, running)
  <2>1. /\ Append(queue, numbered + 1) \in Seq(Nat \ {0})
        /\ Ordered(Append(queue, numbered + 1), drain, numbered + 1)
    BY AppendOK DEF IInv, DeliveryOK
  <2>2. numbered + 1 \in Nat
    BY DEF IInv, DeliveryOK
  <2>. QED BY <1>2, <2>1, <2>2, StartOK DEF IInv, DeliveryOK
<1>. QED BY <1>1, <1>2 DEF Enqueue

-----------------------------------------------------------------------------
\* Nothing is queued or under way at the start.
LEMMA InitOK == Init => IInv
BY DEF Init, IInv, DeliveryOK, Counts, Gone, Ordered, Alone

\* A request that is answered, or a wait that is over.
LEMMA DeliverOK ==
  ASSUME IInv, NEW d \in Drains, FetchSettles(d) \/ WaitEnds(d) PROVE IInv'
<1>1. running = d /\ \A e \in Drains : drain[e] # Gone => e = d
  BY DEF IInv, Alone, FetchSettles, WaitEnds, Gone
<1>2. CASE Loop(d, queue, drain) /\ UNCHANGED <<numbered, running>>
  BY <1>1, <1>2, LoopOK, LoopAlone DEF IInv, DeliveryOK
<1>3. ASSUME drain' \in Counts, drain'[d].alert = drain[d].alert,
             \A e \in Drains : e # d => drain'[e] = drain[e],
             UNCHANGED <<queue, numbered, running>>
      PROVE  IInv'
  <2>1. \A e \in Drains : drain'[e].alert = drain[e].alert
    BY <1>3
  <2>2. Ordered(queue, drain', numbered)
    BY <2>1 DEF IInv, DeliveryOK, Ordered
  <2>3. Alone(drain', running)
    BY <1>1, <1>3 DEF Alone
  <2>. QED BY <1>3, <2>2, <2>3 DEF IInv, DeliveryOK
<1>4. CASE drain' = [drain EXCEPT ![d].at = "waiting"] /\ UNCHANGED <<queue, numbered, running>>
  <2>1. drain' \in Counts /\ drain'[d].alert = drain[d].alert
    BY <1>4 DEF IInv, DeliveryOK, Counts
  <2>2. \A e \in Drains : e # d => drain'[e] = drain[e]
    BY <1>4 DEF IInv, DeliveryOK, Counts
  <2>. QED BY <1>3, <1>4, <2>1, <2>2
<1>5. CASE /\ drain' = [drain EXCEPT ![d] = Fetching(drain[d].alert, drain[d].attempt + 1)]
           /\ UNCHANGED <<queue, numbered, running>>
  <2>1. drain' \in Counts /\ drain'[d].alert = drain[d].alert
    BY <1>5 DEF IInv, DeliveryOK, Counts, Fetching
  <2>2. \A e \in Drains : e # d => drain'[e] = drain[e]
    BY <1>5 DEF IInv, DeliveryOK, Counts
  <2>. QED BY <1>3, <1>5, <2>1, <2>2
<1>. QED BY <1>2, <1>4, <1>5 DEF FetchSettles, WaitEnds

\* The finally callback: whatever it starts, it has been the only drain.
LEMMA FinallyOK == ASSUME IInv, NEW d \in Drains, Finally(d) PROVE IInv'
<1>. DEFINE gone == [drain EXCEPT ![d] = Gone]
<1>1. gone \in Counts /\ \A e \in Drains : gone[e] = Gone
  BY DEF IInv, DeliveryOK, Counts, Alone, Finally, Returned, Gone
<1>2. Ordered(queue, gone, numbered) /\ Alone(gone, 0)
  <2>1. \A i \in 1..Len(queue) : 0 < queue[i]
    BY DEF IInv, DeliveryOK
  <2>. QED BY <1>1, <2>1 DEF IInv, DeliveryOK, Ordered, Alone, Gone
<1>3. CASE StartDelivery(queue, gone, 0)
  BY <1>1, <1>2, <1>3, StartOK DEF IInv, DeliveryOK, Finally
<1>4. CASE drain' = gone /\ running' = 0 /\ UNCHANGED queue
  BY <1>1, <1>2, <1>4 DEF IInv, DeliveryOK, Finally
<1>. QED BY <1>3, <1>4 DEF Finally

\* What coalesces alerts touches the delivery through enqueue only.
LEMMA CoalescingOK ==
  ASSUME IInv, NEW k \in Keys,
         \/ \E s \in States : NotifyCoalesced(k, s)
         \/ TimerFires(k) \/ WindowEnds(k) \/ OrphanFires(k)
  PROVE  IInv'
<1>1. Enqueue \/ UNCHANGED delivery
  BY DEF NotifyCoalesced, TimerFires, WindowEnds, OrphanFires, Send, SendNow
<1>. QED BY <1>1, EnqueueOK DEF delivery, IInv, DeliveryOK

\* stop() empties the queue.
LEMMA StopOK == ASSUME IInv, Stop PROVE IInv'
BY DEF IInv, DeliveryOK, Stop, Ordered

\* Every step keeps the invariant.
LEMMA NextOK == IInv /\ [Next]_vars => IInv'
<1>. SUFFICES ASSUME IInv, [Next]_vars PROVE IInv'
  OBVIOUS
<1>1. CASE Next
  BY <1>1, CoalescingOK, EnqueueOK, DeliverOK, FinallyOK, StopOK
     DEF Next, NotifyPlain, Deliver
<1>2. CASE UNCHANGED vars
  BY <1>2 DEF vars, IInv, DeliveryOK
<1>. QED BY <1>1, <1>2

-----------------------------------------------------------------------------
(* The limits of the delivery.                                             *)

Attempts(ds) == \A d \in Drains : ds[d].attempt <= MaxAttempts

Limits == /\ Len(queue) <= MaxPending /\ numbered <= MaxAlerts
          /\ Attempts(drain) /\ running \in 0..2 /\ aborted \in BOOLEAN

LEMMA LoopLimits ==
  ASSUME NEW q \in Seq(Nat \ {0}), NEW ds \in Counts, NEW d \in Drains,
         Attempts(ds), Loop(d, q, ds)
  PROVE  Len(queue') <= Len(q) /\ Attempts(drain')
<1>. USE NotifierAssumption
<1>1. Len(q) \in Nat
  OBVIOUS
<1>2. CASE q # <<>> /\ drain' = [ds EXCEPT ![d] = Fetching(Head(q), 1)] /\ queue' = Tail(q)
  BY <1>1, <1>2 DEF Attempts, Counts, Fetching
<1>3. CASE drain' = [ds EXCEPT ![d] = Returned] /\ queue' = q
  BY <1>1, <1>3 DEF Attempts, Counts, Returned
<1>. QED BY <1>2, <1>3 DEF Loop

LEMMA StartLimits ==
  ASSUME NEW q \in Seq(Nat \ {0}), NEW ds \in Counts, NEW r \in 0..2,
         Attempts(ds), StartDelivery(q, ds, r)
  PROVE  Len(queue') <= Len(q) /\ Attempts(drain') /\ running' \in 0..2
BY LoopLimits DEF StartDelivery, Drains

\* What reaches the queue had room there and a number left.
LEMMA EnqueueLimits == ASSUME IInv, Limits, Enqueue, aborted' = aborted PROVE Limits'
<1>. USE NotifierAssumption
<1>1. CASE UNCHANGED delivery
  BY <1>1 DEF delivery, Limits
<1>2. CASE /\ ~Full /\ numbered < MaxAlerts
           /\ numbered' = numbered + 1
           /\ StartDelivery(Append(queue, numbered + 1), drain, running)
  <2>1. /\ Append(queue, numbered + 1) \in Seq(Nat \ {0})
        /\ Len(Append(queue, numbered + 1)) = Len(queue) + 1 /\ Len(queue) \in Nat
    BY DEF IInv, DeliveryOK
  <2>2. drain \in Counts /\ running \in 0..2 /\ Attempts(drain) /\ numbered \in Nat
    BY DEF IInv, DeliveryOK, Limits
  <2>3. /\ Len(queue') <= Len(Append(queue, numbered + 1))
        /\ Attempts(drain') /\ running' \in 0..2
    BY <1>2, <2>1, <2>2, StartLimits
  <2>4. queue' \in Seq(Nat \ {0})
    BY EnqueueOK DEF IInv, DeliveryOK
  <2>5. Len(queue') \in Nat
    BY <2>4
  <2>6. Len(queue') <= MaxPending
    BY <1>2, <2>1, <2>3, <2>5 DEF Full
  <2>7. numbered' <= MaxAlerts
    BY <1>2, <2>2
  <2>. QED BY <2>3, <2>6, <2>7 DEF Limits
<1>. QED BY <1>1, <1>2 DEF Enqueue

\* Only an alert with an attempt left waits for it.
Waits == \A d \in Drains : drain[d].at = "waiting" => drain[d].attempt < MaxAttempts

LEMMA LoopWaits ==
  ASSUME NEW q \in Seq(Nat \ {0}), NEW ds \in Counts, NEW d \in Drains, Loop(d, q, ds),
         \A e \in Drains : ds[e].at = "waiting" => ds[e].attempt < MaxAttempts
  PROVE  Waits'
<1>1. CASE drain' = [ds EXCEPT ![d] = Fetching(Head(q), 1)]
  BY <1>1 DEF Waits, Counts, Fetching
<1>2. CASE drain' = [ds EXCEPT ![d] = Returned]
  BY <1>2 DEF Waits, Counts, Returned
<1>. QED BY <1>1, <1>2 DEF Loop

LEMMA EnqueueWaits == ASSUME IInv, Waits, Enqueue PROVE Waits'
<1>1. CASE drain' = drain
  BY <1>1 DEF Waits
<1>2. ASSUME NEW d \in Drains, Loop(d, Append(queue, numbered + 1), drain) PROVE Waits'
  <2>1. Append(queue, numbered + 1) \in Seq(Nat \ {0}) /\ drain \in Counts
    BY DEF IInv, DeliveryOK
  <2>. QED BY <1>2, <2>1, LoopWaits DEF Waits
<1>. QED BY <1>1, <1>2 DEF Enqueue, StartDelivery, delivery

LEMMA DeliverLimits ==
  ASSUME IInv, Limits, Waits, NEW d \in Drains, Deliver(d) PROVE Limits' /\ Waits'
<1>. USE NotifierAssumption
<1>1. /\ queue \in Seq(Nat \ {0}) /\ drain \in Counts /\ Attempts(drain)
      /\ running \in 0..2 /\ Len(queue) \in Nat /\ numbered' = numbered /\ aborted' = aborted
  BY DEF IInv, DeliveryOK, Limits, Deliver, FetchSettles, WaitEnds, Finally
<1>2. CASE Loop(d, queue, drain) /\ UNCHANGED running
  <2>1. Len(queue') <= Len(queue) /\ Attempts(drain') /\ Waits'
    BY <1>1, <1>2, LoopLimits, LoopWaits DEF Waits
  <2>2. queue' \in Seq(Nat \ {0})
    BY <1>1, <1>2, LoopOK DEF IInv, DeliveryOK
  <2>3. Len(queue') \in Nat
    BY <2>2
  <2>. QED BY <1>1, <1>2, <2>1, <2>3 DEF Limits
<1>3. CASE /\ drain[d].attempt < MaxAttempts
           /\ drain' = [drain EXCEPT ![d].at = "waiting"] /\ UNCHANGED <<queue, running>>
  BY <1>1, <1>3 DEF Limits, Waits, Attempts, Counts
<1>4. CASE /\ drain[d].at = "waiting"
           /\ drain' = [drain EXCEPT ![d] = Fetching(drain[d].alert, drain[d].attempt + 1)]
           /\ UNCHANGED <<queue, running>>
  BY <1>1, <1>4 DEF Limits, Waits, Attempts, Counts, Fetching
<1>5. CASE Finally(d)
  <2>. DEFINE gone == [drain EXCEPT ![d] = Gone]
  <2>1. /\ gone \in Counts /\ Attempts(gone)
        /\ \A e \in Drains : gone[e].at = "waiting" => gone[e].attempt < MaxAttempts
    BY <1>1 DEF Counts, Gone, Attempts, Waits
  <2>2. CASE StartDelivery(queue, gone, 0)
    <3>1. Len(queue') <= Len(queue) /\ Attempts(drain') /\ running' \in 0..2
      BY <1>1, <2>1, <2>2, StartLimits
    <3>2. Waits'
      BY <1>1, <2>1, <2>2, LoopWaits DEF StartDelivery
    <3>3. queue' \in Seq(Nat \ {0})
      BY <1>5, FinallyOK DEF IInv, DeliveryOK
    <3>4. Len(queue') \in Nat
      BY <3>3
    <3>. QED BY <1>1, <3>1, <3>2, <3>4 DEF Limits
  <2>3. CASE drain' = gone /\ running' = 0 /\ UNCHANGED queue
    BY <1>1, <2>1, <2>3 DEF Limits, Waits
  <2>. QED BY <1>5, <2>2, <2>3 DEF Finally
<1>. QED BY <1>2, <1>3, <1>4, <1>5 DEF Deliver, FetchSettles, WaitEnds

-----------------------------------------------------------------------------
(* Coalescing.                                                             *)

CoalescingTypes ==
  /\ order \in Seq(Keys) /\ Len(order) <= MaxSubjects
  /\ cooldown \in [Keys -> Entries] /\ orphan \in [Keys -> Entries]
  /\ reported \in [Keys -> States \cup {None}]
  /\ passedOn \in [Keys -> States \cup {None}]
  /\ lost \subseteq Keys

\* A timer is set exactly if a state waits, a key whose replaced entry has a timer left
\* is lost, and a key that is not lost has passed on what its entry sent last and
\* keeps the state reported last, or has passed it on.
KeyOK(k) ==
  /\ cooldown[k].timer <=> cooldown[k].pending # None
  /\ cooldown[k].timer => cooldown[k].window # "none"
  /\ orphan[k] # NoEntry => k \in lost
  /\ k \notin lost /\ ~aborted =>
       /\ cooldown[k].window # "none" => cooldown[k].last = passedOn[k]
       /\ reported[k] = IF cooldown[k].timer THEN cooldown[k].pending ELSE passedOn[k]

CInv == CoalescingTypes /\ \A k \in Keys : KeyOK(k)

LEMMA CInit == Init => CInv
BY NotifierAssumption
DEF Init, CInv, CoalescingTypes, KeyOK, Entries, NoEntry, None

\* An alert: pended, sent beside an overtaken timer or without, or sent for a new key,
\* for which another may have to make room.
LEMMA NotifyCoalesces ==
  ASSUME CInv, NEW k \in Keys, NEW s \in States, NotifyCoalesced(k, s) PROVE CInv'
<1>. USE NotifierAssumption
<1>1. CoalescingTypes /\ s # None /\ Opened(s) \in Entries /\ NoEntry \in Entries
  BY DEF CInv, States, None, Entries, NoEntry, Opened
<1>2. /\ ~aborted /\ ~aborted' /\ reported' = [reported EXCEPT ![k] = s]
  BY DEF NotifyCoalesced
<1>3. CASE /\ cooldown[k].window = "open"
           /\ cooldown' = [cooldown EXCEPT ![k] = Pended(cooldown[k], s)]
           /\ UNCHANGED <<order, orphan, passedOn, lost>>
  <2>1. /\ Pended(cooldown[k], s) \in Entries
        /\ Pended(cooldown[k], s).pending = s /\ Pended(cooldown[k], s).timer
        /\ Pended(cooldown[k], s).window = "open"
        /\ Pended(cooldown[k], s).last = cooldown[k].last
    BY <1>1, <1>3 DEF CoalescingTypes, Pended, Entries
  <2>2. CoalescingTypes'
    BY <1>1, <1>2, <1>3, <2>1 DEF CoalescingTypes
  <2>3. KeyOK(k)'
    BY <1>1, <1>2, <1>3, <2>1 DEF CInv, KeyOK, CoalescingTypes
  <2>4. ASSUME NEW l \in Keys, l # k PROVE KeyOK(l)'
    BY <1>1, <1>2, <1>3, <2>4 DEF CInv, KeyOK, CoalescingTypes
  <2>. QED BY <2>2, <2>3, <2>4 DEF CInv
<1>4. CASE /\ cooldown[k].window = "over"
           /\ orphan' = IF cooldown[k].timer THEN [orphan EXCEPT ![k] = cooldown[k]] ELSE orphan
           /\ cooldown' = [cooldown EXCEPT ![k] = Opened(s)]
           /\ lost' = Overtaken(k, lost)
           /\ passedOn' = [passedOn EXCEPT ![k] = s]
           /\ UNCHANGED order
  <2>1. CoalescingTypes'
    BY <1>1, <1>2, <1>4 DEF CoalescingTypes, Overtaken
  <2>2. KeyOK(k)'
    BY <1>1, <1>2, <1>4 DEF KeyOK, CoalescingTypes, Overtaken, Opened
  <2>3. ASSUME NEW l \in Keys, l # k PROVE KeyOK(l)'
    <3>1. /\ cooldown'[l] = cooldown[l] /\ orphan'[l] = orphan[l] /\ passedOn'[l] = passedOn[l]
          /\ reported'[l] = reported[l] /\ (l \in lost' <=> l \in lost)
      BY <1>1, <1>2, <1>4, <2>3 DEF CoalescingTypes, Overtaken
    <3>. QED BY <1>2, <3>1 DEF CInv, KeyOK
  <2>. QED BY <2>1, <2>2, <2>3 DEF CInv
<1>5. CASE /\ cooldown[k].window = "none" /\ Len(order) < MaxSubjects
           /\ cooldown' = [cooldown EXCEPT ![k] = Opened(s)]
           /\ order' = Append(order, k) /\ orphan' = orphan
           /\ lost' = Overtaken(k, lost)
           /\ passedOn' = [passedOn EXCEPT ![k] = s]
  <2>1. order' \in Seq(Keys) /\ Len(order') <= MaxSubjects
    BY <1>1, <1>5 DEF CoalescingTypes
  <2>2. CoalescingTypes'
    BY <1>1, <1>2, <1>5, <2>1 DEF CoalescingTypes, Overtaken
  <2>3. KeyOK(k)'
    BY <1>1, <1>2, <1>5 DEF KeyOK, CoalescingTypes, Overtaken, Opened
  <2>4. ASSUME NEW l \in Keys, l # k PROVE KeyOK(l)'
    <3>1. /\ cooldown'[l] = cooldown[l] /\ orphan'[l] = orphan[l] /\ passedOn'[l] = passedOn[l]
          /\ reported'[l] = reported[l] /\ (l \in lost' <=> l \in lost)
      BY <1>1, <1>2, <1>5, <2>4 DEF CoalescingTypes, Overtaken
    <3>. QED BY <1>2, <3>1 DEF CInv, KeyOK
  <2>. QED BY <2>2, <2>3, <2>4 DEF CInv
<1>6. CASE /\ cooldown[k].window = "none" /\ Len(order) >= MaxSubjects
           /\ cooldown' = [cooldown EXCEPT ![Head(order)] = NoEntry, ![k] = Opened(s)]
           /\ order' = Append(Tail(order), k) /\ orphan' = orphan
           /\ lost' = Overtaken(k, IF cooldown[Head(order)].pending = None THEN lost
                                   ELSE lost \cup {Head(order)})
           /\ passedOn' = [passedOn EXCEPT ![k] = s]
  <2>1. /\ Head(order) \in Keys /\ Tail(order) \in Seq(Keys)
        /\ order' \in Seq(Keys) /\ Len(order') = Len(order) /\ Len(order) = MaxSubjects
    BY <1>1, <1>6 DEF CoalescingTypes
  <2>. PICK h \in Keys : h = Head(order)
    BY <2>1
  <2>2. CoalescingTypes'
    BY <1>1, <1>2, <1>6, <2>1 DEF CoalescingTypes, Overtaken
  <2>3. KeyOK(k)'
    BY <1>1, <1>2, <1>6, <2>1 DEF KeyOK, CoalescingTypes, Overtaken, Opened
  <2>4. ASSUME NEW l \in Keys, l # k, l # h PROVE KeyOK(l)'
    <3>1. /\ cooldown'[l] = cooldown[l] /\ orphan'[l] = orphan[l] /\ passedOn'[l] = passedOn[l]
          /\ reported'[l] = reported[l] /\ (l \in lost' <=> l \in lost)
      BY <1>1, <1>2, <1>6, <2>4 DEF CoalescingTypes, Overtaken
    <3>. QED BY <1>2, <3>1 DEF CInv, KeyOK
  <2>5. ASSUME h # k PROVE KeyOK(h)'
    <3>1. /\ cooldown'[h] = NoEntry /\ orphan'[h] = orphan[h] /\ passedOn'[h] = passedOn[h]
          /\ reported'[h] = reported[h]
      BY <1>1, <1>2, <1>6, <2>1, <2>5 DEF CoalescingTypes
    <3>2. h \in lost' <=> (h \in lost \/ cooldown[h].pending # None)
      BY <1>6, <2>5 DEF Overtaken
    <3>3. KeyOK(h)
      BY <2>1 DEF CInv
    <3>4. /\ ~cooldown'[h].timer /\ cooldown'[h].pending = None
          /\ cooldown'[h].window = "none"
      BY <3>1 DEF NoEntry
    <3>. QED BY <1>2, <3>1, <3>2, <3>3, <3>4 DEF KeyOK
  <2>. QED BY <2>1, <2>2, <2>3, <2>4, <2>5 DEF CInv
<1>. QED BY <1>3, <1>4, <1>5, <1>6 DEF NotifyCoalesced, SendNow

LEMMA CNext == CInv /\ [Next]_vars => CInv'
<1>. SUFFICES ASSUME CInv, [Next]_vars PROVE CInv'
  OBVIOUS
<1>1. CoalescingTypes
  BY DEF CInv
<1>2. ASSUME NEW k \in Keys, TimerFires(k) PROVE CInv'
  <2>. DEFINE e == cooldown[k]
  <2>1. e \in Entries /\ Fired(e) \in Entries /\ e.timer /\ ~Fired(e).timer
        /\ Fired(e).pending = None /\ Fired(e).window # "none"
        /\ Fired(e).last = IF Due(e) THEN e.pending ELSE e.last
    BY <1>1, <1>2 DEF TimerFires, CoalescingTypes, Entries, Fired
  <2>2. passedOn' = IF Due(e) THEN [passedOn EXCEPT ![k] = e.pending] ELSE passedOn
    BY <1>2 DEF TimerFires, Send, SendNow
  <2>3. /\ cooldown' = [cooldown EXCEPT ![k] = Fired(e)]
        /\ UNCHANGED <<order, orphan, aborted, reported, lost>>
    BY <1>2 DEF TimerFires
  <2>4. e.pending \in States \cup {None}
    BY <2>1 DEF Entries
  <2>5. CoalescingTypes'
    BY <1>1, <2>1, <2>2, <2>3, <2>4 DEF CoalescingTypes
  <2>6. KeyOK(k)'
    <3>1. KeyOK(k) /\ cooldown'[k] = Fired(e)
          /\ passedOn'[k] = IF Due(e) THEN e.pending ELSE passedOn[k]
      BY <1>1, <2>2, <2>3 DEF CInv, CoalescingTypes
    <3>2. ~Due(e) => e.pending = e.last \/ e.pending = None
      BY DEF Due
    <3>. QED BY <2>1, <2>3, <3>1, <3>2 DEF KeyOK
  <2>7. ASSUME NEW l \in Keys, l # k PROVE KeyOK(l)'
    <3>1. cooldown'[l] = cooldown[l] /\ passedOn'[l] = passedOn[l]
      BY <1>1, <2>2, <2>3, <2>7 DEF CoalescingTypes
    <3>. QED BY <2>3, <3>1 DEF CInv, KeyOK
  <2>. QED BY <2>5, <2>6, <2>7 DEF CInv
<1>3. ASSUME NEW k \in Keys, WindowEnds(k) PROVE CInv'
  <2>1. CoalescingTypes'
    BY <1>1, <1>3 DEF WindowEnds, CoalescingTypes, Entries
  <2>2. ASSUME NEW l \in Keys PROVE KeyOK(l)'
    <3>1. /\ cooldown'[l].timer = cooldown[l].timer /\ cooldown'[l].last = cooldown[l].last
          /\ cooldown'[l].pending = cooldown[l].pending
          /\ cooldown'[l].window = "none" <=> cooldown[l].window = "none"
      BY <1>1, <1>3 DEF WindowEnds, CoalescingTypes, Entries
    <3>. QED BY <1>3, <3>1 DEF WindowEnds, CInv, KeyOK
  <2>. QED BY <2>1, <2>2 DEF CInv
<1>4. ASSUME NEW k \in Keys, OrphanFires(k) PROVE CInv'
  <2>1. /\ orphan[k] # NoEntry /\ orphan' = [orphan EXCEPT ![k] = NoEntry]
        /\ UNCHANGED <<order, cooldown, aborted, reported, lost>>
    BY <1>4 DEF OrphanFires
  <2>2. orphan[k].pending \in States \cup {None} /\ NoEntry \in Entries
    BY <1>1 DEF CoalescingTypes, Entries, NoEntry
  <2>3. passedOn' \in {passedOn, [passedOn EXCEPT ![k] = orphan[k].pending]}
    BY <1>4 DEF OrphanFires, Send, SendNow
  <2>4. CoalescingTypes'
    BY <1>1, <2>1, <2>2, <2>3 DEF CoalescingTypes
  <2>5. KeyOK(k)'
    BY <1>1, <2>1 DEF CInv, KeyOK, CoalescingTypes
  <2>6. ASSUME NEW l \in Keys, l # k PROVE KeyOK(l)'
    <3>1. orphan'[l] = orphan[l] /\ passedOn'[l] = passedOn[l]
      BY <1>1, <2>1, <2>3, <2>6 DEF CoalescingTypes
    <3>. QED BY <2>1, <3>1 DEF CInv, KeyOK
  <2>. QED BY <2>4, <2>5, <2>6 DEF CInv
<1>5. CASE Stop
  <2>1. CoalescingTypes'
    BY <1>1, <1>5, NotifierAssumption DEF Stop, CoalescingTypes, Entries, NoEntry
  <2>2. ASSUME NEW l \in Keys PROVE KeyOK(l)'
    <3>1. cooldown'[l] = NoEntry /\ aborted' /\ UNCHANGED <<orphan, lost>>
      BY <1>5 DEF Stop
    <3>2. ~cooldown'[l].timer /\ cooldown'[l].pending = None
      BY <3>1 DEF NoEntry
    <3>. QED BY <3>1, <3>2 DEF CInv, KeyOK
  <2>. QED BY <2>1, <2>2 DEF CInv
<1>6. CASE UNCHANGED <<aborted, coalescing>>
  BY <1>6 DEF coalescing, CInv, CoalescingTypes, KeyOK
<1>7. NotifyPlain \/ (\E d \in Drains : Deliver(d)) \/ UNCHANGED vars
        => UNCHANGED <<aborted, coalescing>>
  BY DEF NotifyPlain, Deliver, FetchSettles, WaitEnds, Finally, vars, coalescing
<1>. QED BY <1>2, <1>3, <1>4, <1>5, <1>6, <1>7, NotifyCoalesces DEF Next

-----------------------------------------------------------------------------
LEMMA LimitsInit == Init => Limits /\ Waits
<1>. SUFFICES ASSUME Init PROVE Limits /\ Waits
  OBVIOUS
<1>1. \A d \in Drains : drain[d].at = "none" /\ drain[d].attempt = 0
  BY DEF Init, Gone
<1>2. Len(queue) = 0 /\ numbered = 0 /\ running = 0
  BY DEF Init
<1>3. aborted \in BOOLEAN
  BY DEF Init
<1>. QED BY <1>1, <1>2, <1>3, NotifierAssumption DEF Limits, Waits, Attempts

LEMMA LimitsNext == IInv /\ Limits /\ Waits /\ [Next]_vars => Limits' /\ Waits'
<1>. SUFFICES ASSUME IInv, Limits, Waits, [Next]_vars PROVE Limits' /\ Waits'
  OBVIOUS
<1>1. CASE Enqueue /\ UNCHANGED aborted
  BY <1>1, EnqueueLimits, EnqueueWaits
<1>2. CASE UNCHANGED <<delivery, aborted>>
  BY <1>2 DEF delivery, Limits, Waits, Attempts
<1>3. ASSUME NEW d \in Drains, Deliver(d) PROVE Limits' /\ Waits'
  BY <1>3, DeliverLimits
<1>4. CASE Stop
  BY <1>4, NotifierAssumption DEF Stop, Limits, Waits, Attempts
<1>5. ASSUME NEW k \in Keys,
             \/ \E s \in States : NotifyCoalesced(k, s)
             \/ TimerFires(k) \/ WindowEnds(k) \/ OrphanFires(k)
      PROVE  (Enqueue /\ UNCHANGED aborted) \/ UNCHANGED <<delivery, aborted>>
  BY <1>5 DEF NotifyCoalesced, TimerFires, WindowEnds, OrphanFires, Send, SendNow
<1>6. UNCHANGED vars => UNCHANGED <<delivery, aborted>>
  BY DEF vars, delivery
<1>. QED BY <1>1, <1>2, <1>3, <1>4, <1>5, <1>6 DEF Next, NotifyPlain

\* After stop() the drains only return and end.
LEMMA StepAfterStop ==
  ASSUME IInv, aborted, Next
  PROVE  \A d \in Drains : drain'[d].at = "fetching" => drain'[d] = drain[d]
<1>1. drain \in Counts
  BY DEF IInv, DeliveryOK
<1>2. CASE drain' = drain
  BY <1>2
<1>3. ASSUME NEW d \in Drains, drain' \in {[drain EXCEPT ![d] = Returned], [drain EXCEPT ![d] = Gone]}
      PROVE  \A e \in Drains : drain'[e].at = "fetching" => drain'[e] = drain[e]
  BY <1>1, <1>3 DEF Counts, Returned, Gone
<1>4. ASSUME NEW d \in Drains, Deliver(d)
      PROVE  drain' \in {[drain EXCEPT ![d] = Returned], [drain EXCEPT ![d] = Gone]}
  BY <1>4 DEF Deliver, FetchSettles, WaitEnds, Finally, Loop
<1>5. CASE Enqueue \/ UNCHANGED delivery \/ Stop
  BY <1>2, <1>5 DEF Enqueue, delivery, Stop
<1>6. ASSUME NEW k \in Keys,
             \/ \E s \in States : NotifyCoalesced(k, s)
             \/ TimerFires(k) \/ WindowEnds(k) \/ OrphanFires(k)
      PROVE  Enqueue \/ UNCHANGED delivery
  BY <1>6 DEF NotifyCoalesced, TimerFires, WindowEnds, OrphanFires, Send, SendNow
<1>. QED BY <1>3, <1>4, <1>5, <1>6 DEF Next, NotifyPlain

-----------------------------------------------------------------------------
\* The invariant of the delivery.
THEOREM Invariance == Spec => []IInv
BY InitOK, NextOK, PTL DEF Spec

\* No two drains ever run together.
THEOREM DrainIsAlone == Spec => []OneDrain
<1>1. IInv => OneDrain
  BY DEF IInv, Alone, OneDrain
<1>. QED BY <1>1, Invariance, PTL

\* What waits in the queue is younger than what is under way, and in order.
THEOREM DeliveredInOrder == Spec => []InOrder
<1>1. IInv => InOrder
  BY DEF IInv, DeliveryOK, Ordered, InOrder
<1>. QED BY <1>1, Invariance, PTL

\* The queue, the cooldowns and the attempts keep their limits, and all variables
\* their types.
THEOREM TypeCorrect == Spec => []TypeOK
<1>1. IInv /\ Limits /\ CInv => TypeOK
  <2>. SUFFICES ASSUME IInv, Limits, CInv PROVE TypeOK
    OBVIOUS
  <2>1. /\ queue \in Seq(Nat \ {0}) /\ numbered \in Nat /\ drain \in Counts
        /\ Ordered(queue, drain, numbered)
    BY DEF IInv, DeliveryOK
  <2>2. \A i \in 1..Len(queue) : queue[i] \in 1..MaxAlerts
    BY <2>1, NotifierAssumption DEF Ordered, Limits
  <2>3. queue \in Seq(1..MaxAlerts)
    <3>1. Len(queue) \in Nat /\ queue \in [1..Len(queue) -> 1..MaxAlerts]
      BY <2>1, <2>2
    <3>. QED BY <3>1, SeqDef
  <2>4. drain \in [Drains -> DrainStates]
    BY <2>1, NotifierAssumption DEF Counts, DrainStates, Ordered, Limits, Attempts
  <2>5. numbered \in 0..MaxAlerts
    BY <2>1, NotifierAssumption DEF Limits
  <2>. QED BY <2>3, <2>4, <2>5 DEF TypeOK, Limits, CInv, CoalescingTypes
<1>. QED BY <1>1, LimitsInit, LimitsNext, CInit, CNext, Invariance, PTL DEF Spec

\* Once no timer of a key is left, what was passed on of it last is what was reported
\* last, for any number of keys, cooldowns and evictions.
THEOREM LatestIsSent == Spec => []LatestStateIsSent
<1>1. CInv => LatestStateIsSent
  BY DEF CInv, KeyOK, LatestStateIsSent
<1>. QED BY <1>1, CInit, CNext, PTL DEF Spec

\* After stop() no step starts a request.
THEOREM SilentAfterStop == Spec => NothingAfterStop
<1>1. IInv /\ [Next]_vars =>
        [aborted => \A d \in Drains : drain'[d].at = "fetching" => drain'[d] = drain[d]]_vars
  BY StepAfterStop
<1>. QED BY <1>1, Invariance, PTL DEF Spec, NothingAfterStop

=============================================================================
