---------------------- MODULE WebhookSettings_proofs ----------------------
(***************************************************************************)
(* For any set of URLs and any bounds: a change of settings never lets two *)
(* notifiers deliver at once, the server serves what its file holds, and   *)
(* nothing is delivered once stop() has returned.  None of the three is    *)
(* inductive.  What carries them is the order of the steps of an update:   *)
(* the file holds the new configuration from the rename on, the old        *)
(* notifier is aborted before it is awaited, and stop() gets to the        *)
(* notifier only when no update is left that could replace it.             *)
(***************************************************************************)
EXTENDS WebhookSettings, TLAPS

\* The types, without the bounds on what is counted.
Types ==
  /\ file \in Configs /\ config \in Configs /\ answered \in Configs
  /\ current \in Nat \ {0}
  /\ waiting \in Seq(Configs \cup {Keep})
  /\ update \in [at : {"idle", "writing", "renamed", "stopping"}, next : Configs]
  /\ stopped \in BOOLEAN /\ up \in BOOLEAN
  /\ closing \in {"no", "pending", "notifier", "closed"}

\* The steps of an update: what the file holds at each of them, and that the
\* notifier it waits for is aborted.
Updating ==
  /\ update.at = "idle" => update = Idle
  /\ update.at \in {"idle", "writing"} => file = config \/ ~up
  /\ update.at \in {"renamed", "stopping"} => file = update.next
  /\ update.at = "stopping" => current \in aborted
  /\ config = answered

\* Delivery: by the notifier in service only, by none when the server is down.
Delivering == sending \subseteq {current} /\ (up \/ sending = {})

\* stop(): it refuses updates, and past "pending" none runs and the notifier in
\* service is aborted.
Closing ==
  up => /\ closing # "no" => stopped
        /\ closing \in {"notifier", "closed"} => update = Idle /\ current \in aborted
        /\ closing = "closed" => sending = {}

Down == ~up => update = Idle

IInv == Types /\ Updating /\ Delivering /\ Closing /\ Down

\* A server that starts serves what it read and delivers nothing.
LEMMA InitOK == Init => IInv
<1>. SUFFICES ASSUME Init PROVE IInv
  OBVIOUS
<1>1. waiting \in Seq(Configs \cup {Keep})
  BY DEF Init
<1>2. stopped \in BOOLEAN /\ up \in BOOLEAN
  BY DEF Init
<1>3. current \in Nat \ {0}
  BY DEF Init
<1>4. Types
  BY <1>1, <1>2, <1>3, Zenon DEF Init, Types, Configs, Idle
<1>. QED BY <1>4 DEF Init, IInv, Updating, Delivering, Closing, Down, Idle

\* A submitted update only waits.
LEMMA SubmitOK ==
  ASSUME IInv, NEW input \in Configs \cup {Keep}, Submit(input) PROVE IInv'
BY DEF IInv, Types, Updating, Delivering, Closing, Down, Submit

\* An update begins with the configuration of its turn, or is refused.
LEMMA BeginOK == ASSUME IInv, Begin PROVE IInv'
<1>1. /\ Head(waiting) \in Configs \cup {Keep}
      /\ Tail(waiting) \in Seq(Configs \cup {Keep})
  BY DEF IInv, Types, Begin
<1>2. Asked(Head(waiting)) \in Configs
  BY <1>1 DEF Asked, IInv, Types
<1>3. update' \in {Idle, Step("writing", Asked(Head(waiting)))}
  BY DEF Begin
<1>4. Types'
  BY <1>1, <1>2, <1>3 DEF IInv, Types, Begin, Idle, Step, Configs
<1>5. Updating'
  BY <1>3 DEF IInv, Updating, Begin, Idle, Step
<1>6. Delivering' /\ Closing' /\ Down'
  BY DEF IInv, Delivering, Closing, Down, Begin, Idle
<1>. QED BY <1>4, <1>5, <1>6 DEF IInv

\* The further steps of an update.
LEMMA UpdateOK ==
  ASSUME IInv, WriteFails \/ Renamed \/ StopOld \/ Swap PROVE IInv'
<1>1. CASE WriteFails
  BY <1>1 DEF IInv, Types, Updating, Delivering, Closing, Down, WriteFails, Idle, Configs
<1>2. CASE Renamed
  BY <1>2 DEF IInv, Types, Updating, Delivering, Closing, Down, Renamed, Idle
<1>3. CASE StopOld
  BY <1>3 DEF IInv, Types, Updating, Delivering, Closing, Down, StopOld, Idle
<1>4. CASE Swap
  <2>1. sending = {}
    BY <1>4 DEF IInv, Delivering, Swap
  <2>2. file = update.next
    BY <1>4 DEF IInv, Updating, Swap
  <2>3. Types'
    BY <1>4 DEF IInv, Types, Swap, Idle, Configs
  <2>. QED BY <1>4, <2>1, <2>2, <2>3
       DEF IInv, Types, Updating, Delivering, Closing, Down, Swap, Idle
<1>. QED BY <1>1, <1>2, <1>3, <1>4

\* Delivery, and the steps of stop().
LEMMA DeliverOK ==
  ASSUME IInv, NotifyAlert \/ \E n \in Notifiers : DrainEnds(n) PROVE IInv'
BY DEF IInv, Types, Updating, Delivering, Closing, Down, NotifyAlert, DrainEnds

LEMMA StopOK ==
  ASSUME IInv, Stop \/ PendingSettled \/ Closed PROVE IInv'
BY DEF IInv, Types, Updating, Delivering, Closing, Down, Stop, PendingSettled, Closed

\* The end of the process and its next start.
LEMMA ProcessOK ==
  ASSUME IInv, Exit \/ Open PROVE IInv'
<1>1. CASE Exit
  <2>1. <<>> \in Seq(Configs \cup {Keep})
    OBVIOUS
  <2>. QED BY <1>1, <2>1
       DEF IInv, Types, Updating, Delivering, Closing, Down, Exit, Idle, Configs
<1>2. CASE Open
  <2>1. current' \in Nat \ {0}
    BY <1>2 DEF IInv, Types, Open
  <2>2. Types'
    BY <1>2, <2>1 DEF IInv, Types, Open
  <2>3. update = Idle /\ update' = Idle /\ sending' = {}
    BY <1>2 DEF IInv, Down, Delivering, Open
  <2>. QED BY <1>2, <2>2, <2>3
       DEF IInv, Updating, Delivering, Closing, Down, Open, Idle
<1>. QED BY <1>1, <1>2

\* Every step keeps the invariant.
LEMMA NextOK == IInv /\ [Next]_vars => IInv'
<1>. SUFFICES ASSUME IInv, [Next]_vars PROVE IInv'
  OBVIOUS
<1>1. CASE Next
  BY <1>1, SubmitOK, BeginOK, UpdateOK, DeliverOK, StopOK, ProcessOK DEF Next, Progress
<1>2. CASE UNCHANGED vars
  BY <1>2 DEF vars, IInv, Types, Updating, Delivering, Closing, Down
<1>. QED BY <1>1, <1>2

-----------------------------------------------------------------------------
(* The bounds.                                                             *)

\* Each update that waits or runs has a notifier left to make, stop() awaits no more
\* updates than wait, and a process that is down has none.
Counted ==
  /\ current + Len(waiting) + Busy <= MaxNotifiers
  /\ Len(waiting) <= MaxWaiting
  /\ awaited \in 0..Len(waiting)
  /\ aborted \subseteq Notifiers
  /\ ~up => waiting = <<>>

LEMMA CountedInit == Init => Counted
BY SettingsAssumption DEF Init, Counted, Busy

\* The steps that move an update on: one that begins leaves the queue, one that
\* ends makes its notifier or leaves it unmade.
LEMMA UpdateCounted ==
  ASSUME IInv, Counted, Begin \/ WriteFails \/ Renamed \/ StopOld \/ Swap PROVE Counted'
<1>. USE SettingsAssumption
<1>1. current \in Nat \ {0} /\ Len(waiting) \in Nat /\ Busy \in {0, 1}
  BY DEF IInv, Types, Busy
<1>2. CASE Begin
  <2>1. Len(Tail(waiting)) = Len(waiting) - 1 /\ Len(waiting) # 0
    BY <1>2 DEF IInv, Types, Begin
  <2>2. Busy = 0 /\ Busy' \in {0, 1}
    BY <1>2 DEF Begin, Busy
  <2>. QED BY <1>1, <1>2, <2>1, <2>2 DEF Begin, Counted
<1>3. CASE WriteFails \/ Renamed \/ StopOld
  <2>1. current \in Notifiers
    BY <1>1 DEF Counted, Notifiers
  <2>2. Busy' <= Busy
    BY <1>3 DEF WriteFails, Renamed, StopOld, Busy, Idle
  <2>3. UNCHANGED <<current, waiting, awaited, up>> /\ aborted' \subseteq aborted \cup {current}
    BY <1>3 DEF WriteFails, Renamed, StopOld
  <2>4. Busy' \in {0, 1}
    BY DEF Busy
  <2>. QED BY <1>1, <2>1, <2>2, <2>3, <2>4 DEF Counted
<1>4. CASE Swap
  <2>1. Busy = 1 /\ Busy' = 0
    BY <1>4 DEF Swap, Busy, Idle
  <2>. QED BY <1>1, <1>4, <2>1 DEF Swap, Counted
<1>. QED BY <1>2, <1>3, <1>4

LEMMA CountedNext == IInv /\ Counted /\ [Next]_vars => Counted'
<1>. SUFFICES ASSUME IInv, Counted, [Next]_vars PROVE Counted'
  OBVIOUS
<1>. USE SettingsAssumption
<1>1. current \in Nat \ {0} /\ Len(waiting) \in Nat /\ Busy \in {0, 1}
  BY DEF IInv, Types, Busy
<1>2. ASSUME NEW input \in Configs \cup {Keep}, Submit(input) PROVE Counted'
  <2>1. Len(waiting') = Len(waiting) + 1 /\ Busy' = Busy
    BY <1>2 DEF IInv, Types, Submit, Busy
  <2>. QED BY <1>1, <1>2, <2>1 DEF Submit, Counted
<1>3. CASE NotifyAlert \/ (\E n \in Notifiers : DrainEnds(n)) \/ Closed \/ UNCHANGED vars
  BY <1>3 DEF NotifyAlert, DrainEnds, Closed, vars, Counted, Busy
<1>4. CASE Stop
  BY <1>1, <1>4 DEF Stop, Counted, Busy
<1>5. CASE PendingSettled
  <2>1. current \in Notifiers
    BY <1>1 DEF Counted, Notifiers
  <2>. QED BY <1>5, <2>1 DEF PendingSettled, Counted, Busy
<1>6. CASE Exit
  <2>1. Len(waiting') = 0 /\ Busy' = 0
    BY <1>6 DEF Exit, Busy
  <2>. QED BY <1>1, <1>6, <2>1 DEF Exit, Counted
<1>7. CASE Open
  <2>1. Len(waiting) = 0 /\ Busy' = 0
    BY <1>7 DEF Open, Counted, IInv, Down, Busy
  <2>. QED BY <1>1, <1>7, <2>1 DEF Open, Counted
<1>. QED BY <1>2, <1>3, <1>4, <1>5, <1>6, <1>7, UpdateCounted DEF Next, Progress

-----------------------------------------------------------------------------
\* The invariant that the three properties follow from.
THEOREM Invariance == Spec => []IInv
BY InitOK, NextOK, PTL DEF Spec

\* The variables keep their types: in particular there is a notifier left to make for
\* each update that was taken, and stop() awaits no more updates than there are.
THEOREM TypeCorrect == Spec => []TypeOK
<1>1. IInv /\ Counted => TypeOK
  <2>. SUFFICES ASSUME IInv, Counted PROVE TypeOK
    OBVIOUS
  <2>. USE SettingsAssumption
  <2>1. Len(waiting) \in Nat /\ Busy \in {0, 1} /\ current \in Nat \ {0}
    BY DEF IInv, Types, Busy
  <2>2. current \in Notifiers /\ awaited \in 0..MaxWaiting
    BY <2>1 DEF Counted, Notifiers
  <2>. QED BY <2>2 DEF IInv, Types, Delivering, Counted, TypeOK
<1>. QED BY <1>1, CountedInit, CountedNext, Invariance, PTL DEF Spec

\* A change of settings never has the old and the new notifier deliver at once.
THEOREM OldStaysSilent == Spec => []OldIsSilent
<1>1. IInv => OldIsSilent
  BY DEF IInv, Delivering, OldIsSilent
<1>. QED BY <1>1, Invariance, PTL

\* Neither a rejected update nor a crash splits the configuration served from
\* the one on disk and the one last confirmed.
THEOREM FileIsServed == Spec => []ServesItsFile
<1>1. IInv => ServesItsFile
  BY DEF IInv, Types, Updating, ServesItsFile
<1>. QED BY <1>1, Invariance, PTL

\* Once stop() has returned nothing is delivered.
THEOREM ClosedIsSilent == Spec => []SilentOnceClosed
<1>1. IInv => SilentOnceClosed
  BY DEF IInv, Closing, SilentOnceClosed
<1>. QED BY <1>1, Invariance, PTL

=============================================================================
