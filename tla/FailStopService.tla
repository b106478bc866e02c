-------------------------- MODULE FailStopService --------------------------
(***************************************************************************)
(* What the callers of a process-isolated plugin may rely on, whatever the *)
(* sandbox does inside (docs/plugins.md:696): a call is open until it is   *)
(* settled, once; it is served by at most one process; when that process   *)
(* goes everything in flight is settled in the same step; and the process  *)
(* that takes its place starts with nothing in flight.                     *)
(***************************************************************************)
EXTENDS Naturals

CONSTANT Calls

VARIABLES life,    \* the number of the process that serves, 0 for none
          lives,   \* how many there have been
          open,    \* the calls that are not settled
          server   \* the process each call was passed to, 0 for none

vars == <<life, lives, open, server>>

TypeOK == /\ lives \in Nat /\ life \in 0..lives
          /\ open \subseteq Calls
          /\ server \in [Calls -> 0..lives]

Init == life = 0 /\ lives = 0 /\ open = {} /\ server = [c \in Calls |-> 0]

\* A call comes in; it may be passed on at once.
Open(c) ==
  /\ c \notin open
  /\ open' = open \cup {c}
  /\ \/ server' = server
     \/ life # 0 /\ server' = [server EXCEPT ![c] = life]
  /\ UNCHANGED <<life, lives>>

\* A fresh process for a call, none being in flight on an older one.
OpenFresh(c) ==
  /\ c \notin open /\ life = 0 /\ server = [d \in Calls |-> 0]
  /\ open' = open \cup {c}
  /\ lives' = lives + 1 /\ life' = lives + 1
  /\ UNCHANGED server

\* The calls that waited for the process are passed to it.
Pass(C) ==
  /\ life # 0
  /\ server' = [c \in Calls |-> IF c \in C THEN life ELSE server[c]]
  /\ UNCHANGED <<life, lives, open>>

\* Some calls are settled.
Settle(C) ==
  /\ C \subseteq open
  /\ open' = open \ C
  /\ server' = [c \in Calls |-> IF c \in C THEN 0 ELSE server[c]]
  /\ UNCHANGED <<life, lives>>

\* The process goes, and everything that is open is settled.
Stop ==
  /\ life' = 0 /\ open' = {} /\ server' = [c \in Calls |-> 0]
  /\ UNCHANGED lives

Next ==
  \/ \E c \in Calls : Open(c) \/ OpenFresh(c)
  \/ \E C \in SUBSET open : Pass(C) \/ Settle(C)
  \/ Stop

Spec == Init /\ [][Next]_vars

=============================================================================
