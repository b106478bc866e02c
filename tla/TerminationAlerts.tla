------------------------- MODULE TerminationAlerts -------------------------
(***************************************************************************)
(* The lifecycle events of one workload (handleSourceEvent of              *)
(* server/monitor.ts): "die" and "stop" of one exit are correlated, the    *)
(* exit is diagnosed, and then it is reported.                             *)
(*                                                                         *)
(* A life begins with a start (or create) event.  Events may repeat or be  *)
(* lost, as when a watcher is replaced.  Two actions stand for what passes *)
(* outside: a minute, and 512 other workloads that terminate.              *)
(*                                                                         *)
(* MaxLives bounds the lives, MaxWindows the correlation windows of one.   *)
(***************************************************************************)
EXTENDS Naturals

CONSTANTS MaxLives, MaxWindows

VARIABLES
  life,          \* the life of the workload
  terminations,  \* the entry of the workload: "none", "fresh", or "old"
  diagnosing,    \* diagnoses in flight, by the life they are about
  reports,       \* history: "stopped" alerts of each life
  windows,       \* history: terminations of each life that were entered
  stopped

vars == <<life, terminations, diagnosing, reports, windows, stopped>>

Lives == 0..MaxLives

-----------------------------------------------------------------------------
EmitStopped(l) ==
  reports' = IF stopped THEN reports ELSE [reports EXCEPT ![l] = @ + 1]

\* start, create: the next termination is a new one.
Begins ==
  /\ life < MaxLives /\ life' = life + 1
  /\ terminations' = "none"
  /\ UNCHANGED <<diagnosing, reports, windows, stopped>>

\* Defect: a termination is entered and diagnosed each time.
MutTerminates ==
  /\ windows[life] < MaxWindows
  /\ terminations' = "fresh"
  /\ diagnosing' = [diagnosing EXCEPT ![life] = @ + 1]
  /\ windows' = IF terminations = "fresh" THEN windows ELSE [windows EXCEPT ![life] = @ + 1]
  /\ UNCHANGED <<life, reports, stopped>>

\* die, stop: the second of them finds the entry of the first.
Terminates ==
  /\ terminations # "fresh" /\ windows[life] < MaxWindows
  /\ terminations' = "fresh"
  /\ diagnosing' = [diagnosing EXCEPT ![life] = @ + 1]
  /\ windows' = [windows EXCEPT ![life] = @ + 1]
  /\ UNCHANGED <<life, reports, stopped>>

\* 60 seconds pass, or others take the room.
Expires ==
  /\ terminations = "fresh" /\ terminations' = "old"
  /\ UNCHANGED <<life, diagnosing, reports, windows, stopped>>

\* diagnose() returns, with or without a diagnostic, fails, or its timer fires:
\* the exit is reported, after the alerts that were sent meanwhile (the start of
\* the next life among them).
Diagnosed(l) ==
  /\ diagnosing[l] > 0
  /\ diagnosing' = [diagnosing EXCEPT ![l] = @ - 1]
  /\ EmitStopped(l)
  /\ UNCHANGED <<life, terminations, windows, stopped>>

Stop ==
  /\ ~stopped /\ stopped' = TRUE
  /\ UNCHANGED <<life, terminations, diagnosing, reports, windows>>

-----------------------------------------------------------------------------
Init ==
  /\ life = 0 /\ terminations = "none" /\ stopped = FALSE
  /\ diagnosing = [l \in Lives |-> 0]
  /\ reports = [l \in Lives |-> 0] /\ windows = [l \in Lives |-> 0]

Next ==
  \/ Begins \/ Terminates \/ Expires \/ Stop
  \/ \E l \in Lives : Diagnosed(l)

Spec == Init /\ [][Next]_vars

-----------------------------------------------------------------------------
(* Properties.                                                             *)

TypeOK ==
  /\ life \in Lives /\ stopped \in BOOLEAN
  /\ terminations \in {"none", "fresh", "old"}
  /\ diagnosing \in [Lives -> 0..MaxWindows] /\ reports \in [Lives -> 0..MaxWindows]
  /\ windows \in [Lives -> 0..MaxWindows]

\* docs/api.md:477-481: however often the events of an exit come, in whichever
\* order with the next start and with slow diagnoses, each exit is reported once its
\* diagnosis ends, and only then: none is lost, and none is reported again.
ExitsAreReportedOnce ==
  ~stopped => \A l \in Lives : reports[l] + diagnosing[l] = windows[l]

=============================================================================
