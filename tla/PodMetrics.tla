------------------------------ MODULE PodMetrics ----------------------------
(***************************************************************************)
(* The cache of pod metrics of the official Kubernetes plugin              *)
(* (plugins/official/kubernetes/src/resources/metrics.ts): one fetch for   *)
(* the whole cluster answers every pod of a sweep.                         *)
(*                                                                         *)
(* Time passes in steps and a fetch takes any time.  Of the metrics only   *)
(* the time they were had is kept, and which pods are among them.  MaxNow  *)
(* bounds the time; Ttl is 2.5 s in the code.                              *)
(***************************************************************************)
EXTENDS Naturals, FiniteSets

CONSTANTS Pods, Ttl, MaxNow, None

VARIABLES
  now,
  snapshot,  \* when it was had, and of which pods, or None
  inFlight,  \* the fetch that callers join, or None
  fetches,   \* the fetches under way
  callers,   \* statsFor under way: the pod, since when, the fetch it waits for
  answer     \* history: the last answer: asked when, with a snapshot of when, or an error

vars == <<now, snapshot, inFlight, fetches, callers, answer>>

\* No metrics are reported for a pod the snapshot does not know.
Stats(p, since, s) == [since |-> since, at |-> s.at, found |-> p \in s.pods]

-----------------------------------------------------------------------------
\* Defect: a snapshot is served when its time is just over.
MutFresh == snapshot # None /\ now - snapshot.at <= Ttl

Fresh == snapshot # None /\ now - snapshot.at < Ttl

\* Defect: everyone who finds no snapshot fetches one.
MutJoin ==
  inFlight' = Cardinality(fetches) + 1 /\ fetches' = fetches \cup {inFlight'}

\* A fetch under way is joined.
Join ==
  IF inFlight # None THEN UNCHANGED <<inFlight, fetches>>
  ELSE inFlight' = 1 /\ fetches' = {1}

\* statsFor, load
Ask(p) ==
  /\ \A c \in callers : c.pod # p
  /\ IF Fresh
     THEN answer' = Stats(p, now, snapshot) /\ UNCHANGED <<inFlight, fetches, callers>>
     ELSE /\ Join /\ UNCHANGED answer
          /\ callers' = callers \cup {[pod |-> p, since |-> now, fetch |-> inFlight']}
  /\ UNCHANGED <<now, snapshot>>

\* Defect: a fetch that failed stays the one to join.
MutFetchEnds(f, ok, pods) ==
  /\ fetches' = fetches \ {f}
  /\ callers' = {c \in callers : c.fetch # f}
  /\ IF ok THEN inFlight' = None /\ snapshot' = [at |-> now, pods |-> pods]
     ELSE UNCHANGED <<inFlight, snapshot>>
  /\ \/ ok /\ \E c \in callers \ callers' : answer' = Stats(c.pod, c.since, snapshot')
     \/ ~ok /\ answer' = None
  /\ UNCHANGED now

\* A fetch ends or fails for all who wait for it; a failure leaves the old snapshot.
FetchEnds(f, ok, pods) ==
  /\ fetches' = fetches \ {f} /\ inFlight' = None
  /\ callers' = {c \in callers : c.fetch # f}
  /\ snapshot' = IF ok THEN [at |-> now, pods |-> pods] ELSE snapshot
  /\ \/ ok /\ \E c \in callers \ callers' : answer' = Stats(c.pod, c.since, snapshot')
     \/ ~ok /\ answer' = None
  /\ UNCHANGED now

Tick ==
  /\ now < MaxNow /\ now' = now + 1
  /\ UNCHANGED <<snapshot, inFlight, fetches, callers, answer>>

Init ==
  /\ now = 0 /\ snapshot = None /\ inFlight = None
  /\ fetches = {} /\ callers = {} /\ answer = None

Next ==
  \/ Tick
  \/ \E p \in Pods : Ask(p)
  \/ \E f \in fetches, ok \in BOOLEAN, pods \in SUBSET Pods : FetchEnds(f, ok, pods)

Spec == Init /\ [][Next]_vars

-----------------------------------------------------------------------------
TypeOK ==
  /\ now \in 0..MaxNow
  /\ snapshot # None => snapshot.at \in 0..now
  /\ \A c \in callers : c.pod \in Pods /\ c.since \in 0..now

\* One fetch is under way at a time, whoever waits waits for it, and no answer is of
\* a snapshot that was as old as Ttl when it was asked for.
MetricsAreFresh ==
  /\ Cardinality(fetches) <= 1
  /\ \A c \in callers : c.fetch \in fetches
  /\ answer # None => answer.at + Ttl > answer.since

=============================================================================
