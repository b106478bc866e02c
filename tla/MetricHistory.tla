--------------------------- MODULE MetricHistory ---------------------------
(***************************************************************************)
(* The metric history (server/metricHistory.ts): samples in memory, a file *)
(* written from time to time by one writer, the last write at shutdown,    *)
(* and the file read again by the next server.                             *)
(*                                                                         *)
(* A series is a workload with the times of its samples, in the order of   *)
(* the map, the least recently sampled first; raw samples and minutes are  *)
(* not told apart.  Retention and MaxSeries are the limits of the code,    *)
(* small.  MaxTime bounds the clock, which may be set back.                *)
(***************************************************************************)
EXTENDS Naturals, Sequences

CONSTANTS Workloads, MaxSeries, Retention, MaxTime

VARIABLES
  now,      \* the clock
  series,   \* in memory: a sequence of [id, times]
  file,     \* on the disk
  writing,  \* what the writer at work writes; Nothing when there is none
  phase,    \* "up", "closing", "flushing", "down"
  clean     \* history: did the server shut down, and its last write succeed?

vars == <<now, series, file, writing, phase, clean>>

Times == 0..MaxTime
Nothing == <<[id |-> "nothing", times |-> {}]>>

\* Defect: a series is dropped one too late.
MutEvicted(all) == IF Len(all) > MaxSeries + 1 THEN Tail(all) ELSE all

\* The limit of series: the least recent one goes.
Evicted(all) == IF Len(all) > MaxSeries THEN Tail(all) ELSE all

\* The elements at some places, in their order.
Only(all, places) ==
  LET first[n \in 0..Len(all)] ==
        IF n = 0 THEN <<>>
        ELSE IF n \in places THEN Append(first[n - 1], all[n]) ELSE first[n - 1]
  IN first[Len(all)]

\* prune, of what is too old and of what is in the future; empty series go.
Pruned(all) ==
  LET kept == [i \in DOMAIN all |-> [all[i] EXCEPT !.times =
                                      {t \in @ : t + Retention >= now /\ t <= now}]]
  IN Only(kept, {i \in DOMAIN all : kept[i].times # {}})

\* record: a sample from before the last one is ignored; the series becomes the most
\* recent one, and one too many costs the least recent.
Record(w) ==
  LET own == {i \in DOMAIN series : series[i].id = w}
      others == Only(series, DOMAIN series \ own)
      old == UNION {series[i].times : i \in own}
      times == {t \in old \cup {now} : t + Retention >= now}
  IN /\ phase = "up"
     /\ \A t \in old : t <= now
     /\ series' = Evicted(Append(others, [id |-> w, times |-> times]))
     /\ UNCHANGED <<now, file, writing, phase, clean>>

\* flush, from the timer: nothing while a writer is at work.
Flush ==
  /\ phase = "up" /\ writing = Nothing
  /\ series' = Pruned(series) /\ writing' = Pruned(series)
  /\ UNCHANGED <<now, file, phase, clean>>

\* close: the timer stops, samples are ignored.
Close ==
  /\ phase = "up"
  /\ phase' = "closing"
  /\ UNCHANGED <<now, series, file, writing, clean>>

\* Defect: close does not wait for the writer at work, and flush returns that one.
MutLastFlush ==
  /\ phase = "closing"
  /\ phase' = "flushing"
  /\ IF writing = Nothing THEN series' = Pruned(series) /\ writing' = Pruned(series)
     ELSE UNCHANGED <<series, writing>>
  /\ UNCHANGED <<now, file, clean>>

\* Once no writer is at work, the last flush.
LastFlush ==
  /\ phase = "closing" /\ writing = Nothing
  /\ phase' = "flushing"
  /\ series' = Pruned(series) /\ writing' = Pruned(series)
  /\ UNCHANGED <<now, file, clean>>

\* The rename, or a failure, which is swallowed.
WriteEnds(ok) ==
  /\ writing # Nothing
  /\ file' = IF ok THEN writing ELSE file
  /\ writing' = Nothing
  /\ phase' = IF phase = "flushing" THEN "down" ELSE phase
  /\ clean' = (phase = "flushing" /\ ok)
  /\ UNCHANGED <<now, series>>

\* Killed.
Crash ==
  /\ phase # "down"
  /\ phase' = "down" /\ writing' = Nothing /\ clean' = FALSE
  /\ UNCHANGED <<now, series, file>>

\* load, of the next server.
Load ==
  /\ phase = "down"
  /\ series' = Pruned(file)
  /\ phase' = "up" /\ clean' = FALSE
  /\ UNCHANGED <<now, file, writing>>

Clock(t) ==
  /\ t # now
  /\ now' = t
  /\ UNCHANGED <<series, file, writing, phase, clean>>

-----------------------------------------------------------------------------
Init ==
  /\ now = 0 /\ series = <<>> /\ file = <<>> /\ writing = Nothing
  /\ phase = "up" /\ clean = FALSE

Next ==
  \/ \E w \in Workloads : Record(w)
  \/ Flush \/ Close \/ LastFlush \/ Crash \/ Load
  \/ \E ok \in BOOLEAN : WriteEnds(ok)
  \/ \E t \in Times : Clock(t)

Spec == Init /\ [][Next]_vars

-----------------------------------------------------------------------------
(* Properties.                                                             *)

\* Every series once, no more than the limit, none without a sample.
IsHistory(all) ==
  /\ \A i \in DOMAIN all : all[i].times # {} /\ all[i].times \subseteq Times
  /\ Len(all) <= MaxSeries /\ \A i, j \in DOMAIN all : all[i].id = all[j].id => i = j

TypeOK ==
  /\ now \in Times /\ phase \in {"up", "closing", "flushing", "down"} /\ clean \in BOOLEAN
  /\ IsHistory(series) /\ IsHistory(file) /\ (writing = Nothing \/ IsHistory(writing))

\* docs/api.md:519, "flushes on graceful shutdown": when a shutdown ends without an
\* error of its last write, the file has the samples that were in memory, also those
\* that came while an earlier write was under way.
ShutdownSaves == phase = "down" /\ clean => file = series

=============================================================================
