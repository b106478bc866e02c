-------------------------- MODULE FlightRecorder ---------------------------
(***************************************************************************)
(* The flight recorder (server/flightRecorder.ts): the messages of the     *)
(* last minutes in segments that each begin with a graph, of which whole   *)
(* ones are dropped by age, by bytes and by number of frames.              *)
(*                                                                         *)
(* Window, MaxBytes and MaxFrames are the limits of the code, small; a     *)
(* frame is a message with its time.  MaxSaid bounds the messages said.    *)
(* The clock does not go back (a frame from before the first one would     *)
(* have a negative offset, which the replay refuses).                      *)
(***************************************************************************)
EXTENDS Naturals, Sequences

CONSTANTS Window, MaxBytes, MaxFrames, MaxSaid

VARIABLES
  now,       \* the time
  segments,  \* each a sequence of frames
  bytes,     \* counter: of all segments
  frames,    \* counter: of all segments
  said       \* history: every recordable message, as a frame

vars == <<now, segments, bytes, frames, said>>

\* RECORDABLE_TYPES; a log line stands for the others.
Recordable == {"graph", "stats"}
Types == Recordable \cup {"log_chunk"}
Size(type) == IF type = "graph" THEN 2 ELSE 1
BytesOf(seq) ==
  LET sum[i \in 0..Len(seq)] == IF i = 0 THEN 0 ELSE sum[i - 1] + Size(seq[i].type)
  IN sum[Len(seq)]

\* The frames of segments, one after the other.
FramesOf(segs) ==
  LET upTo[i \in 0..Len(segs)] == IF i = 0 THEN <<>> ELSE upTo[i - 1] \o segs[i]
  IN upTo[Len(segs)]

Least(S) == CHOOSE k \in S : \A j \in S : k <= j

Recorder(segs, b, f) == [segments |-> segs, bytes |-> b, frames |-> f]

\* Defect: the frames of a dropped segment are still counted.
MutPrune(r, t) ==
  LET Bytes(k) == r.bytes - BytesOf(FramesOf(SubSeq(r.segments, 1, k)))
      Stops(k) == \/ k = Len(r.segments)
                  \/ /\ r.segments[k + 1][1].time + Window >= t
                     /\ Bytes(k) <= MaxBytes /\ r.frames <= MaxFrames
      n == Least({k \in 0..Len(r.segments) : Stops(k)})
  IN Recorder(SubSeq(r.segments, n + 1, Len(r.segments)), Bytes(n), r.frames)

\* prune: segments go, from the first, until the first one left is young enough and
\* both counters are within their limits.
Prune(r, t) ==
  LET Bytes(k) == r.bytes - BytesOf(FramesOf(SubSeq(r.segments, 1, k)))
      Frames(k) == r.frames - Len(FramesOf(SubSeq(r.segments, 1, k)))
      Stops(k) == \/ k = Len(r.segments)
                  \/ /\ r.segments[k + 1][1].time + Window >= t
                     /\ Bytes(k) <= MaxBytes /\ Frames(k) <= MaxFrames
      n == Least({k \in 0..Len(r.segments) : Stops(k)})
  IN Recorder(SubSeq(r.segments, n + 1, Len(r.segments)), Bytes(n), Frames(n))

\* A graph opens a segment; what comes before the first graph is not kept.
Append1(r, f) ==
  LET opened == IF f.type = "graph" THEN Append(r.segments, <<>>) ELSE r.segments
  IN IF opened = <<>> THEN r
     ELSE Recorder([opened EXCEPT ![Len(opened)] = Append(@, f)],
                   r.bytes + Size(f.type), r.frames + 1)

Becomes(r) == segments' = r.segments /\ bytes' = r.bytes /\ frames' = r.frames

\* capture, at time t.
Capture(type, t) ==
  LET f == [type |-> type, time |-> t]
      pruned == Prune(Recorder(segments, bytes, frames), t)
  IN /\ Len(said) < MaxSaid /\ now' = t
     /\ IF type \in Recordable
        THEN Becomes(Prune(Append1(pruned, f), t)) /\ said' = Append(said, f)
        ELSE Becomes(pruned) /\ UNCHANGED said

\* export: the clip begins at the first frame, a graph.
Export(t) ==
  /\ now' = t
  /\ Becomes(Prune(Recorder(segments, bytes, frames), t))
  /\ UNCHANGED said

Init == now = 0 /\ segments = <<>> /\ bytes = 0 /\ frames = 0 /\ said = <<>>

Next == \E t \in now..(now + 1) :
          /\ t <= MaxSaid
          /\ Export(t) \/ \E type \in Types : Capture(type, t)

Spec == Init /\ [][Next]_vars

-----------------------------------------------------------------------------
(* Properties.                                                             *)

Frame == [type : Recordable, time : 0..MaxSaid]

TypeOK ==
  /\ now \in 0..MaxSaid /\ said \in Seq(Frame) /\ segments \in Seq(Seq(Frame))
  /\ bytes \in Nat /\ frames \in Nat

\* The clip that can be exported is the longest end of what was said that begins
\* with a graph and is within the three limits: a limit never costs the baseline,
\* nor more of the past than it has to (flightRecorder.ts:19, docs/api.md:334).
ClipIsLongest ==
  LET End(k) == SubSeq(said, k, Len(said))
      Fits(k) == /\ said[k].type = "graph" /\ said[k].time + Window >= now
                 /\ BytesOf(End(k)) <= MaxBytes /\ Len(End(k)) <= MaxFrames
      starts == {k \in 1..Len(said) : Fits(k)}
  IN FramesOf(segments) = IF starts = {} THEN <<>> ELSE End(Least(starts))

=============================================================================
