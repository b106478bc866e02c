-------------------------- MODULE EnvironmentCompare ------------------------
(***************************************************************************)
(* The comparison of the services of two sources (server/compare.ts,       *)
(* server/routes/connections.ts, web/components/HostManager.svelte).       *)
(*                                                                         *)
(* Services are records of what is compared; health, networks and memory   *)
(* limits, which are compared as the status and the ports are, are left    *)
(* out.  A graph may be any of Snapshots when it is collected.             *)
(***************************************************************************)
EXTENDS Naturals, FiniteSets, Sequences

CONSTANTS Sources, Snapshots, None

VARIABLES
  there,      \* sources that are connected
  chosen,     \* the two that are chosen
  comparing,  \* the request under way: its pair, or None
  shown       \* a result with the graphs it is of, Failure, or None

Failure == [of |-> <<>>, got |-> None]

vars == <<there, chosen, comparing, shown>>

-----------------------------------------------------------------------------
(* compareEnvironments                                                     *)

CanonicalName(n) == <<n.project, n.name>>
Names(g) == {CanonicalName(g[i]) : i \in DOMAIN g}

\* The last service of a name is the one that counts.
Named(g, name) ==
  g[CHOOSE i \in DOMAIN g : /\ CanonicalName(g[i]) = name
                            /\ \A j \in DOMAIN g : j > i => CanonicalName(g[j]) # name]

NormalizeImage(i) == IF i.tag = None THEN [i EXCEPT !.tag = "latest"] ELSE i

\* Defect: the order of the ports makes a difference.
MutSameElements(s, t) == s = t

\* They are equal when they are sorted.
SameElements(s, t) ==
  /\ Len(s) = Len(t)
  /\ \A x \in {s[i] : i \in DOMAIN s} :
       Cardinality({i \in DOMAIN s : s[i] = x}) = Cardinality({i \in DOMAIN t : t[i] = x})

Diffs(m, n) ==
  {f \in {"image", "status", "ports"} :
     CASE f = "image" -> NormalizeImage(m.image) # NormalizeImage(n.image)
       [] f = "status" -> m.status # n.status
       [] f = "ports" -> ~SameElements(m.ports, n.ports)}

OnlyIn(a, b) == Names(a) \ Names(b)

CompareEnvironments(a, b) ==
  [onlyInA |-> OnlyIn(a, b), onlyInB |-> OnlyIn(b, a),
   matched |-> [n \in Names(a) \cap Names(b) |-> Diffs(Named(a, n), Named(b, n))]]

-----------------------------------------------------------------------------
(* The panel.                                                              *)

\* The first two sources are chosen when there are two and nothing is chosen.
Chosen(pair, sources) ==
  IF pair = <<None, None>> /\ Cardinality(sources) >= 2
  THEN {<<c, d>> : c \in sources, d \in sources} \ {<<c, c>> : c \in sources}
  ELSE {pair}

\* A source connects or is lost; what is chosen stays.
SourceChanges(c) ==
  /\ there' = IF c \in there THEN there \ {c} ELSE there \cup {c}
  /\ chosen' \in Chosen(chosen, there')
  /\ UNCHANGED <<comparing, shown>>

Choose(pair) ==
  /\ {pair[1], pair[2]} \subseteq there /\ pair # chosen /\ chosen' = pair
  /\ UNCHANGED <<there, comparing, shown>>

RunCompare ==
  /\ comparing = None /\ chosen[1] # chosen[2]
  /\ comparing' = chosen /\ shown' = None
  /\ UNCHANGED <<there, chosen>>

\* Both sources were found when the request was served.
CompareEnds(a, b) ==
  /\ comparing # None /\ comparing' = None
  /\ shown' = [of |-> <<a, b>>, got |-> CompareEnvironments(a, b)]
  /\ UNCHANGED <<there, chosen>>

\* One was not found, or does not answer, or the request is lost.
CompareFails ==
  /\ comparing # None /\ comparing' = None /\ shown' = Failure
  /\ UNCHANGED <<there, chosen>>

-----------------------------------------------------------------------------
Init == there = {} /\ chosen = <<None, None>> /\ comparing = None /\ shown = None

Next ==
  \/ \E c \in Sources : SourceChanges(c)
  \/ \E pair \in Sources \X Sources : Choose(pair)
  \/ \E a, b \in Snapshots : CompareEnds(a, b)
  \/ RunCompare \/ CompareFails

Spec == Init /\ [][Next]_vars

-----------------------------------------------------------------------------
(* Properties.                                                             *)

TypeOK ==
  /\ there \subseteq Sources /\ {chosen[1], chosen[2]} \subseteq Sources \cup {None}
  /\ comparing \in {None} \cup Sources \X Sources

\* What "the same" means for two services: ports in any order, and the latest tag
\* written or not.
Same(m, n) ==
  /\ m.status = n.status /\ m.image.name = n.image.name
  /\ {m.image.tag, n.image.tag} \subseteq {None, "latest"} \/ m.image.tag = n.image.tag
  /\ \E p \in [DOMAIN m.ports -> DOMAIN n.ports] :
       /\ {p[i] : i \in DOMAIN m.ports} = DOMAIN n.ports /\ Len(m.ports) = Len(n.ports)
       /\ \A i \in DOMAIN m.ports : m.ports[i] = n.ports[p[i]]

\* Each service of the two graphs is in exactly one of the lists, a matched pair has no
\* differences exactly if the two are the same, it does not matter which source is
\* named first, and the answer to one request is shown at a time (server/compare.ts).
ComparesAll ==
  /\ comparing # None => shown = None
  /\ shown \notin {None, Failure} =>
       LET a == shown.of[1]
           b == shown.of[2]
           got == shown.got
           back == CompareEnvironments(b, a)
       IN /\ got.onlyInA \cup DOMAIN got.matched = Names(a)
          /\ got.onlyInB \cup DOMAIN got.matched = Names(b)
          /\ (got.onlyInA \cup got.onlyInB) \cap DOMAIN got.matched = {}
          /\ \A n \in DOMAIN got.matched : got.matched[n] = {} <=> Same(Named(a, n), Named(b, n))
          /\ back = [onlyInA |-> got.onlyInB, onlyInB |-> got.onlyInA, matched |-> got.matched]
=============================================================================
