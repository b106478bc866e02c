------------------------ MODULE PluginParts_proofs --------------------------
(***************************************************************************)
(* For any number of changes, operations, releases and connections: what a *)
(* plugin may do and is configured with, what is installed, what is asked  *)
(* of a provider, what the panel of plugins shows; the comparison of       *)
(* environments, the graph of a cluster with its metrics, and the 2D view. *)
(* Each part has an inductive invariant, under the names the part has in   *)
(* PluginParts; MCParts_proofs puts them together.  The lemmas on the      *)
(* types of the parts come last.                                           *)
(***************************************************************************)
EXTENDS PluginParts, Integers, SequenceTheorems, FunctionTheorems, FiniteSetTheorems, TLAPS

\* What a directory can hold is what the loader can read.
LEMMA FilesAreContents == PluginFiles \subseteq Loader!Content
BY DEF PluginFiles, Content, Inside, LoaderPermissions, Loader!Content

\* The modules count as this one does.
LEMMA CountedAlike ==
  \A S : /\ Checks!Cardinality(S) = Cardinality(S) /\ Entities!Cardinality(S) = Cardinality(S)
         /\ Compare!Cardinality(S) = Cardinality(S) /\ Flat!Cardinality(S) = Cardinality(S)
         /\ Metrics!Cardinality(S) = Cardinality(S)
BY DEF Checks!Cardinality, Entities!Cardinality, Compare!Cardinality, Flat!Cardinality,
       Metrics!Cardinality, Cardinality

-----------------------------------------------------------------------------
(* Induction.                                                              *)

\* A set of numbers has a least.
LEMMA LeastNumber ==
  ASSUME NEW S \in SUBSET Nat, S # {}
  PROVE  \E n \in S : \A m \in S : n <= m
<1>1. PICK n \in S : \A m \in S : <<m, n>> \notin OpToRel(<, Nat)
  BY WFMin, NatLessThanWellFounded, Zenon
<1>2. \A m \in S : ~(m < n)
  BY <1>1, Zenon DEF OpToRel
<1>. QED BY <1>2

\* What 0 is in, and the next of each that is, is in for every number: induction.
LEMMA Counting ==
  ASSUME NEW S \in SUBSET Nat, 0 \in S, \A n \in S : n + 1 \in S
  PROVE  S = Nat
<1>1. SUFFICES ASSUME Nat \ S # {} PROVE FALSE
  OBVIOUS
<1>2. PICK n \in Nat \ S : \A m \in Nat \ S : n <= m
  BY <1>1, LeastNumber
<1>. QED BY <1>2

-----------------------------------------------------------------------------
(* The metrics of pods.                                                    *)

\* The fetch under way, if there is one, is the one that is joined.
MetricsInv ==
  /\ metricsNow \in Nat
  /\ podFetches \subseteq {1}
  /\ inFlight # None => inFlight = 1 /\ podFetches = {1}
  /\ podCallers \in SUBSET [pod : {"p", "q"}, since : Nat, fetch : podFetches]
  /\ \A c \in podCallers : c.since <= metricsNow
  /\ podSnapshot # None => podSnapshot.at \in Nat /\ podSnapshot.at <= metricsNow
  /\ podAnswer # None => podAnswer.at + 2 > podAnswer.since

LEMMA MetricsBegin ==
  ASSUME Metrics!Init PROVE MetricsInv
BY DEF Metrics!Init, MetricsInv

LEMMA MetricsGoOn ==
  ASSUME MetricsInv, Metrics!Next \/ UNCHANGED Metrics!vars PROVE MetricsInv'
<1>1. CASE Metrics!Tick
  BY <1>1 DEF Metrics!Tick, MetricsInv
<1>2. ASSUME NEW p \in {"p", "q"}, Metrics!Ask(p) PROVE MetricsInv'
  <2>1. CASE Metrics!Fresh
    <3>1. /\ UNCHANGED <<metricsNow, podSnapshot, inFlight, podFetches, podCallers>>
          /\ podAnswer'.at = podSnapshot.at /\ podAnswer'.since = metricsNow
      BY <1>2, <2>1 DEF Metrics!Ask, Metrics!Stats
    <3>2. podSnapshot.at \in Nat /\ metricsNow \in Nat /\ metricsNow - podSnapshot.at < 2
      BY <2>1 DEF Metrics!Fresh, MetricsInv
    <3>. QED BY <3>1, <3>2 DEF MetricsInv
  <2>2. CASE ~Metrics!Fresh
    <3>1. inFlight' = 1 /\ podFetches' = {1} /\ podFetches \subseteq podFetches'
      BY <1>2, <2>2 DEF Metrics!Ask, Metrics!Join, MetricsInv
    <3>2. podCallers' = podCallers \cup {[pod |-> p, since |-> metricsNow, fetch |-> 1]} /\ metricsNow' = metricsNow
          /\ podSnapshot' = podSnapshot /\ podAnswer' = podAnswer
      BY <1>2, <2>2, <3>1 DEF Metrics!Ask
    <3>3. \A c \in podCallers' : c \in [pod : {"p", "q"}, since : Nat, fetch : podFetches'] /\ c.since <= metricsNow'
      <4>1. [pod |-> p, since |-> metricsNow, fetch |-> 1] \in [pod : {"p", "q"}, since : Nat, fetch : podFetches'] /\ metricsNow <= metricsNow
        BY <3>1 DEF MetricsInv
      <4>2. \A c \in podCallers : c \in [pod : {"p", "q"}, since : Nat, fetch : podFetches'] /\ c.since <= metricsNow
        <5>1. podCallers \subseteq [pod : {"p", "q"}, since : Nat, fetch : podFetches]
          BY DEF MetricsInv
        <5>2. \A c \in podCallers : c.since <= metricsNow
          BY DEF MetricsInv
        <5>. QED BY <3>1, <5>1, <5>2
      <4>. QED BY <3>2, <4>1, <4>2
    <3>. QED BY <3>1, <3>2, <3>3 DEF MetricsInv
  <2>. QED BY <2>1, <2>2
<1>3. ASSUME NEW f \in podFetches, NEW ok \in BOOLEAN, NEW pods \in SUBSET {"p", "q"},
             Metrics!FetchEnds(f, ok, pods)
      PROVE  MetricsInv'
  <2>1. f = 1 /\ podFetches' = {} /\ inFlight' = None /\ podCallers' = {} /\ metricsNow' = metricsNow
    BY <1>3 DEF Metrics!FetchEnds, MetricsInv
  <2>2. podSnapshot' # None => podSnapshot'.at \in Nat /\ podSnapshot'.at <= metricsNow
    BY <1>3 DEF Metrics!FetchEnds, MetricsInv
  <2>3. podAnswer' # None => podAnswer'.at + 2 > podAnswer'.since
    <3>1. CASE ~ok
      BY <1>3, <3>1 DEF Metrics!FetchEnds
    <3>2. CASE ok
      <4>1. PICK c \in podCallers : podAnswer' = Metrics!Stats(c.pod, c.since, [at |-> metricsNow, pods |-> pods])
        BY <1>3, <3>2 DEF Metrics!FetchEnds
      <4>. QED BY <4>1 DEF Metrics!Stats, MetricsInv
    <3>. QED BY <3>1, <3>2
  <2>. QED BY <2>1, <2>2, <2>3 DEF MetricsInv
<1>4. CASE UNCHANGED Metrics!vars
  BY <1>4 DEF Metrics!vars, MetricsInv
<1>. QED BY <1>1, <1>2, <1>3, <1>4 DEF Metrics!Next

\* At most one fetch is under way.
LEMMA MetricsAreOfOneFetch ==
  ASSUME MetricsInv PROVE Metrics!MetricsAreFresh
<1>1. Cardinality(podFetches) <= 1
  <2>1. IsFiniteSet({1}) /\ Cardinality({1}) = 1 /\ podFetches \in SUBSET {1}
    BY FS_Singleton DEF MetricsInv
  <2>. QED BY <2>1, FS_Subset
<1>. QED BY <1>1, CountedAlike DEF MetricsInv, Metrics!MetricsAreFresh

-----------------------------------------------------------------------------
(* The comparison of environments.                                         *)

PlacesOf(s, x) == {i \in DOMAIN s : s[i] = x}

LEMMA PlacesAreFinite ==
  ASSUME NEW S, NEW s \in Seq(S), NEW x
  PROVE  /\ IsFiniteSet(DOMAIN s) /\ DOMAIN s = 1..Len(s) /\ PlacesOf(s, x) \in SUBSET DOMAIN s
         /\ IsFiniteSet(PlacesOf(s, x)) /\ Cardinality(PlacesOf(s, x)) \in Nat
<1>1. DOMAIN s = 1..Len(s) /\ Len(s) \in Nat
  OBVIOUS
<1>2. IsFiniteSet(DOMAIN s)
  BY <1>1, FS_Interval
<1>3. PlacesOf(s, x) \in SUBSET DOMAIN s
  BY DEF PlacesOf
<1>4. IsFiniteSet(PlacesOf(s, x))
  BY <1>2, <1>3, FS_Subset
<1>. QED BY <1>1, <1>2, <1>3, <1>4, FS_CardinalityType

\* Each other's, up to the order.
Reordered(s, t) ==
  \E p \in [DOMAIN s -> DOMAIN t] :
    /\ {p[i] : i \in DOMAIN s} = DOMAIN t /\ Len(s) = Len(t)
    /\ \A i \in DOMAIN s : s[i] = t[p[i]]

\* Sequences with the same elements are each other's up to the order.
LEMMA SameElementsMatch ==
  ASSUME NEW S, NEW T, NEW s \in Seq(S), NEW t \in Seq(T), Compare!SameElements(s, t)
  PROVE  Reordered(s, t)
<1>1. Len(s) = Len(t) /\ DOMAIN s = 1..Len(s) /\ DOMAIN t = 1..Len(s) /\ DOMAIN s = DOMAIN t
      /\ IsFiniteSet(DOMAIN s)
  BY PlacesAreFinite DEF Compare!SameElements
<1>2. \A x \in {s[i] : i \in DOMAIN s} : \E f : f \in Bijection(PlacesOf(s, x), PlacesOf(t, x))
  <2>1. TAKE x \in {s[i] : i \in DOMAIN s}
  <2>2. Cardinality(PlacesOf(s, x)) = Cardinality(PlacesOf(t, x))
    BY CountedAlike DEF Compare!SameElements, PlacesOf
  <2>3. IsFiniteSet(PlacesOf(s, x)) /\ IsFiniteSet(PlacesOf(t, x))
    BY PlacesAreFinite
  <2>4. ExistsBijection(PlacesOf(s, x), PlacesOf(t, x))
    BY <2>2, <2>3, FS_SameCardinalityBij, Zenon
  <2>. QED BY <2>4 DEF ExistsBijection
<1>. DEFINE Match(x) == CHOOSE f : f \in Bijection(PlacesOf(s, x), PlacesOf(t, x))
            p == [i \in DOMAIN s |-> Match(s[i])[i]]
<1>3. \A i \in DOMAIN s : Match(s[i]) \in Bijection(PlacesOf(s, s[i]), PlacesOf(t, s[i]))
  BY <1>2
<1>. HIDE DEF Match
<1>4. \A i \in DOMAIN s : p[i] \in DOMAIN t /\ t[p[i]] = s[i]
  <2>1. TAKE i \in DOMAIN s
  <2>2. i \in PlacesOf(s, s[i])
    BY DEF PlacesOf
  <2>3. Match(s[i])[i] \in PlacesOf(t, s[i])
    BY <1>3, <2>2, Fun_BijectionProperties
  <2>. QED BY <2>3 DEF PlacesOf
<1>5. p \in [DOMAIN s -> DOMAIN t]
  BY <1>4
<1>6. \A i, j \in DOMAIN s : p[i] = p[j] => i = j
  <2>1. SUFFICES ASSUME NEW i \in DOMAIN s, NEW j \in DOMAIN s, p[i] = p[j] PROVE i = j
    OBVIOUS
  <2>2. s[i] = s[j]
    BY <1>4, <2>1
  <2>3. i \in PlacesOf(s, s[i]) /\ j \in PlacesOf(s, s[i])
    BY <2>2 DEF PlacesOf
  <2>4. Match(s[i])[i] = Match(s[i])[j]
    BY <2>1, <2>2
  <2>. QED BY <1>3, <2>3, <2>4, Fun_BijectionProperties
<1>7. p \in Surjection(DOMAIN s, DOMAIN t)
  <2>1. p \in Injection(DOMAIN s, DOMAIN t)
    BY <1>5, <1>6, Fun_IsInj
  <2>. QED BY <1>1, <2>1, FS_Injection
<1>8. {p[i] : i \in DOMAIN s} = DOMAIN t
  <2>1. \A k \in DOMAIN t : \E i \in DOMAIN s : p[i] = k
    BY <1>7, Fun_SurjectionProperties
  <2>. HIDE DEF p
  <2>. QED BY <1>5, <2>1
<1>. QED BY <1>1, <1>4, <1>5, <1>8 DEF Reordered

\* And sequences that are have the same elements, from either side.
LEMMA ReorderedHaveSameElements ==
  ASSUME NEW S, NEW T, NEW s \in Seq(S), NEW t \in Seq(T), Reordered(s, t)
  PROVE  Compare!SameElements(s, t) /\ Compare!SameElements(t, s)
<1>0. PICK p \in [DOMAIN s -> DOMAIN t] :
           /\ {p[i] : i \in DOMAIN s} = DOMAIN t /\ Len(s) = Len(t)
           /\ \A i \in DOMAIN s : s[i] = t[p[i]]
  BY DEF Reordered
<1>1. DOMAIN s = DOMAIN t /\ IsFiniteSet(DOMAIN s)
  BY <1>0, PlacesAreFinite
<1>2. p \in Surjection(DOMAIN s, DOMAIN t)
  BY <1>0, Fun_IsSurj
<1>3. \A i, j \in DOMAIN s : p[i] = p[j] => i = j
  <2>1. p \in Injection(DOMAIN s, DOMAIN t)
    BY <1>1, <1>2, FS_SurjSameCardinalityImpliesInj
  <2>. QED BY <2>1, Fun_InjectionProperties
<1>4. ASSUME NEW x PROVE Cardinality(PlacesOf(s, x)) = Cardinality(PlacesOf(t, x))
  <2>. DEFINE q == [i \in PlacesOf(s, x) |-> p[i]]
  <2>1. q \in [PlacesOf(s, x) -> PlacesOf(t, x)] /\ \A i, j \in PlacesOf(s, x) : q[i] = q[j] => i = j
    BY <1>0, <1>3 DEF PlacesOf
  <2>2. \A k \in PlacesOf(t, x) : \E i \in PlacesOf(s, x) : q[i] = k
    BY <1>0 DEF PlacesOf
  <2>3. q \in Bijection(PlacesOf(s, x), PlacesOf(t, x))
    <3>. HIDE DEF q
    <3>. QED BY <2>1, <2>2, Fun_IsBij
  <2>4. ExistsBijection(PlacesOf(s, x), PlacesOf(t, x))
    BY <2>3, Zenon DEF ExistsBijection
  <2>5. IsFiniteSet(PlacesOf(s, x))
    BY PlacesAreFinite
  <2>. QED BY <2>4, <2>5, FS_Bijection
<1>. QED BY <1>0, <1>4, CountedAlike DEF Compare!SameElements, PlacesOf

LEMMA SameElementsIsSymmetric ==
  ASSUME NEW S, NEW T, NEW s \in Seq(S), NEW t \in Seq(T)
  PROVE  /\ Compare!SameElements(s, t) => Compare!SameElements(t, s)
         /\ Compare!SameElements(s, t) <=> Reordered(s, t)
BY SameElementsMatch, ReorderedHaveSameElements

\* Two services have no differences exactly if they are the same.
LEMMA NoDifferences ==
  ASSUME NEW m, NEW n, IsService(m), IsService(n)
  PROVE  Compare!Diffs(m, n) = {} <=> Compare!Same(m, n)
<1>1. Compare!SameElements(m.ports, n.ports) <=> Reordered(m.ports, n.ports)
  <2>1. m.ports \in Seq({m.ports[i] : i \in DOMAIN m.ports}) /\ n.ports \in Seq({n.ports[i] : i \in DOMAIN n.ports})
    BY DEF IsService
  <2>. QED BY <2>1, SameElementsIsSymmetric
<1>2. Compare!NormalizeImage(m.image) = Compare!NormalizeImage(n.image) <=>
        /\ m.image.name = n.image.name
        /\ {m.image.tag, n.image.tag} \subseteq {None, "latest"} \/ m.image.tag = n.image.tag
  BY DEF IsService, Compare!NormalizeImage
<1>3. Compare!Same(m, n) <=> /\ m.status = n.status /\ m.image.name = n.image.name
                             /\ {m.image.tag, n.image.tag} \subseteq {None, "latest"} \/ m.image.tag = n.image.tag
                             /\ Reordered(m.ports, n.ports)
  BY Zenon DEF Compare!Same, Reordered
<1>4. Compare!Diffs(m, n) = {} <=> /\ Compare!NormalizeImage(m.image) = Compare!NormalizeImage(n.image)
                                   /\ m.status = n.status /\ Compare!SameElements(m.ports, n.ports)
  BY DEF Compare!Diffs
<1>. QED BY <1>1, <1>2, <1>3, <1>4

LEMMA DifferencesAreSymmetric ==
  ASSUME NEW m, NEW n, IsService(m), IsService(n)
  PROVE  Compare!Diffs(m, n) = Compare!Diffs(n, m)
<1>1. Compare!SameElements(m.ports, n.ports) <=> Compare!SameElements(n.ports, m.ports)
  BY SameElementsIsSymmetric DEF IsService
<1>. QED BY <1>1 DEF Compare!Diffs

LEMMA CompareConstants == ComparedAreServices
BY PluginAssumption

\* The service of a name is one of the graph's.
LEMMA NamedIsThere ==
  ASSUME NEW g \in ComparedGraphs, NEW name \in Compare!Names(g)
  PROVE  IsService(Compare!Named(g, name))
<1>. DEFINE Of == {i \in DOMAIN g : Compare!CanonicalName(g[i]) = name}
            Left == {k \in Nat : Len(g) - k \in Of}
<1>1. g \in Seq({g[i] : i \in DOMAIN g}) /\ (\A i \in DOMAIN g : IsService(g[i])) /\ Of # {}
  <2>1. \A i \in DOMAIN g : IsService(g[i])
    BY CompareConstants DEF ComparedAreServices
  <2>2. g \in Seq({g[i] : i \in DOMAIN g})
    BY CompareConstants DEF ComparedAreServices
  <2>. QED BY <2>1, <2>2 DEF Compare!Names
<1>2. DOMAIN g = 1..Len(g) /\ Len(g) \in Nat
  BY <1>1
<1>3. Left \in SUBSET Nat /\ Left # {}
  <2>1. PICK i \in Of : TRUE
    BY <1>1
  <2>2. i \in 1..Len(g) /\ Len(g) - i \in Nat /\ Len(g) - (Len(g) - i) = i
    BY <1>2, <2>1
  <2>. QED BY <2>1, <2>2
<1>4. PICK k \in Left : \A l \in Left : k <= l
  BY <1>3, LeastNumber
<1>5. \A j \in DOMAIN g : j > Len(g) - k => Compare!CanonicalName(g[j]) # name
  <2>1. SUFFICES ASSUME NEW j \in DOMAIN g, j > Len(g) - k, Compare!CanonicalName(g[j]) = name PROVE FALSE
    OBVIOUS
  <2>2. Len(g) - j \in Nat /\ Len(g) - (Len(g) - j) = j /\ j \in Of
    BY <1>2, <2>1
  <2>3. Len(g) - j \in Left
    BY <2>2
  <2>. QED BY <1>2, <1>4, <2>1, <2>3
<1>6. \E i \in DOMAIN g : /\ Compare!CanonicalName(g[i]) = name
                          /\ \A j \in DOMAIN g : j > i => Compare!CanonicalName(g[j]) # name
  BY <1>4, <1>5
<1>. QED BY <1>1, <1>6 DEF Compare!Named

-----------------------------------------------------------------------------
\* What is shown is the comparison of the two graphs, as they were found.
CompareInv ==
  /\ comparing # None => comparison = None
  /\ comparison \notin {None, Compare!Failure} =>
       \E a, b \in ComparedGraphs : comparison = [of |-> <<a, b>>, got |-> Compare!CompareEnvironments(a, b)]

LEMMA CompareBegins ==
  ASSUME Compare!Init PROVE CompareInv
BY DEF Compare!Init, CompareInv

LEMMA CompareGoesOn ==
  ASSUME CompareInv, Compare!Next \/ UNCHANGED Compare!vars PROVE CompareInv'
<1>1. CASE (\E c \in {"a", "b"} : Compare!SourceChanges(c)) \/ (\E pair \in {"a", "b"} \X {"a", "b"} : Compare!Choose(pair))
  BY <1>1 DEF Compare!SourceChanges, Compare!Choose, CompareInv
<1>2. CASE Compare!RunCompare
  BY <1>2 DEF Compare!RunCompare, CompareInv
<1>3. ASSUME NEW a \in ComparedGraphs, NEW b \in ComparedGraphs, Compare!CompareEnds(a, b) PROVE CompareInv'
  BY <1>3 DEF Compare!CompareEnds, CompareInv
<1>4. CASE Compare!CompareFails
  BY <1>4 DEF Compare!CompareFails, CompareInv
<1>5. CASE UNCHANGED Compare!vars
  BY <1>5 DEF Compare!vars, CompareInv
<1>. QED BY <1>1, <1>2, <1>3, <1>4, <1>5 DEF Compare!Next

\* A comparison finds just what differs, from either side.
LEMMA CompareFollows ==
  ASSUME CompareInv PROVE Compare!ComparesAll
<1>1. SUFFICES ASSUME NEW a \in ComparedGraphs, NEW b \in ComparedGraphs,
                      comparison = [of |-> <<a, b>>, got |-> Compare!CompareEnvironments(a, b)]
               PROVE  LET got == Compare!CompareEnvironments(a, b)
                          back == Compare!CompareEnvironments(b, a)
                      IN /\ got.onlyInA \cup DOMAIN got.matched = Compare!Names(a)
                         /\ got.onlyInB \cup DOMAIN got.matched = Compare!Names(b)
                         /\ (got.onlyInA \cup got.onlyInB) \cap DOMAIN got.matched = {}
                         /\ \A n \in DOMAIN got.matched : got.matched[n] = {} <=> Compare!Same(Compare!Named(a, n), Compare!Named(b, n))
                         /\ back = [onlyInA |-> got.onlyInB, onlyInB |-> got.onlyInA, matched |-> got.matched]
  BY DEF CompareInv, Compare!ComparesAll
<1>. DEFINE got == Compare!CompareEnvironments(a, b)
            back == Compare!CompareEnvironments(b, a)
<1>2. /\ got.onlyInA = Compare!Names(a) \ Compare!Names(b) /\ got.onlyInB = Compare!Names(b) \ Compare!Names(a)
      /\ DOMAIN got.matched = Compare!Names(a) \cap Compare!Names(b)
      /\ \A n \in Compare!Names(a) \cap Compare!Names(b) : got.matched[n] = Compare!Diffs(Compare!Named(a, n), Compare!Named(b, n))
  BY DEF Compare!CompareEnvironments, Compare!OnlyIn
<1>3. \A n \in Compare!Names(a) \cap Compare!Names(b) : IsService(Compare!Named(a, n)) /\ IsService(Compare!Named(b, n))
  BY NamedIsThere
<1>4. [n \in Compare!Names(a) \cap Compare!Names(b) |-> Compare!Diffs(Compare!Named(a, n), Compare!Named(b, n))]
        = [n \in Compare!Names(b) \cap Compare!Names(a) |-> Compare!Diffs(Compare!Named(b, n), Compare!Named(a, n))]
  BY <1>3, DifferencesAreSymmetric
<1>5. back = [onlyInA |-> got.onlyInB, onlyInB |-> got.onlyInA, matched |-> got.matched]
  BY <1>4, Zenon DEF Compare!CompareEnvironments, Compare!OnlyIn
<1>6. \A n \in DOMAIN got.matched : got.matched[n] = {} <=> Compare!Same(Compare!Named(a, n), Compare!Named(b, n))
  BY <1>2, <1>3, NoDifferences
<1>. HIDE DEF got, back
<1>7. /\ got.onlyInA \cup DOMAIN got.matched = Compare!Names(a)
      /\ got.onlyInB \cup DOMAIN got.matched = Compare!Names(b)
      /\ (got.onlyInA \cup got.onlyInB) \cap DOMAIN got.matched = {}
  BY <1>2
<1>. QED BY <1>5, <1>6, <1>7 DEF got, back

-----------------------------------------------------------------------------
(* The graph of a cluster.                                                 *)

LEMMA ClusterConstants == ObjectsAreSound /\ OwnersAreSound /\ ClustersAreSound
BY PluginAssumption

\* The owner that is chosen is the one that controls the object.
LEMMA OwnerIsChosen ==
  ASSUME NEW o \in DOMAIN ClusterObjects
  PROVE  LET w == Cluster!ControllerOf(ClusterObjects[o].owners)
         IN /\ w # None => Controls(w, o) /\ \E i \in DOMAIN ClusterObjects[o].owners : w = ClusterObjects[o].owners[i]
            /\ \A i \in DOMAIN ClusterObjects[o].owners :
                 Controls(ClusterObjects[o].owners[i], o) => w = ClusterObjects[o].owners[i]
<1>. DEFINE refs == ClusterObjects[o].owners
            controlling == {i \in DOMAIN refs : refs[i].controller}
            least == CHOOSE i \in controlling : \A j \in controlling : i <= j
            w == Cluster!ControllerOf(refs)
<1>1. refs \in Seq({refs[i] : i \in DOMAIN refs}) /\ \A i, j \in DOMAIN refs : refs[i] # None
      /\ (refs[i].controller /\ refs[j].controller => i = j) /\ refs[i].controller \in BOOLEAN
  BY ClusterConstants DEF ObjectsAreSound
<1>2. w = IF controlling # {} THEN refs[least] ELSE IF refs # <<>> THEN Head(refs) ELSE None
  BY Zenon DEF Cluster!ControllerOf
<1>3. DOMAIN refs \in SUBSET Nat /\ DOMAIN refs = 1..Len(refs) /\ Len(refs) \in Nat
  BY <1>1
<1>4. \A x : Controls(x, o) <=>
        \E i \in DOMAIN refs : x = refs[i] /\ (x.controller \/ (i = 1 /\ \A j \in DOMAIN refs : ~refs[j].controller))
  BY Zenon DEF Controls
<1>. HIDE DEF w, refs
<1>5. CASE controlling # {}
  <2>1. least \in controlling
    <3>1. controlling \in SUBSET Nat
      BY <1>3
    <3>2. \E i \in controlling : \A j \in controlling : i <= j
      BY <1>5, <3>1, LeastNumber
    <3>. HIDE DEF controlling
    <3>. QED BY <3>2
  <2>2. w = refs[least] /\ least \in DOMAIN refs /\ refs[least].controller
    BY <1>2, <1>5, <2>1
  <2>. HIDE DEF least
  <2>3. Controls(w, o)
    BY <1>4, <2>2
  <2>4. \A i \in DOMAIN refs : Controls(refs[i], o) => w = refs[i]
    <3>1. TAKE i \in DOMAIN refs
    <3>2. HAVE Controls(refs[i], o)
    <3>3. PICK k \in DOMAIN refs : refs[i] = refs[k] /\ (refs[i].controller \/ \A j \in DOMAIN refs : ~refs[j].controller)
      BY <1>4, <3>2
    <3>4. refs[k].controller
      BY <2>2, <3>3
    <3>. QED BY <1>1, <2>2, <3>3, <3>4
  <2>. QED BY <2>2, <2>3, <2>4 DEF w, refs
<1>6. CASE controlling = {} /\ refs # <<>>
  <2>1. w = Head(refs) /\ 1 \in DOMAIN refs /\ Head(refs) = refs[1]
    BY <1>1, <1>2, <1>3, <1>6
  <2>2. \A j \in DOMAIN refs : ~refs[j].controller
    BY <1>6
  <2>3. Controls(w, o)
    BY <1>4, <2>1, <2>2
  <2>4. \A i \in DOMAIN refs : Controls(refs[i], o) => w = refs[i]
    <3>1. TAKE i \in DOMAIN refs
    <3>2. HAVE Controls(refs[i], o)
    <3>3. PICK k \in DOMAIN refs : refs[i] = refs[k] /\ (refs[i].controller \/ k = 1)
      BY <1>4, <3>2
    <3>4. ~refs[i].controller
      BY <2>2
    <3>. QED BY <2>1, <3>3, <3>4
  <2>. QED BY <2>1, <2>3, <2>4 DEF w, refs
<1>7. CASE controlling = {} /\ refs = <<>>
  <2>1. w = None
    BY <1>2, <1>7
  <2>2. DOMAIN refs = {}
    BY <1>7
  <2>. QED BY <2>1, <2>2 DEF w, refs
<1>. QED BY <1>5, <1>6, <1>7

\* What was listed is of its kind, of sizes there are, and, if the cluster did not change,
\* what is there.
ListsInv ==
  kindLists # <<>> =>
    /\ DOMAIN kindLists = Cluster!Kinds /\ clusterGraph = None
    /\ \A k \in Cluster!Kinds : kindLists[k] # None =>
         /\ \A o \in Cluster!Listed(k) : /\ o \in DOMAIN ClusterObjects /\ ClusterObjects[o].kind = k /\ kindLists[k][o] \in Nat
                                         /\ k = "HPA" => kindLists[k][o] # 0
         /\ still => IF k \in refused THEN Cluster!Listed(k) = {}
                     ELSE Cluster!Listed(k) = Cluster!OfKind(k) /\ \A o \in Cluster!OfKind(k) : kindLists[k][o] = cluster[o]

\* The nodes that are drawn are objects with their sizes, those of the cluster if it did not
\* change.
NodesInv ==
  \A n \in DOMAIN clusterGraph.nodes : \E o \in DOMAIN ClusterObjects :
    /\ Cluster!IdOf(o) = n
    /\ clusterGraph.nodes[n] = None <=> n[1] \notin Cluster!WorkloadKinds \cup {"HPA"}
    /\ n[1] \in Cluster!WorkloadKinds \cup {"HPA"} =>
         /\ clusterGraph.nodes[n] \in Nat /\ (n[1] = "HPA" => clusterGraph.nodes[n] # 0)
         /\ still /\ nodeActions = 0 => o \in DOMAIN cluster /\ clusterGraph.nodes[n] = cluster[o]

\* ClusterInv: before an action the cluster is one of those given, and what is drawn is right.
ClusterInv ==
  /\ nodeActions \in Nat /\ (clusterGraph = None => nodeActions = 0)
  /\ nodeActions = 0 => cluster \in ClusterStates
  /\ ListsInv
  /\ clusterGraph # None => Cluster!LinksAreDrawn /\ Cluster!PodsHaveTheirWorkload /\ Cluster!AllIsDrawn /\ NodesInv
  /\ Cluster!ActionsFit

\* The workload that a pod is drawn with is the one it is part of.
LEMMA OwnerIsWorkload ==
  ASSUME ClusterInv, kindLists # <<>>, kindLists["Pod"] # None, kindLists["ReplicaSet"] # None,
         NEW p \in Cluster!Listed("Pod"), NEW x \in Cluster!PodOwner(p)
  PROVE  p \in DOMAIN ClusterObjects /\ ClusterObjects[p].of # None /\ Cluster!IdOf(ClusterObjects[p].of) = x
<1>. DEFINE owner == Cluster!ControllerOf(ClusterObjects[p].owners)
            ns == ClusterObjects[p].ns
<1>1. p \in DOMAIN ClusterObjects /\ ClusterObjects[p].kind = "Pod"
      /\ \A r \in Cluster!Listed("ReplicaSet") : r \in DOMAIN ClusterObjects /\ ClusterObjects[r].kind = "ReplicaSet"
  BY DEF ClusterInv, ListsInv, Cluster!Kinds
<1>2. /\ owner # None => Controls(owner, p) /\ \E i \in DOMAIN ClusterObjects[p].owners : owner = ClusterObjects[p].owners[i]
  BY <1>1, OwnerIsChosen
<1>3. x \in IF owner # None /\ owner.kind = "ReplicaSet"
            THEN UNION {Cluster!WorkloadOf(Cluster!ControllerOf(ClusterObjects[r].owners), ns) : r \in Cluster!ReplicaSetOf(owner.name, ns)}
            ELSE Cluster!WorkloadOf(owner, ns)
  BY Zenon DEF Cluster!PodOwner
<1>4. CASE owner # None /\ owner.kind = "ReplicaSet"
  <2>1. PICK r \in Cluster!ReplicaSetOf(owner.name, ns) : x \in Cluster!WorkloadOf(Cluster!ControllerOf(ClusterObjects[r].owners), ns)
    BY <1>3, <1>4
  <2>2. r \in ReplicaSetsOf(owner, p) /\ r \in DOMAIN ClusterObjects /\ ClusterObjects[r].ns = ns
    BY <1>1, <2>1 DEF Cluster!ReplicaSetOf, ReplicaSetsOf
  <2>3. ClusterObjects[p].of = ClusterObjects[r].of
    BY <1>1, <1>2, <1>4, <2>2, ClusterConstants DEF OwnersAreSound
  <2>. DEFINE w == Cluster!ControllerOf(ClusterObjects[r].owners)
  <2>4. w # None => Controls(w, r) /\ \E i \in DOMAIN ClusterObjects[r].owners : w = ClusterObjects[r].owners[i]
    BY <2>2, OwnerIsChosen
  <2>5. w # None /\ w.kind \in Cluster!WorkloadKinds /\ x = Cluster!NodeId(w.kind, ns, w.name)
    BY <2>1 DEF Cluster!WorkloadOf
  <2>6. IsPartOf(r, w)
    BY <2>2, <2>4, <2>5, ClusterConstants DEF OwnersAreSound
  <2>. QED BY <1>1, <2>2, <2>3, <2>5, <2>6 DEF IsPartOf
<1>5. CASE ~(owner # None /\ owner.kind = "ReplicaSet")
  <2>1. owner # None /\ owner.kind \in Cluster!WorkloadKinds /\ x = Cluster!NodeId(owner.kind, ns, owner.name)
    BY <1>3, <1>5 DEF Cluster!WorkloadOf
  <2>2. IsPartOf(p, owner)
    BY <1>1, <1>2, <2>1, ClusterConstants DEF OwnersAreSound
  <2>. QED BY <1>1, <2>1, <2>2 DEF IsPartOf
<1>. QED BY <1>4, <1>5

\* A pod of a cluster that did not change is drawn with its workload, if that is there.
LEMMA WorkloadIsFound ==
  ASSUME ClusterInv, kindLists # <<>>, \A k \in Cluster!Kinds : kindLists[k] # None, still, refused = {},
         NEW p \in Cluster!OfKind("Pod"), ClusterObjects[p].of \in DOMAIN cluster
  PROVE  <<Cluster!IdOf(ClusterObjects[p].of), Cluster!IdOf(p)>> \in Cluster!PodLinks
<1>. DEFINE owner == Cluster!ControllerOf(ClusterObjects[p].owners)
            ns == ClusterObjects[p].ns
            of == ClusterObjects[p].of
<1>1. cluster \in ClusterStates /\ \A k \in Cluster!Kinds : Cluster!Listed(k) = Cluster!OfKind(k)
  BY DEF ClusterInv, ListsInv
<1>2. p \in DOMAIN cluster /\ DOMAIN cluster \subseteq DOMAIN ClusterObjects /\ ClusterObjects[p].kind = "Pod" /\ of # None
  BY <1>1, ClusterConstants DEF Cluster!OfKind, ObjectsAreSound, ClustersAreSound
<1>3. /\ owner # None => Controls(owner, p) /\ \E i \in DOMAIN ClusterObjects[p].owners : owner = ClusterObjects[p].owners[i]
      /\ \A i \in DOMAIN ClusterObjects[p].owners :
           Controls(ClusterObjects[p].owners[i], p) => owner = ClusterObjects[p].owners[i]
  BY <1>2, OwnerIsChosen
<1>4. PICK i \in DOMAIN ClusterObjects[p].owners :
        /\ Controls(ClusterObjects[p].owners[i], p)
        /\ ClusterObjects[p].owners[i].kind \in Cluster!WorkloadKinds \cup {"ReplicaSet"}
  BY <1>2, ClusterConstants DEF OwnersAreSound
<1>5. owner = ClusterObjects[p].owners[i] /\ owner # None /\ Controls(owner, p)
      /\ owner.kind \in Cluster!WorkloadKinds \cup {"ReplicaSet"}
  BY <1>2, <1>3, <1>4, ClusterConstants DEF ObjectsAreSound
<1>6. Cluster!PodOwner(p) = IF owner # None /\ owner.kind = "ReplicaSet"
        THEN UNION {Cluster!WorkloadOf(Cluster!ControllerOf(ClusterObjects[r].owners), ns) : r \in Cluster!ReplicaSetOf(owner.name, ns)}
        ELSE Cluster!WorkloadOf(owner, ns)
  BY Zenon DEF Cluster!PodOwner
<1>7. Cluster!IdOf(of) \in Cluster!PodOwner(p) /\ ClusterObjects[of].kind \in Cluster!WorkloadKinds
  <2>1. CASE owner.kind = "ReplicaSet"
    <3>1. PICK r \in ReplicaSetsOf(owner, p) : r \in DOMAIN cluster
      BY <1>1, <1>2, <1>4, <1>5, <2>1, ClusterConstants DEF ClustersAreSound
    <3>2. r \in DOMAIN ClusterObjects /\ ClusterObjects[r].kind = "ReplicaSet" /\ ClusterObjects[r].name = owner.name
          /\ ClusterObjects[r].ns = ns
      BY <3>1 DEF ReplicaSetsOf
    <3>3. r \in Cluster!ReplicaSetOf(owner.name, ns)
      BY <1>1, <3>1, <3>2 DEF Cluster!ReplicaSetOf, Cluster!OfKind, Cluster!Kinds
    <3>4. ClusterObjects[r].of = of
      BY <1>2, <1>4, <1>5, <2>1, <3>1, ClusterConstants DEF OwnersAreSound
    <3>. DEFINE w == Cluster!ControllerOf(ClusterObjects[r].owners)
    <3>5. PICK j \in DOMAIN ClusterObjects[r].owners :
            Controls(ClusterObjects[r].owners[j], r) /\ ClusterObjects[r].owners[j].kind \in Cluster!WorkloadKinds
      BY <1>2, <3>2, <3>4, ClusterConstants DEF OwnersAreSound
    <3>6. w = ClusterObjects[r].owners[j]
      BY <3>2, <3>5, OwnerIsChosen
    <3>7. w # None
      BY <3>2, <3>6, ClusterConstants DEF ObjectsAreSound
    <3>8. IsPartOf(r, w)
      BY <3>2, <3>5, <3>6, ClusterConstants DEF OwnersAreSound
    <3>9. Cluster!IdOf(of) = Cluster!NodeId(w.kind, ns, w.name) /\ w.kind \in Cluster!WorkloadKinds
      BY <3>2, <3>4, <3>5, <3>6, <3>8 DEF IsPartOf
    <3>10. Cluster!IdOf(of) \in Cluster!WorkloadOf(w, ns)
      BY <3>7, <3>9 DEF Cluster!WorkloadOf
    <3>11. ClusterObjects[of].kind = w.kind
      BY <3>9 DEF Cluster!IdOf, Cluster!NodeId
    <3>. QED BY <1>5, <1>6, <2>1, <3>3, <3>9, <3>10, <3>11
  <2>2. CASE owner.kind \in Cluster!WorkloadKinds
    <3>1. IsPartOf(p, owner)
      BY <1>2, <1>4, <1>5, <2>2, ClusterConstants DEF OwnersAreSound
    <3>2. Cluster!IdOf(of) = Cluster!NodeId(owner.kind, ns, owner.name)
      BY <3>1 DEF IsPartOf
    <3>3. Cluster!IdOf(of) \in Cluster!WorkloadOf(owner, ns)
      BY <1>5, <2>2, <3>2 DEF Cluster!WorkloadOf
    <3>4. ClusterObjects[of].kind = owner.kind /\ owner.kind # "ReplicaSet"
      BY <2>2, <3>2 DEF Cluster!IdOf, Cluster!NodeId, Cluster!WorkloadKinds
    <3>. QED BY <1>6, <2>2, <3>3, <3>4
  <2>. QED BY <1>5, <2>1, <2>2
<1>8. Cluster!IdOf(of) \in Cluster!DrawnWorkloads
  <2>1. of \in Cluster!OfKind(ClusterObjects[of].kind) /\ ClusterObjects[of].kind \in Cluster!Kinds
    BY <1>7 DEF Cluster!OfKind, Cluster!Kinds
  <2>2. of \in Cluster!Listed(ClusterObjects[of].kind)
    BY <1>1, <2>1
  <2>. QED BY <1>7, <2>2 DEF Cluster!DrawnWorkloads
<1>9. p \in Cluster!Listed("Pod")
  BY <1>1 DEF Cluster!Kinds
<1>10. <<Cluster!IdOf(of), p>> \in {y \in Cluster!DrawnWorkloads \X Cluster!Listed("Pod") : y[1] \in Cluster!PodOwner(y[2])}
  BY <1>7, <1>8, <1>9
<1>. QED BY <1>10 DEF Cluster!PodLinks

LEMMA ClusterBegins ==
  ASSUME Cluster!Init PROVE ClusterInv
BY DEF Cluster!Init, ClusterInv, ListsInv, Cluster!ActionsFit

\* A graph that is built is right.
LEMMA BuiltIsRight ==
  ASSUME ClusterInv, Cluster!BuildGraph
  PROVE  ClusterInv'
<1>. DEFINE ids == {Cluster!IdOf(o) : o \in Cluster!Drawn}
            Of(n) == CHOOSE o \in Cluster!Drawn : Cluster!IdOf(o) = n
            links == Cluster!PodLinks \cup Cluster!HpaLinks \cup Cluster!ServiceLinks \cup Cluster!IngressLinks
<1>1. /\ kindLists # <<>> /\ kindLists' = <<>> /\ (\A k \in Cluster!Kinds : kindLists[k] # None)
      /\ clusterGraph' = IF refused = Cluster!Kinds THEN None
                  ELSE [nodes |-> [n \in ids |-> Cluster!Metadata(Of(n))], links |-> links]
      /\ UNCHANGED <<cluster, clusterChanges, refused, still, lastAction, nodeActions>>
  BY DEF Cluster!BuildGraph
<1>2. clusterGraph = None /\ nodeActions = 0 /\ nodeActions' = 0 /\ cluster \in ClusterStates /\ Cluster!ActionsFit
  BY <1>1 DEF ClusterInv, ListsInv
<1>3. Cluster!ActionsFit' /\ ListsInv'
  BY <1>1, <1>2 DEF Cluster!ActionsFit, ListsInv, Cluster!Offered
<1>4. CASE refused = Cluster!Kinds
  BY <1>1, <1>2, <1>3, <1>4 DEF ClusterInv
<1>5. CASE refused # Cluster!Kinds
  <2>1. clusterGraph'.nodes = [n \in ids |-> Cluster!Metadata(Of(n))] /\ clusterGraph'.links = links
    BY <1>1, <1>5
  <2>2. DOMAIN clusterGraph'.nodes = ids
    BY <2>1
  <2>3. \A k \in Cluster!Kinds : \A o \in Cluster!Listed(k) :
          /\ o \in DOMAIN ClusterObjects /\ ClusterObjects[o].kind = k /\ kindLists[k][o] \in Nat
          /\ k = "HPA" => kindLists[k][o] # 0
    BY <1>1 DEF ClusterInv, ListsInv
  <2>4. \A k \in Cluster!Kinds \ {"ReplicaSet"} : \A o \in Cluster!Listed(k) : Cluster!IdOf(o) \in ids
    BY DEF Cluster!Drawn
  <2>5. \A o \in Cluster!Drawn : /\ o \in DOMAIN ClusterObjects /\ ClusterObjects[o].kind \in Cluster!Kinds \ {"ReplicaSet"}
                                 /\ o \in Cluster!Listed(ClusterObjects[o].kind)
    <3>1. TAKE o \in Cluster!Drawn
    <3>2. PICK k \in Cluster!Kinds \ {"ReplicaSet"} : o \in Cluster!Listed(k)
      BY DEF Cluster!Drawn
    <3>. QED BY <2>3, <3>2
  <2>. HIDE DEF ids
  <2>6. ASSUME NEW l \in Cluster!PodLinks
        PROVE  \E p \in Cluster!Listed("Pod") : /\ l[1] \in Cluster!DrawnWorkloads /\ l[1] \in Cluster!PodOwner(p) /\ l[2] = Cluster!IdOf(p)
    BY DEF Cluster!PodLinks
  <2>7. Cluster!DrawnWorkloads \subseteq ids
    <3>1. SUFFICES ASSUME NEW x \in Cluster!DrawnWorkloads PROVE x \in ids
      OBVIOUS
    <3>2. PICK k \in Cluster!WorkloadKinds : \E o \in Cluster!Listed(k) : x = Cluster!IdOf(o)
      BY DEF Cluster!DrawnWorkloads
    <3>3. k \in Cluster!Kinds \ {"ReplicaSet"}
      BY DEF Cluster!WorkloadKinds, Cluster!Kinds
    <3>. QED BY <2>4, <3>2, <3>3
  <2>8. Cluster!LinksAreDrawn'
    <3>1. SUFFICES ASSUME NEW l \in links PROVE l[1] \in ids /\ (l[2] \in ids \/ l[1][1] = "Ingress")
      BY <2>1, <2>2 DEF Cluster!LinksAreDrawn
    <3>2. {"Pod", "Service", "HPA", "Ingress"} \subseteq Cluster!Kinds \ {"ReplicaSet"}
      BY DEF Cluster!Kinds
    <3>3. CASE l \in Cluster!PodLinks
      BY <2>4, <2>6, <2>7, <3>2, <3>3
    <3>4. CASE l \in Cluster!HpaLinks
      <4>1. PICK h \in Cluster!Listed("HPA"), w \in Cluster!DrawnWorkloads : l = <<Cluster!IdOf(h), w>>
        BY <3>4 DEF Cluster!HpaLinks
      <4>. QED BY <2>4, <2>7, <3>2, <4>1
    <3>5. CASE l \in Cluster!ServiceLinks
      <4>1. PICK s \in Cluster!Listed("Service"), p \in Cluster!Listed("Pod") : l = <<Cluster!IdOf(s), Cluster!IdOf(p)>>
        BY <3>5 DEF Cluster!ServiceLinks
      <4>. QED BY <2>4, <3>2, <4>1
    <3>6. CASE l \in Cluster!IngressLinks
      <4>1. PICK i \in Cluster!Listed("Ingress") : \E s : l = <<Cluster!IdOf(i), s>>
        BY <3>6 DEF Cluster!IngressLinks
      <4>2. Cluster!IdOf(i) \in ids /\ ClusterObjects[i].kind = "Ingress"
        BY <2>3, <2>4, <3>2, <4>1
      <4>3. Cluster!IdOf(i)[1] = "Ingress"
        BY <4>2 DEF Cluster!IdOf, Cluster!NodeId
      <4>. QED BY <4>1, <4>2, <4>3
    <3>. QED BY <3>3, <3>4, <3>5, <3>6
  <2>9. Cluster!PodsHaveTheirWorkload'
    <3>1. SUFFICES ASSUME NEW l \in links, l[1][1] \in Cluster!WorkloadKinds
                   PROVE  \E p \in DOMAIN ClusterObjects : /\ Cluster!IdOf(p) = l[2] /\ ClusterObjects[p].of # None
                                                           /\ Cluster!IdOf(ClusterObjects[p].of) = l[1]
      BY <2>1, Zenon DEF Cluster!PodsHaveTheirWorkload, Cluster!WorkloadKinds, Cluster!IdOf, Cluster!NodeId
    <3>2. {"HPA", "Service", "Ingress"} \cap Cluster!WorkloadKinds = {} /\ {"HPA", "Service", "Ingress"} \subseteq Cluster!Kinds
      BY DEF Cluster!WorkloadKinds, Cluster!Kinds
    <3>3. \A k \in Cluster!Kinds : \A o \in Cluster!Listed(k) : Cluster!IdOf(o)[1] = k
      BY <2>3 DEF Cluster!IdOf, Cluster!NodeId
    <3>4. l \notin Cluster!HpaLinks
      <4>1. SUFFICES ASSUME l \in Cluster!HpaLinks PROVE FALSE
        OBVIOUS
      <4>2. PICK h \in Cluster!Listed("HPA"), w \in Cluster!DrawnWorkloads : l = <<Cluster!IdOf(h), w>>
        BY <4>1 DEF Cluster!HpaLinks
      <4>. QED BY <3>1, <3>2, <3>3, <4>2
    <3>5. l \notin Cluster!ServiceLinks
      <4>1. SUFFICES ASSUME l \in Cluster!ServiceLinks PROVE FALSE
        OBVIOUS
      <4>2. PICK s \in Cluster!Listed("Service"), p \in Cluster!Listed("Pod") : l = <<Cluster!IdOf(s), Cluster!IdOf(p)>>
        BY <4>1 DEF Cluster!ServiceLinks
      <4>. QED BY <3>1, <3>2, <3>3, <4>2
    <3>6. l \notin Cluster!IngressLinks
      <4>1. SUFFICES ASSUME l \in Cluster!IngressLinks PROVE FALSE
        OBVIOUS
      <4>2. PICK i \in Cluster!Listed("Ingress") : \E s : l = <<Cluster!IdOf(i), s>>
        BY <4>1 DEF Cluster!IngressLinks
      <4>. QED BY <3>1, <3>2, <3>3, <4>2
    <3>7. PICK p \in Cluster!Listed("Pod") : l[1] \in Cluster!PodOwner(p) /\ l[2] = Cluster!IdOf(p)
      BY <2>6, <3>4, <3>5, <3>6
    <3>8. kindLists["Pod"] # None /\ kindLists["ReplicaSet"] # None
      BY <1>1 DEF Cluster!Kinds
    <3>. QED BY <1>1, <3>7, <3>8, OwnerIsWorkload
  <2>10. Cluster!AllIsDrawn'
    <3>1. SUFFICES ASSUME still, refused = {}
                   PROVE  /\ ids = {Cluster!IdOf(o) : o \in {p \in DOMAIN cluster : ClusterObjects[p].kind # "ReplicaSet"}}
                          /\ \A p \in Cluster!OfKind("Pod") :
                               ClusterObjects[p].of \in DOMAIN cluster => <<Cluster!IdOf(ClusterObjects[p].of), Cluster!IdOf(p)>> \in links
      BY <1>1, <2>1, <2>2, Zenon DEF Cluster!AllIsDrawn, Cluster!OfKind, Cluster!IdOf, Cluster!NodeId
    <3>2. \A k \in Cluster!Kinds : Cluster!Listed(k) = Cluster!OfKind(k)
      BY <1>1, <3>1 DEF ClusterInv, ListsInv
    <3>3. DOMAIN cluster \subseteq DOMAIN ClusterObjects
      BY <1>2, ClusterConstants DEF ClustersAreSound
    <3>4. Cluster!Drawn = {p \in DOMAIN cluster : ClusterObjects[p].kind # "ReplicaSet"}
      <4>1. ASSUME NEW o \in Cluster!Drawn PROVE o \in DOMAIN cluster /\ ClusterObjects[o].kind # "ReplicaSet"
        BY <2>5, <3>2 DEF Cluster!OfKind
      <4>2. ASSUME NEW o \in DOMAIN cluster, ClusterObjects[o].kind # "ReplicaSet" PROVE o \in Cluster!Drawn
        <5>1. ClusterObjects[o].kind \in Cluster!Kinds \ {"ReplicaSet"} /\ o \in Cluster!OfKind(ClusterObjects[o].kind)
          BY <3>3, <4>2, ClusterConstants DEF ObjectsAreSound, Cluster!OfKind
        <5>. QED BY <3>2, <5>1 DEF Cluster!Drawn
      <4>. QED BY <4>1, <4>2
    <3>5. \A p \in Cluster!OfKind("Pod") :
            ClusterObjects[p].of \in DOMAIN cluster => <<Cluster!IdOf(ClusterObjects[p].of), Cluster!IdOf(p)>> \in Cluster!PodLinks
      BY <1>1, <3>1, WorkloadIsFound
    <3>. QED BY <3>4, <3>5 DEF ids
  <2>11. NodesInv'
    <3>1. SUFFICES ASSUME NEW n \in ids
                   PROVE  \E o \in DOMAIN ClusterObjects :
                            /\ Cluster!IdOf(o) = n
                            /\ clusterGraph'.nodes[n] = None <=> n[1] \notin Cluster!WorkloadKinds \cup {"HPA"}
                            /\ n[1] \in Cluster!WorkloadKinds \cup {"HPA"} =>
                                 /\ clusterGraph'.nodes[n] \in Nat /\ (n[1] = "HPA" => clusterGraph'.nodes[n] # 0)
                                 /\ still => o \in DOMAIN cluster /\ clusterGraph'.nodes[n] = cluster[o]
      <4>1. still' = still /\ nodeActions' = 0 /\ cluster' = cluster
        BY <1>1, <1>2
      <4>. QED BY <2>2, <4>1 DEF NodesInv, Cluster!IdOf, Cluster!NodeId, Cluster!WorkloadKinds
    <3>. DEFINE o == Of(n)
    <3>2. o \in Cluster!Drawn /\ Cluster!IdOf(o) = n
      BY DEF ids
    <3>3. clusterGraph'.nodes[n] = Cluster!Metadata(o)
      BY <2>1
    <3>. HIDE DEF o
    <3>4. n[1] = ClusterObjects[o].kind
      BY <3>2 DEF Cluster!IdOf, Cluster!NodeId
    <3>5. o \in DOMAIN ClusterObjects /\ ClusterObjects[o].kind \in Cluster!Kinds /\ o \in Cluster!Listed(ClusterObjects[o].kind)
      BY <2>5, <3>2
    <3>6. n[1] \in Cluster!WorkloadKinds \cup {"HPA"} => Cluster!Metadata(o) = kindLists[n[1]][o]
      BY <3>4 DEF Cluster!Metadata, Cluster!Bounds, Cluster!DesiredReplicas, Cluster!WorkloadKinds
    <3>7. n[1] \notin Cluster!WorkloadKinds \cup {"HPA"} => Cluster!Metadata(o) = None
      BY <3>4 DEF Cluster!Metadata, Cluster!WorkloadKinds
    <3>8. kindLists[n[1]][o] \in Nat /\ (n[1] = "HPA" => kindLists[n[1]][o] # 0) /\ kindLists[n[1]][o] # None
      <4>1. n[1] \in Cluster!Kinds /\ o \in Cluster!Listed(n[1])
        BY <3>4, <3>5
      <4>2. kindLists[n[1]][o] \in Nat /\ (n[1] = "HPA" => kindLists[n[1]][o] # 0)
        BY <2>3, <4>1
      <4>3. None \notin Nat
        BY ClusterConstants DEF ObjectsAreSound
      <4>. QED BY <4>2, <4>3
    <3>9. still => o \in DOMAIN cluster /\ kindLists[n[1]][o] = cluster[o]
      <4>1. SUFFICES ASSUME still PROVE o \in DOMAIN cluster /\ kindLists[n[1]][o] = cluster[o]
        OBVIOUS
      <4>2. n[1] \notin refused /\ o \in Cluster!OfKind(n[1]) /\ kindLists[n[1]][o] = cluster[o]
        BY <1>1, <3>4, <3>5, <4>1 DEF ClusterInv, ListsInv
      <4>. QED BY <4>2 DEF Cluster!OfKind
    <3>. QED BY <3>2, <3>3, <3>5, <3>6, <3>7, <3>8, <3>9
  <2>. QED BY <1>1, <1>2, <1>3, <2>8, <2>9, <2>10, <2>11 DEF ClusterInv
<1>. QED BY <1>4, <1>5

\* An action that is offered and proposed is accepted, and keeps what it does not change.
LEMMA ActionFits ==
  ASSUME ClusterInv, NEW n \in DOMAIN clusterGraph.nodes,
         NEW action \in {"restart", "scale", "set_hpa_constraints", "delete"},
         NEW input \in {0, Cluster!Default(n)}, Cluster!RunAction(n, action, input)
  PROVE  ClusterInv'
<1>. DEFINE accepted == Cluster!Accepted(n[1], action, input)
            nodesNow == {o \in DOMAIN cluster : Cluster!IdOf(o) = n}
<1>1. /\ clusterGraph # None /\ nodeActions' = nodeActions + 1
      /\ cluster' = IF accepted THEN Cluster!Patched(nodesNow, action, input) ELSE cluster
      /\ lastAction' = [node |-> n, action |-> action, accepted |-> accepted,
                  proposed |-> input = Cluster!Default(n), current |-> still /\ nodeActions = 0,
                  kept |-> cluster' = cluster]
      /\ UNCHANGED <<clusterChanges, kindLists, refused, still, clusterGraph>>
  BY DEF Cluster!RunAction
<1>2. nodeActions \in Nat /\ nodeActions' # 0 /\ kindLists = <<>> /\ nodeActions' \in Nat
  BY <1>1 DEF ClusterInv, ListsInv
<1>3. Cluster!LinksAreDrawn' /\ Cluster!PodsHaveTheirWorkload' /\ Cluster!AllIsDrawn'
  BY <1>1, <1>2 DEF ClusterInv, Cluster!LinksAreDrawn, Cluster!PodsHaveTheirWorkload, Cluster!AllIsDrawn,
    Cluster!IdOf, Cluster!NodeId
<1>4. NodesInv'
  <2>1. NodesInv
    BY <1>1 DEF ClusterInv
  <2>. QED BY <1>1, <1>2, <2>1 DEF NodesInv, Cluster!IdOf, Cluster!NodeId
<1>5. PICK o \in DOMAIN ClusterObjects :
        /\ Cluster!IdOf(o) = n
        /\ clusterGraph.nodes[n] = None <=> n[1] \notin Cluster!WorkloadKinds \cup {"HPA"}
        /\ n[1] \in Cluster!WorkloadKinds \cup {"HPA"} =>
             /\ clusterGraph.nodes[n] \in Nat /\ (n[1] = "HPA" => clusterGraph.nodes[n] # 0)
             /\ still /\ nodeActions = 0 => o \in DOMAIN cluster /\ clusterGraph.nodes[n] = cluster[o]
  BY <1>1 DEF ClusterInv, NodesInv
<1>6. accepted => action \in Cluster!Offered(n[1])
  BY DEF Cluster!Accepted, Cluster!Offered
<1>7. ASSUME action \in Cluster!Offered(n[1]), input = Cluster!Default(n)
      PROVE  accepted
  BY <1>5, <1>7 DEF Cluster!Accepted, Cluster!Offered, Cluster!Default, Cluster!WorkloadKinds
<1>8. ASSUME input = Cluster!Default(n), still, nodeActions = 0, action # "delete"
      PROVE  cluster' = cluster
  <2>1. CASE ~accepted
    BY <1>1, <2>1
  <2>2. CASE accepted /\ action = "restart"
    BY <1>1, <2>2 DEF Cluster!Patched
  <2>3. CASE accepted /\ action # "restart"
    <3>1. n[1] \in Cluster!WorkloadKinds \cup {"HPA"}
      BY <1>8, <2>3 DEF Cluster!Accepted, Cluster!WorkloadKinds
    <3>2. o \in DOMAIN cluster /\ input = cluster[o]
      BY <1>5, <1>8, <3>1 DEF Cluster!Default
    <3>3. cluster \in ClusterStates
      BY <1>8 DEF ClusterInv
    <3>4. DOMAIN cluster \subseteq DOMAIN ClusterObjects /\ cluster = [p \in DOMAIN cluster |-> cluster[p]]
      BY <3>3, ClusterConstants DEF ClustersAreSound
    <3>5. \A p \in nodesNow : p = o
      BY <1>5, <3>4, ClusterConstants DEF ObjectsAreSound
    <3>6. cluster' = [p \in DOMAIN cluster |-> IF p \in nodesNow THEN input ELSE cluster[p]]
      BY <1>1, <1>8, <2>3 DEF Cluster!Patched
    <3>7. \A p \in DOMAIN cluster : (IF p \in nodesNow THEN input ELSE cluster[p]) = cluster[p]
      BY <3>2, <3>5
    <3>. HIDE DEF nodesNow
    <3>. QED BY <3>4, <3>6, <3>7
  <2>. QED BY <2>1, <2>2, <2>3
<1>9. Cluster!ActionsFit'
  <2>1. /\ lastAction'.node = n /\ lastAction'.action = action /\ lastAction'.accepted = accepted
        /\ lastAction'.proposed = (input = Cluster!Default(n)) /\ lastAction'.current = (still /\ nodeActions = 0)
        /\ lastAction'.kept = (cluster' = cluster)
    BY <1>1, Zenon
  <2>. HIDE DEF accepted
  <2>2. lastAction'.accepted => lastAction'.action \in Cluster!Offered(lastAction'.node[1])
    BY <1>6, <2>1
  <2>3. lastAction'.action \in Cluster!Offered(lastAction'.node[1]) /\ lastAction'.proposed /\ lastAction'.current => lastAction'.accepted
    BY <1>7, <2>1
  <2>4. lastAction'.proposed /\ lastAction'.current /\ lastAction'.action # "delete" => lastAction'.kept
    BY <1>8, <2>1
  <2>. QED BY <2>2, <2>3, <2>4, Zenon DEF Cluster!ActionsFit, Cluster!Offered, Cluster!WorkloadKinds
<1>10. ListsInv'
  BY <1>1, <1>2 DEF ListsInv
<1>. QED BY <1>1, <1>2, <1>3, <1>4, <1>9, <1>10 DEF ClusterInv

\* The rest changes no graph.
LEMMA GraphStays ==
  ASSUME ClusterInv, UNCHANGED <<clusterGraph, lastAction, nodeActions>>,
         still' => still /\ cluster' = cluster,
         still' => refused' = refused \/ clusterGraph = None, nodeActions = 0 => cluster' \in ClusterStates, ListsInv'
  PROVE  ClusterInv'
<1>1. Cluster!ActionsFit'
  BY DEF ClusterInv, Cluster!ActionsFit, Cluster!Offered
<1>2. clusterGraph # None => Cluster!LinksAreDrawn' /\ Cluster!PodsHaveTheirWorkload'
  BY DEF ClusterInv, Cluster!LinksAreDrawn, Cluster!PodsHaveTheirWorkload, Cluster!IdOf, Cluster!NodeId
<1>3. clusterGraph # None => Cluster!AllIsDrawn' /\ NodesInv'
  <2>1. SUFFICES ASSUME clusterGraph # None PROVE Cluster!AllIsDrawn' /\ NodesInv'
    OBVIOUS
  <2>2. Cluster!AllIsDrawn /\ NodesInv
    BY <2>1 DEF ClusterInv
  <2>3. Cluster!AllIsDrawn'
    BY <2>1, <2>2 DEF Cluster!AllIsDrawn, Cluster!OfKind, Cluster!IdOf, Cluster!NodeId
  <2>4. NodesInv'
    BY <2>1, <2>2 DEF NodesInv, Cluster!IdOf, Cluster!NodeId, Cluster!WorkloadKinds
  <2>. QED BY <2>3, <2>4
<1>. QED BY <1>1, <1>2, <1>3 DEF ClusterInv

LEMMA ClusterGoesOn ==
  ASSUME ClusterInv, Cluster!Next \/ UNCHANGED Cluster!vars
  PROVE  ClusterInv'
<1>1. CASE UNCHANGED Cluster!vars
  <2>1. ListsInv'
    BY <1>1 DEF Cluster!vars, ClusterInv, ListsInv, Cluster!Listed, Cluster!OfKind
  <2>. QED BY <1>1, <2>1, GraphStays DEF Cluster!vars, ClusterInv
<1>2. CASE Cluster!Collect
  <2>1. /\ kindLists' = [k \in Cluster!Kinds |-> None] /\ clusterGraph = None /\ still' = TRUE
        /\ UNCHANGED <<cluster, clusterChanges, clusterGraph, lastAction, nodeActions>>
    BY <1>2 DEF Cluster!Collect
  <2>2. ListsInv'
    BY <2>1 DEF ListsInv
  <2>3. Cluster!ActionsFit'
    BY <2>1 DEF ClusterInv, Cluster!ActionsFit, Cluster!Offered
  <2>. QED BY <2>1, <2>2, <2>3 DEF ClusterInv
<1>3. ASSUME NEW k \in Cluster!Kinds, Cluster!List(k)
      PROVE  ClusterInv'
  <2>1. /\ kindLists # <<>> /\ kindLists[k] = None
        /\ kindLists' = [kindLists EXCEPT ![k] = IF k \in refused THEN <<>> ELSE [o \in Cluster!OfKind(k) |-> cluster[o]]]
        /\ UNCHANGED <<cluster, clusterChanges, refused, still, clusterGraph, lastAction, nodeActions>>
    BY <1>3 DEF Cluster!List
  <2>2. DOMAIN kindLists = Cluster!Kinds /\ clusterGraph = None /\ nodeActions = 0 /\ cluster \in ClusterStates
    BY <2>1 DEF ClusterInv, ListsInv
  <2>3. DOMAIN cluster \subseteq DOMAIN ClusterObjects
        /\ \A o \in DOMAIN cluster : cluster[o] \in Nat /\ (ClusterObjects[o].kind = "HPA" => cluster[o] # 0)
    BY <2>2, ClusterConstants DEF ClustersAreSound
  <2>4. DOMAIN kindLists' = Cluster!Kinds /\ \A j \in Cluster!Kinds : j # k => kindLists'[j] = kindLists[j]
    BY <2>1, <2>2
  <2>5. kindLists'[k] = IF k \in refused THEN <<>> ELSE [o \in Cluster!OfKind(k) |-> cluster[o]]
    BY <2>1, <2>2
  <2>6. DOMAIN kindLists'[k] = (IF k \in refused THEN {} ELSE Cluster!OfKind(k))
        /\ \A o \in DOMAIN kindLists'[k] : kindLists'[k][o] = cluster[o]
    BY <2>5
  <2>7. ListsInv'
    <3>1. ASSUME NEW j \in Cluster!Kinds, kindLists'[j] # None
          PROVE  /\ \A o \in DOMAIN kindLists'[j] :
                      /\ o \in DOMAIN ClusterObjects /\ ClusterObjects[o].kind = j /\ kindLists'[j][o] \in Nat
                      /\ j = "HPA" => kindLists'[j][o] # 0
                 /\ still => IF j \in refused THEN DOMAIN kindLists'[j] = {}
                             ELSE DOMAIN kindLists'[j] = Cluster!OfKind(j) /\ \A o \in Cluster!OfKind(j) : kindLists'[j][o] = cluster[o]
      <4>1. CASE j = k
        BY <2>3, <2>6, <4>1 DEF Cluster!OfKind
      <4>2. CASE j # k
        BY <2>1, <2>4, <3>1, <4>2 DEF ClusterInv, ListsInv, Cluster!Listed
      <4>. QED BY <4>1, <4>2
    <3>. QED BY <2>1, <2>2, <2>4, <3>1, ZenonT(40) DEF ListsInv, Cluster!Listed, Cluster!OfKind
  <2>. QED BY <2>1, <2>2, <2>7, GraphStays
<1>4. CASE Cluster!BuildGraph
  BY <1>4, BuiltIsRight
<1>5. ASSUME NEW c \in ClusterStates, Cluster!Change(c)
      PROVE  ClusterInv'
  <2>1. cluster' = c /\ still' = FALSE /\ UNCHANGED <<kindLists, refused, clusterGraph, lastAction, nodeActions>>
    BY <1>5 DEF Cluster!Change
  <2>2. ListsInv'
    BY <2>1 DEF ClusterInv, ListsInv, Cluster!Listed
  <2>. QED BY <2>1, <2>2, GraphStays
<1>6. ASSUME NEW n \in DOMAIN clusterGraph.nodes,
             NEW action \in {"restart", "scale", "set_hpa_constraints", "delete"},
             NEW input \in {0, Cluster!Default(n)}, Cluster!RunAction(n, action, input)
      PROVE  ClusterInv'
  BY <1>6, ActionFits
<1>. QED BY <1>1, <1>2, <1>3, <1>4, <1>5, <1>6, Zenon DEF Cluster!Next

LEMMA ClusterFollows ==
  ASSUME ClusterInv PROVE Cluster!GraphIsOfCluster
BY DEF ClusterInv, Cluster!GraphIsOfCluster

-----------------------------------------------------------------------------
(* The 2D view.                                                            *)

LEMMA FlatConstants == IsListing(FlatIds) /\ IsListing(FlatGroups) /\ FlatGraphsAreSound
BY PluginAssumption DEF FlatGraphsAreSound

\* Values from a on, each made of the one before by a step.
Follows(f, N, S, a, step) ==
  f \in [0..N -> S] /\ f[0] = a /\ \A i \in 1..N : f[i] = step[<<i, f[i - 1]>>]

\* There are such values.
LEMMA Recursion ==
  ASSUME NEW N \in Nat, NEW S, NEW a \in S, NEW step \in [(1..N) \X S -> S]
  PROVE  \E f : Follows(f, N, S, a, step)
<1>. DEFINE Is(f, k) == f \in [0..k -> S] /\ f[0] = a /\ \A i \in 1..k : f[i] = step[<<i, f[i - 1]>>]
            K == {k \in Nat : k <= N => \E f : Is(f, k)}
<1>1. 0 \in K
  <2>1. Is([i \in 0..0 |-> a], 0)
    OBVIOUS
  <2>. QED BY <2>1
<1>2. ASSUME NEW k \in K
      PROVE  k + 1 \in K
  <2>1. SUFFICES ASSUME k + 1 <= N PROVE \E f : Is(f, k + 1)
    BY Z3
  <2>2. PICK f : Is(f, k)
    BY <2>1
  <2>. DEFINE g == [i \in 0..(k + 1) |-> IF i = k + 1 THEN step[<<k + 1, f[k]>>] ELSE f[i]]
  <2>3. k \in Nat /\ f[k] \in S /\ k + 1 \in 1..N /\ \A i \in 0..k : f[i] \in S
    BY <2>1, <2>2
  <2>4. step[<<k + 1, f[k]>>] \in S
    BY <2>3
  <2>5. g \in [0..(k + 1) -> S] /\ g[0] = a
    BY <2>2, <2>3, <2>4
  <2>6. \A i \in 1..(k + 1) : g[i] = step[<<i, g[i - 1]>>]
    <3>1. TAKE i \in 1..(k + 1)
    <3>2. i \in 0..(k + 1) /\ i - 1 \in 0..(k + 1) /\ i - 1 # k + 1 /\ g[i - 1] = f[i - 1]
      BY <2>3
    <3>3. CASE i = k + 1
      <4>1. g[i] = step[<<k + 1, f[k]>>] /\ i - 1 = k
        BY <2>3, <3>3
      <4>. QED BY <3>2, <3>3, <4>1
    <3>4. CASE i # k + 1
      <4>1. g[i] = f[i] /\ i \in 1..k
        BY <2>3, <3>4
      <4>. QED BY <2>2, <3>2, <4>1
    <3>. QED BY <3>3, <3>4
  <2>7. Is(g, k + 1)
    BY <2>5, <2>6
  <2>. HIDE DEF Is, g
  <2>. QED BY <2>7
<1>3. K = Nat
  BY <1>1, <1>2, Counting
<1>4. N \in K
  BY <1>3
<1>5. \E f : Is(f, N)
  <2>. HIDE DEF Is
  <2>. QED BY <1>4
<1>. QED BY <1>5 DEF Follows

Elements(s) == {s[i] : i \in DOMAIN s}
Once(s) == \A i, j \in DOMAIN s : s[i] = s[j] => i = j

\* The members of S in the order of a sequence are those, each once.
LEMMA InOrderIs ==
  ASSUME NEW T, NEW s \in Seq(T), Once(s), NEW S
  PROVE  /\ Flat!InOrder(s, S) \in Seq(T) /\ Once(Flat!InOrder(s, S))
         /\ Elements(Flat!InOrder(s, S)) = Elements(s) \cap S
<1>. DEFINE N == Len(s)
            Makes(f) == f = [i \in 0..N |-> IF i = 0 THEN <<>>
                                            ELSE IF s[i] \in S THEN Append(f[i - 1], s[i]) ELSE f[i - 1]]
            step == [x \in (1..N) \X Seq(T) |-> IF s[x[1]] \in S THEN Append(x[2], s[x[1]]) ELSE x[2]]
            kept == CHOOSE f : Makes(f)
<1>1. N \in Nat /\ DOMAIN s = 1..N /\ (\A i \in 1..N : s[i] \in T) /\ <<>> \in Seq(T)
  OBVIOUS
<1>3. Flat!InOrder(s, S) = kept[N]
  BY Zenon DEF Flat!InOrder
<1>. HIDE DEF N
<1>2. Makes(kept)
  <2>1. step \in [(1..N) \X Seq(T) -> Seq(T)]
    BY <1>1
  <2>2. \A i \in 1..N : \A q \in Seq(T) : step[<<i, q>>] = IF s[i] \in S THEN Append(q, s[i]) ELSE q
    OBVIOUS
  <2>. HIDE DEF step
  <2>3. PICK f \in [0..N -> Seq(T)] : f[0] = <<>> /\ \A i \in 1..N : f[i] = step[<<i, f[i - 1]>>]
    <3>1. \E f : Follows(f, N, Seq(T), <<>>, step)
      BY <1>1, <2>1, Recursion
    <3>. QED BY <3>1 DEF Follows
  <2>4. \A i \in 1..N : f[i - 1] \in Seq(T)
    BY <1>1
  <2>5. \A i \in 1..N : f[i] = IF s[i] \in S THEN Append(f[i - 1], s[i]) ELSE f[i - 1]
    BY <2>2, <2>3, <2>4
  <2>6. Makes(f)
    <3>1. f = [i \in 0..N |-> f[i]]
      BY <2>3
    <3>2. \A i \in 0..N : f[i] = IF i = 0 THEN <<>>
                                ELSE IF s[i] \in S THEN Append(f[i - 1], s[i]) ELSE f[i - 1]
      <4>1. TAKE i \in 0..N
      <4>2. i # 0 => i \in 1..N
        BY <1>1
      <4>. QED BY <2>3, <2>5, <4>2
    <3>. QED BY <3>1, <3>2
  <2>. HIDE DEF Makes
  <2>. QED BY <2>6
<1>4. kept[0] = <<>> /\ \A i \in 1..N : kept[i] = IF s[i] \in S THEN Append(kept[i - 1], s[i]) ELSE kept[i - 1]
  <2>. HIDE DEF kept
  <2>1. \A i \in 0..N : kept[i] = IF i = 0 THEN <<>>
                                 ELSE IF s[i] \in S THEN Append(kept[i - 1], s[i]) ELSE kept[i - 1]
    BY <1>2
  <2>2. 0 \in 0..N /\ \A i \in 1..N : i \in 0..N /\ i # 0
    BY <1>1
  <2>3. kept[0] = <<>>
    BY <2>1, <2>2
  <2>4. ASSUME NEW i \in 1..N PROVE kept[i] = IF s[i] \in S THEN Append(kept[i - 1], s[i]) ELSE kept[i - 1]
    BY <2>1, <2>2
  <2>. QED BY <2>3, <2>4
<1>. HIDE DEF kept, Makes
<1>. DEFINE K == {k \in Nat : k <= N => /\ kept[k] \in Seq(T) /\ Once(kept[k])
                                        /\ Elements(kept[k]) = {s[i] : i \in 1..k} \cap S}
<1>5. 0 \in K
  <2>1. kept[0] \in Seq(T) /\ DOMAIN kept[0] = {} /\ 1..0 = {}
    BY <1>1, <1>4
  <2>. QED BY <2>1 DEF Once, Elements
<1>6. ASSUME NEW k \in K
      PROVE  k + 1 \in K
  <2>1. SUFFICES ASSUME k + 1 <= N
                 PROVE  /\ kept[k + 1] \in Seq(T) /\ Once(kept[k + 1])
                        /\ Elements(kept[k + 1]) = {s[i] : i \in 1..(k + 1)} \cap S
    BY Z3
  <2>2. /\ kept[k] \in Seq(T) /\ Once(kept[k]) /\ Elements(kept[k]) = {s[i] : i \in 1..k} \cap S
        /\ k + 1 \in 1..N /\ (k + 1) - 1 = k /\ k \in Nat
    <3>1. k \in Nat /\ k <= N /\ k + 1 \in 1..N /\ (k + 1) - 1 = k
      BY <1>1, <2>1
    <3>. QED BY <3>1
  <2>3. kept[k + 1] = IF s[k + 1] \in S THEN Append(kept[k], s[k + 1]) ELSE kept[k]
    BY <1>4, <2>2
  <2>4. {s[i] : i \in 1..(k + 1)} = {s[i] : i \in 1..k} \cup {s[k + 1]}
    BY <2>2
  <2>5. CASE s[k + 1] \notin S
    BY <2>2, <2>3, <2>4, <2>5
  <2>6. CASE s[k + 1] \in S
    <3>. DEFINE q == kept[k]
                r == Append(q, s[k + 1])
    <3>1. /\ r \in Seq(T) /\ Len(r) = Len(q) + 1 /\ (\A i \in 1..Len(q) : r[i] = q[i])
          /\ r[Len(q) + 1] = s[k + 1] /\ Len(q) \in Nat
      BY <1>1, <2>2, AppendProperties
    <3>2. DOMAIN q = 1..Len(q) /\ DOMAIN r = 1..(Len(q) + 1)
      BY <2>2, <3>1
    <3>3. s[k + 1] \notin {s[i] : i \in 1..k}
      BY <1>1, <2>2 DEF Once
    <3>. HIDE DEF r, q
    <3>4. \A i \in 1..Len(q) : q[i] # s[k + 1]
      BY <2>2, <3>2, <3>3 DEF Elements, q
    <3>5. Once(r)
      <4>1. \A i, j \in 1..Len(q) : q[i] = q[j] => i = j
        BY <2>2, <3>2 DEF Once, q
      <4>2. \A i \in 1..(Len(q) + 1) : i # Len(q) + 1 => i \in 1..Len(q)
        BY <3>1
      <4>3. \A i, j \in 1..(Len(q) + 1) : r[i] = r[j] => i = j
        BY <3>1, <3>4, <4>1, <4>2
      <4>. QED BY <3>2, <4>3 DEF Once
    <3>6. Elements(r) = Elements(q) \cup {s[k + 1]}
      BY <3>1, <3>2 DEF Elements
    <3>. QED BY <2>2, <2>3, <2>4, <2>6, <3>1, <3>5, <3>6 DEF q, r
  <2>. QED BY <2>5, <2>6
<1>7. K = Nat
  BY <1>5, <1>6, Counting
<1>8. /\ kept[N] \in Seq(T) /\ Once(kept[N]) /\ Elements(kept[N]) = {s[i] : i \in 1..N} \cap S
  <2>1. N \in K
    <3>. HIDE DEF K
    <3>. QED BY <1>1, <1>7
  <2>2. N <= N
    BY <1>1
  <2>. QED BY <2>1, <2>2
<1>. QED BY <1>1, <1>3, <1>8 DEF Elements

\* A finite number of numbers has a largest.
LEMMA LargestIs ==
  ASSUME NEW n \in Nat \ {0}, NEW f, \A i \in 1..n : f[i] \in Nat
  PROVE  LET S == {f[i] : i \in 1..n}
         IN Flat!Largest(S) \in S /\ \A x \in S : x <= Flat!Largest(S)
<1>. DEFINE S == {f[i] : i \in 1..n}
            K == {k \in Nat : k + 1 <= n => \E i \in 1..(k + 1) : \A j \in 1..(k + 1) : f[j] <= f[i]}
<1>1. 0 \in K
  OBVIOUS
<1>2. ASSUME NEW k \in K
      PROVE  k + 1 \in K
  <2>1. SUFFICES ASSUME k + 2 <= n PROVE \E i \in 1..(k + 2) : \A j \in 1..(k + 2) : f[j] <= f[i]
    BY Z3
  <2>2. PICK i \in 1..(k + 1) : \A j \in 1..(k + 1) : f[j] <= f[i]
    BY <2>1
  <2>3. k + 2 \in 1..n /\ (\A j \in 1..(k + 2) : f[j] \in Nat) /\ i \in 1..(k + 2) /\ k + 2 \in 1..(k + 2)
        /\ \A j \in 1..(k + 2) : j # k + 2 => j \in 1..(k + 1)
    BY <2>1
  <2>. QED BY <2>2, <2>3
<1>3. K = Nat
  BY <1>1, <1>2, Counting
<1>4. n - 1 \in Nat /\ (n - 1) + 1 = n /\ n <= n
  OBVIOUS
<1>5. n - 1 \in K
  BY <1>3, <1>4
<1>6. \E i \in 1..n : \A j \in 1..n : f[j] <= f[i]
  BY <1>4, <1>5
<1>7. \E x \in S : \A y \in S : y <= x
  BY <1>6
<1>. HIDE DEF S
<1>8. Flat!Largest(S) \in S /\ \A x \in S : x <= Flat!Largest(S)
  BY <1>7, Zenon DEF Flat!Largest
<1>. QED BY <1>8 DEF S

\* A sequence without repetition is as long as it has elements.
LEMMA OnceCounts ==
  ASSUME NEW T, NEW s \in Seq(T), Once(s)
  PROVE  IsFiniteSet(Elements(s)) /\ Cardinality(Elements(s)) = Len(s)
<1>. DEFINE f == [i \in 1..Len(s) |-> s[i]]
<1>1. Len(s) \in Nat /\ DOMAIN s = 1..Len(s)
  OBVIOUS
<1>2. IsFiniteSet(1..Len(s)) /\ Cardinality(1..Len(s)) = Len(s)
  BY <1>1, FS_Interval, SMTT(25)
<1>3. f \in Bijection(1..Len(s), Elements(s))
  BY <1>1, Fun_IsBij DEF Once, Elements
<1>4. IsFiniteSet(Elements(s)) /\ Cardinality(Elements(s)) = Cardinality(1..Len(s))
  <2>1. ExistsBijection(1..Len(s), Elements(s))
    BY <1>3 DEF ExistsBijection
  <2>. QED BY <1>2, <2>1, FS_Bijection
<1>. QED BY <1>2, <1>4

LEMMA IdsAreCounted ==
  /\ FlatIds \in Seq(Flat!AllIds) /\ Once(FlatIds) /\ Elements(FlatIds) = Flat!AllIds /\ Len(FlatIds) \in Nat
  /\ IsFiniteSet(Flat!AllIds) /\ Cardinality(Flat!AllIds) = Len(FlatIds)
<1>1. FlatIds \in Seq(Flat!AllIds) /\ Once(FlatIds) /\ Elements(FlatIds) = Flat!AllIds
  BY FlatConstants DEF IsListing, Once, Elements, Flat!AllIds
<1>. QED BY <1>1, OnceCounts

\* The targets of some of the nodes are among them.
Linked(targets) ==
  DOMAIN targets \subseteq Flat!AllIds /\ \A n \in DOMAIN targets : targets[n] \subseteq DOMAIN targets

\* The nodes whose turn has been.
Done(walk, at) == {walk.queue[i] : i \in {j \in DOMAIN walk.queue : j <= at}}

\* The ranks follow what is done.
RankFits(targets, done, ranks, n) ==
  /\ Flat!Before(targets, n) \cap done = {} => ranks[n] = 0
  /\ Flat!Before(targets, n) \cap done # {} => \E m \in Flat!Before(targets, n) \cap done : ranks[n] = ranks[m] + 1
  /\ \A m \in Flat!Before(targets, n) \cap done : ranks[m] + 1 <= ranks[n]

\* Counted are the sources of a node that are not done; queued, after its sources, is a node
\* with none; and the ranks follow what is done.
WalkInv(targets, walk, at) ==
  /\ walk.queue \in Seq(DOMAIN targets) /\ Once(walk.queue)
  /\ walk.ranks \in [DOMAIN targets -> Nat]
  /\ \A n \in DOMAIN targets :
       /\ walk.incoming[n] = Cardinality(Flat!Before(targets, n) \ Done(walk, at))
       /\ n \in Elements(walk.queue) <=> walk.incoming[n] = 0
       /\ RankFits(targets, Done(walk, at), walk.ranks, n)
  /\ \A i \in DOMAIN walk.queue : \A m \in Flat!Before(targets, walk.queue[i]) :
       \E j \in DOMAIN walk.queue : j < i /\ j <= at /\ walk.queue[j] = m

LEMMA BeforeIsFinite ==
  ASSUME NEW targets, Linked(targets), NEW n, NEW P
  PROVE  /\ IsFiniteSet(Flat!Before(targets, n) \ P) /\ Cardinality(Flat!Before(targets, n) \ P) \in Nat
         /\ Cardinality(Flat!Before(targets, n) \ P) = 0 <=> Flat!Before(targets, n) \subseteq P
<1>1. (Flat!Before(targets, n) \ P) \subseteq Flat!AllIds
  BY DEF Linked, Flat!Before
<1>2. IsFiniteSet(Flat!Before(targets, n) \ P)
  BY <1>1, IdsAreCounted, FS_Subset
<1>3. Cardinality(Flat!Before(targets, n) \ P) \in Nat
  BY <1>2, FS_CardinalityType
<1>4. Cardinality(Flat!Before(targets, n) \ P) = 0 <=> Flat!Before(targets, n) \ P = {}
  BY <1>2, FS_EmptySet
<1>. QED BY <1>2, <1>3, <1>4

\* A node that has no source left is queued, and no other, in a turn.
LEMMA TurnGoesOn ==
  ASSUME NEW targets, Linked(targets), NEW at \in Nat \ {0}, NEW walk, WalkInv(targets, walk, at - 1)
  PROVE  WalkInv(targets, Flat!Turn(targets, at, walk), at)
<1>. DEFINE D == DOMAIN targets
            Q == walk.queue
            P == Done(walk, at - 1)
            B(n) == Flat!Before(targets, n)
<1>1. Q \in Seq(D) /\ Once(Q) /\ DOMAIN Q = 1..Len(Q) /\ Len(Q) \in Nat
  BY DEF WalkInv
<1>2. walk.ranks \in [D -> Nat]
  BY DEF WalkInv
<1>3. \A n \in D : /\ walk.incoming[n] = Cardinality(B(n) \ P)
                   /\ n \in Elements(Q) <=> walk.incoming[n] = 0
                   /\ RankFits(targets, P, walk.ranks, n)
  BY DEF WalkInv
<1>4. \A i \in DOMAIN Q : \A m \in B(Q[i]) : \E j \in DOMAIN Q : j < i /\ j <= at - 1 /\ Q[j] = m
  BY DEF WalkInv
<1>5. CASE at > Len(Q)
  <2>1. Flat!Turn(targets, at, walk) = walk
    BY <1>5 DEF Flat!Turn
  <2>2. Done(walk, at) = P
    BY <1>1, <1>5 DEF Done
  <2>3. \A j \in 1..Len(Q) : j <= at - 1 => j <= at
    BY <1>1
  <2>4. \A i \in DOMAIN Q : \A m \in B(Q[i]) : \E j \in DOMAIN Q : j < i /\ j <= at /\ Q[j] = m
    BY <1>1, <1>4, <2>3
  <2>5. WalkInv(targets, walk, at)
    BY <1>1, <1>2, <1>3, <2>2, <2>4 DEF WalkInv
  <2>. QED BY <2>1, <2>5
<1>6. CASE at <= Len(Q)
  <2>. DEFINE current == Q[at]
              incoming == [n \in D |-> walk.incoming[n] - IF n \in targets[current] THEN 1 ELSE 0]
              ranks == [n \in D |-> IF n \in targets[current]
                                      THEN Flat!Largest({walk.ranks[n], walk.ranks[current] + 1})
                                      ELSE walk.ranks[n]]
              fresh == {n \in targets[current] : incoming[n] = 0}
              ready == Flat!InOrder(FlatIds, fresh)
              next == [queue |-> Q \o ready, incoming |-> incoming, ranks |-> ranks]
              R == Q \o ready
              E == P \cup {current}
  <2>1. Flat!Turn(targets, at, walk) = next
    BY <1>1, <1>6 DEF Flat!Turn
  <2>2. at \in 1..Len(Q) /\ at \in DOMAIN Q /\ current \in D /\ targets[current] \subseteq D
    BY <1>1, <1>6 DEF Linked
  <2>3. current \notin P
    BY <1>1, <2>2 DEF Done, Once
  <2>4. \A n \in D : n \in targets[current] <=> current \in B(n)
    BY <2>2 DEF Flat!Before
  <2>5. \A n \in D : /\ incoming[n] = walk.incoming[n] - IF n \in targets[current] THEN 1 ELSE 0
                     /\ ranks[n] = IF n \in targets[current]
                                     THEN Flat!Largest({walk.ranks[n], walk.ranks[current] + 1})
                                     ELSE walk.ranks[n]
    OBVIOUS
  <2>. HIDE DEF current, incoming, ranks
  <2>6. \A n \in D : incoming[n] = Cardinality(B(n) \ E) /\ incoming[n] \in Nat
    <3>1. TAKE n \in D
    <3>2. IsFiniteSet(B(n) \ P) /\ Cardinality(B(n) \ P) \in Nat /\ Cardinality(B(n) \ E) \in Nat
      BY BeforeIsFinite
    <3>3. CASE n \in targets[current]
      <4>1. current \in B(n) \ P /\ B(n) \ E = (B(n) \ P) \ {current}
        BY <2>3, <2>4, <3>3
      <4>2. Cardinality(B(n) \ E) = Cardinality(B(n) \ P) - 1
        <5>. DEFINE W == B(n) \ P
        <5>1. IsFiniteSet(W) /\ current \in W /\ B(n) \ E = W \ {current}
          BY <3>2, <4>1
        <5>2. Cardinality(W \ {current}) = Cardinality(W) - 1
          <6>. HIDE DEF W
          <6>. QED BY <5>1, FS_RemoveElement
        <5>. QED BY <5>1, <5>2
      <4>3. incoming[n] = walk.incoming[n] - 1
        BY <2>5, <3>3
      <4>4. walk.incoming[n] = Cardinality(B(n) \ P)
        BY <1>3
      <4>. QED BY <3>2, <4>2, <4>3, <4>4
    <3>4. CASE n \notin targets[current]
      <4>1. B(n) \ E = B(n) \ P
        BY <2>4, <3>4
      <4>2. incoming[n] = walk.incoming[n] - 0
        BY <2>5, <3>4
      <4>3. walk.incoming[n] = Cardinality(B(n) \ P)
        BY <1>3
      <4>4. Cardinality(B(n) \ E) = Cardinality(B(n) \ P)
        BY <4>1, Zenon
      <4>5. \A k \in Nat : k - 0 = k
        OBVIOUS
      <4>6. incoming[n] = Cardinality(B(n) \ P)
        BY <3>2, <4>2, <4>3, <4>5, Zenon
      <4>. QED BY <3>2, <4>4, <4>6, Zenon
    <3>. QED BY <3>3, <3>4
  <2>7. ready \in Seq(Flat!AllIds) /\ Once(ready) /\ Elements(ready) = fresh /\ fresh \subseteq D
    <3>1. fresh \subseteq D /\ fresh \subseteq Flat!AllIds
      BY <2>2 DEF Linked
    <3>. HIDE DEF fresh
    <3>2. FlatIds \in Seq(Flat!AllIds) /\ Once(FlatIds) /\ Elements(FlatIds) = Flat!AllIds
      BY IdsAreCounted
    <3>3. ready \in Seq(Flat!AllIds) /\ Once(ready) /\ Elements(ready) = Flat!AllIds \cap fresh
      BY <3>2, InOrderIs
    <3>. QED BY <3>1, <3>3
  <2>8. fresh \cap Elements(Q) = {}
    <3>1. SUFFICES ASSUME NEW n \in fresh, n \in Elements(Q) PROVE FALSE
      OBVIOUS
    <3>2. n \in D /\ walk.incoming[n] = 0 /\ n \in targets[current]
      BY <1>3, <2>7, <3>1
    <3>3. incoming[n] = 0 - 1
      BY <2>5, <3>2
    <3>. QED BY <2>6, <3>2, <3>3
  <2>. HIDE DEF ready, fresh
  <2>9. Len(ready) \in Nat /\ DOMAIN ready = 1..Len(ready) /\ ready \in Seq(D)
    <3>1. Len(ready) \in Nat /\ DOMAIN ready = 1..Len(ready)
      BY <2>7
    <3>2. \A i \in 1..Len(ready) : ready[i] \in D
      BY <2>7, <3>1 DEF Elements
    <3>. QED BY <2>7, <3>1, <3>2
  <2>10. /\ R \in Seq(D) /\ Len(R) = Len(Q) + Len(ready) /\ DOMAIN R = 1..(Len(Q) + Len(ready))
         /\ \A i \in 1..Len(Q) : R[i] = Q[i]
         /\ \A i \in 1..Len(ready) : R[Len(Q) + i] = ready[i]
    <3>. HIDE DEF D, Q
    <3>1. /\ R \in Seq(D) /\ Len(R) = Len(Q) + Len(ready)
          /\ \A i \in 1..(Len(Q) + Len(ready)) : R[i] = IF i <= Len(Q) THEN Q[i] ELSE ready[i - Len(Q)]
      BY <1>1, <2>9, ConcatProperties
    <3>2. \A i \in 1..Len(Q) : i \in 1..(Len(Q) + Len(ready)) /\ i <= Len(Q)
      BY <1>1, <2>9
    <3>3. \A i \in 1..Len(ready) : Len(Q) + i \in 1..(Len(Q) + Len(ready)) /\ ~(Len(Q) + i <= Len(Q))
                                   /\ (Len(Q) + i) - Len(Q) = i
      BY <1>1, <2>9
    <3>4. DOMAIN R = 1..(Len(Q) + Len(ready))
      BY <3>1
    <3>. QED BY <3>1, <3>2, <3>3, <3>4
  <2>. HIDE DEF R
  <2>11. \A k \in DOMAIN R : k \in 1..Len(Q) \/ \E i \in 1..Len(ready) : k = Len(Q) + i
    <3>1. TAKE k \in DOMAIN R
    <3>2. CASE k <= Len(Q)
      BY <1>1, <2>10, <3>2
    <3>3. CASE k > Len(Q)
      <4>1. k - Len(Q) \in 1..Len(ready) /\ k = Len(Q) + (k - Len(Q))
        BY <1>1, <2>9, <2>10, <3>3
      <4>. QED BY <4>1
    <3>. QED BY <1>1, <2>9, <2>10, <3>2, <3>3
  <2>12. Elements(R) = Elements(Q) \cup fresh
    <3>1. \A i \in 1..Len(Q) : i \in DOMAIN R
      BY <1>1, <2>9, <2>10
    <3>2. \A i \in 1..Len(ready) : Len(Q) + i \in DOMAIN R
      BY <1>1, <2>9, <2>10
    <3>3. ASSUME NEW k \in DOMAIN R PROVE R[k] \in Elements(Q) \cup Elements(ready)
      <4>1. CASE k \in 1..Len(Q)
        BY <1>1, <2>10, <4>1 DEF Elements
      <4>2. CASE k \notin 1..Len(Q)
        <5>1. PICK i \in 1..Len(ready) : k = Len(Q) + i
          BY <2>11, <4>2
        <5>2. R[k] = ready[i] /\ i \in DOMAIN ready
          BY <2>9, <2>10, <5>1
        <5>. QED BY <5>2 DEF Elements
      <4>. QED BY <4>1, <4>2
    <3>4. Elements(Q) \subseteq Elements(R)
      BY <1>1, <2>10, <3>1 DEF Elements
    <3>5. Elements(ready) \subseteq Elements(R)
      BY <2>9, <2>10, <3>2 DEF Elements
    <3>6. Elements(R) \subseteq Elements(Q) \cup Elements(ready)
      BY <3>3 DEF Elements
    <3>. QED BY <2>7, <3>4, <3>5, <3>6
  <2>13. Once(R)
    <3>1. \A i \in 1..Len(Q) : R[i] \in Elements(Q)
      BY <1>1, <2>10 DEF Elements
    <3>2. \A i \in 1..Len(ready) : R[Len(Q) + i] \in fresh
      BY <2>7, <2>9, <2>10 DEF Elements
    <3>3. \A i, j \in 1..Len(Q) : R[i] = R[j] => i = j
      BY <1>1, <2>10 DEF Once
    <3>4. \A i, j \in 1..Len(ready) : R[Len(Q) + i] = R[Len(Q) + j] => Len(Q) + i = Len(Q) + j
      <4>1. \A i, j \in 1..Len(ready) : ready[i] = ready[j] => i = j
        BY <2>7, <2>9 DEF Once
      <4>2. \A i \in 1..Len(ready) : R[Len(Q) + i] = ready[i]
        BY <2>10
      <4>. QED BY <4>1, <4>2
    <3>. QED BY <2>8, <2>11, <3>1, <3>2, <3>3, <3>4 DEF Once
  <2>14. Done(next, at) = E
    <3>1. \A k \in DOMAIN R : k <= at => k \in 1..Len(Q)
      BY <1>1, <2>2, <2>9, <2>10
    <3>2. \A k \in 1..Len(Q) : k \in DOMAIN R /\ R[k] = Q[k]
      BY <1>1, <2>9, <2>10
    <3>3. Done(next, at) = {R[k] : k \in {j \in DOMAIN R : j <= at}}
      BY DEF Done, R
    <3>4. {R[k] : k \in {j \in DOMAIN R : j <= at}} = {Q[k] : k \in {j \in 1..Len(Q) : j <= at}}
      BY <3>1, <3>2
    <3>5. {Q[k] : k \in {j \in 1..Len(Q) : j <= at}} = P \cup {Q[at]}
      <4>1. P = {Q[k] : k \in {j \in 1..Len(Q) : j <= at - 1}}
        BY <1>1 DEF Done
      <4>2. \A j \in 1..Len(Q) : j <= at <=> j <= at - 1 \/ j = at
        BY <1>1
      <4>. QED BY <2>2, <4>1, <4>2
    <3>. QED BY <3>3, <3>4, <3>5 DEF current
  <2>15. \A n \in D : n \in Elements(R) <=> incoming[n] = 0
    <3>1. TAKE n \in D
    <3>2. CASE n \in targets[current]
      <4>1. walk.incoming[n] # 0
        <5>1. walk.incoming[n] = Cardinality(B(n) \ P) /\ Cardinality(B(n) \ P) \in Nat
          BY <1>3, BeforeIsFinite
        <5>2. incoming[n] = walk.incoming[n] - 1 /\ incoming[n] \in Nat
          BY <2>5, <2>6, <3>2
        <5>. QED BY <5>1, <5>2
      <4>2. n \notin Elements(Q)
        BY <1>3, <4>1
      <4>3. n \in fresh <=> incoming[n] = 0
        BY <3>2 DEF fresh
      <4>. QED BY <2>12, <4>2, <4>3
    <3>3. CASE n \notin targets[current]
      <4>1. Cardinality(B(n) \ P) \in Nat
        BY BeforeIsFinite
      <4>2. incoming[n] = walk.incoming[n]
        <5>1. incoming[n] = walk.incoming[n] - 0
          BY <2>5, <3>3
        <5>2. walk.incoming[n] = Cardinality(B(n) \ P)
          BY <1>3
        <5>. QED BY <4>1, <5>1, <5>2
      <4>3. n \notin fresh
        BY <3>3 DEF fresh
      <4>. QED BY <1>3, <2>12, <4>2, <4>3
    <3>. QED BY <3>2, <3>3
  <2>16. ASSUME NEW i \in DOMAIN R, NEW m \in B(R[i])
         PROVE  \E j \in DOMAIN R : j < i /\ j <= at /\ R[j] = m
    <3>1. \A k \in 1..Len(Q) : k \in DOMAIN R /\ R[k] = Q[k]
      BY <1>1, <2>9, <2>10
    <3>2. CASE i \in 1..Len(Q)
      <4>1. m \in B(Q[i])
        BY <2>10, <3>2
      <4>2. PICK j \in DOMAIN Q : j < i /\ j <= at - 1 /\ Q[j] = m
        BY <1>1, <1>4, <3>2, <4>1
      <4>3. j \in 1..Len(Q) /\ j <= at
        BY <1>1, <4>2
      <4>. QED BY <3>1, <4>2, <4>3
    <3>3. CASE i \notin 1..Len(Q)
      <4>1. PICK k \in 1..Len(ready) : i = Len(Q) + k
        BY <2>11, <3>3
      <4>2. R[i] \in D /\ R[i] \in Elements(R)
        BY <2>10 DEF Elements
      <4>3. Cardinality(B(R[i]) \ E) = 0
        BY <2>6, <2>15, <4>2
      <4>4. m \in E
        BY <4>3, BeforeIsFinite
      <4>5. PICK j \in 1..Len(Q) : j <= at /\ Q[j] = m
        <5>1. CASE m \in P
          <6>1. PICK j \in DOMAIN Q : j <= at - 1 /\ Q[j] = m
            BY <5>1 DEF Done
          <6>. QED BY <1>1, <6>1
        <5>2. CASE m = current
          BY <2>2, <5>2 DEF current
        <5>. QED BY <4>4, <5>1, <5>2
      <4>6. j < i
        BY <1>1, <4>1, <4>5
      <4>. QED BY <3>1, <4>5, <4>6
    <3>. QED BY <3>2, <3>3
  <2>17. \A m \in E : m \in D /\ m \notin targets[current]
    <3>1. TAKE m \in E
    <3>2. PICK j \in DOMAIN Q : j <= at /\ Q[j] = m
      <4>1. CASE m \in P
        <5>1. PICK j \in DOMAIN Q : j <= at - 1 /\ Q[j] = m
          BY <4>1 DEF Done
        <5>. QED BY <1>1, <5>1
      <4>2. CASE m = current
        BY <2>2, <4>2 DEF current
      <4>. QED BY <4>1, <4>2
    <3>3. m \in D
      BY <1>1, <3>2
    <3>4. SUFFICES ASSUME m \in targets[current] PROVE FALSE
      BY <3>3
    <3>5. current \in B(Q[j])
      BY <2>4, <3>2, <3>3, <3>4
    <3>6. PICK k \in DOMAIN Q : k < j /\ Q[k] = current
      BY <1>4, <3>2, <3>5
    <3>7. k = at
      BY <1>1, <2>2, <3>6 DEF Once, current
    <3>. QED BY <1>1, <3>2, <3>6, <3>7
  <2>18. \A n \in D : /\ ranks[n] \in Nat
                      /\ n \notin targets[current] => ranks[n] = walk.ranks[n]
                      /\ n \in targets[current] =>
                           /\ ranks[n] \in {walk.ranks[n], walk.ranks[current] + 1}
                           /\ walk.ranks[n] <= ranks[n] /\ walk.ranks[current] + 1 <= ranks[n]
    <3>1. \A a, b \in Nat : Flat!Largest({a, b}) \in {a, b} /\ a <= Flat!Largest({a, b}) /\ b <= Flat!Largest({a, b})
      <4>1. TAKE a, b \in Nat
      <4>2. \E x \in {a, b} : \A y \in {a, b} : y <= x
        OBVIOUS
      <4>3. Flat!Largest({a, b}) \in {a, b} /\ \A y \in {a, b} : y <= Flat!Largest({a, b})
        BY <4>2, Zenon DEF Flat!Largest
      <4>. QED BY <4>3
    <3>2. TAKE n \in D
    <3>3. walk.ranks[n] \in Nat /\ walk.ranks[current] + 1 \in Nat
      BY <1>2, <2>2
    <3>4. CASE n \in targets[current]
      <4>1. ranks[n] = Flat!Largest({walk.ranks[n], walk.ranks[current] + 1})
        BY <2>5, <3>4
      <4>2. /\ ranks[n] \in {walk.ranks[n], walk.ranks[current] + 1}
            /\ walk.ranks[n] <= ranks[n] /\ walk.ranks[current] + 1 <= ranks[n]
        BY <3>1, <3>3, <4>1
      <4>. QED BY <3>3, <3>4, <4>2
    <3>5. CASE n \notin targets[current]
      BY <2>5, <3>3, <3>5
    <3>. QED BY <3>4, <3>5
  <2>19. \A n \in D : RankFits(targets, E, ranks, n)
    <3>1. \A m \in E : ranks[m] = walk.ranks[m]
      BY <2>17, <2>18
    <3>2. TAKE n \in D
    <3>3. /\ B(n) \cap P = {} => walk.ranks[n] = 0
          /\ B(n) \cap P # {} => \E m \in B(n) \cap P : walk.ranks[n] = walk.ranks[m] + 1
          /\ \A m \in B(n) \cap P : walk.ranks[m] + 1 <= walk.ranks[n]
      BY <1>3 DEF RankFits
    <3>4. walk.ranks[n] \in Nat /\ walk.ranks[current] \in Nat /\ ranks[n] \in Nat
          /\ \A m \in E : walk.ranks[m] \in Nat
      BY <1>2, <2>2, <2>17, <2>18
    <3>5. CASE n \notin targets[current]
      <4>1. B(n) \cap E = B(n) \cap P /\ ranks[n] = walk.ranks[n]
        BY <2>4, <2>18, <3>5
      <4>. QED BY <3>1, <3>3, <4>1 DEF RankFits
    <3>6. CASE n \in targets[current]
      <4>1. B(n) \cap E = (B(n) \cap P) \cup {current}
        BY <2>4, <3>6
      <4>2. ranks[current] = walk.ranks[current] /\ current \in B(n) \cap E
        BY <3>1, <4>1
      <4>3. /\ ranks[n] \in {walk.ranks[n], walk.ranks[current] + 1}
            /\ walk.ranks[n] <= ranks[n] /\ walk.ranks[current] + 1 <= ranks[n]
        BY <2>18, <3>6
      <4>4. \A m \in B(n) \cap E : ranks[m] + 1 <= ranks[n]
        BY <3>1, <3>3, <3>4, <4>1, <4>3
      <4>5. \E m \in B(n) \cap E : ranks[n] = ranks[m] + 1
        <5>1. CASE ranks[n] = walk.ranks[current] + 1
          BY <4>2, <5>1
        <5>2. CASE ranks[n] # walk.ranks[current] + 1
          <6>1. ranks[n] = walk.ranks[n] /\ walk.ranks[n] # 0
            BY <3>4, <4>3, <5>2
          <6>2. PICK m \in B(n) \cap P : walk.ranks[n] = walk.ranks[m] + 1
            BY <3>3, <6>1
          <6>. QED BY <3>1, <4>1, <6>1, <6>2
        <5>. QED BY <5>1, <5>2
      <4>. QED BY <4>2, <4>4, <4>5 DEF RankFits
    <3>. QED BY <3>5, <3>6
  <2>20. next.queue = R /\ next.incoming = incoming /\ next.ranks = ranks
    BY DEF R
  <2>21. ranks \in [D -> Nat]
    <3>1. ranks = [n \in D |-> ranks[n]]
      BY DEF ranks
    <3>. QED BY <2>18, <3>1
  <2>. HIDE DEF next
  <2>22. WalkInv(targets, next, at)
    <3>1. next.queue \in Seq(D) /\ Once(next.queue) /\ next.ranks \in [D -> Nat]
      BY <2>10, <2>13, <2>20, <2>21
    <3>2. ASSUME NEW n \in D
          PROVE  /\ next.incoming[n] = Cardinality(Flat!Before(targets, n) \ Done(next, at))
                 /\ n \in Elements(next.queue) <=> next.incoming[n] = 0
                 /\ RankFits(targets, Done(next, at), next.ranks, n)
      BY <2>6, <2>14, <2>15, <2>19, <2>20
    <3>3. \A i \in DOMAIN next.queue : \A m \in Flat!Before(targets, next.queue[i]) :
            \E j \in DOMAIN next.queue : j < i /\ j <= at /\ next.queue[j] = m
      BY <2>16, <2>20
    <3>. QED BY <3>1, <3>2, <3>3 DEF WalkInv
  <2>. QED BY <2>1, <2>22
<1>. QED BY <1>1, <1>5, <1>6

\* The loop begins with the nodes that have no source.
LEMMA WalkBegins ==
  ASSUME NEW targets, Linked(targets), NEW walk,
         walk.queue = Flat!InOrder(FlatIds, {n \in DOMAIN targets : walk.incoming[n] = 0}),
         walk.ranks = [n \in DOMAIN targets |-> 0],
         \A n \in DOMAIN targets : walk.incoming[n] = Cardinality(Flat!Before(targets, n))
  PROVE  WalkInv(targets, walk, 0)
<1>. DEFINE D == DOMAIN targets
            fresh == {n \in D : walk.incoming[n] = 0}
            Q == Flat!InOrder(FlatIds, fresh)
<1>1. walk.queue = Q /\ walk.ranks = [n \in D |-> 0]
  OBVIOUS
<1>2. fresh \subseteq D /\ fresh \subseteq Flat!AllIds /\ \A n \in D : n \in fresh <=> walk.incoming[n] = 0
  BY DEF Linked
<1>. HIDE DEF fresh
<1>3. Q \in Seq(Flat!AllIds) /\ Once(Q) /\ Elements(Q) = fresh
  <2>1. FlatIds \in Seq(Flat!AllIds) /\ Once(FlatIds) /\ Elements(FlatIds) = Flat!AllIds
    BY IdsAreCounted
  <2>2. Q \in Seq(Flat!AllIds) /\ Once(Q) /\ Elements(Q) = Flat!AllIds \cap fresh
    BY <2>1, InOrderIs
  <2>. QED BY <1>2, <2>2
<1>. HIDE DEF Q
<1>4. DOMAIN Q = 1..Len(Q) /\ Len(Q) \in Nat /\ \A i \in 1..Len(Q) : Q[i] \in fresh
  <2>1. DOMAIN Q = 1..Len(Q) /\ Len(Q) \in Nat
    BY <1>3
  <2>. QED BY <1>3, <2>1 DEF Elements
<1>5. Q \in Seq(D)
  BY <1>2, <1>3, <1>4
<1>6. Done(walk, 0) = {}
  BY <1>1, <1>4 DEF Done
<1>7. ASSUME NEW n \in D
      PROVE  /\ walk.incoming[n] = Cardinality(Flat!Before(targets, n) \ Done(walk, 0))
             /\ n \in Elements(walk.queue) <=> walk.incoming[n] = 0
             /\ RankFits(targets, Done(walk, 0), walk.ranks, n)
  <2>1. Flat!Before(targets, n) \ Done(walk, 0) = Flat!Before(targets, n)
    BY <1>6
  <2>2. walk.incoming[n] = Cardinality(Flat!Before(targets, n) \ Done(walk, 0))
    BY <2>1
  <2>3. RankFits(targets, Done(walk, 0), walk.ranks, n)
    BY <1>1, <1>6 DEF RankFits
  <2>. QED BY <1>1, <1>2, <1>3, <2>2, <2>3
<1>8. ASSUME NEW i \in DOMAIN Q
      PROVE  Flat!Before(targets, Q[i]) = {}
  <2>1. Q[i] \in D /\ walk.incoming[Q[i]] = 0
    BY <1>2, <1>4
  <2>2. Cardinality(Flat!Before(targets, Q[i]) \ {}) = 0
    BY <2>1
  <2>3. Flat!Before(targets, Q[i]) \subseteq {}
    <3>. HIDE DEF Q
    <3>. DEFINE q == Q[i]
    <3>. HIDE DEF q
    <3>1. Cardinality(Flat!Before(targets, q) \ {}) = 0 <=> Flat!Before(targets, q) \subseteq {}
      BY BeforeIsFinite
    <3>. QED BY <2>2, <3>1 DEF q
  <2>. QED BY <2>3
<1>9. walk.queue \in Seq(D) /\ Once(walk.queue) /\ walk.ranks \in [D -> Nat]
  BY <1>1, <1>3, <1>5
<1>10. \A i \in DOMAIN walk.queue : \A m \in Flat!Before(targets, walk.queue[i]) :
         \E j \in DOMAIN walk.queue : j < i /\ j <= 0 /\ walk.queue[j] = m
  BY <1>1, <1>8
<1>. QED BY <1>7, <1>9, <1>10 DEF WalkInv

\* The loop ends with all turns taken.
LEMMA DrainEnds ==
  ASSUME NEW targets, Linked(targets)
  PROVE  WalkInv(targets, Flat!Drain(targets), Len(FlatIds))
<1>. DEFINE N == Len(FlatIds)
            incoming == [n \in DOMAIN targets |->
                           Flat!Cardinality({m \in DOMAIN targets : n \in targets[m]})]
            Start == [queue |-> Flat!InOrder(FlatIds, {n \in DOMAIN targets : incoming[n] = 0}),
                      incoming |-> incoming,
                      ranks |-> [n \in DOMAIN targets |-> 0]]
            Is(f, k) == f = [i \in 0..k |-> IF i = 0 THEN Start ELSE Flat!Turn(targets, i, f[i - 1])]
            walk == CHOOSE f : Is(f, N)
<1>1. Flat!Drain(targets) = walk[N]
  BY Zenon DEF Flat!Drain
<1>2. N \in Nat
  BY IdsAreCounted
<1>3. WalkInv(targets, Start, 0)
  <2>1. \A n \in DOMAIN targets : incoming[n] = Cardinality(Flat!Before(targets, n))
    BY CountedAlike DEF Flat!Before
  <2>. HIDE DEF incoming
  <2>2. Start.incoming = incoming
    OBVIOUS
  <2>3. /\ Start.queue = Flat!InOrder(FlatIds, {n \in DOMAIN targets : Start.incoming[n] = 0})
        /\ Start.ranks = [n \in DOMAIN targets |-> 0]
    BY <2>2
  <2>4. \A n \in DOMAIN targets : Start.incoming[n] = Cardinality(Flat!Before(targets, n))
    BY <2>1, <2>2
  <2>. HIDE DEF Start
  <2>. QED BY <2>3, <2>4, WalkBegins
<1>. HIDE DEF N, Start
<1>4. \E f : Is(f, N)
  <2>. DEFINE K == {k \in Nat : \E f : Is(f, k)}
  <2>1. 0 \in K
    <3>. DEFINE g == [i \in 0..0 |-> Start]
    <3>1. g = [i \in 0..0 |-> IF i = 0 THEN Start ELSE Flat!Turn(targets, i, g[i - 1])]
      OBVIOUS
    <3>2. Is(g, 0)
      BY <3>1
    <3>. HIDE DEF Is, g
    <3>. QED BY <3>2
  <2>2. ASSUME NEW k \in K
        PROVE  k + 1 \in K
    <3>1. PICK f : Is(f, k)
      OBVIOUS
    <3>. DEFINE g == [i \in 0..(k + 1) |-> IF i = k + 1 THEN Flat!Turn(targets, k + 1, f[k]) ELSE f[i]]
    <3>2. k \in Nat /\ k \in 0..k
      OBVIOUS
    <3>3. \A i \in 0..k : f[i] = IF i = 0 THEN Start ELSE Flat!Turn(targets, i, f[i - 1])
      BY <3>1, Zenon
    <3>4. ASSUME NEW i \in 0..(k + 1)
          PROVE  g[i] = IF i = 0 THEN Start ELSE Flat!Turn(targets, i, g[i - 1])
      <4>1. CASE i = 0
        <5>1. i \in 0..k /\ i # k + 1
          BY <3>2, <4>1
        <5>2. g[i] = f[i] /\ f[i] = Start
          BY <3>3, <4>1, <5>1
        <5>. QED BY <4>1, <5>2
      <4>2. CASE i # 0
        <5>1. i - 1 \in 0..(k + 1) /\ i - 1 \in 0..k /\ i - 1 # k + 1 /\ (i # k + 1 => i \in 0..k)
              /\ (i = k + 1 => i - 1 = k)
          BY <3>2, <4>2
        <5>2. g[i - 1] = f[i - 1]
          BY <5>1
        <5>3. CASE i = k + 1
          <6>1. g[i] = Flat!Turn(targets, k + 1, f[k]) /\ i - 1 = k
            BY <5>1, <5>3
          <6>. HIDE DEF g
          <6>2. g[i] = Flat!Turn(targets, i, g[i - 1])
            BY <5>2, <5>3, <6>1
          <6>. QED BY <4>2, <6>2
        <5>4. CASE i # k + 1
          <6>1. g[i] = f[i] /\ f[i] = Flat!Turn(targets, i, f[i - 1])
            BY <3>3, <4>2, <5>1, <5>4
          <6>. HIDE DEF g
          <6>2. g[i] = Flat!Turn(targets, i, g[i - 1])
            BY <5>2, <6>1
          <6>. QED BY <4>2, <6>2
        <5>. QED BY <5>3, <5>4
      <4>. QED BY <4>1, <4>2
    <3>5. g = [i \in 0..(k + 1) |-> g[i]]
      OBVIOUS
    <3>. HIDE DEF g
    <3>6. Is(g, k + 1)
      BY <3>4, <3>5
    <3>7. \E h : Is(h, k + 1)
      <4>. HIDE DEF Is
      <4>. QED BY <3>6
    <3>. HIDE DEF Is
    <3>. QED BY <3>2, <3>7
  <2>. HIDE DEF K
  <2>3. K = Nat
    <3>1. K \in SUBSET Nat
      BY DEF K
    <3>. QED BY <2>1, <2>2, <3>1, Counting
  <2>. QED BY <1>2, <2>3 DEF K
<1>5. walk = [i \in 0..N |-> IF i = 0 THEN Start ELSE Flat!Turn(targets, i, walk[i - 1])]
  <2>. HIDE DEF Is
  <2>1. Is(walk, N)
    BY <1>4
  <2>. HIDE DEF walk
  <2>. QED BY <2>1 DEF Is
<1>. HIDE DEF walk
<1>6. \A i \in 0..N : walk[i] = IF i = 0 THEN Start ELSE Flat!Turn(targets, i, walk[i - 1])
  BY <1>5, Zenon
<1>. DEFINE K == {k \in Nat : k <= N => WalkInv(targets, walk[k], k)}
<1>7. 0 \in K
  <2>1. 0 \in 0..N
    BY <1>2
  <2>2. walk[0] = Start
    BY <1>6, <2>1
  <2>. QED BY <1>3, <2>2
<1>8. ASSUME NEW k \in K
      PROVE  k + 1 \in K
  <2>1. SUFFICES ASSUME k + 1 <= N PROVE WalkInv(targets, walk[k + 1], k + 1)
    BY Z3
  <2>2. k \in Nat /\ k <= N /\ k + 1 \in 0..N /\ k + 1 # 0 /\ (k + 1) - 1 = k /\ k + 1 \in Nat \ {0}
    BY <1>2, <2>1
  <2>3. WalkInv(targets, walk[k], k)
    BY <2>2
  <2>4. walk[k + 1] = Flat!Turn(targets, k + 1, walk[k])
    BY <1>6, <2>2
  <2>5. WalkInv(targets, walk[k], (k + 1) - 1)
    BY <2>2, <2>3
  <2>6. WalkInv(targets, Flat!Turn(targets, k + 1, walk[k]), k + 1)
    BY <2>2, <2>5, TurnGoesOn
  <2>. QED BY <2>4, <2>6
<1>9. N \in K
  <2>1. K \in SUBSET Nat
    OBVIOUS
  <2>. HIDE DEF K
  <2>. QED BY <1>2, <1>7, <1>8, <2>1, Counting
<1>10. WalkInv(targets, walk[N], N)
  BY <1>2, <1>9
<1>. QED BY <1>1, <1>10 DEF N

LEMMA LargestEquals ==
  ASSUME NEW S \in SUBSET Nat, NEW x \in S, \A y \in S : y <= x
  PROVE  Flat!Largest(S) = x
<1>1. \E z \in S : \A y \in S : y <= z
  OBVIOUS
<1>2. Flat!Largest(S) \in S /\ \A y \in S : y <= Flat!Largest(S)
  BY <1>1, Zenon DEF Flat!Largest
<1>3. Flat!Largest(S) \in Nat /\ x \in Nat /\ x <= Flat!Largest(S) /\ Flat!Largest(S) <= x
  BY <1>2
<1>. QED BY <1>3

\* The nodes that are never reached are those on a cycle or behind one; the others come after
\* the last of those they are reached from.
LEMMA RanksAre ==
  ASSUME NEW targets, Linked(targets)
  PROVE  Flat!RanksFit(targets, Flat!Ranks(targets)) /\ Flat!Ranks(targets) \in [DOMAIN targets -> Nat]
<1>. DEFINE D == DOMAIN targets
            end == Flat!Drain(targets)
            Q == end.queue
            N == Len(FlatIds)
            done == Done(end, N)
            Endless == UNION {S \in SUBSET D : \A m \in S : Flat!Before(targets, m) \cap S # {}}
            ranks == Flat!Ranks(targets)
<1>1. WalkInv(targets, end, N)
  BY DrainEnds
<1>2. /\ N \in Nat /\ Q \in Seq(D) /\ Once(Q) /\ DOMAIN Q = 1..Len(Q) /\ Len(Q) \in Nat
      /\ end.ranks \in [D -> Nat]
  <2>1. Q \in Seq(D) /\ Once(Q) /\ end.ranks \in [D -> Nat]
    BY <1>1 DEF WalkInv
  <2>. QED BY <2>1, IdsAreCounted
<1>3. /\ \A n \in D : /\ end.incoming[n] = Cardinality(Flat!Before(targets, n) \ done)
                      /\ n \in Elements(Q) <=> end.incoming[n] = 0
                      /\ RankFits(targets, done, end.ranks, n)
      /\ \A i \in DOMAIN Q : \A m \in Flat!Before(targets, Q[i]) : \E j \in DOMAIN Q : j < i /\ Q[j] = m
  BY <1>1 DEF WalkInv
<1>4. ranks = [n \in D |-> IF end.incoming[n] > 0 THEN 0 ELSE end.ranks[n]]
  BY DEF Flat!Ranks
<1>5. \A n \in D : Flat!Before(targets, n) \subseteq D
  BY DEF Flat!Before
<1>. HIDE DEF end, ranks, N
<1>6. done = Elements(Q)
  <2>1. Elements(Q) \subseteq Flat!AllIds
    BY <1>2 DEF Elements, Linked
  <2>2. Len(Q) = Cardinality(Elements(Q)) /\ Cardinality(Elements(Q)) <= Cardinality(Flat!AllIds)
    <3>. HIDE DEF Q
    <3>1. Cardinality(Elements(Q)) = Len(Q)
      BY <1>2, OnceCounts
    <3>2. Cardinality(Elements(Q)) <= Cardinality(Flat!AllIds)
      BY <2>1, IdsAreCounted, FS_Subset
    <3>. QED BY <3>1, <3>2
  <2>3. Len(Q) <= N
    BY <1>2, <2>2, IdsAreCounted DEF N
  <2>4. \A j \in 1..Len(Q) : j <= N
    BY <1>2, <2>3
  <2>5. {j \in DOMAIN Q : j <= N} = DOMAIN Q
    BY <1>2, <2>4
  <2>. QED BY <2>5 DEF Done, Elements
<1>. HIDE DEF done
<1>7. \A n \in D : /\ n \in done => Flat!Before(targets, n) \subseteq done /\ ~(end.incoming[n] > 0)
                   /\ n \notin done => ~(Flat!Before(targets, n) \subseteq done) /\ end.incoming[n] > 0
  <2>1. TAKE n \in D
  <2>2. /\ Cardinality(Flat!Before(targets, n) \ done) \in Nat
        /\ Cardinality(Flat!Before(targets, n) \ done) = 0 <=> Flat!Before(targets, n) \subseteq done
    BY BeforeIsFinite
  <2>3. end.incoming[n] = Cardinality(Flat!Before(targets, n) \ done) /\ (n \in done <=> end.incoming[n] = 0)
    BY <1>3, <1>6
  <2>. QED BY <2>2, <2>3
<1>8. Endless = D \ done
  <2>1. ASSUME NEW S \in SUBSET D, \A m \in S : Flat!Before(targets, m) \cap S # {}
        PROVE  S \cap done = {}
    <3>. DEFINE I == {i \in DOMAIN Q : Q[i] \in S}
    <3>1. SUFFICES ASSUME S \cap done # {} PROVE FALSE
      OBVIOUS
    <3>2. I # {} /\ I \in SUBSET Nat
      BY <1>2, <1>6, <3>1 DEF Elements
    <3>. HIDE DEF I
    <3>3. PICK i \in I : \A j \in I : i <= j
      BY <3>2, LeastNumber
    <3>4. PICK m \in Flat!Before(targets, Q[i]) : m \in S
      BY <2>1, <3>3 DEF I
    <3>5. PICK j \in DOMAIN Q : j < i /\ Q[j] = m
      BY <1>3, <3>3, <3>4 DEF I
    <3>6. j \in I
      BY <3>4, <3>5 DEF I
    <3>7. i <= j /\ i \in Nat /\ j \in Nat
      BY <3>2, <3>3, <3>6
    <3>. QED BY <3>5, <3>7
  <2>2. \A m \in D \ done : Flat!Before(targets, m) \cap (D \ done) # {}
    BY <1>5, <1>7
  <2>3. D \ done \in {S \in SUBSET D : \A m \in S : Flat!Before(targets, m) \cap S # {}}
    BY <2>2
  <2>4. Endless \subseteq D \ done
    BY <2>1
  <2>. QED BY <2>3, <2>4
<1>. HIDE DEF Endless
<1>9. \A n \in D : /\ ranks[n] \in Nat
                   /\ n \in done => ranks[n] = end.ranks[n]
                   /\ n \notin done => ranks[n] = 0
  <2>1. TAKE n \in D
  <2>2. ranks[n] = IF end.incoming[n] > 0 THEN 0 ELSE end.ranks[n]
    BY <1>4
  <2>3. end.ranks[n] \in Nat
    BY <1>2
  <2>. QED BY <1>7, <2>2, <2>3
<1>10. ASSUME NEW n \in D
       PROVE  ranks[n] = IF n \in Endless \/ Flat!Before(targets, n) = {} THEN 0
                         ELSE 1 + Flat!Largest({ranks[m] : m \in Flat!Before(targets, n)})
  <2>1. CASE n \notin done
    BY <1>8, <1>9, <2>1
  <2>2. CASE n \in done
    <3>. DEFINE B == Flat!Before(targets, n)
                R == {ranks[m] : m \in B}
    <3>1. n \notin Endless /\ B \subseteq done /\ B \subseteq D /\ B \cap done = B
      BY <1>5, <1>7, <1>8, <2>2
    <3>2. /\ B = {} => end.ranks[n] = 0
          /\ B # {} => \E m \in B : end.ranks[n] = end.ranks[m] + 1
          /\ \A m \in B : end.ranks[m] + 1 <= end.ranks[n]
      BY <1>3, <3>1 DEF RankFits
    <3>3. ranks[n] = end.ranks[n] /\ \A m \in B : ranks[m] = end.ranks[m]
      BY <1>9, <2>2, <3>1
    <3>4. CASE B = {}
      BY <3>2, <3>3, <3>4
    <3>5. CASE B # {}
      <4>1. PICK m \in B : ranks[n] = ranks[m] + 1
        BY <3>2, <3>3, <3>5
      <4>2. \A k \in B : ranks[k] \in Nat
        BY <1>9, <3>1
      <4>3. ranks[m] \in Nat /\ \A k \in B : ranks[k] <= ranks[m]
        <5>1. ranks[m] \in Nat /\ ranks[n] \in Nat
          BY <1>9, <4>2
        <5>2. ASSUME NEW k \in B PROVE ranks[k] <= ranks[m]
          <6>1. ranks[k] \in Nat /\ ranks[k] + 1 <= ranks[n]
            BY <3>2, <3>3, <4>2
          <6>. QED BY <4>1, <5>1, <6>1
        <5>. QED BY <5>1, <5>2
      <4>4. R \in SUBSET Nat /\ ranks[m] \in R /\ \A y \in R : y <= ranks[m]
        BY <4>2, <4>3
      <4>. HIDE DEF R
      <4>5. Flat!Largest(R) = ranks[m]
        BY <4>4, LargestEquals
      <4>6. ranks[n] = 1 + Flat!Largest(R)
        BY <4>1, <4>3, <4>5
      <4>. QED BY <3>1, <3>5, <4>6 DEF R
    <3>. QED BY <3>4, <3>5
  <2>. QED BY <2>1, <2>2
<1>11. Flat!RanksFit(targets, ranks)
  BY <1>10 DEF Flat!RanksFit, Endless
<1>12. ranks \in [D -> Nat]
  BY <1>4, <1>9
<1>. QED BY <1>11, <1>12 DEF ranks

\* What may be drawn: a graph the host sends, or none.
SoundGraph(graph) ==
  /\ Flat!Nodes(graph) \subseteq Flat!AllIds /\ graph.dependencies \subseteq Flat!Nodes(graph) \X Flat!Nodes(graph)
  /\ \A n \in Flat!Nodes(graph) : \E i \in DOMAIN FlatGroups : FlatGroups[i] = Flat!GroupOf(graph, n)

\* The members of a group are its nodes that are shown, each once.
AreMembers(graph, shown, group, members) ==
  /\ members \in Seq(Flat!AllIds) /\ Once(members)
  /\ Elements(members) = {n \in shown : Flat!GroupOf(graph, n) = group}
  /\ Linked(Flat!Targets(graph, {members[k] : k \in DOMAIN members}))

LEMMA MembersAre ==
  ASSUME NEW graph, SoundGraph(graph), NEW shown \in SUBSET Flat!Nodes(graph), NEW group
  PROVE  AreMembers(graph, shown, group, Flat!Members(graph, shown, group))
<1>. DEFINE S == {n \in shown : Flat!GroupOf(graph, n) = group}
            members == Flat!Members(graph, shown, group)
            T == Elements(members)
<1>1. S \subseteq Flat!AllIds
  BY DEF SoundGraph
<1>2. members = Flat!InOrder(FlatIds, S)
  BY DEF Flat!Members
<1>3. members \in Seq(Flat!AllIds) /\ Once(members) /\ T = S
  <2>1. FlatIds \in Seq(Flat!AllIds) /\ Once(FlatIds) /\ Elements(FlatIds) = Flat!AllIds
    BY IdsAreCounted
  <2>. HIDE DEF S
  <2>2. /\ Flat!InOrder(FlatIds, S) \in Seq(Flat!AllIds) /\ Once(Flat!InOrder(FlatIds, S))
        /\ Elements(Flat!InOrder(FlatIds, S)) = Flat!AllIds \cap S
    BY <2>1, InOrderIs
  <2>. QED BY <1>1, <1>2, <2>2
<1>4. T = {members[k] : k \in DOMAIN members}
  BY DEF Elements
<1>5. Linked(Flat!Targets(graph, T))
  <2>1. Flat!Targets(graph, T) = [n \in T |-> {m \in T \ {n} : <<n, m>> \in graph.dependencies}]
    BY DEF Flat!Targets
  <2>2. T \subseteq Flat!AllIds
    BY <1>1, <1>3
  <2>. HIDE DEF T
  <2>. QED BY <2>1, <2>2 DEF Linked
<1>6. Linked(Flat!Targets(graph, {members[k] : k \in DOMAIN members})) /\ T = Elements(members)
  BY <1>4, <1>5, Zenon
<1>. HIDE DEF T, members
<1>7. /\ members \in Seq(Flat!AllIds) /\ Once(members) /\ Elements(members) = S
      /\ Linked(Flat!Targets(graph, {members[k] : k \in DOMAIN members}))
  BY <1>3, <1>6
<1>. QED BY <1>7, Zenon DEF members, AreMembers

LEMMA GridIsSmall ==
  ASSUME NEW count \in Nat
  PROVE  Flat!GridColumns(count) \in 1..4
<1>. DEFINE Fits(c) == (c = 4 \/ c * c >= count) /\ \A d \in 1..(c - 1) : d * d < count
<1>1. \E c \in 1..4 : Fits(c)
  <2>1. CASE count <= 1
    <3>1. 1 \in 1..4 /\ Fits(1)
      BY <2>1
    <3>. QED BY <3>1
  <2>2. CASE count > 1 /\ count <= 4
    <3>1. 1..(2 - 1) = {1}
      OBVIOUS
    <3>2. 2 \in 1..4 /\ Fits(2)
      BY <2>2, <3>1
    <3>. QED BY <3>2
  <2>3. CASE count > 4 /\ count <= 9
    <3>1. 1..(3 - 1) = {1, 2}
      OBVIOUS
    <3>2. 3 \in 1..4 /\ Fits(3)
      BY <2>3, <3>1
    <3>. QED BY <3>2
  <2>4. CASE count > 9
    <3>1. 1..(4 - 1) = {1, 2, 3}
      OBVIOUS
    <3>2. 4 \in 1..4 /\ Fits(4)
      BY <2>4, <3>1
    <3>. QED BY <3>2
  <2>. QED BY <2>1, <2>2, <2>3, <2>4
<1>2. Flat!GridColumns(count) = CHOOSE c \in 1..4 : Fits(c)
  BY DEF Flat!GridColumns
<1>. HIDE DEF Fits
<1>. QED BY <1>1, <1>2

LEMMA ColumnsAre ==
  ASSUME NEW graph, NEW members \in Seq(Flat!AllIds),
         Linked(Flat!Targets(graph, {members[k] : k \in DOMAIN members}))
  PROVE  Flat!Columns(graph, members) \in [1..Len(members) -> Nat]
<1>. DEFINE T == {members[i] : i \in DOMAIN members}
            targets == Flat!Targets(graph, T)
            ranks == Flat!Ranks(targets)
            chained == \E n \in DOMAIN targets : targets[n] # {}
            grid == Flat!GridColumns(Len(members))
<1>1. Len(members) \in Nat /\ DOMAIN members = 1..Len(members)
  OBVIOUS
<1>2. DOMAIN targets = T
  BY DEF Flat!Targets
<1>3. ranks \in [T -> Nat]
  BY <1>2, RanksAre
<1>4. grid \in 1..4
  BY <1>1, GridIsSmall
<1>5. Flat!Columns(graph, members) =
        [i \in DOMAIN members |-> IF chained THEN ranks[members[i]] % 4 ELSE (i - 1) % grid]
  BY Zenon DEF Flat!Columns
<1>. HIDE DEF chained, ranks, grid, targets
<1>6. ASSUME NEW i \in 1..Len(members)
      PROVE  ranks[members[i]] % 4 \in Nat /\ (i - 1) % grid \in Nat
  <2>1. ranks[members[i]] \in Nat
    BY <1>1, <1>3
  <2>2. \A r \in Nat : r % 4 \in Nat /\ r % 1 \in Nat /\ r % 2 \in Nat /\ r % 3 \in Nat
    OBVIOUS
  <2>3. i - 1 \in Nat /\ (grid = 1 \/ grid = 2 \/ grid = 3 \/ grid = 4)
    BY <1>1, <1>4
  <2>. QED BY <2>1, <2>2, <2>3
<1>. QED BY <1>1, <1>5, <1>6

\* The cards of a group have their rows, and are within its outline.
LEMMA RowsAre ==
  ASSUME NEW n \in Nat \ {0}, NEW columns \in [1..n -> Nat]
  PROVE  /\ Flat!Height(columns) \in Nat /\ Flat!Width(columns) \in Nat
         /\ \A i \in 1..n : /\ Flat!RowOf(columns, i) \in Nat
                            /\ 64 + Flat!RowOf(columns, i) * 138 + 94 <= Flat!Height(columns)
                            /\ 36 + columns[i] * 296 + 208 <= Flat!Width(columns)
         /\ \A i, j \in 1..n : i < j /\ columns[i] = columns[j] => Flat!RowOf(columns, i) + 1 <= Flat!RowOf(columns, j)
<1>. DEFINE Same(i) == {j \in 1..(i - 1) : columns[j] = columns[i]}
            rows == [i \in 1..n |-> Flat!RowOf(columns, i) + 1]
            R == {rows[i] : i \in 1..n}
            C == {columns[i] : i \in 1..n}
<1>1. \A i \in 1..n : IsFiniteSet(Same(i)) /\ Flat!RowOf(columns, i) = Cardinality(Same(i)) /\ Flat!RowOf(columns, i) \in Nat
  <2>1. TAKE i \in 1..n
  <2>2. IsFiniteSet(1..(i - 1))
    BY FS_Interval
  <2>3. IsFiniteSet(Same(i))
    <3>1. Same(i) \subseteq 1..(i - 1)
      OBVIOUS
    <3>. HIDE DEF Same
    <3>. QED BY <2>2, <3>1, FS_Subset
  <2>4. Flat!RowOf(columns, i) = Cardinality(Same(i))
    BY CountedAlike DEF Flat!RowOf
  <2>. HIDE DEF Same
  <2>. QED BY <2>3, <2>4, FS_CardinalityType
<1>2. ASSUME NEW i \in 1..n, NEW j \in 1..n, i < j, columns[i] = columns[j]
      PROVE  Flat!RowOf(columns, i) + 1 <= Flat!RowOf(columns, j)
  <2>1. i \notin Same(i) /\ (Same(i) \cup {i}) \subseteq Same(j)
    BY <1>2
  <2>2. Cardinality(Same(i) \cup {i}) = Cardinality(Same(i)) + 1
    <3>1. IsFiniteSet(Same(i))
      BY <1>1
    <3>. HIDE DEF Same
    <3>. QED BY <2>1, <3>1, FS_AddElement
  <2>3. Cardinality(Same(i) \cup {i}) <= Cardinality(Same(j))
    <3>1. IsFiniteSet(Same(j))
      BY <1>1
    <3>. HIDE DEF Same
    <3>. QED BY <2>1, <3>1, FS_Subset
  <2>4. Flat!RowOf(columns, i) = Cardinality(Same(i)) /\ Flat!RowOf(columns, j) = Cardinality(Same(j))
    BY <1>1
  <2>. HIDE DEF Same
  <2>. QED BY <2>2, <2>3, <2>4
<1>3. Flat!Largest(R) \in Nat /\ \A i \in 1..n : Flat!RowOf(columns, i) + 1 <= Flat!Largest(R)
  <2>0. \A i \in 1..n : rows[i] = Flat!RowOf(columns, i) + 1
    OBVIOUS
  <2>. HIDE DEF rows
  <2>1. ASSUME NEW i \in 1..n PROVE rows[i] = Flat!RowOf(columns, i) + 1 /\ rows[i] \in Nat
    <3>1. Flat!RowOf(columns, i) \in Nat
      BY <1>1
    <3>. QED BY <2>0, <3>1
  <2>2. Flat!Largest(R) \in R /\ \A x \in R : x <= Flat!Largest(R)
    BY <2>1, LargestIs
  <2>. HIDE DEF R
  <2>3. \A i \in 1..n : rows[i] \in R
    BY DEF R
  <2>4. R \subseteq Nat
    BY <2>1 DEF R
  <2>. QED BY <2>1, <2>2, <2>3, <2>4
<1>4. Flat!Largest(C) \in Nat /\ \A i \in 1..n : columns[i] \in Nat /\ columns[i] <= Flat!Largest(C)
  <2>1. \A i \in 1..n : columns[i] \in Nat
    OBVIOUS
  <2>2. Flat!Largest(C) \in C /\ \A x \in C : x <= Flat!Largest(C)
    BY <2>1, LargestIs
  <2>3. C \subseteq Nat /\ \A i \in 1..n : columns[i] \in C
    BY <2>1
  <2>. HIDE DEF C
  <2>. QED BY <2>1, <2>2, <2>3
<1>5. DOMAIN columns = 1..n
  OBVIOUS
<1>6. Flat!Height(columns) = 64 + Flat!Largest(R) * 138
  <2>1. R = {Flat!RowOf(columns, i) + 1 : i \in DOMAIN columns}
    BY <1>5
  <2>2. Flat!CardHeight + Flat!RowGap = 138
    BY DEF Flat!CardHeight, Flat!RowGap
  <2>. HIDE DEF R
  <2>. QED BY <2>1, <2>2 DEF Flat!Height
<1>7. Flat!Width(columns) = 72 + (Flat!Largest(C) + 1) * 208 + Flat!Largest(C) * 88
  <2>1. Flat!Width(columns) = 2 * 36 + (Flat!Largest(C) + 1) * 208 + ((Flat!Largest(C) + 1) - 1) * 88
    BY <1>5 DEF Flat!Width, Flat!Padding, Flat!CardWidth, Flat!ColumnGap
  <2>. HIDE DEF C
  <2>. QED BY <1>4, <2>1
<1>. HIDE DEF R, C
<1>8. \A i \in 1..n : /\ 64 + Flat!RowOf(columns, i) * 138 + 94 <= Flat!Height(columns)
                      /\ 36 + columns[i] * 296 + 208 <= Flat!Width(columns)
  <2>1. TAKE i \in 1..n
  <2>2. Flat!RowOf(columns, i) \in Nat /\ columns[i] \in Nat
    BY <1>1, <1>4
  <2>3. 64 + Flat!RowOf(columns, i) * 138 + 94 <= Flat!Height(columns)
    BY <1>3, <1>6, <2>2
  <2>4. 36 + columns[i] * 296 + 208 <= Flat!Width(columns)
    BY <1>4, <1>7, <2>2, SMTT(25)
  <2>. QED BY <2>3, <2>4
<1>9. Flat!Height(columns) \in Nat /\ Flat!Width(columns) \in Nat
  BY <1>3, <1>4, <1>6, <1>7, SMTT(25)
<1>. QED BY <1>1, <1>2, <1>8, <1>9

\* A group begins below the one before it.
LEMMA TopsAre ==
  ASSUME NEW N \in Nat, NEW heights \in [1..N -> Nat], Len(heights) = N
  PROVE  /\ \A i \in 1..N : Flat!Tops(heights)[i] \in Nat
         /\ \A i, j \in 1..N : i < j => Flat!Tops(heights)[i] + heights[i] + 72 <= Flat!Tops(heights)[j]
<1>. DEFINE Is(f) == f = [i \in 1..N |-> IF i = 1 THEN 0 ELSE f[i - 1] + heights[i - 1] + Flat!GroupGap]
            top == CHOOSE f : Is(f)
<1>1. Flat!Tops(heights) = top
  BY Zenon DEF Flat!Tops
<1>2. Flat!GroupGap = 72
  BY DEF Flat!GroupGap
<1>3. \E f : Is(f) /\ \A i \in 1..N : f[i] \in Nat
  <2>1. CASE N = 0
    <3>. DEFINE g == [i \in 1..N |-> 0]
    <3>1. 1..N = {}
      BY <2>1
    <3>2. Is(g) /\ \A i \in 1..N : g[i] \in Nat
      BY <3>1
    <3>. HIDE DEF Is, g
    <3>. QED BY <3>2
  <2>2. CASE N # 0
    <3>. DEFINE M == N - 1
                step == [x \in (1..M) \X Nat |-> x[2] + heights[x[1]] + 72]
    <3>1. M \in Nat /\ \A i \in 1..M : i \in 1..N /\ heights[i] \in Nat
      BY <2>2
    <3>2. step \in [(1..M) \X Nat -> Nat]
      BY <3>1
    <3>3. \A i \in 1..M : \A q \in Nat : step[<<i, q>>] = q + heights[i] + 72
      BY <3>1
    <3>. HIDE DEF M, step
    <3>4. PICK f : Follows(f, M, Nat, 0, step)
      BY <3>1, <3>2, Recursion
    <3>5. f \in [0..M -> Nat] /\ f[0] = 0 /\ \A i \in 1..M : f[i] = step[<<i, f[i - 1]>>]
      BY <3>4 DEF Follows
    <3>. DEFINE g == [i \in 1..N |-> f[i - 1]]
    <3>6. ASSUME NEW i \in 1..N
          PROVE  g[i] \in Nat /\ g[i] = IF i = 1 THEN 0 ELSE g[i - 1] + heights[i - 1] + 72
      <4>1. i - 1 \in 0..M /\ g[i] = f[i - 1]
        BY <3>1 DEF M
      <4>2. CASE i = 1
        BY <3>5, <4>1, <4>2
      <4>3. CASE i # 1
        <5>1. i - 1 \in 1..M /\ i - 1 \in 1..N /\ (i - 1) - 1 \in 0..M
          BY <3>1, <4>3 DEF M
        <5>2. g[i - 1] = f[(i - 1) - 1] /\ f[(i - 1) - 1] \in Nat
          BY <3>5, <5>1
        <5>3. f[i - 1] = step[<<i - 1, f[(i - 1) - 1]>>]
          BY <3>5, <5>1
        <5>4. f[i - 1] = g[i - 1] + heights[i - 1] + 72
          BY <3>3, <5>1, <5>2, <5>3
        <5>5. f[i - 1] \in Nat
          BY <3>5, <4>1
        <5>. QED BY <4>1, <4>3, <5>4, <5>5
      <4>. QED BY <4>2, <4>3
    <3>7. g = [i \in 1..N |-> g[i]]
      OBVIOUS
    <3>. HIDE DEF g
    <3>8. Is(g)
      BY <1>2, <3>6, <3>7, ZenonT(40)
    <3>9. \A i \in 1..N : g[i] \in Nat
      BY <3>6
    <3>. HIDE DEF Is
    <3>. QED BY <3>8, <3>9
  <2>. QED BY <2>1, <2>2
<1>4. Is(top)
  <2>1. \E f : Is(f)
    BY <1>3
  <2>. HIDE DEF Is
  <2>. QED BY <2>1
<1>. HIDE DEF top
<1>5. \A i \in 1..N : top[i] = IF i = 1 THEN 0 ELSE top[i - 1] + heights[i - 1] + 72
  BY <1>2, <1>4
<1>. HIDE DEF Is
<1>6. \A i \in 1..N : top[i] \in Nat
  <2>. DEFINE K == {k \in Nat : k + 1 <= N => top[k + 1] \in Nat}
  <2>1. 0 \in K
    BY <1>5
  <2>2. ASSUME NEW k \in K PROVE k + 1 \in K
    <3>1. SUFFICES ASSUME (k + 1) + 1 <= N PROVE top[(k + 1) + 1] \in Nat
      BY Z3
    <3>2. k + 1 \in 1..N /\ (k + 1) + 1 \in 1..N /\ (k + 1) + 1 # 1 /\ ((k + 1) + 1) - 1 = k + 1
      BY <3>1
    <3>3. top[k + 1] \in Nat /\ heights[k + 1] \in Nat
      BY <3>2
    <3>4. top[(k + 1) + 1] = top[k + 1] + heights[k + 1] + 72
      BY <1>5, <3>2
    <3>. QED BY <3>3, <3>4
  <2>3. K = Nat
    <3>1. K \in SUBSET Nat
      OBVIOUS
    <3>. HIDE DEF K
    <3>. QED BY <2>1, <2>2, <3>1, Counting
  <2>4. \A k \in Nat : k + 1 <= N => top[k + 1] \in Nat
    BY <2>3
  <2>5. TAKE i \in 1..N
  <2>6. i - 1 \in Nat /\ (i - 1) + 1 = i /\ (i - 1) + 1 <= N
    OBVIOUS
  <2>. QED BY <2>4, <2>6
<1>7. ASSUME NEW i \in 1..N
      PROVE  \A j \in 1..N : i < j => top[i] + heights[i] + 72 <= top[j]
  <2>. DEFINE K == {k \in Nat : i + 1 + k <= N => top[i] + heights[i] + 72 <= top[i + 1 + k]}
  <2>1. top[i] \in Nat /\ heights[i] \in Nat
    BY <1>6
  <2>2. 0 \in K
    <3>1. SUFFICES ASSUME i + 1 <= N PROVE top[i] + heights[i] + 72 <= top[i + 1]
      BY Z3
    <3>2. i + 1 \in 1..N /\ i + 1 # 1 /\ (i + 1) - 1 = i
      BY <3>1
    <3>3. top[i + 1] = top[i] + heights[i] + 72
      BY <1>5, <3>2
    <3>. QED BY <2>1, <3>3
  <2>3. ASSUME NEW k \in K PROVE k + 1 \in K
    <3>1. SUFFICES ASSUME i + 1 + (k + 1) <= N PROVE top[i] + heights[i] + 72 <= top[i + 1 + (k + 1)]
      BY Z3
    <3>. DEFINE j == i + 1 + k
    <3>2. /\ j \in 1..N /\ j + 1 \in 1..N /\ j + 1 # 1 /\ (j + 1) - 1 = j
          /\ i + 1 + (k + 1) = j + 1 /\ i + 1 + k <= N
      BY <3>1
    <3>3. top[i] + heights[i] + 72 <= top[j]
      BY <3>2
    <3>. HIDE DEF j
    <3>4. top[j + 1] = top[j] + heights[j] + 72
      BY <1>5, <3>2, SMTT(25)
    <3>5. top[j] \in Nat /\ heights[j] \in Nat
      BY <1>6, <3>2
    <3>6. top[i] + heights[i] + 72 <= top[j + 1]
      BY <2>1, <3>3, <3>4, <3>5
    <3>. QED BY <3>2, <3>6
  <2>4. K = Nat
    <3>1. K \in SUBSET Nat
      OBVIOUS
    <3>. HIDE DEF K
    <3>. QED BY <2>2, <2>3, <3>1, Counting
  <2>5. TAKE j \in 1..N
  <2>6. SUFFICES ASSUME i < j PROVE top[i] + heights[i] + 72 <= top[j]
    OBVIOUS
  <2>7. j - i - 1 \in K /\ i + 1 + (j - i - 1) = j /\ j <= N
    <3>. HIDE DEF K
    <3>. QED BY <2>4, <2>6
  <2>. QED BY <2>7
<1>. QED BY <1>1, <1>6, <1>7

\* Cards have room, each in the outline of its group.
LEMMA CardsAre ==
  ASSUME NEW graph, SoundGraph(graph), NEW shown \in SUBSET Flat!Nodes(graph)
  PROVE  LET layout == Flat!Layout(graph, shown)
         IN /\ \A c, d \in layout.cards : c # d =>
                 \/ c.x >= d.x + Flat!CardWidth \/ d.x >= c.x + Flat!CardWidth
                 \/ c.y >= d.y + Flat!CardHeight \/ d.y >= c.y + Flat!CardHeight
            /\ \A c \in layout.cards : \A i \in DOMAIN layout.groups :
                 LET g == layout.groups[i]
                 IN (Flat!GroupOf(graph, c.id) = g.group) <=>
                      /\ c.y >= g.y /\ c.y + Flat!CardHeight <= g.y + g.height
                      /\ c.x + Flat!CardWidth <= g.width
<1>. DEFINE S == {Flat!GroupOf(graph, n) : n \in shown}
            groups == Flat!InOrder(FlatGroups, S)
            members == [i \in 1..Len(groups) |-> Flat!Members(graph, shown, groups[i])]
            columns == [i \in 1..Len(groups) |-> Flat!Columns(graph, members[i])]
            heights == [i \in 1..Len(groups) |-> Flat!Height(columns[i])]
            tops == Flat!Tops(heights)
            Of(n) == CHOOSE i \in DOMAIN groups : groups[i] = Flat!GroupOf(graph, n)
            At(n) == CHOOSE k \in DOMAIN members[Of(n)] : members[Of(n)][k] = n
            Column(n) == columns[Of(n)][At(n)]
            Row(n) == Flat!RowOf(columns[Of(n)], At(n))
            Card(n) == [id |-> n, x |-> Flat!Padding + Column(n) * (Flat!CardWidth + Flat!ColumnGap),
                        y |-> tops[Of(n)] + 64 + Row(n) * (Flat!CardHeight + Flat!RowGap)]
            Outline(i) == [group |-> groups[i], y |-> tops[i], width |-> Flat!Width(columns[i]),
                           height |-> Flat!Height(columns[i])]
            layout == Flat!Layout(graph, shown)
<1>1. layout = [cards |-> {Card(n) : n \in shown}, groups |-> [i \in DOMAIN groups |-> Outline(i)]]
  BY Zenon DEF Flat!Layout
<1>2. /\ Len(groups) \in Nat /\ DOMAIN groups = 1..Len(groups)
      /\ Once(groups) /\ Elements(groups) = S
  <2>1. FlatGroups \in Seq(Elements(FlatGroups)) /\ Once(FlatGroups)
    BY FlatConstants DEF IsListing, Elements, Once
  <2>2. S \subseteq Elements(FlatGroups)
    BY DEF SoundGraph, Elements
  <2>. HIDE DEF S
  <2>3. groups \in Seq(Elements(FlatGroups)) /\ Once(groups) /\ Elements(groups) = Elements(FlatGroups) \cap S
    BY <2>1, InOrderIs
  <2>. HIDE DEF groups
  <2>. QED BY <2>2, <2>3
<1>. HIDE DEF groups
<1>. DEFINE G == 1..Len(groups)
<1>3. ASSUME NEW i \in G
      PROVE  /\ members[i] \in Seq(Flat!AllIds) /\ Once(members[i])
             /\ Elements(members[i]) = {n \in shown : Flat!GroupOf(graph, n) = groups[i]}
             /\ Linked(Flat!Targets(graph, {members[i][k] : k \in DOMAIN members[i]}))
  <2>1. members[i] = Flat!Members(graph, shown, groups[i])
    OBVIOUS
  <2>. HIDE DEF members
  <2>2. AreMembers(graph, shown, groups[i], members[i])
    BY <2>1, MembersAre
  <2>. QED BY <2>2, Zenon DEF AreMembers
<1>. HIDE DEF members
<1>4. ASSUME NEW i \in G
      PROVE  /\ Len(members[i]) \in Nat \ {0} /\ DOMAIN members[i] = 1..Len(members[i])
             /\ columns[i] \in [1..Len(members[i]) -> Nat]
  <2>1. Len(members[i]) \in Nat /\ DOMAIN members[i] = 1..Len(members[i])
    BY <1>3
  <2>2. groups[i] \in S
    BY <1>2 DEF Elements
  <2>3. Elements(members[i]) # {}
    BY <1>3, <2>2
  <2>4. Len(members[i]) # 0
    BY <2>1, <2>3 DEF Elements
  <2>5. columns[i] = Flat!Columns(graph, members[i])
    OBVIOUS
  <2>6. columns[i] \in [1..Len(members[i]) -> Nat]
    <3>. DEFINE m == members[i]
    <3>1. m \in Seq(Flat!AllIds) /\ Linked(Flat!Targets(graph, {m[k] : k \in DOMAIN m}))
      BY <1>3
    <3>. HIDE DEF m
    <3>2. Flat!Columns(graph, m) \in [1..Len(m) -> Nat]
      BY <3>1, ColumnsAre
    <3>. QED BY <2>5, <3>2, Zenon DEF m
  <2>. QED BY <2>1, <2>4, <2>6
<1>. HIDE DEF columns
<1>5. ASSUME NEW i \in G
      PROVE  /\ Flat!Height(columns[i]) \in Nat /\ Flat!Width(columns[i]) \in Nat
             /\ \A k \in 1..Len(members[i]) :
                  /\ Flat!RowOf(columns[i], k) \in Nat /\ columns[i][k] \in Nat
                  /\ 64 + Flat!RowOf(columns[i], k) * 138 + 94 <= Flat!Height(columns[i])
                  /\ 36 + columns[i][k] * 296 + 208 <= Flat!Width(columns[i])
             /\ \A k, l \in 1..Len(members[i]) : k < l /\ columns[i][k] = columns[i][l] =>
                  Flat!RowOf(columns[i], k) + 1 <= Flat!RowOf(columns[i], l)
  <2>. DEFINE m == Len(members[i])
              column == columns[i]
  <2>1. m \in Nat \ {0} /\ column \in [1..m -> Nat]
    BY <1>4
  <2>. HIDE DEF m, column
  <2>2. /\ Flat!Height(column) \in Nat /\ Flat!Width(column) \in Nat
        /\ \A k \in 1..m : /\ Flat!RowOf(column, k) \in Nat
                           /\ 64 + Flat!RowOf(column, k) * 138 + 94 <= Flat!Height(column)
                           /\ 36 + column[k] * 296 + 208 <= Flat!Width(column)
        /\ \A k, l \in 1..m : k < l /\ column[k] = column[l] => Flat!RowOf(column, k) + 1 <= Flat!RowOf(column, l)
    BY <2>1, RowsAre
  <2>3. \A k \in 1..m : column[k] \in Nat
    BY <2>1
  <2>. QED BY <2>2, <2>3 DEF m, column
<1>6. /\ \A i \in G : tops[i] \in Nat
      /\ \A i, j \in G : i < j => tops[i] + Flat!Height(columns[i]) + 72 <= tops[j]
  <2>1. heights \in [G -> Nat] /\ Len(heights) = Len(groups) /\ \A i \in G : heights[i] = Flat!Height(columns[i])
    <3>1. \A i \in G : Flat!Height(columns[i]) \in Nat
      BY <1>5
    <3>2. heights \in [G -> Nat] /\ \A i \in G : heights[i] = Flat!Height(columns[i])
      BY <3>1
    <3>3. Len(heights) = Len(groups)
      BY <1>2, <3>1
    <3>. QED BY <3>2, <3>3
  <2>. HIDE DEF heights
  <2>2. /\ \A i \in G : tops[i] \in Nat
        /\ \A i, j \in G : i < j => tops[i] + heights[i] + 72 <= tops[j]
    BY <1>2, <2>1, TopsAre
  <2>. HIDE DEF tops
  <2>. QED BY <2>1, <2>2
<1>. HIDE DEF tops
<1>7. ASSUME NEW n \in shown
      PROVE  Of(n) \in G /\ groups[Of(n)] = Flat!GroupOf(graph, n)
  <2>1. \E i \in DOMAIN groups : groups[i] = Flat!GroupOf(graph, n)
    BY <1>2 DEF Elements
  <2>. QED BY <1>2, <2>1
<1>. HIDE DEF Of
<1>8. ASSUME NEW n \in shown
      PROVE  At(n) \in 1..Len(members[Of(n)]) /\ members[Of(n)][At(n)] = n
  <2>1. Of(n) \in G /\ n \in Elements(members[Of(n)])
    BY <1>3, <1>7
  <2>2. DOMAIN members[Of(n)] = 1..Len(members[Of(n)])
    BY <1>4, <2>1
  <2>3. \E k \in DOMAIN members[Of(n)] : members[Of(n)][k] = n
    BY <2>1 DEF Elements
  <2>. QED BY <2>2, <2>3
<1>. HIDE DEF At
<1>9. ASSUME NEW n \in shown
      PROVE  /\ Column(n) \in Nat /\ Row(n) \in Nat /\ tops[Of(n)] \in Nat
             /\ Flat!Height(columns[Of(n)]) \in Nat /\ Flat!Width(columns[Of(n)]) \in Nat
             /\ 64 + Row(n) * 138 + 94 <= Flat!Height(columns[Of(n)])
             /\ 36 + Column(n) * 296 + 208 <= Flat!Width(columns[Of(n)])
  BY <1>5, <1>6, <1>7, <1>8, ZenonT(40)
<1>10. ASSUME NEW n \in shown, NEW m \in shown, n # m, Of(n) = Of(m), Column(n) = Column(m)
       PROVE  Row(n) + 1 <= Row(m) \/ Row(m) + 1 <= Row(n)
  <2>1. At(n) # At(m)
    BY <1>8, <1>10
  <2>2. At(n) \in Nat /\ At(m) \in Nat
    BY <1>8
  <2>3. At(n) < At(m) \/ At(m) < At(n)
    BY <2>1, <2>2
  <2>. QED BY <1>5, <1>7, <1>8, <1>10, <2>3, ZenonT(40)
<1>. HIDE DEF Row, Column
<1>11. ASSUME NEW n \in shown
       PROVE  /\ Card(n).id = n /\ Card(n).x = 36 + Column(n) * 296
              /\ Card(n).y = tops[Of(n)] + 64 + Row(n) * 138
  <2>1. Flat!CardWidth + Flat!ColumnGap = 296 /\ Flat!CardHeight + Flat!RowGap = 138 /\ Flat!Padding = 36
    BY DEF Flat!CardWidth, Flat!ColumnGap, Flat!CardHeight, Flat!RowGap, Flat!Padding
  <2>2. /\ Card(n).id = n /\ Card(n).x = Flat!Padding + Column(n) * (Flat!CardWidth + Flat!ColumnGap)
        /\ Card(n).y = tops[Of(n)] + 64 + Row(n) * (Flat!CardHeight + Flat!RowGap)
    OBVIOUS
  <2>. HIDE DEF Card
  <2>. QED BY <2>1, <2>2
<1>. HIDE DEF Card
<1>12. ASSUME NEW n \in shown, NEW m \in shown, n # m
       PROVE  \/ Card(n).x >= Card(m).x + 208 \/ Card(m).x >= Card(n).x + 208
              \/ Card(n).y >= Card(m).y + 94 \/ Card(m).y >= Card(n).y + 94
  <2>1. /\ Card(n).x = 36 + Column(n) * 296 /\ Card(n).y = tops[Of(n)] + 64 + Row(n) * 138
        /\ Card(m).x = 36 + Column(m) * 296 /\ Card(m).y = tops[Of(m)] + 64 + Row(m) * 138
    BY <1>11
  <2>2. /\ Column(n) \in Nat /\ Row(n) \in Nat /\ tops[Of(n)] \in Nat
        /\ Column(m) \in Nat /\ Row(m) \in Nat /\ tops[Of(m)] \in Nat
        /\ Flat!Height(columns[Of(n)]) \in Nat /\ Flat!Height(columns[Of(m)]) \in Nat
        /\ 64 + Row(n) * 138 + 94 <= Flat!Height(columns[Of(n)])
        /\ 64 + Row(m) * 138 + 94 <= Flat!Height(columns[Of(m)])
    BY <1>9
  <2>3. Of(n) \in G /\ Of(m) \in G /\ Of(n) \in Nat /\ Of(m) \in Nat
    <3>1. Of(n) \in G /\ Of(m) \in G
      BY <1>7
    <3>. QED BY <3>1
  <2>4. CASE Of(n) < Of(m)
    <3>1. tops[Of(n)] + Flat!Height(columns[Of(n)]) + 72 <= tops[Of(m)]
      BY <1>6, <2>3, <2>4
    <3>. QED BY <2>1, <2>2, <3>1
  <2>5. CASE Of(m) < Of(n)
    <3>1. tops[Of(m)] + Flat!Height(columns[Of(m)]) + 72 <= tops[Of(n)]
      BY <1>6, <2>3, <2>5
    <3>. QED BY <2>1, <2>2, <3>1
  <2>6. CASE Of(n) = Of(m) /\ Column(n) # Column(m)
    BY <2>1, <2>2, <2>6
  <2>7. CASE Of(n) = Of(m) /\ Column(n) = Column(m)
    <3>1. Row(n) + 1 <= Row(m) \/ Row(m) + 1 <= Row(n)
      BY <1>10, <1>12, <2>7
    <3>. QED BY <2>1, <2>2, <2>7, <3>1
  <2>. QED BY <2>3, <2>4, <2>5, <2>6, <2>7
<1>13. ASSUME NEW n \in shown, NEW i \in G
       PROVE  (Flat!GroupOf(graph, n) = groups[i]) <=>
                /\ Card(n).y >= tops[i] /\ Card(n).y + 94 <= tops[i] + Flat!Height(columns[i])
                /\ Card(n).x + 208 <= Flat!Width(columns[i])
  <2>1. Card(n).x = 36 + Column(n) * 296 /\ Card(n).y = tops[Of(n)] + 64 + Row(n) * 138
    BY <1>11
  <2>2. /\ Column(n) \in Nat /\ Row(n) \in Nat /\ tops[Of(n)] \in Nat
        /\ Flat!Height(columns[Of(n)]) \in Nat /\ Flat!Width(columns[Of(n)]) \in Nat
        /\ 64 + Row(n) * 138 + 94 <= Flat!Height(columns[Of(n)])
        /\ 36 + Column(n) * 296 + 208 <= Flat!Width(columns[Of(n)])
    BY <1>9
  <2>3. tops[i] \in Nat /\ Flat!Height(columns[i]) \in Nat
    BY <1>5, <1>6
  <2>4. Of(n) \in G /\ Of(n) \in Nat /\ i \in Nat /\ groups[Of(n)] = Flat!GroupOf(graph, n)
    <3>1. Of(n) \in G
      BY <1>7
    <3>. QED BY <1>7, <3>1
  <2>. DEFINE x == Card(n).x
              y == Card(n).y
              column == Column(n)
              row == Row(n)
              top == tops[i]
              height == Flat!Height(columns[i])
              ownTop == tops[Of(n)]
              ownHeight == Flat!Height(columns[Of(n)])
              ownWidth == Flat!Width(columns[Of(n)])
  <2>5. /\ x = 36 + column * 296 /\ y = ownTop + 64 + row * 138
        /\ column \in Nat /\ row \in Nat /\ ownTop \in Nat /\ ownHeight \in Nat /\ ownWidth \in Nat
        /\ 64 + row * 138 + 94 <= ownHeight /\ 36 + column * 296 + 208 <= ownWidth
        /\ top \in Nat /\ height \in Nat
    BY <2>1, <2>2, <2>3
  <2>6. CASE i = Of(n)
    <3>1. Flat!GroupOf(graph, n) = groups[i]
      BY <2>4, <2>6
    <3>2. top = ownTop /\ height = ownHeight /\ Flat!Width(columns[i]) = ownWidth
      BY <2>6, Zenon
    <3>. HIDE DEF x, y, column, row, top, height, ownTop, ownHeight, ownWidth
    <3>3. y >= ownTop /\ y + 94 <= ownTop + ownHeight /\ x + 208 <= ownWidth
      BY <2>5
    <3>4. y >= top /\ y + 94 <= top + height /\ x + 208 <= Flat!Width(columns[i])
      BY <3>2, <3>3
    <3>. QED BY <3>1, <3>4 DEF x, y, top, height
  <2>7. CASE i # Of(n)
    <3>1. Flat!GroupOf(graph, n) # groups[i]
      BY <1>2, <2>4, <2>7 DEF Once
    <3>2. CASE i < Of(n)
      <4>1. top + height + 72 <= ownTop
        BY <1>6, <2>4, <3>2
      <4>2. ~(y + 94 <= top + height)
        <5>. HIDE DEF x, y, column, row, top, height, ownTop, ownHeight, ownWidth
        <5>. QED BY <2>5, <4>1
      <4>. QED BY <3>1, <4>2
    <3>3. CASE Of(n) < i
      <4>1. ownTop + ownHeight + 72 <= top
        BY <1>6, <2>4, <3>3
      <4>2. ~(y >= top)
        <5>. HIDE DEF x, y, column, row, top, height, ownTop, ownHeight, ownWidth
        <5>. QED BY <2>5, <4>1
      <4>. QED BY <3>1, <4>2
    <3>. QED BY <2>4, <2>7, <3>2, <3>3
  <2>. QED BY <2>6, <2>7
<1>14. layout.cards = {Card(n) : n \in shown} /\ layout.groups = [i \in G |-> Outline(i)]
  BY <1>1, <1>2
<1>15. \A n \in shown : Card(n).id = n
  BY <1>11
<1>16. \A i \in G : LET g == layout.groups[i]
                    IN g.group = groups[i] /\ g.y = tops[i] /\ g.width = Flat!Width(columns[i])
                       /\ g.height = Flat!Height(columns[i])
  BY <1>14
<1>17. Flat!CardWidth = 208 /\ Flat!CardHeight = 94 /\ DOMAIN layout.groups = G
  BY <1>14 DEF Flat!CardWidth, Flat!CardHeight
<1>. HIDE DEF layout, Outline
<1>18. ASSUME NEW c \in layout.cards, NEW d \in layout.cards, c # d
       PROVE  \/ c.x >= d.x + Flat!CardWidth \/ d.x >= c.x + Flat!CardWidth
              \/ c.y >= d.y + Flat!CardHeight \/ d.y >= c.y + Flat!CardHeight
  <2>1. PICK n \in shown : c = Card(n)
    BY <1>14
  <2>2. PICK m \in shown : d = Card(m)
    BY <1>14
  <2>. QED BY <1>12, <1>17, <1>18, <2>1, <2>2
<1>19. ASSUME NEW c \in layout.cards, NEW i \in DOMAIN layout.groups
       PROVE  (Flat!GroupOf(graph, c.id) = layout.groups[i].group) <=>
                /\ c.y >= layout.groups[i].y
                /\ c.y + Flat!CardHeight <= layout.groups[i].y + layout.groups[i].height
                /\ c.x + Flat!CardWidth <= layout.groups[i].width
  <2>1. PICK n \in shown : c = Card(n)
    BY <1>14
  <2>. QED BY <1>13, <1>15, <1>16, <1>17, <2>1
<1>. QED BY <1>18, <1>19, Zenon DEF layout

\* What leads to a node is found in as many rounds as there are nodes.
LEMMA DependentsAre ==
  ASSUME NEW V \in SUBSET Flat!AllIds, NEW links \in SUBSET (V \X V), NEW n \in V
  PROVE  LET Closed(S) == \A l \in links : l[2] \in S => l[1] \in S
             D == Flat!Dependents({n}, links)
         IN n \in D /\ Closed(D) /\ \A S \in SUBSET V : n \in S /\ Closed(S) => D \subseteq S
<1>. DEFINE N == Len(FlatIds)
            From(X) == {l[1] : l \in {k \in links : k[2] \in X}}
            Closed(S) == \A l \in links : l[2] \in S => l[1] \in S
            Is(f) == f = [i \in 0..N |-> IF i = 0 THEN {n} ELSE f[i - 1] \cup From(f[i - 1])]
            after == CHOOSE f : Is(f)
<1>1. Flat!Dependents({n}, links) = after[N]
  BY Zenon DEF Flat!Dependents
<1>2. N \in Nat /\ IsFiniteSet(Flat!AllIds) /\ Cardinality(Flat!AllIds) = N
  BY IdsAreCounted
<1>3. \A l \in links : l[1] \in V /\ l[2] \in V
  OBVIOUS
<1>. HIDE DEF N
<1>4. \E f : Is(f)
  <2>. DEFINE step == [x \in (1..N) \X SUBSET V |-> x[2] \cup From(x[2])]
  <2>1. step \in [(1..N) \X SUBSET V -> SUBSET V] /\ {n} \in SUBSET V
    BY <1>3
  <2>2. \A i \in 1..N : \A X \in SUBSET V : step[<<i, X>>] = X \cup From(X)
    OBVIOUS
  <2>. HIDE DEF step
  <2>3. PICK f : Follows(f, N, SUBSET V, {n}, step)
    BY <1>2, <2>1, Recursion
  <2>4. f \in [0..N -> SUBSET V] /\ f[0] = {n} /\ \A i \in 1..N : f[i] = step[<<i, f[i - 1]>>]
    BY <2>3 DEF Follows
  <2>. HIDE DEF From
  <2>5. ASSUME NEW i \in 0..N
        PROVE  f[i] = IF i = 0 THEN {n} ELSE f[i - 1] \cup From(f[i - 1])
    <3>1. CASE i = 0
      BY <2>4, <3>1
    <3>2. CASE i # 0
      <4>1. i \in 1..N /\ i - 1 \in 0..N
        BY <1>2, <3>2
      <4>2. f[i - 1] \in SUBSET V /\ f[i] = step[<<i, f[i - 1]>>]
        BY <2>4, <4>1
      <4>. QED BY <2>2, <3>2, <4>1, <4>2
    <3>. QED BY <3>1, <3>2
  <2>6. f = [i \in 0..N |-> f[i]]
    BY <2>4
  <2>7. Is(f)
    BY <2>5, <2>6
  <2>. HIDE DEF Is
  <2>. QED BY <2>7
<1>. HIDE DEF From
<1>5. after = [i \in 0..N |-> IF i = 0 THEN {n} ELSE after[i - 1] \cup From(after[i - 1])]
  <2>. HIDE DEF Is
  <2>1. Is(after)
    BY <1>4
  <2>. HIDE DEF after
  <2>. QED BY <2>1 DEF Is
<1>. HIDE DEF Is, after
<1>6. \A i \in 0..N : after[i] = IF i = 0 THEN {n} ELSE after[i - 1] \cup From(after[i - 1])
  BY <1>5, Zenon
<1>. DEFINE Fits(X, k) == /\ n \in X /\ X \subseteq V
                          /\ \A S \in SUBSET V : n \in S /\ Closed(S) => X \subseteq S
                          /\ k + 1 <= Cardinality(X) \/ Closed(X)
            K == {k \in Nat : k <= N => Fits(after[k], k)}
<1>7. 0 \in K
  <2>0. 0 \in 0..N
    BY <1>2
  <2>1. after[0] = {n}
    BY <1>6, <2>0, Zenon
  <2>2. Cardinality({n}) = 1
    BY FS_Singleton
  <2>. QED BY <2>1, <2>2
<1>8. ASSUME NEW k \in K
      PROVE  k + 1 \in K
  <2>1. SUFFICES ASSUME k + 1 <= N PROVE Fits(after[k + 1], k + 1)
    BY Z3
  <2>2. k \in Nat /\ k <= N /\ k + 1 \in 0..N /\ k + 1 # 0 /\ (k + 1) - 1 = k
    BY <1>2, <2>1
  <2>. DEFINE X == after[k]
              Y == after[k + 1]
  <2>3. Fits(X, k)
    BY <2>2
  <2>4. Y = X \cup From(X)
    BY <1>6, <2>2
  <2>. HIDE DEF X, Y
  <2>5. From(X) \subseteq V /\ \A S : Closed(S) /\ X \subseteq S => From(X) \subseteq S
    BY <1>3 DEF From
  <2>6. n \in Y /\ Y \subseteq V /\ \A S \in SUBSET V : n \in S /\ Closed(S) => Y \subseteq S
    <3>. HIDE DEF Closed
    <3>. QED BY <2>3, <2>4, <2>5
  <2>7. CASE Closed(X)
    <3>1. From(X) \subseteq X
      BY <2>7 DEF From
    <3>2. Y = X
      BY <2>4, <3>1
    <3>. QED BY <2>6, <2>7, <3>2 DEF Y
  <2>8. CASE ~Closed(X)
    <3>1. PICK l \in links : l[2] \in X /\ l[1] \notin X
      BY <2>8
    <3>2. X \cup {l[1]} \subseteq Y
      BY <2>4, <3>1 DEF From
    <3>3. IsFiniteSet(X) /\ IsFiniteSet(Y)
      <4>1. X \subseteq Flat!AllIds /\ Y \subseteq Flat!AllIds
        BY <2>3, <2>6
      <4>. QED BY <1>2, <4>1, FS_Subset
    <3>. DEFINE x == l[1]
    <3>. HIDE DEF x
    <3>4. Cardinality(X \cup {x}) = Cardinality(X) + 1 /\ Cardinality(X \cup {x}) <= Cardinality(Y)
      <4>1. x \notin X /\ X \cup {x} \subseteq Y
        BY <3>1, <3>2 DEF x
      <4>2. Cardinality(X \cup {x}) = Cardinality(X) + 1
        BY <3>3, <4>1, FS_AddElement
      <4>3. Cardinality(X \cup {x}) <= Cardinality(Y)
        BY <3>3, <4>1, FS_Subset
      <4>. QED BY <4>2, <4>3
    <3>5. Cardinality(X) \in Nat /\ Cardinality(Y) \in Nat /\ k + 1 <= Cardinality(X)
      BY <2>3, <2>8, <3>3, FS_CardinalityType
    <3>6. (k + 1) + 1 <= Cardinality(Y)
      BY <2>2, <3>4, <3>5
    <3>. QED BY <2>6, <3>6 DEF Y
  <2>. QED BY <2>7, <2>8
<1>9. Fits(after[N], N)
  <2>. HIDE DEF Fits
  <2>1. K = Nat
    <3>1. K \in SUBSET Nat
      OBVIOUS
    <3>. HIDE DEF K
    <3>. QED BY <1>7, <1>8, <3>1, Counting
  <2>2. N <= N
    BY <1>2
  <2>. QED BY <1>2, <2>1, <2>2
<1>10. Closed(after[N])
  <2>1. after[N] \subseteq Flat!AllIds
    BY <1>9
  <2>2. Cardinality(after[N]) <= N /\ Cardinality(after[N]) \in Nat
    BY <1>2, <2>1, FS_Subset, FS_CardinalityType
  <2>3. ~(N + 1 <= Cardinality(after[N]))
    BY <1>2, <2>2
  <2>. QED BY <1>9, <2>3
<1>. QED BY <1>1, <1>9, <1>10

\* What the host sent last is one of its states, and a network that is shown is one of it.
FlatInv ==
  /\ flatSnapshot # None => /\ flatSnapshot.graph \in FlatGraphs
                            /\ flatSnapshot.selected \in Flat!Nodes(flatSnapshot.graph) \cup {None}
  /\ network # None => network \in Flat!Networks(flatSnapshot) /\ ~impact
  /\ impact => Flat!Selected(flatSnapshot) # None

LEMMA FlatBegins == Flat!Init => FlatInv
  BY DEF Flat!Init, FlatInv

LEMMA EffectsFit ==
  ASSUME NEW s, NEW w, NEW mode, Flat!Effects(s, w, mode),
         s # None => s.graph \in FlatGraphs /\ s.selected \in Flat!Nodes(s.graph) \cup {None},
         w # None => ~mode
  PROVE  FlatInv'
<1>1. flatSnapshot' = s /\ network' = Flat!NetworkAfter(s, w) /\ impact' = Flat!ImpactAfter(s, mode)
  BY Zenon DEF Flat!Effects
<1>2. (flatSnapshot # None => /\ flatSnapshot.graph \in FlatGraphs
                              /\ flatSnapshot.selected \in Flat!Nodes(flatSnapshot.graph) \cup {None})'
  BY <1>1
<1>3. (network # None => network \in Flat!Networks(flatSnapshot))' /\ (network' # None => network' = w)
  BY <1>1 DEF Flat!NetworkAfter
<1>4. impact' => mode /\ Flat!Selected(s) # None
  BY <1>1, Zenon DEF Flat!ImpactAfter
<1>5. (Flat!Selected(flatSnapshot))' = Flat!Selected(s)
  BY <1>1 DEF Flat!Selected, Flat!Nodes
<1>. QED BY <1>2, <1>3, <1>4, <1>5, Zenon DEF FlatInv

LEMMA FlatGoesOn == ASSUME FlatInv, Flat!Next PROVE FlatInv'
<1>1. /\ flatSnapshot # None => /\ flatSnapshot.graph \in FlatGraphs
                                /\ flatSnapshot.selected \in Flat!Nodes(flatSnapshot.graph) \cup {None}
      /\ network # None => network \in Flat!Networks(flatSnapshot) /\ ~impact
      /\ impact => Flat!Selected(flatSnapshot) # None
  BY DEF FlatInv
<1>2. ASSUME NEW graph \in FlatGraphs, NEW filter \in FlatFilters, NEW n \in Flat!Nodes(graph) \cup {None},
             Flat!Subscribed(graph, n, filter)
      PROVE  FlatInv'
  <2>. DEFINE s == [graph |-> graph, selected |-> n, filter |-> filter]
  <2>1. Flat!Effects(s, network, impact)
    BY <1>2, Zenon DEF Flat!Subscribed
  <2>2. s.graph \in FlatGraphs /\ s.selected \in Flat!Nodes(s.graph) \cup {None}
    OBVIOUS
  <2>. HIDE DEF s
  <2>. QED BY <1>1, <2>1, <2>2, EffectsFit
<1>3. ASSUME Flat!Effects(flatSnapshot, None, impact) \/ Flat!Effects(flatSnapshot, None, ~impact)
             \/ Flat!Effects(flatSnapshot, network, impact)
             \/ \E w \in Flat!Networks(flatSnapshot) : Flat!Effects(flatSnapshot, IF network = w THEN None ELSE w, FALSE)
      PROVE  FlatInv'
  <2>1. CASE Flat!Effects(flatSnapshot, None, impact)
    BY <1>1, <2>1, EffectsFit
  <2>2. CASE Flat!Effects(flatSnapshot, None, ~impact)
    BY <1>1, <2>2, EffectsFit
  <2>3. CASE Flat!Effects(flatSnapshot, network, impact)
    BY <1>1, <2>3, EffectsFit
  <2>4. ASSUME NEW w, Flat!Effects(flatSnapshot, IF network = w THEN None ELSE w, FALSE)
        PROVE  FlatInv'
    <3>. DEFINE u == IF network = w THEN None ELSE w
    <3>. HIDE DEF u
    <3>1. Flat!Effects(flatSnapshot, u, FALSE)
      BY <2>4 DEF u
    <3>. QED BY <1>1, <3>1, EffectsFit
  <2>. QED BY <1>3, <2>1, <2>2, <2>3, <2>4
<1>4. ASSUME NEW n \in Flat!Visible, Flat!ChooseNode(n)
      PROVE  FlatInv'
  BY <1>3, <1>4, Zenon DEF Flat!ChooseNode
<1>5. ASSUME NEW w \in Flat!Networks(flatSnapshot), Flat!ChooseNetwork(w)
      PROVE  FlatInv'
  BY <1>3, <1>5, Zenon DEF Flat!ChooseNetwork, Flat!Chip
<1>6. CASE Flat!Resize
  BY <1>3, <1>6, Zenon DEF Flat!Resize
<1>7. CASE Flat!ResetNetwork
  BY <1>3, <1>7, Zenon DEF Flat!ResetNetwork
<1>8. CASE Flat!ToggleImpactMode
  BY <1>3, <1>8, Zenon DEF Flat!ToggleImpactMode
<1>9. CASE Flat!ResetCamera
  <2>1. UNCHANGED flatSnapshot /\ network' = None /\ impact' = FALSE
    BY <1>9, Zenon DEF Flat!ResetCamera
  <2>. QED BY <1>1, <2>1 DEF FlatInv
<1>10. CASE Flat!ZoomToFit \/ Flat!MoveCamera \/ Flat!CenterOnNode
  <2>1. UNCHANGED <<flatSnapshot, network, impact>>
    BY <1>10 DEF Flat!ZoomToFit, Flat!MoveCamera, Flat!CenterOnNode
  <2>2. (Flat!Selected(flatSnapshot))' = Flat!Selected(flatSnapshot) /\ (Flat!Networks(flatSnapshot))' = Flat!Networks(flatSnapshot)
    BY <2>1, Zenon
  <2>. QED BY <1>1, <2>1, <2>2 DEF FlatInv, Flat!Nodes
<1>. QED BY <1>2, <1>4, <1>5, <1>6, <1>7, <1>8, <1>9, <1>10, Zenon DEF Flat!Next

LEMMA GraphIsSound ==
  ASSUME FlatInv
  PROVE  SoundGraph(Flat!Graph(flatSnapshot)) /\ Flat!Visible \in SUBSET Flat!Nodes(Flat!Graph(flatSnapshot))
<1>1. SoundGraph(Flat!Graph(flatSnapshot))
  <2>1. CASE flatSnapshot = None
    <3>1. Flat!Nodes(Flat!Graph(flatSnapshot)) = {} /\ Flat!Graph(flatSnapshot).dependencies = {}
      BY <2>1 DEF Flat!Graph, Flat!Nodes
    <3>. QED BY <3>1 DEF SoundGraph
  <2>2. CASE flatSnapshot # None
    <3>1. Flat!Graph(flatSnapshot) \in FlatGraphs
      BY <2>2 DEF Flat!Graph, FlatInv
    <3>. QED BY <3>1, FlatConstants DEF SoundGraph, FlatGraphsAreSound
  <2>. QED BY <2>1, <2>2
<1>2. Flat!Scoped(flatSnapshot) \subseteq Flat!Nodes(Flat!Graph(flatSnapshot))
  BY DEF Flat!Scoped
<1>3. Flat!NetworkMembers(flatSnapshot, network) \subseteq Flat!Scoped(flatSnapshot)
  BY DEF Flat!NetworkMembers
<1>. QED BY <1>1, <1>2, <1>3 DEF Flat!Visible

LEMMA FlatStays == ASSUME FlatInv, UNCHANGED Flat!vars PROVE FlatInv'
<1>1. flatSnapshot' = flatSnapshot /\ network' = network /\ impact' = impact
  BY DEF Flat!vars
<1>. QED BY <1>1 DEF FlatInv, Flat!Networks, Flat!Selected, Flat!Graph, Flat!Nodes

LEMMA FlatFollows == ASSUME FlatInv PROVE Flat!FlatViewIsRight
<1>. DEFINE graph == Flat!Graph(flatSnapshot)
            shown == Flat!Visible
<1>1. SoundGraph(graph) /\ shown \in SUBSET Flat!Nodes(graph)
  BY GraphIsSound
<1>2. Flat!CardsHaveRoom
  <2>. DEFINE layout == Flat!Layout(graph, shown)
  <2>1. /\ \A c, d \in layout.cards : c # d =>
             \/ c.x >= d.x + Flat!CardWidth \/ d.x >= c.x + Flat!CardWidth
             \/ c.y >= d.y + Flat!CardHeight \/ d.y >= c.y + Flat!CardHeight
        /\ \A c \in layout.cards : \A i \in DOMAIN layout.groups :
             LET g == layout.groups[i]
             IN (Flat!GroupOf(graph, c.id) = g.group) <=>
                  /\ c.y >= g.y /\ c.y + Flat!CardHeight <= g.y + g.height
                  /\ c.x + Flat!CardWidth <= g.width
    <3>. HIDE DEF graph, shown
    <3>. QED BY <1>1, CardsAre
  <2>2. flatSnapshot = None => layout.cards = {}
    <3>1. flatSnapshot = None => shown = {}
      BY <1>1 DEF Flat!Graph, Flat!Nodes
    <3>. QED BY <3>1 DEF Flat!Layout
  <2>3. flatSnapshot # None => graph = flatSnapshot.graph
    BY DEF Flat!Graph
  <2>. HIDE DEF graph, shown
  <2>4. Flat!CardsHaveRoom <=>
          /\ \A c, d \in layout.cards : c # d =>
               \/ c.x >= d.x + Flat!CardWidth \/ d.x >= c.x + Flat!CardWidth
               \/ c.y >= d.y + Flat!CardHeight \/ d.y >= c.y + Flat!CardHeight
          /\ \A c \in layout.cards : \A i \in DOMAIN layout.groups :
               LET g == layout.groups[i]
               IN (Flat!GroupOf(flatSnapshot.graph, c.id) = g.group) <=>
                    /\ c.y >= g.y /\ c.y + Flat!CardHeight <= g.y + g.height
                    /\ c.x + Flat!CardWidth <= g.width
    BY Zenon DEF Flat!CardsHaveRoom, graph, shown
  <2>. HIDE DEF layout
  <2>. QED BY <2>1, <2>2, <2>3, <2>4
<1>3. Flat!RanksFollowDependencies
  <2>1. ASSUME NEW i \in DOMAIN FlatGroups, NEW members,
               members = Flat!Members(graph, shown, FlatGroups[i]),
               NEW targets, targets = Flat!Targets(graph, {members[k] : k \in DOMAIN members})
        PROVE  Flat!RanksFit(targets, Flat!Ranks(targets))
    <3>1. AreMembers(graph, shown, FlatGroups[i], members)
      <4>. HIDE DEF graph, shown
      <4>. QED BY <1>1, <2>1, MembersAre
    <3>2. Linked(targets)
      BY <2>1, <3>1, Zenon DEF AreMembers
    <3>. QED BY <3>2, RanksAre
  <2>. QED BY <2>1, Zenon DEF Flat!RanksFollowDependencies
<1>4. Flat!HighlightIsMeant
  <2>1. network # None => network \in Flat!Networks(flatSnapshot) /\ ~impact
    BY DEF FlatInv
  <2>. DEFINE n == Flat!Selected(flatSnapshot)
              related == Flat!RelatedIds
              Closed(S) == \A l \in flatSnapshot.graph.dependencies : l[2] \in S => l[1] \in S
  <2>2. ASSUME impact
        PROVE  /\ n \in related /\ Closed(related)
               /\ \A S \in SUBSET Flat!Nodes(flatSnapshot.graph) : n \in S /\ Closed(S) => related \subseteq S
    <3>1. n # None
      BY <2>2 DEF FlatInv
    <3>2. flatSnapshot # None /\ n \in Flat!Nodes(flatSnapshot.graph) /\ graph = flatSnapshot.graph
      BY <3>1 DEF Flat!Selected, Flat!Graph
    <3>3. Flat!Nodes(graph) \in SUBSET Flat!AllIds /\ graph.dependencies \in SUBSET (Flat!Nodes(graph) \X Flat!Nodes(graph))
      BY <1>1 DEF SoundGraph
    <3>. DEFINE links == graph.dependencies
                V == Flat!Nodes(graph)
                D == Flat!Dependents({n}, links)
    <3>4. n \in D /\ (\A l \in links : l[2] \in D => l[1] \in D)
          /\ \A S \in SUBSET V : n \in S /\ (\A l \in links : l[2] \in S => l[1] \in S) => D \subseteq S
      <4>1. V \in SUBSET Flat!AllIds /\ links \in SUBSET (V \X V) /\ n \in V
        BY <3>2, <3>3
      <4>. HIDE DEF V, links, n
      <4>. QED BY <4>1, DependentsAre
    <3>5. Flat!ImpactIds = D
      BY <2>2, <3>1, Zenon DEF Flat!ImpactIds
    <3>6. related = D
      BY <3>4, <3>5 DEF Flat!RelatedIds
    <3>. HIDE DEF D, related, n
    <3>. QED BY <3>2, <3>4, <3>6
  <2>. QED BY <2>1, <2>2, Zenon DEF Flat!HighlightIsMeant
<1>. QED BY <1>2, <1>3, <1>4 DEF Flat!FlatViewIsRight

-----------------------------------------------------------------------------
\* What the constants of this part are.
LEMMA StoresConstants ==
  /\ MaxEvents \in Nat
  /\ MaxStoreOps \in Nat
  /\ Torn \notin Stores!Configurations
  /\ Torn \notin Stores!SecretFiles
  /\ Torn \notin Stores!Approvals
  /\ Torn \notin Seq(Nat)
BY PluginAssumption

StoredSecrets == [value : ConfigValues, cipher : CipherKeys \cup {None}]
StoredData == Stores!Configurations \cup Stores!SecretFiles \cup Stores!Approvals \cup Seq(Nat) \cup StoredSecrets

StoreOperation ==
  [store : Stores!Stores, at : {"configuring", "reading", "writing", "filling"},
   key : SecretNames \cup {None}, data : StoredData]

\* What an operation carries, by its store and by how far it is.
Carries(o) ==
  /\ o.store = "config" => o.data \in Stores!Configurations
  /\ o.store = "secrets" /\ o.at = "reading" => o.data \in StoredSecrets
  /\ o.store = "secrets" /\ o.at # "reading" => o.data \in Stores!SecretFiles /\ o.key \in DOMAIN o.data
  /\ o.store = "secrets" => o.key \in SecretNames /\ o.at # "configuring"
  /\ o.store = "approvals" => o.data \in Stores!Approvals /\ o.at \in {"writing", "filling"}
  /\ o.store = "events" =>
       o.data \in Seq(Nat) /\ Len(o.data) <= MaxEvents /\ o.at \in {"writing", "filling"}

StoresTyped ==
  /\ Stores!TypeOK
  /\ \A i \in DOMAIN storeOps : i \in 0..storeCount /\ i # storeCount
  /\ storeOps = [i \in DOMAIN storeOps |-> storeOps[i]]
  /\ \A i \in DOMAIN storeOps : storeOps[i] \in StoreOperation /\ Carries(storeOps[i])
  /\ storeFile["events"] # Torn => Len(storeFile["events"]) <= MaxEvents

\* As long as nothing was lost: a store has one operation at most, a file is empty while
\* one fills it, and what is under way is the last that was asked for.
OneEach == \A i, j \in DOMAIN storeOps : storeOps[i].store = storeOps[j].store => i = j
EmptyIsFilling ==
  \A s \in Stores!Stores :
    storeFile[s] = Torn <=> \E i \in DOMAIN storeOps : storeOps[i].store = s /\ storeOps[i].at = "filling"
ConfigFits ==
  ~failed =>
    /\ storeFile["config"] # Torn => storeFile["config"] = configs
    /\ ~Stores!Busy("config") => running = configs
    /\ \A i \in DOMAIN storeOps : storeOps[i].store = "config" =>
         running = IF storeOps[i].at = "configuring" THEN configs ELSE storeOps[i].data
ApprovalFits ==
  /\ ~Stores!Busy("approvals") => storeFile["approvals"] = approval
  /\ \A i \in DOMAIN storeOps : storeOps[i].store = "approvals" => storeOps[i].data = approval
EventsFit ==
  /\ ~Stores!Busy("events") => storeFile["events"] = events
  /\ \A i \in DOMAIN storeOps : storeOps[i].store = "events" => storeOps[i].data = events
SecretsFit ==
  /\ storeFile["secrets"] # Torn => storeFile["secrets"] = saved
  /\ \A i \in DOMAIN storeOps : storeOps[i].store = "secrets" /\ storeOps[i].at # "reading" =>
       storeOps[i].data = Stores!With(saved, storeOps[i].key, storeOps[i].data[storeOps[i].key])

Kept == OneEach /\ EmptyIsFilling /\ ConfigFits /\ ApprovalFits /\ EventsFit /\ SecretsFit
StoresInv == StoresTyped /\ (~lossy => Kept)

LEMMA StoreNames == Stores!Stores = {"config", "secrets", "approvals", "events"}
BY DEF Stores!Stores, Stores!Empty

LEMMA NothingStored ==
  /\ Stores!Nothing \in Stores!Configurations /\ Stores!Nothing \in Stores!SecretFiles /\ None \in Stores!Approvals
  /\ <<>> \in Seq(Nat) /\ Len(<<>>) = 0 /\ DOMAIN <<>> = {}
<1>1. Stores!Nothing \in [{} -> ConfigValues] /\ Stores!Nothing \in [{} -> StoredSecrets]
  BY DEF Stores!Nothing
<1>2. Stores!Nothing \in Stores!Configurations /\ Stores!Nothing \in Stores!SecretFiles
  <2>1. {} \in SUBSET UNION ConfigVersions /\ {} \in SUBSET SecretNames
    OBVIOUS
  <2>. QED BY <1>1, <2>1 DEF Stores!Configurations, Stores!SecretFiles, StoredSecrets
<1>3. None \in Stores!Approvals
  BY DEF Stores!Approvals
<1>4. <<>> \in Seq(Nat) /\ Len(<<>>) = 0 /\ DOMAIN <<>> = {}
  BY EmptySeq
<1>. QED BY <1>2, <1>3, <1>4

LEMMA ConfigurationWith ==
  ASSUME NEW f \in Stores!Configurations, NEW k \in UNION ConfigVersions, NEW v \in ConfigValues
  PROVE  Stores!With(f, k, v) \in Stores!Configurations
<1>1. PICK s \in SUBSET UNION ConfigVersions : f \in [s -> ConfigValues]
  BY DEF Stores!Configurations
<1>2. Stores!With(f, k, v) \in [s \cup {k} -> ConfigValues] /\ s \cup {k} \in SUBSET UNION ConfigVersions
  BY <1>1 DEF Stores!With
<1>. QED BY <1>2 DEF Stores!Configurations

LEMMA SecretsWith ==
  ASSUME NEW f \in Stores!SecretFiles, NEW k \in SecretNames, NEW v \in StoredSecrets
  PROVE  Stores!With(f, k, v) \in Stores!SecretFiles /\ k \in DOMAIN Stores!With(f, k, v)
<1>1. PICK s \in SUBSET SecretNames : f \in [s -> StoredSecrets]
  BY DEF Stores!SecretFiles, StoredSecrets
<1>2. Stores!With(f, k, v) \in [s \cup {k} -> StoredSecrets] /\ s \cup {k} \in SUBSET SecretNames
  BY <1>1 DEF Stores!With
<1>. QED BY <1>2 DEF Stores!SecretFiles, StoredSecrets, Stores!With

\* What is loaded from a file is of its kind, and it is what the file has when it is not empty.
LEMMA LoadedFits ==
  ASSUME StoresTyped
  PROVE  /\ Stores!Loaded("config") \in Stores!Configurations /\ Stores!Loaded("secrets") \in Stores!SecretFiles
         /\ Stores!Loaded("approvals") \in Stores!Approvals
         /\ Stores!Loaded("events") \in Seq(Nat) /\ Len(Stores!Loaded("events")) <= MaxEvents
         /\ \A s \in Stores!Stores : storeFile[s] # Torn => Stores!Loaded(s) = storeFile[s]
<1>1. /\ storeFile["config"] \in Stores!Configurations \cup {Torn} /\ storeFile["secrets"] \in Stores!SecretFiles \cup {Torn}
      /\ storeFile["approvals"] \in Stores!Approvals \cup {Torn} /\ storeFile["events"] \in Seq(Nat) \cup {Torn}
      /\ storeFile["events"] # Torn => Len(storeFile["events"]) <= MaxEvents
  BY DEF StoresTyped, Stores!TypeOK
<1>2. /\ Stores!Empty["config"] = Stores!Nothing /\ Stores!Empty["secrets"] = Stores!Nothing
      /\ Stores!Empty["approvals"] = None /\ Stores!Empty["events"] = <<>>
  BY DEF Stores!Empty, Stores!Nothing
<1>3. /\ Stores!Loaded("config") \in Stores!Configurations /\ Stores!Loaded("secrets") \in Stores!SecretFiles
      /\ Stores!Loaded("approvals") \in Stores!Approvals
  BY <1>1, <1>2, NothingStored DEF Stores!Loaded
<1>4. Stores!Loaded("events") \in Seq(Nat) /\ Len(Stores!Loaded("events")) <= MaxEvents
  BY <1>1, <1>2, NothingStored, StoresConstants DEF Stores!Loaded
<1>. QED BY <1>3, <1>4 DEF Stores!Loaded

\* What an operation would fill its file with.
LEMMA Filled ==
  ASSUME StoresTyped, NEW i \in DOMAIN storeOps, storeOps[i].at = "filling"
  PROVE  /\ storeOps[i].data # Torn
         /\ storeOps[i].store = "config" => storeOps[i].data \in Stores!Configurations
         /\ storeOps[i].store = "secrets" => storeOps[i].data \in Stores!SecretFiles /\ storeOps[i].key \in DOMAIN storeOps[i].data
         /\ storeOps[i].store = "approvals" => storeOps[i].data \in Stores!Approvals
         /\ storeOps[i].store = "events" => storeOps[i].data \in Seq(Nat) /\ Len(storeOps[i].data) <= MaxEvents
<1>1. storeOps[i].store \in {"config", "secrets", "approvals", "events"} /\ Carries(storeOps[i])
  BY StoreNames DEF StoresTyped, StoreOperation
<1>. QED BY <1>1, StoresConstants DEF Carries

LEMMA StoresBegin ==
  ASSUME Stores!Init PROVE StoresInv
<1>1. /\ declared \in ConfigVersions /\ running = Stores!Nothing /\ configs = Stores!Nothing /\ approval = None
      /\ events = <<>> /\ failed = FALSE /\ cipher = None /\ storeFile = Stores!Empty
      /\ storeOps = <<>> /\ storeCount = 0 /\ saved = Stores!Nothing /\ lossy = FALSE
  BY DEF Stores!Init
<1>2. DOMAIN storeOps = {} /\ storeOps = [i \in DOMAIN storeOps |-> storeOps[i]]
  BY <1>1
<1>3. storeFile = [config |-> Stores!Nothing, secrets |-> Stores!Nothing, approvals |-> None, events |-> <<>>]
  BY <1>1 DEF Stores!Empty, Stores!Nothing
<1>a. /\ storeFile["config"] = Stores!Nothing /\ storeFile["secrets"] = Stores!Nothing
      /\ storeFile["approvals"] = None /\ storeFile["events"] = <<>>
  BY <1>3
<1>b. storeFile \in [config : Stores!Configurations \cup {Torn}, secrets : Stores!SecretFiles \cup {Torn},
                approvals : Stores!Approvals \cup {Torn}, events : Seq(Nat) \cup {Torn}]
  BY <1>3, NothingStored
<1>c. Len(events) <= MaxEvents
  BY <1>1, NothingStored, StoresConstants
<1>d. storeCount \in 0..MaxStoreOps
  BY <1>1, StoresConstants
<1>e. Stores!TypeOK
  BY <1>1, <1>b, <1>c, <1>d, <1>2, NothingStored DEF Stores!TypeOK, Stores!Pending
<1>4. StoresTyped
  BY <1>e, <1>a, <1>2, <1>c, <1>1 DEF StoresTyped
<1>5. \A s \in Stores!Stores : storeFile[s] # Torn
  BY <1>a, StoreNames, NothingStored, StoresConstants
<1>6. Kept
  BY <1>1, <1>2, <1>a, <1>5, StoreNames
  DEF Kept, OneEach, EmptyIsFilling, ConfigFits, ApprovalFits, EventsFit, SecretsFit
<1>. QED BY <1>4, <1>6 DEF StoresInv

\* What a change of the operations leaves of their types.
LEMMA OperationsTyped ==
  ASSUME StoresTyped,
         storeOps' = [i \in DOMAIN storeOps' |-> storeOps'[i]], storeCount' \in 0..MaxStoreOps,
         \A i \in DOMAIN storeOps' : i \in 0..storeCount' /\ i # storeCount',
         \A i \in DOMAIN storeOps' : storeOps'[i] \in StoreOperation /\ Carries(storeOps'[i]),
         declared' \in ConfigVersions, running' \in Stores!Configurations, configs' \in Stores!Configurations,
         approval' \in Stores!Approvals, events' \in Seq(Nat), Len(events') <= MaxEvents,
         failed' \in BOOLEAN, cipher' \in CipherKeys \cup {None}, saved' \in Stores!SecretFiles,
         lossy' \in BOOLEAN, storeFile' = storeFile
  PROVE  StoresTyped'
<1>1. \A i \in DOMAIN storeOps' :
        storeOps'[i].store \in Stores!Stores /\ storeOps'[i].at \in {"configuring", "reading", "writing", "filling"}
  BY DEF StoreOperation
<1>2. Stores!TypeOK'
  BY <1>1 DEF Stores!TypeOK, Stores!Pending, StoresTyped
<1>. QED BY <1>2 DEF StoresTyped, Carries

LEMMA FileTyped ==
  ASSUME StoresTyped, NEW s \in Stores!Stores, NEW d,
         s = "config" => d \in Stores!Configurations \cup {Torn},
         s = "secrets" => d \in Stores!SecretFiles \cup {Torn},
         s = "approvals" => d \in Stores!Approvals \cup {Torn},
         s = "events" => d \in Seq(Nat) \cup {Torn} /\ (d # Torn => Len(d) <= MaxEvents),
         storeFile' = [storeFile EXCEPT ![s] = d]
  PROVE  /\ storeFile' \in [config : Stores!Configurations \cup {Torn}, secrets : Stores!SecretFiles \cup {Torn},
                       approvals : Stores!Approvals \cup {Torn}, events : Seq(Nat) \cup {Torn}]
         /\ storeFile'["events"] # Torn => Len(storeFile'["events"]) <= MaxEvents
         /\ storeFile'[s] = d /\ \A r \in Stores!Stores : r # s => storeFile'[r] = storeFile[r]
<1>1. /\ storeFile \in [config : Stores!Configurations \cup {Torn}, secrets : Stores!SecretFiles \cup {Torn},
                   approvals : Stores!Approvals \cup {Torn}, events : Seq(Nat) \cup {Torn}]
      /\ storeFile["events"] # Torn => Len(storeFile["events"]) <= MaxEvents
  BY DEF StoresTyped, Stores!TypeOK
<1>2. CASE s = "config"
  BY <1>1, <1>2, StoreNames
<1>3. CASE s = "secrets"
  BY <1>1, <1>3, StoreNames
<1>4. CASE s = "approvals"
  BY <1>1, <1>4, StoreNames
<1>5. CASE s = "events"
  BY <1>1, <1>5, StoreNames
<1>. QED BY <1>2, <1>3, <1>4, <1>5, StoreNames

\* The beginning of an operation.
LEMMA BeginTyped ==
  ASSUME StoresTyped, NEW s \in Stores!Stores, NEW p \in {"configuring", "reading", "writing"},
         NEW k \in SecretNames \cup {None}, NEW d \in StoredData,
         Carries([store |-> s, at |-> p, key |-> k, data |-> d]),
         approval' \in Stores!Approvals, events' \in Seq(Nat), Len(events') <= MaxEvents,
         Stores!Begin(s, p, k, d)
  PROVE  /\ StoresTyped'
         /\ UNCHANGED <<declared, running, configs, failed, cipher, storeFile, saved>>
         /\ lossy' = (lossy \/ Stores!Busy(s))
         /\ DOMAIN storeOps' = DOMAIN storeOps \cup {storeCount} /\ storeCount \notin DOMAIN storeOps
         /\ storeOps'[storeCount] = [store |-> s, at |-> p, key |-> k, data |-> d]
         /\ \A i \in DOMAIN storeOps : storeOps'[i] = storeOps[i]
<1>1. /\ storeOps' = Stores!With(storeOps, storeCount, [store |-> s, at |-> p, key |-> k, data |-> d])
      /\ storeCount < MaxStoreOps /\ storeCount' = storeCount + 1 /\ lossy' = (lossy \/ Stores!Busy(s))
      /\ UNCHANGED <<declared, running, configs, failed, cipher, storeFile, saved>>
  BY DEF Stores!Begin
<1>2. storeCount \in 0..MaxStoreOps /\ \A i \in DOMAIN storeOps : i \in 0..storeCount /\ i # storeCount
  BY DEF StoresTyped, Stores!TypeOK
<1>3. /\ DOMAIN storeOps' = DOMAIN storeOps \cup {storeCount} /\ storeCount \notin DOMAIN storeOps
      /\ storeOps'[storeCount] = [store |-> s, at |-> p, key |-> k, data |-> d]
      /\ \A i \in DOMAIN storeOps : storeOps'[i] = storeOps[i]
      /\ storeOps' = [i \in DOMAIN storeOps' |-> storeOps'[i]]
  BY <1>1, <1>2 DEF Stores!With
<1>4. storeCount' \in 0..MaxStoreOps /\ \A i \in DOMAIN storeOps' : i \in 0..storeCount' /\ i # storeCount'
  BY <1>1, <1>2, <1>3, StoresConstants
<1>5. [store |-> s, at |-> p, key |-> k, data |-> d] \in StoreOperation
  BY DEF StoreOperation
<1>6. \A i \in DOMAIN storeOps' : storeOps'[i] \in StoreOperation /\ Carries(storeOps'[i])
  <2>1. \A i \in DOMAIN storeOps : storeOps[i] \in StoreOperation /\ Carries(storeOps[i])
    BY DEF StoresTyped
  <2>. QED BY <1>3, <1>5, <2>1
<1>7. StoresTyped'
  <2>1. /\ declared' \in ConfigVersions /\ running' \in Stores!Configurations /\ configs' \in Stores!Configurations
        /\ failed' \in BOOLEAN /\ cipher' \in CipherKeys \cup {None} /\ saved' \in Stores!SecretFiles
        /\ lossy' \in BOOLEAN /\ storeFile' = storeFile
    BY <1>1 DEF StoresTyped, Stores!TypeOK
  <2>. QED BY <1>3, <1>4, <1>6, <2>1, OperationsTyped
<1>. QED BY <1>1, <1>3, <1>7

\* A new operation on a store that nothing else is written to.
LEMMA BeginKept ==
  ASSUME StoresTyped, Kept, NEW s \in Stores!Stores, NEW p \in {"configuring", "reading", "writing"},
         NEW k, NEW d, ~Stores!Busy(s),
         UNCHANGED <<running, configs, failed, storeFile, saved>>,
         approval' = IF s = "approvals" THEN d ELSE approval,
         events' = IF s = "events" THEN d ELSE events,
         s = "config" => p = "configuring",
         s = "secrets" => p = "reading",
         DOMAIN storeOps' = DOMAIN storeOps \cup {storeCount}, storeCount \notin DOMAIN storeOps,
         storeOps'[storeCount] = [store |-> s, at |-> p, key |-> k, data |-> d],
         \A i \in DOMAIN storeOps : storeOps'[i] = storeOps[i]
  PROVE  Kept'
<1>1. \A i \in DOMAIN storeOps : storeOps[i].store # s
  BY DEF Stores!Busy, Stores!Pending
<1>2. OneEach'
  BY <1>1 DEF Kept, OneEach
<1>3. EmptyIsFilling'
  <2>1. \A r \in Stores!Stores : (\E i \in DOMAIN storeOps' : storeOps'[i].store = r /\ storeOps'[i].at = "filling")
                         <=> (\E i \in DOMAIN storeOps : storeOps[i].store = r /\ storeOps[i].at = "filling")
    OBVIOUS
  <2>. QED BY <2>1 DEF Kept, EmptyIsFilling
<1>4. \A r \in Stores!Stores : Stores!Busy(r)' <=> Stores!Busy(r) \/ r = s
  BY DEF Stores!Busy, Stores!Pending
<1>5. ConfigFits'
  BY <1>1, <1>4, StoreNames DEF Kept, ConfigFits
<1>6. ApprovalFits'
  BY <1>1, <1>4, StoreNames DEF Kept, ApprovalFits
<1>7. EventsFit'
  BY <1>1, <1>4, StoreNames DEF Kept, EventsFit
<1>8. SecretsFit'
  BY <1>1, StoreNames DEF Kept, SecretsFit
<1>. QED BY <1>2, <1>3, <1>5, <1>6, <1>7, <1>8 DEF Kept

Changed(i, p, d) == [storeOps EXCEPT ![i].at = p, ![i].data = d]

\* An operation that goes on, or ends, leaves the others as they are.
LEMMA OperationChanged ==
  ASSUME StoresTyped, NEW i \in DOMAIN storeOps, NEW p \in {"reading", "writing", "filling"}, NEW d,
         storeOps' = Changed(i, p, d)
  PROVE  /\ DOMAIN storeOps' = DOMAIN storeOps /\ storeOps' = [j \in DOMAIN storeOps' |-> storeOps'[j]]
         /\ storeOps'[i] = [store |-> storeOps[i].store, at |-> p, key |-> storeOps[i].key, data |-> d]
         /\ \A j \in DOMAIN storeOps : j # i => storeOps'[j] = storeOps[j]
<1>1. storeOps = [j \in DOMAIN storeOps |-> storeOps[j]] /\ storeOps[i] \in StoreOperation
  BY DEF StoresTyped
<1>2. storeOps[i] = [store |-> storeOps[i].store, at |-> storeOps[i].at, key |-> storeOps[i].key, data |-> storeOps[i].data]
  BY <1>1 DEF StoreOperation
<1>. QED BY <1>1, <1>2 DEF Changed

LEMMA OperationSteps ==
  ASSUME StoresTyped, NEW i \in DOMAIN storeOps, NEW p \in {"reading", "writing", "filling"},
         storeOps' = Stores!Step(i, p)
  PROVE  storeOps' = Changed(i, p, storeOps[i].data)
<1>1. storeOps = [j \in DOMAIN storeOps |-> storeOps[j]] /\ storeOps[i] \in StoreOperation
  BY DEF StoresTyped
<1>2. storeOps[i] = [store |-> storeOps[i].store, at |-> storeOps[i].at, key |-> storeOps[i].key, data |-> storeOps[i].data]
  BY <1>1 DEF StoreOperation
<1>. QED BY <1>1, <1>2 DEF Stores!Step, Changed

LEMMA OperationEnds ==
  ASSUME NEW i \in DOMAIN storeOps, storeOps' = Stores!Ended(i)
  PROVE  /\ DOMAIN storeOps' = DOMAIN storeOps \ {i} /\ storeOps' = [j \in DOMAIN storeOps' |-> storeOps'[j]]
         /\ \A j \in DOMAIN storeOps' : storeOps'[j] = storeOps[j]
BY DEF Stores!Ended, Stores!Pending

LEMMA GoesOnTyped ==
  ASSUME StoresTyped, NEW i \in DOMAIN storeOps, NEW p \in {"reading", "writing", "filling"},
         NEW d \in StoredData, storeOps' = Changed(i, p, d),
         Carries([store |-> storeOps[i].store, at |-> p, key |-> storeOps[i].key, data |-> d]),
         running' \in Stores!Configurations,
         UNCHANGED <<declared, failed, cipher, configs, approval, events, storeCount, saved, lossy>>,
         storeFile' \in [config : Stores!Configurations \cup {Torn}, secrets : Stores!SecretFiles \cup {Torn},
                    approvals : Stores!Approvals \cup {Torn}, events : Seq(Nat) \cup {Torn}],
         storeFile'["events"] # Torn => Len(storeFile'["events"]) <= MaxEvents
  PROVE  StoresTyped'
<1>1. storeOps[i].store \in Stores!Stores /\ storeOps[i].key \in SecretNames \cup {None}
  BY DEF StoresTyped, StoreOperation
<1>2. \A j \in DOMAIN storeOps : storeOps[j] \in StoreOperation /\ Carries(storeOps[j])
  BY DEF StoresTyped
<1>3. [store |-> storeOps[i].store, at |-> p, key |-> storeOps[i].key, data |-> d] \in StoreOperation
  BY <1>1 DEF StoreOperation
<1>4. \A j \in DOMAIN storeOps' : storeOps'[j] \in StoreOperation /\ Carries(storeOps'[j])
  <2>1. /\ DOMAIN storeOps' = DOMAIN storeOps
        /\ storeOps'[i] = [store |-> storeOps[i].store, at |-> p, key |-> storeOps[i].key, data |-> d]
        /\ \A j \in DOMAIN storeOps : j # i => storeOps'[j] = storeOps[j]
    BY OperationChanged
  <2>2. storeOps'[i] \in StoreOperation /\ Carries(storeOps'[i])
    BY <1>3, <2>1
  <2>. QED BY <1>2, <2>1, <2>2
<1>5. DOMAIN storeOps' = DOMAIN storeOps /\ storeOps' = [j \in DOMAIN storeOps' |-> storeOps'[j]]
  BY OperationChanged
<1>6. \A j \in DOMAIN storeOps' :
        storeOps'[j].store \in Stores!Stores /\ storeOps'[j].at \in {"configuring", "reading", "writing", "filling"}
  BY <1>4 DEF StoreOperation
<1>7. Stores!TypeOK'
  BY <1>6 DEF Stores!TypeOK, Stores!Pending, StoresTyped
<1>. QED BY <1>4, <1>5, <1>7 DEF StoresTyped

LEMMA EndsTyped ==
  ASSUME StoresTyped, NEW i \in DOMAIN storeOps, storeOps' = Stores!Ended(i),
         running' \in Stores!Configurations, configs' \in Stores!Configurations, saved' \in Stores!SecretFiles,
         failed' \in BOOLEAN, lossy' \in BOOLEAN,
         UNCHANGED <<declared, cipher, approval, events, storeCount>>,
         storeFile' \in [config : Stores!Configurations \cup {Torn}, secrets : Stores!SecretFiles \cup {Torn},
                    approvals : Stores!Approvals \cup {Torn}, events : Seq(Nat) \cup {Torn}],
         storeFile'["events"] # Torn => Len(storeFile'["events"]) <= MaxEvents
  PROVE  StoresTyped'
<1>1. \A j \in DOMAIN storeOps' : storeOps'[j] \in StoreOperation /\ Carries(storeOps'[j])
  BY OperationEnds DEF StoresTyped
<1>2. DOMAIN storeOps' \subseteq DOMAIN storeOps /\ storeOps' = [j \in DOMAIN storeOps' |-> storeOps'[j]]
  BY OperationEnds
<1>3. \A j \in DOMAIN storeOps' :
        storeOps'[j].store \in Stores!Stores /\ storeOps'[j].at \in {"configuring", "reading", "writing", "filling"}
  BY <1>1 DEF StoreOperation
<1>4. Stores!TypeOK'
  BY <1>3 DEF Stores!TypeOK, Stores!Pending, StoresTyped
<1>. QED BY <1>1, <1>2, <1>4 DEF StoresTyped

\* The plugin takes its configuration, or refuses it.
LEMMA ConfiguredKeeps ==
  ASSUME StoresInv, NEW i \in DOMAIN storeOps, NEW ok \in BOOLEAN, Stores!Configured(i, ok) PROVE StoresInv'
<1>. USE DEF StoresInv
<1>1. /\ storeOps[i].at = "configuring" /\ storeOps[i].store \in Stores!Stores /\ Carries(storeOps[i])
      /\ UNCHANGED <<declared, cipher, configs, approval, events, storeFile, storeCount, saved, lossy>>
  BY DEF Stores!Configured, Stores!stores, StoresTyped, StoreOperation
<1>2. storeOps[i].store = "config" /\ storeOps[i].data \in Stores!Configurations
  BY <1>1, StoreNames DEF Carries
<1>3. storeOps[i].data \in StoredData /\ running \in Stores!Configurations /\ storeFile' = storeFile
  BY <1>1, <1>2 DEF StoredData, StoresTyped, Stores!TypeOK
<1>4. /\ storeFile' \in [config : Stores!Configurations \cup {Torn}, secrets : Stores!SecretFiles \cup {Torn},
                    approvals : Stores!Approvals \cup {Torn}, events : Seq(Nat) \cup {Torn}]
      /\ storeFile'["events"] # Torn => Len(storeFile'["events"]) <= MaxEvents
      /\ configs' \in Stores!Configurations /\ saved' \in Stores!SecretFiles /\ lossy' \in BOOLEAN
  BY <1>1 DEF StoresTyped, Stores!TypeOK
<1>5. CASE ok
  <2>1. running' = storeOps[i].data /\ storeOps' = Stores!Step(i, "reading") /\ failed' = failed
    BY <1>5 DEF Stores!Configured
  <2>2. storeOps' = Changed(i, "reading", storeOps[i].data)
    BY <2>1, OperationSteps
  <2>3. Carries([store |-> storeOps[i].store, at |-> "reading", key |-> storeOps[i].key, data |-> storeOps[i].data])
    BY <1>2 DEF Carries
  <2>4. StoresTyped'
    BY <1>1, <1>2, <1>3, <1>4, <2>1, <2>2, <2>3, GoesOnTyped
  <2>5. /\ DOMAIN storeOps' = DOMAIN storeOps
        /\ storeOps'[i] = [store |-> "config", at |-> "reading", key |-> storeOps[i].key, data |-> storeOps[i].data]
        /\ \A j \in DOMAIN storeOps : j # i => storeOps'[j] = storeOps[j]
    BY <1>2, <2>2, OperationChanged, ZenonT(40)
  <2>6. ASSUME Kept PROVE Kept'
    <3>1. OneEach'
      BY <1>2, <2>5, <2>6 DEF Kept, OneEach
    <3>2. EmptyIsFilling'
      BY <1>1, <1>2, <2>5, <2>6 DEF Kept, EmptyIsFilling
    <3>3. \A s \in Stores!Stores : Stores!Busy(s)' <=> Stores!Busy(s)
      BY <1>2, <2>5 DEF Stores!Busy, Stores!Pending
    <3>4. \A j \in DOMAIN storeOps' : storeOps'[j].store = "config" => j = i
      BY <1>2, <2>5, <2>6 DEF Kept, OneEach
    <3>5. Stores!Busy("config")'
      BY <2>5 DEF Stores!Busy, Stores!Pending
    <3>6. ConfigFits'
      BY <1>1, <2>1, <2>5, <2>6, <3>4, <3>5 DEF Kept, ConfigFits
    <3>7. ApprovalFits' /\ EventsFit'
      BY <1>1, <1>2, <2>5, <2>6, <3>3, StoreNames DEF Kept, ApprovalFits, EventsFit
    <3>8. SecretsFit'
      BY <1>1, <1>2, <2>5, <2>6 DEF Kept, SecretsFit
    <3>. QED BY <3>1, <3>2, <3>6, <3>7, <3>8 DEF Kept
  <2>. QED BY <1>1, <2>4, <2>6
<1>6. CASE ~ok
  <2>1. running' \in {running, storeOps[i].data} /\ storeOps' = Stores!Ended(i) /\ failed' = TRUE
    BY <1>6 DEF Stores!Configured
  <2>2. StoresTyped'
    BY <1>1, <1>2, <1>3, <1>4, <2>1, EndsTyped
  <2>3. DOMAIN storeOps' = DOMAIN storeOps \ {i} /\ \A j \in DOMAIN storeOps' : storeOps'[j] = storeOps[j]
    BY <2>1, OperationEnds
  <2>4. ASSUME Kept PROVE Kept'
    <3>1. OneEach'
      BY <2>3, <2>4 DEF Kept, OneEach
    <3>2. EmptyIsFilling'
      BY <1>1, <2>3, <2>4 DEF Kept, EmptyIsFilling
    <3>3. \A s \in Stores!Stores : s # "config" => (Stores!Busy(s)' <=> Stores!Busy(s))
      BY <1>2, <2>3 DEF Stores!Busy, Stores!Pending
    <3>4. ConfigFits'
      BY <2>1 DEF ConfigFits
    <3>5. ApprovalFits' /\ EventsFit'
      BY <1>1, <1>2, <2>3, <2>4, <3>3, StoreNames DEF Kept, ApprovalFits, EventsFit
    <3>6. SecretsFit'
      BY <1>1, <2>3, <2>4 DEF Kept, SecretsFit
    <3>. QED BY <3>1, <3>2, <3>4, <3>5, <3>6 DEF Kept
  <2>. QED BY <1>1, <2>2, <2>4
<1>. QED BY <1>5, <1>6

\* What is written of secrets is what was read with the one that changes.
LEMMA ReadKeeps ==
  ASSUME StoresInv, NEW i \in DOMAIN storeOps, Stores!Read(i) PROVE StoresInv'
<1>. USE DEF StoresInv
<1>1. /\ storeOps[i].at = "reading" /\ storeOps[i].store \in Stores!Stores /\ Carries(storeOps[i])
      /\ UNCHANGED <<declared, running, failed, cipher, configs, approval, events, storeFile, storeCount,
                     saved, lossy>>
  BY DEF Stores!Read, Stores!stores, StoresTyped, StoreOperation
<1>. DEFINE d == Stores!Written(storeOps[i])
<1>2. storeOps' = Changed(i, "writing", d)
  BY DEF Stores!Read, Changed
<1>3. storeOps[i].store \in {"config", "secrets"}
  BY <1>1, StoreNames DEF Carries
<1>4. storeOps[i].store = "config" => d = storeOps[i].data /\ d \in Stores!Configurations
  BY <1>1 DEF Carries, Stores!Written
<1>5. storeOps[i].store = "secrets" =>
        /\ d = Stores!With(Stores!Loaded("secrets"), storeOps[i].key, storeOps[i].data) /\ d[storeOps[i].key] = storeOps[i].data
        /\ d \in Stores!SecretFiles /\ storeOps[i].key \in DOMAIN d /\ storeOps[i].key \in SecretNames
  BY <1>1, LoadedFits, SecretsWith DEF Carries, Stores!Written, Stores!With
<1>. HIDE DEF d
<1>6. d \in StoredData
  BY <1>3, <1>4, <1>5 DEF StoredData
<1>7. Carries([store |-> storeOps[i].store, at |-> "writing", key |-> storeOps[i].key, data |-> d])
  BY <1>3, <1>4, <1>5 DEF Carries
<1>8. /\ storeFile' \in [config : Stores!Configurations \cup {Torn}, secrets : Stores!SecretFiles \cup {Torn},
                    approvals : Stores!Approvals \cup {Torn}, events : Seq(Nat) \cup {Torn}]
      /\ storeFile'["events"] # Torn => Len(storeFile'["events"]) <= MaxEvents
      /\ running' \in Stores!Configurations
  BY <1>1 DEF StoresTyped, Stores!TypeOK
<1>9. StoresTyped'
  BY <1>1, <1>2, <1>6, <1>7, <1>8, GoesOnTyped
<1>10. /\ DOMAIN storeOps' = DOMAIN storeOps
       /\ storeOps'[i] = [store |-> storeOps[i].store, at |-> "writing", key |-> storeOps[i].key, data |-> d]
       /\ \A j \in DOMAIN storeOps : j # i => storeOps'[j] = storeOps[j]
  BY <1>2, OperationChanged
<1>11. ASSUME Kept PROVE Kept'
  <2>1. OneEach'
    BY <1>10, <1>11 DEF Kept, OneEach
  <2>2. EmptyIsFilling'
    BY <1>1, <1>10, <1>11 DEF Kept, EmptyIsFilling
  <2>3. \A s \in Stores!Stores : Stores!Busy(s)' <=> Stores!Busy(s)
    BY <1>10 DEF Stores!Busy, Stores!Pending
  <2>4. ConfigFits'
    BY <1>1, <1>4, <1>10, <1>11, <2>3, StoreNames DEF Kept, ConfigFits
  <2>5. ApprovalFits' /\ EventsFit'
    BY <1>1, <1>3, <1>10, <1>11, <2>3, StoreNames DEF Kept, ApprovalFits, EventsFit
  <2>6. SecretsFit'
    <3>1. CASE storeOps[i].store = "config"
      BY <1>1, <1>10, <1>11, <3>1 DEF Kept, SecretsFit
    <3>2. CASE storeOps[i].store = "secrets"
      <4>1. \A j \in DOMAIN storeOps : storeOps[j].store = "secrets" => j = i
        BY <1>11, <3>2 DEF Kept, OneEach
      <4>2. storeFile["secrets"] # Torn
        BY <1>1, <1>11, <4>1, StoreNames DEF Kept, EmptyIsFilling
      <4>3. Stores!Loaded("secrets") = saved
        BY <1>11, <4>2, LoadedFits, StoreNames DEF Kept, SecretsFit
      <4>4. storeOps'[i].data = Stores!With(saved, storeOps'[i].key, storeOps'[i].data[storeOps'[i].key])
        BY <1>5, <1>10, <3>2, <4>3
      <4>5. \A j \in DOMAIN storeOps' : storeOps'[j].store = "secrets" => j = i
        BY <1>10, <4>1
      <4>. QED BY <1>1, <1>11, <4>4, <4>5 DEF Kept, SecretsFit
    <3>. QED BY <1>3, <3>1, <3>2
  <2>. QED BY <2>1, <2>2, <2>4, <2>5, <2>6 DEF Kept
<1>. QED BY <1>1, <1>9, <1>11

\* The file is empty until it is filled.
LEMMA TruncateKeeps ==
  ASSUME StoresInv, NEW i \in DOMAIN storeOps, Stores!Truncate(i) PROVE StoresInv'
<1>. USE DEF StoresInv
<1>1. /\ storeOps[i].at = "writing" /\ storeOps[i].store \in Stores!Stores /\ Carries(storeOps[i])
      /\ storeOps[i].data \in StoredData
      /\ UNCHANGED <<declared, running, failed, cipher, configs, approval, events, storeCount, saved, lossy>>
  BY DEF Stores!Truncate, Stores!stores, StoresTyped, StoreOperation
<1>2. storeFile' = [storeFile EXCEPT ![storeOps[i].store] = Torn] /\ storeOps' = Stores!Step(i, "filling")
  BY DEF Stores!Truncate
<1>3. storeOps' = Changed(i, "filling", storeOps[i].data)
  BY <1>2, OperationSteps
<1>4. /\ storeFile' \in [config : Stores!Configurations \cup {Torn}, secrets : Stores!SecretFiles \cup {Torn},
                    approvals : Stores!Approvals \cup {Torn}, events : Seq(Nat) \cup {Torn}]
      /\ storeFile'["events"] # Torn => Len(storeFile'["events"]) <= MaxEvents
      /\ storeFile'[storeOps[i].store] = Torn /\ \A r \in Stores!Stores : r # storeOps[i].store => storeFile'[r] = storeFile[r]
  BY <1>1, <1>2, FileTyped
<1>5. Carries([store |-> storeOps[i].store, at |-> "filling", key |-> storeOps[i].key, data |-> storeOps[i].data])
  BY <1>1 DEF Carries
<1>6. running' \in Stores!Configurations
  BY <1>1 DEF StoresTyped, Stores!TypeOK
<1>7. StoresTyped'
  BY <1>1, <1>3, <1>4, <1>5, <1>6, GoesOnTyped
<1>8. /\ DOMAIN storeOps' = DOMAIN storeOps
      /\ storeOps'[i] = [store |-> storeOps[i].store, at |-> "filling", key |-> storeOps[i].key, data |-> storeOps[i].data]
      /\ \A j \in DOMAIN storeOps : j # i => storeOps'[j] = storeOps[j]
  BY <1>3, OperationChanged
<1>9. ASSUME Kept PROVE Kept'
  <2>1. \A j \in DOMAIN storeOps : storeOps[j].store = storeOps[i].store => j = i
    BY <1>9 DEF Kept, OneEach
  <2>2. OneEach'
    BY <1>8, <1>9 DEF Kept, OneEach
  <2>3. EmptyIsFilling'
    <3>1. ASSUME NEW r \in Stores!Stores, r = storeOps[i].store
          PROVE  storeFile'[r] = Torn <=> \E j \in DOMAIN storeOps' : storeOps'[j].store = r /\ storeOps'[j].at = "filling"
      BY <1>4, <1>8, <3>1
    <3>2. ASSUME NEW r \in Stores!Stores, r # storeOps[i].store
          PROVE  storeFile'[r] = Torn <=> \E j \in DOMAIN storeOps' : storeOps'[j].store = r /\ storeOps'[j].at = "filling"
      BY <1>4, <1>8, <1>9, <3>2 DEF Kept, EmptyIsFilling
    <3>. QED BY <3>1, <3>2 DEF EmptyIsFilling
  <2>4. \A s \in Stores!Stores : Stores!Busy(s)' <=> Stores!Busy(s)
    BY <1>8 DEF Stores!Busy, Stores!Pending
  <2>5. Stores!Busy(storeOps[i].store)
    BY DEF Stores!Busy, Stores!Pending
  <2>6. ConfigFits'
    BY <1>1, <1>4, <1>8, <1>9, <2>4, StoreNames DEF Kept, ConfigFits
  <2>7. ApprovalFits' /\ EventsFit'
    BY <1>1, <1>4, <1>8, <1>9, <2>4, <2>5, StoreNames DEF Kept, ApprovalFits, EventsFit
  <2>8. SecretsFit'
    BY <1>1, <1>4, <1>8, <1>9, StoreNames DEF Kept, SecretsFit
  <2>. QED BY <2>2, <2>3, <2>6, <2>7, <2>8 DEF Kept
<1>. QED BY <1>1, <1>7, <1>9

\* What was asked for is stored, unless another operation has written meanwhile.
LEMMA FillKeeps ==
  ASSUME StoresInv, NEW i \in DOMAIN storeOps, NEW torn \in BOOLEAN, Stores!Fill(i, torn) PROVE StoresInv'
<1>. USE DEF StoresInv
<1>1. /\ storeOps[i].at = "filling" /\ storeOps[i].store \in Stores!Stores /\ (torn => storeFile[storeOps[i].store] # Torn)
      /\ UNCHANGED <<declared, running, failed, cipher, approval, events, storeCount, lossy>>
      /\ storeOps' = Stores!Ended(i)
      /\ configs' = IF storeOps[i].store = "config" THEN storeOps[i].data ELSE configs
      /\ saved' = IF storeOps[i].store = "secrets"
                  THEN Stores!With(saved, storeOps[i].key, storeOps[i].data[storeOps[i].key]) ELSE saved
      /\ storeFile' = [storeFile EXCEPT ![storeOps[i].store] = IF torn THEN Torn ELSE storeOps[i].data]
  BY DEF Stores!Fill, StoresTyped, StoreOperation
<1>2. /\ storeFile' \in [config : Stores!Configurations \cup {Torn}, secrets : Stores!SecretFiles \cup {Torn},
                    approvals : Stores!Approvals \cup {Torn}, events : Seq(Nat) \cup {Torn}]
      /\ storeFile'["events"] # Torn => Len(storeFile'["events"]) <= MaxEvents
      /\ storeFile'[storeOps[i].store] = IF torn THEN Torn ELSE storeOps[i].data
      /\ \A r \in Stores!Stores : r # storeOps[i].store => storeFile'[r] = storeFile[r]
  <2>1. PICK d : d = IF torn THEN Torn ELSE storeOps[i].data
    OBVIOUS
  <2>2. PICK s \in Stores!Stores : s = storeOps[i].store
    BY <1>1
  <2>3. /\ s = "config" => d \in Stores!Configurations \cup {Torn}
        /\ s = "secrets" => d \in Stores!SecretFiles \cup {Torn}
        /\ s = "approvals" => d \in Stores!Approvals \cup {Torn}
        /\ s = "events" => d \in Seq(Nat) \cup {Torn} /\ (d # Torn => Len(d) <= MaxEvents)
    BY <1>1, <2>1, <2>2, Filled
  <2>4. storeFile' = [storeFile EXCEPT ![s] = d]
    BY <1>1, <2>1, <2>2
  <2>5. /\ storeFile' \in [config : Stores!Configurations \cup {Torn}, secrets : Stores!SecretFiles \cup {Torn},
                      approvals : Stores!Approvals \cup {Torn}, events : Seq(Nat) \cup {Torn}]
        /\ storeFile'["events"] # Torn => Len(storeFile'["events"]) <= MaxEvents
        /\ storeFile'[s] = d /\ \A r \in Stores!Stores : r # s => storeFile'[r] = storeFile[r]
    BY <2>3, <2>4, FileTyped
  <2>. QED BY <2>1, <2>2, <2>5
<1>3. configs' \in Stores!Configurations
  BY <1>1, Filled DEF StoresTyped, Stores!TypeOK
<1>4. saved' \in Stores!SecretFiles
  <2>1. saved \in Stores!SecretFiles
    BY DEF StoresTyped, Stores!TypeOK
  <2>2. CASE storeOps[i].store = "secrets"
    <3>1. storeOps[i].data \in Stores!SecretFiles /\ storeOps[i].key \in DOMAIN storeOps[i].data
      BY <1>1, <2>2, Filled
    <3>2. PICK s \in SUBSET SecretNames : storeOps[i].data \in [s -> StoredSecrets]
      BY <3>1 DEF Stores!SecretFiles, StoredSecrets
    <3>3. storeOps[i].key \in SecretNames /\ storeOps[i].data[storeOps[i].key] \in StoredSecrets
      BY <3>1, <3>2
    <3>. QED BY <1>1, <2>1, <2>2, <3>3, SecretsWith
  <2>3. CASE storeOps[i].store # "secrets"
    BY <1>1, <2>1, <2>3
  <2>. QED BY <2>2, <2>3
<1>5. running' \in Stores!Configurations /\ failed' \in BOOLEAN /\ lossy' \in BOOLEAN
  BY <1>1 DEF StoresTyped, Stores!TypeOK
<1>6. StoresTyped'
  BY <1>1, <1>2, <1>3, <1>4, <1>5, EndsTyped
<1>7. DOMAIN storeOps' = DOMAIN storeOps \ {i} /\ \A j \in DOMAIN storeOps' : storeOps'[j] = storeOps[j]
  BY <1>1, OperationEnds
<1>8. ASSUME Kept PROVE Kept'
  <2>1. \A j \in DOMAIN storeOps' : storeOps'[j].store # storeOps[i].store
    BY <1>7, <1>8 DEF Kept, OneEach
  <2>2. ~torn
    BY <1>1, <1>8 DEF Kept, EmptyIsFilling
  <2>3. storeFile'[storeOps[i].store] = storeOps[i].data /\ storeOps[i].data # Torn
    BY <1>1, <1>2, <2>2, Filled
  <2>4. OneEach'
    BY <1>7, <1>8 DEF Kept, OneEach
  <2>5. EmptyIsFilling'
    <3>1. ASSUME NEW r \in Stores!Stores, r = storeOps[i].store
          PROVE  storeFile'[r] = Torn <=> \E j \in DOMAIN storeOps' : storeOps'[j].store = r /\ storeOps'[j].at = "filling"
      BY <2>1, <2>3, <3>1
    <3>2. ASSUME NEW r \in Stores!Stores, r # storeOps[i].store
          PROVE  storeFile'[r] = Torn <=> \E j \in DOMAIN storeOps' : storeOps'[j].store = r /\ storeOps'[j].at = "filling"
      BY <1>2, <1>7, <1>8, <3>2 DEF Kept, EmptyIsFilling
    <3>. QED BY <3>1, <3>2 DEF EmptyIsFilling
  <2>6. \A s \in Stores!Stores : Stores!Busy(s)' <=> Stores!Busy(s) /\ s # storeOps[i].store
    BY <1>7, <2>1 DEF Stores!Busy, Stores!Pending
  <2>7. ConfigFits'
    BY <1>1, <1>2, <1>7, <1>8, <2>1, <2>3, <2>6, StoreNames DEF Kept, ConfigFits
  <2>8. ApprovalFits'
    BY <1>1, <1>2, <1>7, <1>8, <2>1, <2>3, <2>6, StoreNames DEF Kept, ApprovalFits
  <2>9. EventsFit'
    BY <1>1, <1>2, <1>7, <1>8, <2>1, <2>3, <2>6, StoreNames DEF Kept, EventsFit
  <2>10. SecretsFit'
    <3>1. CASE storeOps[i].store = "secrets"
      <4>1. saved' = storeOps[i].data
        BY <1>1, <1>8, <3>1 DEF Kept, SecretsFit
      <4>. QED BY <2>1, <2>3, <3>1, <4>1 DEF SecretsFit
    <3>2. CASE storeOps[i].store # "secrets"
      BY <1>1, <1>2, <1>7, <1>8, <3>2, StoreNames DEF Kept, SecretsFit
    <3>. QED BY <3>1, <3>2
  <2>. QED BY <2>4, <2>5, <2>7, <2>8, <2>9, <2>10 DEF Kept
<1>. QED BY <1>1, <1>6, <1>8

LEMMA WriteFailsKeeps ==
  ASSUME StoresInv, NEW i \in DOMAIN storeOps, Stores!WriteFails(i) PROVE StoresInv'
<1>. USE DEF StoresInv
<1>1. /\ storeOps[i].at = "writing" /\ storeOps[i].store \in Stores!Stores /\ storeOps' = Stores!Ended(i)
      /\ failed' = (failed \/ storeOps[i].store = "config")
      /\ lossy' = (lossy \/ storeOps[i].store \in {"approvals", "events"})
      /\ UNCHANGED <<declared, running, cipher, configs, approval, events, storeFile, storeCount, saved>>
  BY DEF Stores!WriteFails, Stores!stores, StoresTyped, StoreOperation
<1>2. /\ running' \in Stores!Configurations /\ configs' \in Stores!Configurations /\ saved' \in Stores!SecretFiles
      /\ storeFile' \in [config : Stores!Configurations \cup {Torn}, secrets : Stores!SecretFiles \cup {Torn},
                    approvals : Stores!Approvals \cup {Torn}, events : Seq(Nat) \cup {Torn}]
      /\ storeFile'["events"] # Torn => Len(storeFile'["events"]) <= MaxEvents
      /\ failed' \in BOOLEAN /\ lossy' \in BOOLEAN
  BY <1>1 DEF StoresTyped, Stores!TypeOK
<1>3. StoresTyped'
  BY <1>1, <1>2, EndsTyped
<1>4. DOMAIN storeOps' = DOMAIN storeOps \ {i} /\ \A j \in DOMAIN storeOps' : storeOps'[j] = storeOps[j]
  BY <1>1, OperationEnds
<1>5. ASSUME Kept, ~lossy' PROVE Kept'
  <2>1. storeOps[i].store \in {"config", "secrets"} /\ (~failed' => storeOps[i].store = "secrets")
    BY <1>1, <1>5, StoreNames
  <2>2. OneEach'
    BY <1>4, <1>5 DEF Kept, OneEach
  <2>3. EmptyIsFilling'
    BY <1>1, <1>4, <1>5 DEF Kept, EmptyIsFilling
  <2>4. \A s \in Stores!Stores : s # storeOps[i].store => (Stores!Busy(s)' <=> Stores!Busy(s))
    BY <1>4 DEF Stores!Busy, Stores!Pending
  <2>5. ConfigFits'
    BY <1>1, <1>4, <1>5, <2>1, <2>4, StoreNames DEF Kept, ConfigFits
  <2>6. ApprovalFits' /\ EventsFit'
    BY <1>1, <1>4, <1>5, <2>1, <2>4, StoreNames DEF Kept, ApprovalFits, EventsFit
  <2>7. SecretsFit'
    BY <1>1, <1>4, <1>5 DEF Kept, SecretsFit
  <2>. QED BY <2>2, <2>3, <2>5, <2>6, <2>7 DEF Kept
<1>. QED BY <1>1, <1>3, <1>5

\* An update takes the stored configuration, while no operation is on it.
LEMMA UpdateKeeps ==
  ASSUME StoresInv, NEW v \in ConfigVersions, Stores!Update(v) PROVE StoresInv'
<1>. USE DEF StoresInv
<1>1. /\ ~Stores!Busy("config") /\ declared' \in {v, declared}
      /\ configs' = Stores!Loaded("config") /\ running' = Stores!Loaded("config") /\ failed' = FALSE
      /\ UNCHANGED <<approval, events, cipher, storeFile, storeOps, storeCount, saved, lossy>>
  BY DEF Stores!Update, Stores!Load
<1>2. StoresTyped'
  <2>1. Stores!TypeOK'
    BY <1>1, LoadedFits DEF StoresTyped, Stores!TypeOK, Stores!Pending
  <2>. QED BY <1>1, <2>1 DEF StoresTyped, Carries
<1>3. ASSUME Kept PROVE Kept'
  <2>1. storeFile["config"] # Torn
    BY <1>1, <1>3, StoreNames DEF Kept, EmptyIsFilling, Stores!Busy, Stores!Pending
  <2>2. ConfigFits'
    BY <1>1, <2>1, LoadedFits, StoreNames DEF ConfigFits, Stores!Busy, Stores!Pending
  <2>3. OneEach' /\ EmptyIsFilling' /\ ApprovalFits' /\ EventsFit' /\ SecretsFit'
    BY <1>1, <1>3 DEF Kept, OneEach, EmptyIsFilling, ApprovalFits, EventsFit, SecretsFit, Stores!Busy,
      Stores!Pending
  <2>. QED BY <2>2, <2>3 DEF Kept
<1>. QED BY <1>1, <1>2, <1>3

\* A start takes what the files have.
LEMMA RestartKeeps ==
  ASSUME StoresInv, NEW c \in CipherKeys \cup {None}, Stores!Restart(c) PROVE StoresInv'
<1>. USE DEF StoresInv
<1>1. /\ lossy' = (lossy \/ \E i \in DOMAIN storeOps : storeOps[i].at \in {"writing", "filling"})
      /\ storeOps' = <<>> /\ cipher' = c /\ declared' = declared
      /\ configs' = Stores!Loaded("config") /\ running' = Stores!Loaded("config") /\ failed' = FALSE
      /\ approval' = Stores!Loaded("approvals") /\ events' = Stores!Loaded("events")
      /\ UNCHANGED <<storeFile, storeCount, saved>>
  BY DEF Stores!Restart, Stores!Load, Stores!Pending
<1>2. DOMAIN storeOps' = {} /\ storeOps' = [i \in DOMAIN storeOps' |-> storeOps'[i]]
  BY <1>1
<1>3. StoresTyped'
  <2>1. /\ declared' \in ConfigVersions /\ running' \in Stores!Configurations /\ configs' \in Stores!Configurations
        /\ approval' \in Stores!Approvals /\ events' \in Seq(Nat) /\ Len(events') <= MaxEvents
        /\ failed' \in BOOLEAN /\ cipher' \in CipherKeys \cup {None} /\ saved' \in Stores!SecretFiles
        /\ lossy' \in BOOLEAN /\ storeFile' = storeFile /\ storeCount' \in 0..MaxStoreOps
    BY <1>1, LoadedFits DEF StoresTyped, Stores!TypeOK
  <2>. QED BY <1>2, <2>1, OperationsTyped
<1>4. ASSUME Kept, ~lossy' PROVE Kept'
  <2>1. \A s \in Stores!Stores : storeFile[s] # Torn
    BY <1>1, <1>4 DEF Kept, EmptyIsFilling
  <2>2. OneEach' /\ EmptyIsFilling'
    BY <1>1, <1>2, <2>1 DEF OneEach, EmptyIsFilling
  <2>3. \A s \in Stores!Stores : Stores!Loaded(s) = storeFile[s]
    BY <2>1, LoadedFits
  <2>4. ConfigFits' /\ ApprovalFits' /\ EventsFit'
    BY <1>1, <1>2, <2>3, StoreNames DEF ConfigFits, ApprovalFits, EventsFit
  <2>5. SecretsFit'
    BY <1>1, <1>2, <1>4 DEF Kept, SecretsFit
  <2>. QED BY <2>2, <2>4, <2>5 DEF Kept
<1>. QED BY <1>1, <1>3, <1>4

LEMMA PublishedFits ==
  ASSUME events \in Seq(Nat), NEW n \in Nat
  PROVE  Stores!Published(n) \in Seq(Nat) /\ Len(Stores!Published(n)) <= MaxEvents
<1>. DEFINE all == <<n>> \o events
            most == IF Len(events) < MaxEvents THEN Len(events) + 1 ELSE MaxEvents
<1>1. Len(events) \in Nat
  BY LenProperties
<1>2. <<n>> \in Seq(Nat) /\ Len(<<n>>) = 1
  OBVIOUS
<1>3. all \in Seq(Nat) /\ Len(all) = Len(events) + 1
  BY <1>1, <1>2, ConcatProperties
<1>4. most \in Nat /\ most <= MaxEvents /\ most <= Len(all)
  BY <1>1, <1>3, StoresConstants
<1>5. Stores!Published(n) = SubSeq(all, 1, most)
  BY DEF Stores!Published
<1>. HIDE DEF all, most
<1>6. \A i \in 1..most : i \in 1..Len(all)
  BY <1>3, <1>4, LenProperties
<1>7. SubSeq(all, 1, most) \in Seq(Nat) /\ Len(SubSeq(all, 1, most)) = most
  BY <1>3, <1>4, <1>6, SubSeqProperties
<1>. QED BY <1>4, <1>5, <1>7

LEMMA UpdateConfigKeeps ==
  ASSUME StoresInv, NEW k \in UNION ConfigVersions, NEW v \in ConfigValues,
         Stores!UpdateConfig(k, v) PROVE StoresInv'
<1>. DEFINE d == Stores!With(configs, k, v)
<1>1. Stores!Begin("config", "configuring", None, d) /\ UNCHANGED <<approval, events>>
  BY DEF Stores!UpdateConfig
<1>2. StoresTyped /\ d \in Stores!Configurations /\ approval \in Stores!Approvals /\ events \in Seq(Nat)
      /\ Len(events) <= MaxEvents
  BY ConfigurationWith DEF StoresInv, StoresTyped, Stores!TypeOK
<1>. HIDE DEF d
<1>3. /\ "config" \in Stores!Stores /\ None \in SecretNames \cup {None} /\ d \in StoredData
      /\ Carries([store |-> "config", at |-> "configuring", key |-> None, data |-> d])
  BY <1>2, StoreNames DEF StoredData, Carries
<1>4. /\ StoresTyped'
      /\ UNCHANGED <<declared, running, configs, failed, cipher, storeFile, saved>>
      /\ lossy' = (lossy \/ Stores!Busy("config"))
      /\ DOMAIN storeOps' = DOMAIN storeOps \cup {storeCount} /\ storeCount \notin DOMAIN storeOps
      /\ storeOps'[storeCount] = [store |-> "config", at |-> "configuring", key |-> None, data |-> d]
      /\ \A i \in DOMAIN storeOps : storeOps'[i] = storeOps[i]
  BY <1>1, <1>2, <1>3, BeginTyped
<1>5. ASSUME Kept, ~lossy' PROVE Kept'
  BY <1>1, <1>2, <1>3, <1>4, <1>5, BeginKept
<1>. QED BY <1>4, <1>5 DEF StoresInv

LEMMA UpdateSecretKeeps ==
  ASSUME StoresInv, NEW k \in SecretNames, NEW v \in ConfigValues,
         Stores!UpdateSecret(k, v) PROVE StoresInv'
<1>. DEFINE d == [value |-> v, cipher |-> cipher]
<1>1. Stores!Begin("secrets", "reading", k, d) /\ UNCHANGED <<approval, events>>
  BY DEF Stores!UpdateSecret
<1>2. StoresTyped /\ d \in StoredSecrets /\ approval \in Stores!Approvals /\ events \in Seq(Nat)
      /\ Len(events) <= MaxEvents
  BY DEF StoresInv, StoresTyped, Stores!TypeOK, StoredSecrets
<1>. HIDE DEF d
<1>3. /\ "secrets" \in Stores!Stores /\ k \in SecretNames \cup {None} /\ d \in StoredData
      /\ Carries([store |-> "secrets", at |-> "reading", key |-> k, data |-> d])
  BY <1>2, StoreNames DEF StoredData, Carries
<1>4. /\ StoresTyped'
      /\ UNCHANGED <<declared, running, configs, failed, cipher, storeFile, saved>>
      /\ lossy' = (lossy \/ Stores!Busy("secrets"))
      /\ DOMAIN storeOps' = DOMAIN storeOps \cup {storeCount} /\ storeCount \notin DOMAIN storeOps
      /\ storeOps'[storeCount] = [store |-> "secrets", at |-> "reading", key |-> k, data |-> d]
      /\ \A i \in DOMAIN storeOps : storeOps'[i] = storeOps[i]
  BY <1>1, <1>2, <1>3, BeginTyped
<1>5. ASSUME Kept, ~lossy' PROVE Kept'
  BY <1>1, <1>2, <1>3, <1>4, <1>5, BeginKept
<1>. QED BY <1>4, <1>5 DEF StoresInv

LEMMA ApproveKeeps ==
  ASSUME StoresInv, NEW v \in ConfigVersions \cup {None}, Stores!Approve(v) PROVE StoresInv'
<1>1. Stores!Begin("approvals", "writing", None, v) /\ approval' = v /\ events' = events
  BY DEF Stores!Approve
<1>2. StoresTyped /\ v \in Stores!Approvals /\ events \in Seq(Nat) /\ Len(events) <= MaxEvents
  BY DEF StoresInv, StoresTyped, Stores!TypeOK, Stores!Approvals
<1>3. /\ "approvals" \in Stores!Stores /\ None \in SecretNames \cup {None} /\ v \in StoredData
      /\ Carries([store |-> "approvals", at |-> "writing", key |-> None, data |-> v])
  BY <1>2, StoreNames DEF StoredData, Carries
<1>4. /\ StoresTyped'
      /\ UNCHANGED <<declared, running, configs, failed, cipher, storeFile, saved>>
      /\ lossy' = (lossy \/ Stores!Busy("approvals"))
      /\ DOMAIN storeOps' = DOMAIN storeOps \cup {storeCount} /\ storeCount \notin DOMAIN storeOps
      /\ storeOps'[storeCount] = [store |-> "approvals", at |-> "writing", key |-> None, data |-> v]
      /\ \A i \in DOMAIN storeOps : storeOps'[i] = storeOps[i]
  BY <1>1, <1>2, <1>3, BeginTyped
<1>5. ASSUME Kept, ~lossy' PROVE Kept'
  BY <1>1, <1>2, <1>3, <1>4, <1>5, BeginKept
<1>. QED BY <1>4, <1>5 DEF StoresInv

LEMMA PublishKeeps ==
  ASSUME StoresInv, Stores!PublishEvent PROVE StoresInv'
<1>1. PICK d : d = Stores!Published(storeCount) /\ events' = d
  BY DEF Stores!PublishEvent
<1>2. Stores!Begin("events", "writing", None, d) /\ approval' = approval
  BY <1>1 DEF Stores!PublishEvent, Stores!Begin
<1>3. StoresTyped /\ approval \in Stores!Approvals /\ d \in Seq(Nat) /\ Len(d) <= MaxEvents
  <2>1. StoresTyped /\ approval \in Stores!Approvals /\ events \in Seq(Nat) /\ storeCount \in Nat
    BY StoresConstants DEF StoresInv, StoresTyped, Stores!TypeOK
  <2>. QED BY <1>1, <2>1, PublishedFits
<1>4. /\ "events" \in Stores!Stores /\ None \in SecretNames \cup {None} /\ d \in StoredData
      /\ Carries([store |-> "events", at |-> "writing", key |-> None, data |-> d])
  BY <1>3, StoreNames DEF StoredData, Carries
<1>5. /\ StoresTyped'
      /\ UNCHANGED <<declared, running, configs, failed, cipher, storeFile, saved>>
      /\ lossy' = (lossy \/ Stores!Busy("events"))
      /\ DOMAIN storeOps' = DOMAIN storeOps \cup {storeCount} /\ storeCount \notin DOMAIN storeOps
      /\ storeOps'[storeCount] = [store |-> "events", at |-> "writing", key |-> None, data |-> d]
      /\ \A i \in DOMAIN storeOps : storeOps'[i] = storeOps[i]
  BY <1>1, <1>2, <1>3, <1>4, BeginTyped, ZenonT(40)
<1>6. ASSUME Kept, ~lossy' PROVE Kept'
  BY <1>1, <1>2, <1>3, <1>4, <1>5, <1>6, BeginKept
<1>. QED BY <1>5, <1>6 DEF StoresInv

LEMMA StoresGoOn ==
  ASSUME StoresInv, Stores!Next \/ UNCHANGED Stores!vars PROVE StoresInv'
<1>1. CASE UNCHANGED Stores!vars
  <2>1. UNCHANGED <<declared, running, configs, approval, events, failed, cipher, storeFile, storeOps, storeCount,
                    saved, lossy>>
    BY <1>1 DEF Stores!vars, Stores!stores
  <2>. QED BY <2>1 DEF StoresInv, StoresTyped, Stores!TypeOK, Stores!Pending, Kept, OneEach, EmptyIsFilling,
    ConfigFits, ApprovalFits, EventsFit, SecretsFit, Stores!Busy, Stores!Loaded
<1>2. ASSUME NEW i \in Stores!Pending, NEW b \in BOOLEAN,
             Stores!Configured(i, b) \/ Stores!Fill(i, b) PROVE StoresInv'
  BY <1>2, ConfiguredKeeps, FillKeeps DEF Stores!Pending
<1>3. ASSUME NEW i \in Stores!Pending,
             Stores!Read(i) \/ Stores!Truncate(i) \/ Stores!WriteFails(i) PROVE StoresInv'
  BY <1>3, ReadKeeps, TruncateKeeps, WriteFailsKeeps DEF Stores!Pending
<1>. QED BY <1>1, <1>2, <1>3, UpdateConfigKeeps, UpdateSecretKeeps, ApproveKeeps, UpdateKeeps,
  PublishKeeps, RestartKeeps DEF Stores!Next

LEMMA StoresFollow ==
  ASSUME StoresInv PROVE Stores!StoresKeep
<1>. SUFFICES ASSUME Kept PROVE Stores!StoresKeep
  BY DEF StoresInv, Stores!StoresKeep
<1>1. \A s \in Stores!Stores : ~Stores!Busy(s) => storeFile[s] # Torn
  BY DEF Kept, EmptyIsFilling, Stores!Busy, Stores!Pending
<1>2. \A s \in Stores!Stores : ~Stores!Busy(s) => Stores!Loaded(s) = storeFile[s]
  BY <1>1, LoadedFits DEF StoresInv
<1>3. ~failed /\ ~Stores!Busy("config") => running = configs /\ configs = Stores!Loaded("config")
  BY <1>1, <1>2, StoreNames DEF Kept, ConfigFits
<1>4. /\ ~Stores!Busy("approvals") => Stores!Loaded("approvals") = approval
      /\ ~Stores!Busy("events") => Stores!Loaded("events") = events
      /\ ~Stores!Busy("secrets") => Stores!Loaded("secrets") = saved
  BY <1>1, <1>2, StoreNames DEF Kept, ApprovalFits, EventsFit, SecretsFit
<1>. QED BY <1>3, <1>4 DEF Stores!StoresKeep, Stores!Readable

-----------------------------------------------------------------------------
\* What the constants of this part are.
LEMMA ChecksConstants ==
  /\ MaxEndpoints \in Nat
  /\ MaxProbes \in Nat \ {0}
  /\ IsFiniteSet(EndpointIds)
  /\ IsFiniteSet(Checks!Endpoint)
  /\ EndpointIds \cap {"start", "timer"} = {}
BY PluginAssumption

Mutation ==
  [kind : {"add", "remove"}, id : EndpointIds, url : EndpointUrls \cup {None}, at : {"queued", "writing", "written"}]
Flight == [left : SUBSET EndpointIds, probing : SUBSET EndpointIds, owner : EndpointIds \cup {"start", "timer"}]

\* The first change alone may be under way, an added id is that of no other addition and of
\* no caller, and only a process that has read the list changes and checks it.
ChangesTyped ==
  /\ mutations \in Seq(Mutation)
  /\ \A k \in 1..Len(mutations) : k # 1 => mutations[k].at = "queued"
  /\ \A k \in 1..Len(mutations) : mutations[k].kind = "add" => mutations[k].id \notin refreshers
  /\ \A k, l \in 1..Len(mutations) :
       /\ mutations[k].kind = "add" /\ mutations[l].kind = "add"
       /\ mutations[k].id = mutations[l].id
       => k = l
  /\ mutations # <<>> => storageRead

ListTyped ==
  /\ savedEndpoints \subseteq Checks!Endpoint /\ endpoints \subseteq Checks!Endpoint /\ observed \subseteq EndpointIds
  /\ storageRead \in BOOLEAN /\ answered \subseteq EndpointIds
  /\ monitorPhase \in {"off", "starting", "failed", "up", "stopping", "stopped"}
  /\ checkTimer \in BOOLEAN /\ refreshers \subseteq EndpointIds \cup {"start", "timer"}
  /\ flight # None => flight \in Flight /\ flight.owner \in refreshers /\ storageRead

\* The phases of a process.
PhasesFit ==
  /\ ~storageRead => endpoints = {} /\ observed = {} /\ answered = {} /\ refreshers \subseteq {"start"}
  /\ monitorPhase \in {"off", "failed"} => ~storageRead /\ refreshers = {} /\ flight = None
  /\ monitorPhase \in {"starting", "failed"} => "timer" \notin refreshers
  /\ monitorPhase # "up" => ~checkTimer
  /\ monitorPhase = "up" => storageRead /\ "start" \notin refreshers /\ (checkTimer <=> "timer" \notin refreshers)
  /\ monitorPhase = "stopped" => flight = None

\* The stored list is the process's, but for the change that is written.
ListsFit ==
  /\ Cardinality(savedEndpoints) <= MaxEndpoints
  /\ \A e, f \in savedEndpoints : e.url = f.url => e = f
  /\ observed \subseteq Checks!IdsOf(endpoints)
  /\ mutations # <<>> /\ mutations[1].at = "writing" => Checks!Acceptable(mutations[1])
  /\ storageRead => savedEndpoints = IF mutations # <<>> /\ mutations[1].at = "written"
                       THEN Checks!Changed(mutations[1]) ELSE endpoints

\* Who asked for the checks under way finds its endpoint in them, if it was not checked yet.
ChecksFit ==
  /\ Checks!AddedIsChecked
  /\ flight # None /\ ~Checks!stopped =>
       /\ flight.owner \in Checks!IdsOf(endpoints) \ observed => flight.owner \in flight.left \cup flight.probing
       /\ flight.probing = {} => flight.left = {}

ChecksInv == ListTyped /\ ChangesTyped /\ PhasesFit /\ ListsFit /\ ChecksFit

LEMMA ChecksFollow ==
  ASSUME ChecksInv PROVE Checks!EndpointsAreWatched /\ Checks!StopEnds
<1>1. mutations # <<>> => Head(mutations) = mutations[1]
  BY DEF ChecksInv, ChangesTyped
<1>2. Checks!EndpointsAreKept
  BY <1>1, CountedAlike DEF ChecksInv, ListsFit, Checks!EndpointsAreKept
<1>3. Checks!ChecksGoOn /\ Checks!StopEnds /\ Checks!AddedIsChecked
  BY DEF ChecksInv, PhasesFit, ChecksFit, Checks!ChecksGoOn, Checks!StopEnds
<1>. QED BY <1>2, <1>3 DEF Checks!EndpointsAreWatched

LEMMA ChecksBegin ==
  ASSUME Checks!Init PROVE ChecksInv
<1>1. /\ monitorPhase = "off" /\ storageRead = FALSE /\ endpoints = {} /\ observed = {} /\ checkTimer = FALSE
      /\ mutations = <<>> /\ refreshers = {} /\ flight = None /\ answered = {}
      /\ savedEndpoints \subseteq Checks!Endpoint /\ Cardinality(savedEndpoints) <= MaxEndpoints
      /\ \A e, f \in savedEndpoints : e.url = f.url => e = f
  BY CountedAlike DEF Checks!Init
<1>2. mutations \in Seq(Mutation) /\ Len(mutations) = 0
  BY <1>1, EmptySeq
<1>3. ListTyped
  BY <1>1 DEF ListTyped
<1>4. ChangesTyped
  BY <1>1, <1>2 DEF ChangesTyped
<1>5. PhasesFit
  BY <1>1 DEF PhasesFit
<1>6. ListsFit
  BY <1>1 DEF ListsFit
<1>7. ChecksFit
  BY <1>1 DEF ChecksFit, Checks!AddedIsChecked
<1>. QED BY <1>3, <1>4, <1>5, <1>6, <1>7 DEF ChecksInv

\* An id that is asked for anew.
LEMMA AskKeeps ==
  ASSUME ChecksInv, NEW q \in {"add", "remove"}, NEW i \in EndpointIds, NEW u \in EndpointUrls \cup {None},
         q = "add" => Checks!Fresh(i), Checks!Ask(q, i, u)
  PROVE  ChecksInv'
<1>. DEFINE m == [kind |-> q, id |-> i, url |-> u, at |-> "queued"]
<1>1. /\ monitorPhase = "up" /\ mutations' = Append(mutations, m)
      /\ UNCHANGED <<savedEndpoints, storageRead, endpoints, observed, checkTimer, refreshers, flight, answered, monitorPhase>>
  BY DEF Checks!Ask, Checks!checkVars
<1>2. m \in Mutation /\ m.kind = q /\ m.id = i /\ m.at = "queued"
  BY DEF Mutation
<1>. HIDE DEF m
<1>3. mutations \in Seq(Mutation) /\ storageRead
  BY <1>1 DEF ChecksInv, ChangesTyped, PhasesFit
<1>4. /\ mutations' \in Seq(Mutation) /\ Len(mutations') = Len(mutations) + 1 /\ Len(mutations) \in Nat
      /\ mutations'[Len(mutations) + 1] = m
      /\ \A k \in 1..Len(mutations) : mutations'[k] = mutations[k]
  BY <1>1, <1>2, <1>3, AppendProperties, LenProperties
<1>5. /\ \A k \in 1..Len(mutations') : k \in 1..Len(mutations) \/ k = Len(mutations) + 1
      /\ mutations' # <<>>
      /\ mutations # <<>> => 1 \in 1..Len(mutations)
      /\ mutations = <<>> => Len(mutations) = 0
  BY <1>3, <1>4, EmptySeq
<1>6. q = "add" => i \notin refreshers /\ \A k \in 1..Len(mutations) : mutations[k].id # i
  BY <1>3, LenProperties DEF Checks!Fresh
<1>7. ChangesTyped'
  <2>1. \A k \in 1..Len(mutations') : k # 1 => mutations'[k].at = "queued"
    BY <1>2, <1>4, <1>5 DEF ChecksInv, ChangesTyped
  <2>2. \A k \in 1..Len(mutations') : mutations'[k].kind = "add" => mutations'[k].id \notin refreshers'
    BY <1>1, <1>2, <1>4, <1>5, <1>6 DEF ChecksInv, ChangesTyped
  <2>3. \A k, l \in 1..Len(mutations') :
          /\ mutations'[k].kind = "add" /\ mutations'[l].kind = "add"
          /\ mutations'[k].id = mutations'[l].id
          => k = l
    BY <1>2, <1>4, <1>5, <1>6 DEF ChecksInv, ChangesTyped
  <2>. QED BY <1>1, <1>3, <1>4, <2>1, <2>2, <2>3 DEF ChangesTyped
<1>8. ListTyped' /\ PhasesFit'
  BY <1>1 DEF ChecksInv, ListTyped, PhasesFit
<1>9. ListsFit'
  <2>1. CASE mutations = <<>>
    <3>1. mutations'[1] = m
      BY <1>4, <1>5, <2>1
    <3>. QED BY <1>1, <1>2, <1>5, <2>1, <3>1 DEF ChecksInv, ListsFit, Checks!IdsOf
  <2>2. CASE mutations # <<>>
    <3>1. mutations'[1] = mutations[1]
      BY <1>4, <1>5, <2>2
    <3>. QED BY <1>1, <1>5, <2>2, <3>1 DEF ChecksInv, ListsFit, Checks!IdsOf, Checks!Acceptable,
      Checks!Changed
  <2>. QED BY <2>1, <2>2
<1>10. ChecksFit'
  BY <1>1 DEF ChecksInv, ChecksFit, Checks!AddedIsChecked, Checks!IdsOf, Checks!stopped
<1>. QED BY <1>7, <1>8, <1>9, <1>10 DEF ChecksInv

\* The first change ends, and the second is not under way.
LEMMA ChangeGone ==
  ASSUME ChecksInv, mutations # <<>>, mutations' = Tail(mutations), storageRead' = storageRead,
         \A k \in 1..Len(mutations') :
           mutations'[k].kind = "add" => mutations'[k].id \notin refreshers'
  PROVE  /\ ChangesTyped'
         /\ mutations' # <<>> => mutations'[1].at = "queued"
<1>1. mutations \in Seq(Mutation)
  BY DEF ChecksInv, ChangesTyped
<1>2. /\ mutations' \in Seq(Mutation) /\ Len(mutations') = Len(mutations) - 1
      /\ \A k \in 1..Len(mutations') : mutations'[k] = mutations[k + 1]
  BY <1>1, HeadTailProperties
<1>3. Len(mutations) \in Nat \ {0}
  BY <1>1, EmptySeq
<1>4. /\ \A k \in 1..Len(mutations') : k + 1 \in 1..Len(mutations) /\ k + 1 # 1
      /\ mutations' # <<>> => 1 \in 1..Len(mutations')
  <2>1. mutations' # <<>> => Len(mutations') \in Nat \ {0}
    BY <1>2, EmptySeq
  <2>. QED BY <1>2, <1>3, <2>1
<1>5. \A k \in 1..Len(mutations') : mutations'[k].at = "queued"
  BY <1>2, <1>4 DEF ChecksInv, ChangesTyped
<1>6. \A k, l \in 1..Len(mutations') :
        /\ mutations'[k].kind = "add" /\ mutations'[l].kind = "add"
        /\ mutations'[k].id = mutations'[l].id
        => k = l
  <2>1. SUFFICES ASSUME NEW k \in 1..Len(mutations'), NEW l \in 1..Len(mutations'),
                        mutations[k + 1].kind = "add", mutations[l + 1].kind = "add",
                        mutations[k + 1].id = mutations[l + 1].id
                 PROVE  k = l
    BY <1>2
  <2>2. k + 1 = l + 1
    BY <1>4, <2>1 DEF ChecksInv, ChangesTyped
  <2>. QED BY <1>2, <1>3, <2>2
<1>7. storageRead'
  BY DEF ChecksInv, ChangesTyped
<1>. QED BY <1>2, <1>4, <1>5, <1>6, <1>7 DEF ChangesTyped

\* The first change goes on.
LEMMA ChangeGoesOn ==
  ASSUME ChecksInv, NEW p \in {"writing", "written"}, mutations # <<>>,
         mutations' = [mutations EXCEPT ![1].at = p], storageRead' = storageRead, refreshers' = refreshers
  PROVE  /\ ChangesTyped' /\ mutations' # <<>>
         /\ mutations'[1] = [mutations[1] EXCEPT !.at = p]
         /\ mutations'[1].at = p /\ mutations'[1].kind = mutations[1].kind
         /\ mutations'[1].id = mutations[1].id /\ mutations'[1].url = mutations[1].url
<1>1. mutations \in Seq(Mutation)
  BY DEF ChecksInv, ChangesTyped
<1>2. 1 \in 1..Len(mutations) /\ Len(mutations) \in Nat
  BY <1>1, EmptySeq
<1>. DEFINE m == [mutations[1] EXCEPT !.at = p]
<1>3. mutations[1] \in Mutation
  BY <1>1, <1>2, ElementOfSeq
<1>4. /\ m \in Mutation /\ m.at = p /\ m.kind = mutations[1].kind
      /\ m.id = mutations[1].id /\ m.url = mutations[1].url
  BY <1>3 DEF Mutation
<1>5. mutations' = [mutations EXCEPT ![1] = m]
  OBVIOUS
<1>. HIDE DEF m
<1>6. /\ mutations' \in Seq(Mutation) /\ Len(mutations') = Len(mutations)
      /\ \A k \in 1..Len(mutations) : mutations'[k] = IF k = 1 THEN m ELSE mutations[k]
  BY <1>1, <1>2, <1>4, <1>5, ExceptSeq
<1>7. mutations'[1] = m /\ mutations' # <<>>
  BY <1>2, <1>6, EmptySeq
<1>8. \A k \in 1..Len(mutations') : k # 1 => mutations'[k].at = "queued"
  BY <1>6 DEF ChecksInv, ChangesTyped
<1>9. \A k \in 1..Len(mutations') :
        mutations'[k].kind = mutations[k].kind /\ mutations'[k].id = mutations[k].id
  BY <1>4, <1>6
<1>10. ChangesTyped'
  BY <1>6, <1>8, <1>9 DEF ChecksInv, ChangesTyped
<1>. QED BY <1>4, <1>7, <1>10 DEF m

\* A change that was found acceptable keeps the list within its limits.
LEMMA ChangedFits ==
  ASSUME ChecksInv, mutations # <<>>, mutations[1].at = "writing"
  PROVE  /\ Checks!Changed(mutations[1]) \subseteq Checks!Endpoint
         /\ Cardinality(Checks!Changed(mutations[1])) <= MaxEndpoints
         /\ \A e, f \in Checks!Changed(mutations[1]) : e.url = f.url => e = f
<1>1. mutations[1] \in Mutation
  <2>1. mutations \in Seq(Mutation)
    BY DEF ChecksInv, ChangesTyped
  <2>2. 1 \in 1..Len(mutations)
    BY <2>1, EmptySeq
  <2>. QED BY <2>1, <2>2, ElementOfSeq
<1>2. /\ endpoints = savedEndpoints /\ Checks!Acceptable(mutations[1]) /\ savedEndpoints \subseteq Checks!Endpoint
      /\ Cardinality(savedEndpoints) <= MaxEndpoints /\ \A e, f \in savedEndpoints : e.url = f.url => e = f
  BY DEF ChecksInv, ChangesTyped, ListsFit, ListTyped
<1>3. IsFiniteSet(savedEndpoints) /\ Cardinality(savedEndpoints) \in Nat
  BY <1>2, FS_Subset, FS_CardinalityType, ChecksConstants
<1>4. CASE mutations[1].kind = "add"
  <2>. DEFINE e == [id |-> mutations[1].id, url |-> mutations[1].url]
  <2>1. Checks!Changed(mutations[1]) = savedEndpoints \cup {e}
    BY <1>2, <1>4 DEF Checks!Changed
  <2>2. /\ e \in Checks!Endpoint /\ Cardinality(savedEndpoints) < MaxEndpoints /\ \A f \in savedEndpoints : f.url # e.url
    BY <1>1, <1>2, <1>4, CountedAlike DEF Checks!Acceptable, Mutation, Checks!Endpoint
  <2>. HIDE DEF e
  <2>a. Cardinality(savedEndpoints \cup {e}) = IF e \in savedEndpoints THEN Cardinality(savedEndpoints) ELSE Cardinality(savedEndpoints) + 1
    BY <1>3, FS_AddElement
  <2>3. Cardinality(savedEndpoints \cup {e}) <= Cardinality(savedEndpoints) + 1
    BY <1>3, <2>a
  <2>4. Cardinality(savedEndpoints \cup {e}) \in Nat
    BY <1>3, FS_AddElement, FS_CardinalityType
  <2>. QED BY <1>2, <1>3, <2>1, <2>2, <2>3, <2>4, ChecksConstants
<1>5. CASE mutations[1].kind = "remove"
  <2>1. Checks!Changed(mutations[1]) \subseteq savedEndpoints
    BY <1>2, <1>5 DEF Checks!Changed
  <2>2. Cardinality(Checks!Changed(mutations[1])) <= Cardinality(savedEndpoints)
    BY <1>3, <2>1, FS_Subset
  <2>3. Cardinality(Checks!Changed(mutations[1])) \in Nat
    BY <1>3, <2>1, FS_Subset, FS_CardinalityType
  <2>. QED BY <1>2, <1>3, <2>1, <2>2, <2>3, ChecksConstants
<1>. QED BY <1>1, <1>4, <1>5 DEF Mutation

LEMMA BeginMutationKeeps ==
  ASSUME ChecksInv, Checks!BeginMutation PROVE ChecksInv'
<1>1. /\ mutations # <<>> /\ Head(mutations) = mutations[1] /\ mutations[1].at = "queued"
      /\ UNCHANGED <<savedEndpoints, storageRead, endpoints, observed, checkTimer, refreshers, flight, answered, monitorPhase>>
  BY DEF Checks!BeginMutation, Checks!checkVars, ChecksInv, ChangesTyped
<1>2. ListTyped' /\ PhasesFit'
  BY <1>1 DEF ChecksInv, ListTyped, PhasesFit
<1>3. ChecksFit'
  BY <1>1 DEF ChecksInv, ChecksFit, Checks!AddedIsChecked, Checks!IdsOf, Checks!stopped
<1>4. CASE Checks!Acceptable(mutations[1])
  <2>1. mutations' = [mutations EXCEPT ![1].at = "writing"]
    BY <1>1, <1>4 DEF Checks!BeginMutation
  <2>2. /\ ChangesTyped' /\ mutations' # <<>> /\ mutations'[1].at = "writing"
        /\ mutations'[1].kind = mutations[1].kind
        /\ mutations'[1].id = mutations[1].id /\ mutations'[1].url = mutations[1].url
    BY <1>1, <2>1, ChangeGoesOn
  <2>3. Checks!Acceptable(mutations[1])'
    BY <1>1, <1>4, <2>2 DEF Checks!Acceptable, Checks!IdsOf
  <2>4. ListsFit'
    BY <1>1, <2>2, <2>3 DEF ChecksInv, ListsFit, Checks!IdsOf
  <2>. QED BY <1>2, <1>3, <2>2, <2>4 DEF ChecksInv
<1>5. CASE ~Checks!Acceptable(mutations[1])
  <2>1. mutations' = Tail(mutations)
    BY <1>1, <1>5 DEF Checks!BeginMutation
  <2>2. \A k \in 1..Len(mutations') :
          mutations'[k].kind = "add" => mutations'[k].id \notin refreshers'
    <3>1. mutations \in Seq(Mutation)
      BY DEF ChecksInv, ChangesTyped
    <3>2. Len(mutations') = Len(mutations) - 1 /\ Len(mutations) \in Nat
          /\ \A k \in 1..Len(mutations') : mutations'[k] = mutations[k + 1]
      BY <1>1, <2>1, <3>1, HeadTailProperties, LenProperties
    <3>3. \A k \in 1..Len(mutations') : k + 1 \in 1..Len(mutations)
      BY <3>2
    <3>. QED BY <1>1, <3>2, <3>3 DEF ChecksInv, ChangesTyped
  <2>3. ChangesTyped' /\ (mutations' # <<>> => mutations'[1].at = "queued")
    BY <1>1, <2>1, <2>2, ChangeGone
  <2>4. ListsFit'
    BY <1>1, <2>3 DEF ChecksInv, ListsFit, Checks!IdsOf
  <2>. QED BY <1>2, <1>3, <2>3, <2>4 DEF ChecksInv
<1>. QED BY <1>4, <1>5

LEMMA WriteKeeps ==
  ASSUME ChecksInv, NEW ok \in BOOLEAN, Checks!Write(ok) PROVE ChecksInv'
<1>1. /\ mutations # <<>> /\ Head(mutations) = mutations[1] /\ mutations[1].at = "writing" /\ storageRead
      /\ UNCHANGED <<storageRead, endpoints, observed, checkTimer, refreshers, flight, answered, monitorPhase>>
  BY DEF Checks!Write, Checks!checkVars, ChecksInv, ChangesTyped
<1>2. PhasesFit' /\ ChecksFit'
  BY <1>1 DEF ChecksInv, PhasesFit, ChecksFit, Checks!AddedIsChecked, Checks!IdsOf, Checks!stopped
<1>3. CASE ok
  <2>1. savedEndpoints' = Checks!Changed(mutations[1]) /\ mutations' = [mutations EXCEPT ![1].at = "written"]
    BY <1>1, <1>3 DEF Checks!Write
  <2>2. /\ ChangesTyped' /\ mutations' # <<>> /\ mutations'[1].at = "written"
        /\ mutations'[1].kind = mutations[1].kind
        /\ mutations'[1].id = mutations[1].id /\ mutations'[1].url = mutations[1].url
    BY <1>1, <2>1, ChangeGoesOn
  <2>3. savedEndpoints' = Checks!Changed(mutations[1])'
    BY <1>1, <2>1, <2>2 DEF Checks!Changed
  <2>4. /\ savedEndpoints' \subseteq Checks!Endpoint /\ Cardinality(savedEndpoints') <= MaxEndpoints
        /\ \A e, f \in savedEndpoints' : e.url = f.url => e = f
    BY <1>1, <2>1, ChangedFits
  <2>5. ListsFit'
    BY <1>1, <2>2, <2>3, <2>4 DEF ChecksInv, ListsFit, Checks!IdsOf
  <2>6. ListTyped'
    BY <1>1, <2>4 DEF ChecksInv, ListTyped
  <2>. QED BY <1>2, <2>2, <2>5, <2>6 DEF ChecksInv
<1>4. CASE ~ok
  <2>1. savedEndpoints' = savedEndpoints /\ mutations' = Tail(mutations)
    BY <1>1, <1>4 DEF Checks!Write
  <2>2. \A k \in 1..Len(mutations') :
          mutations'[k].kind = "add" => mutations'[k].id \notin refreshers'
    <3>1. mutations \in Seq(Mutation)
      BY DEF ChecksInv, ChangesTyped
    <3>2. Len(mutations') = Len(mutations) - 1 /\ Len(mutations) \in Nat
          /\ \A k \in 1..Len(mutations') : mutations'[k] = mutations[k + 1]
      BY <1>1, <2>1, <3>1, HeadTailProperties, LenProperties
    <3>3. \A k \in 1..Len(mutations') : k + 1 \in 1..Len(mutations)
      BY <3>2
    <3>. QED BY <1>1, <3>2, <3>3 DEF ChecksInv, ChangesTyped
  <2>3. ChangesTyped' /\ (mutations' # <<>> => mutations'[1].at = "queued")
    BY <1>1, <2>1, <2>2, ChangeGone
  <2>4. ListsFit'
    BY <1>1, <2>1, <2>3 DEF ChecksInv, ListsFit, Checks!IdsOf
  <2>5. ListTyped'
    BY <1>1, <2>1 DEF ChecksInv, ListTyped
  <2>. QED BY <1>2, <2>3, <2>4, <2>5 DEF ChecksInv
<1>. QED BY <1>3, <1>4

LEMMA EndMutationKeeps ==
  ASSUME ChecksInv, Checks!EndMutation PROVE ChecksInv'
<1>1. /\ mutations # <<>> /\ Head(mutations) = mutations[1] /\ mutations[1].at = "written" /\ storageRead
      /\ endpoints' = Checks!Changed(mutations[1])
      /\ observed' = observed \ {mutations[1].id}
      /\ refreshers' = IF mutations[1].kind = "add" THEN refreshers \cup {mutations[1].id} ELSE refreshers
      /\ answered' = answered \ {mutations[1].id}
      /\ mutations' = Tail(mutations)
      /\ UNCHANGED <<savedEndpoints, storageRead, checkTimer, flight, monitorPhase>>
  <2>1. mutations # <<>> /\ Head(mutations) = mutations[1] /\ storageRead
    BY DEF Checks!EndMutation, ChecksInv, ChangesTyped
  <2>2. /\ Head(mutations).at = "written" /\ endpoints' = Checks!Changed(Head(mutations))
        /\ observed' = observed \ {Head(mutations).id}
        /\ refreshers' = IF Head(mutations).kind = "add" THEN refreshers \cup {Head(mutations).id} ELSE refreshers
        /\ answered' = answered \ {Head(mutations).id}
        /\ mutations' = Tail(mutations)
        /\ UNCHANGED <<savedEndpoints, storageRead, checkTimer, flight, monitorPhase>>
    BY Zenon DEF Checks!EndMutation
  <2>. QED BY <2>1, <2>2
<1>2. mutations \in Seq(Mutation)
  BY DEF ChecksInv, ChangesTyped
<1>3. 1 \in 1..Len(mutations) /\ Len(mutations) \in Nat
  BY <1>1, <1>2, EmptySeq
<1>4. mutations[1] \in Mutation
  BY <1>2, <1>3, ElementOfSeq
<1>5. mutations[1].id \in EndpointIds /\ mutations[1].id \notin {"start", "timer"}
      /\ mutations[1].kind \in {"add", "remove"}
  BY <1>4, ChecksConstants DEF Mutation
<1>6. endpoints' = savedEndpoints
  BY <1>1 DEF ChecksInv, ListsFit
<1>7. /\ Len(mutations') = Len(mutations) - 1
      /\ \A k \in 1..Len(mutations') : mutations'[k] = mutations[k + 1] /\ k + 1 \in 1..Len(mutations)
                                       /\ k + 1 # 1
  <2>1. /\ Len(mutations') = Len(mutations) - 1
        /\ \A k \in 1..Len(mutations') : mutations'[k] = mutations[k + 1]
    BY <1>1, <1>2, HeadTailProperties
  <2>2. \A k \in 1..Len(mutations') : k + 1 \in 1..Len(mutations) /\ k + 1 # 1
    BY <1>3, <2>1
  <2>. QED BY <2>1, <2>2
<1>8. \A k \in 1..Len(mutations') : mutations'[k].kind = "add" => mutations'[k].id \notin refreshers'
  BY <1>1, <1>3, <1>7 DEF ChecksInv, ChangesTyped
<1>9. ChangesTyped' /\ (mutations' # <<>> => mutations'[1].at = "queued")
  BY <1>1, <1>8, ChangeGone
<1>10. ListTyped'
  BY <1>1, <1>5, <1>6 DEF ChecksInv, ListTyped
<1>11. PhasesFit'
  BY <1>1, <1>5 DEF ChecksInv, PhasesFit, ChangesTyped
<1>12. Checks!IdsOf(endpoints') \subseteq Checks!IdsOf(endpoints) \cup {mutations[1].id}
       /\ Checks!IdsOf(endpoints) \ {mutations[1].id} \subseteq Checks!IdsOf(endpoints')
       /\ (mutations[1].kind = "remove" => mutations[1].id \notin Checks!IdsOf(endpoints'))
  BY <1>1, <1>5 DEF Checks!Changed, Checks!IdsOf
<1>13. ListsFit'
  <2>1. observed' \subseteq Checks!IdsOf(endpoints')
    BY <1>1, <1>12 DEF ChecksInv, ListsFit
  <2>. QED BY <1>1, <1>6, <1>9, <2>1 DEF ChecksInv, ListsFit, Checks!IdsOf
<1>14. ChecksFit'
  <2>1. Checks!AddedIsChecked'
    BY <1>1, <1>12 DEF ChecksInv, ChecksFit, Checks!AddedIsChecked, Checks!IdsOf
  <2>2. ASSUME flight # None, ~Checks!stopped,
               flight.owner \in Checks!IdsOf(endpoints') \ observed'
        PROVE  flight.owner \in flight.left \cup flight.probing
    <3>1. flight.owner \in refreshers
      BY <2>2 DEF ChecksInv, ListTyped
    <3>2. flight.owner # mutations[1].id
      BY <1>3, <1>5, <1>12, <2>2, <3>1 DEF ChecksInv, ChangesTyped
    <3>3. flight.owner \in Checks!IdsOf(endpoints) \ observed
      BY <1>1, <1>12, <2>2, <3>2
    <3>. QED BY <2>2, <3>3 DEF ChecksInv, ChecksFit
  <2>. QED BY <1>1, <2>1, <2>2 DEF ChecksInv, ChecksFit, Checks!stopped, Checks!IdsOf
<1>. QED BY <1>9, <1>10, <1>11, <1>13, <1>14 DEF ChecksInv

LEMMA LoadKeeps ==
  ASSUME ChecksInv, NEW ok \in BOOLEAN, Checks!Load(ok) PROVE ChecksInv'
<1>1. /\ monitorPhase \in {"starting", "stopping"} /\ ~storageRead
      /\ UNCHANGED <<savedEndpoints, mutations, observed, checkTimer, flight, answered>>
      /\ refreshers' \subseteq refreshers
  BY DEF Checks!Load
<1>2. /\ mutations = <<>> /\ endpoints = {} /\ observed = {} /\ answered = {} /\ flight = None
      /\ mutations \in Seq(Mutation) /\ Len(mutations) = 0 /\ refreshers \subseteq {"start"} /\ ~checkTimer
  BY <1>1, EmptySeq DEF ChecksInv, ChangesTyped, PhasesFit, ListTyped
<1>3. ChangesTyped'
  BY <1>1, <1>2 DEF ChangesTyped
<1>4. CASE ok
  <2>1. storageRead' = TRUE /\ endpoints' = savedEndpoints /\ refreshers' = refreshers /\ monitorPhase' = monitorPhase
    BY <1>4 DEF Checks!Load
  <2>. QED BY <1>1, <1>2, <1>3, <2>1
    DEF ChecksInv, ListTyped, PhasesFit, ListsFit, ChecksFit, Checks!AddedIsChecked, Checks!IdsOf
<1>5. CASE ~ok
  <2>1. /\ refreshers' = refreshers \ {"start"} /\ storageRead' = storageRead /\ endpoints' = endpoints
        /\ monitorPhase' = IF Checks!stopped THEN monitorPhase ELSE "failed"
    BY <1>5 DEF Checks!Load
  <2>2. monitorPhase' = IF monitorPhase = "stopping" THEN "stopping" ELSE "failed"
    BY <1>1, <2>1 DEF Checks!stopped
  <2>3. refreshers' = {}
    BY <1>2, <2>1
  <2>. QED BY <1>1, <1>2, <1>3, <2>1, <2>2, <2>3
    DEF ChecksInv, ListTyped, PhasesFit, ListsFit, ChecksFit, Checks!AddedIsChecked, Checks!IdsOf
<1>. QED BY <1>4, <1>5

\* The list and its changes are left alone.
LEMMA ListStays ==
  ASSUME ChecksInv, UNCHANGED Checks!listVars, refreshers' \subseteq refreshers \cup {"start", "timer"},
         observed' \subseteq Checks!IdsOf(endpoints)
  PROVE  ChangesTyped' /\ ListsFit'
<1>1. UNCHANGED <<savedEndpoints, storageRead, endpoints, mutations>>
  BY DEF Checks!listVars
<1>2. mutations \in Seq(Mutation)
  BY DEF ChecksInv, ChangesTyped
<1>3. \A k \in 1..Len(mutations) : mutations[k].id \notin {"start", "timer"}
  <2>1. \A k \in 1..Len(mutations) : mutations[k] \in Mutation
    BY <1>2, ElementOfSeq
  <2>. QED BY <2>1, ChecksConstants DEF Mutation
<1>4. ChangesTyped'
  BY <1>1, <1>3 DEF ChecksInv, ChangesTyped
<1>5. ListsFit'
  BY <1>1 DEF ChecksInv, ListsFit, Checks!Acceptable, Checks!Changed, Checks!IdsOf
<1>. QED BY <1>4, <1>5

\* refresh() returns: who called it has nothing left to be checked.
LEMMA ReturnsKeeps ==
  ASSUME ChecksInv, NEW c \in refreshers, storageRead, Checks!Returns(c),
         UNCHANGED <<Checks!listVars, observed>>,
         flight' = None,
         ~Checks!stopped /\ c \in Checks!IdsOf(endpoints) => c \in observed
  PROVE  ChecksInv'
<1>1. /\ refreshers' = refreshers \ {c}
      /\ checkTimer' = (checkTimer \/ (~Checks!stopped /\ c \in {"start", "timer"}))
      /\ answered' = IF c \in EndpointIds /\ ~Checks!stopped THEN answered \cup {c} ELSE answered
      /\ monitorPhase' = IF c = "start" /\ ~Checks!stopped THEN "up" ELSE monitorPhase
      /\ UNCHANGED <<savedEndpoints, storageRead, endpoints, mutations, observed>>
  BY DEF Checks!Returns, Checks!listVars
<1>2. ChangesTyped' /\ ListsFit'
  BY <1>1, ListStays DEF ChecksInv, ListsFit
<1>3. ListTyped'
  BY <1>1 DEF ChecksInv, ListTyped
<1>4. monitorPhase \notin {"off", "failed"} /\ monitorPhase \in {"starting", "up", "stopping", "stopped"}
  BY DEF ChecksInv, PhasesFit, ListTyped
<1>5. PhasesFit'
  <2>1. CASE Checks!stopped
    BY <1>1, <1>4, <2>1 DEF ChecksInv, PhasesFit, Checks!stopped
  <2>2. CASE monitorPhase = "starting"
    BY <1>1, <2>2 DEF ChecksInv, PhasesFit, Checks!stopped, ListTyped
  <2>3. CASE monitorPhase = "up"
    BY <1>1, <2>3 DEF ChecksInv, PhasesFit, Checks!stopped, ListTyped
  <2>. QED BY <1>4, <2>1, <2>2, <2>3 DEF Checks!stopped
<1>6. ChecksFit'
  BY <1>1 DEF ChecksInv, ChecksFit, Checks!AddedIsChecked, Checks!IdsOf
<1>. QED BY <1>2, <1>3, <1>5, <1>6 DEF ChecksInv

LEMMA RefreshKeeps ==
  ASSUME ChecksInv, NEW c \in refreshers, Checks!Refresh(c) PROVE ChecksInv'
<1>1. storageRead /\ UNCHANGED <<Checks!listVars, observed>>
  BY DEF Checks!Refresh
<1>2. CASE /\ Checks!stopped \/ flight = None
           /\ ~Checks!stopped => {} \in Checks!Due
           /\ Checks!Returns(c) /\ UNCHANGED flight
  <2>1. ~Checks!stopped => Checks!IdsOf(endpoints) \subseteq observed
    BY <1>2 DEF Checks!Due
  <2>2. CASE flight = None
    BY <1>1, <1>2, <2>1, <2>2, ReturnsKeeps
  <2>3. CASE flight # None /\ flight.owner # c
    <3>1. /\ Checks!stopped /\ refreshers' = refreshers \ {c} /\ checkTimer' = checkTimer /\ answered' = answered
          /\ monitorPhase' = monitorPhase /\ UNCHANGED <<savedEndpoints, storageRead, endpoints, mutations, observed, flight>>
      BY <1>1, <1>2, <2>3 DEF Checks!Returns, Checks!listVars, ChecksInv, ListTyped
    <3>2. ChangesTyped' /\ ListsFit'
      BY <1>1, <3>1, ListStays DEF ChecksInv, ListsFit
    <3>3. ListTyped' /\ PhasesFit' /\ ChecksFit'
      BY <1>1, <2>3, <3>1 DEF ChecksInv, ListTyped, PhasesFit, ChecksFit, Checks!AddedIsChecked,
        Checks!IdsOf, Checks!stopped
    <3>. QED BY <3>2, <3>3 DEF ChecksInv
  <2>. QED BY <2>2, <2>3 DEF Checks!Refresh
<1>3. CASE /\ ~Checks!stopped /\ flight = None
           /\ \E d \in Checks!Due \ {{}} : \E first \in SUBSET d :
                /\ Cardinality(first) = IF Cardinality(d) < MaxProbes THEN Cardinality(d) ELSE MaxProbes
                /\ flight' = [left |-> d \ first, probing |-> first, owner |-> c]
           /\ UNCHANGED <<refreshers, checkTimer, answered, monitorPhase>>
  <2>1. PICK d \in Checks!Due \ {{}} : \E first \in SUBSET d :
          /\ Cardinality(first) = IF Cardinality(d) < MaxProbes THEN Cardinality(d) ELSE MaxProbes
          /\ flight' = [left |-> d \ first, probing |-> first, owner |-> c]
    BY <1>3
  <2>2. PICK first \in SUBSET d :
          /\ Cardinality(first) = IF Cardinality(d) < MaxProbes THEN Cardinality(d) ELSE MaxProbes
          /\ flight' = [left |-> d \ first, probing |-> first, owner |-> c]
    BY <2>1
  <2>3. d \subseteq Checks!IdsOf(endpoints) /\ Checks!IdsOf(endpoints) \ observed \subseteq d /\ d # {}
        /\ d \subseteq EndpointIds
    <3>1. d \subseteq Checks!IdsOf(endpoints) /\ Checks!IdsOf(endpoints) \ observed \subseteq d /\ d # {}
      BY <2>1 DEF Checks!Due
    <3>2. Checks!IdsOf(endpoints) \subseteq EndpointIds
      BY DEF ChecksInv, ListTyped, Checks!IdsOf, Checks!Endpoint
    <3>. QED BY <3>1, <3>2
  <2>4. first # {}
    <3>1. IsFiniteSet(d)
      BY <2>3, FS_Subset, ChecksConstants
    <3>2. Cardinality(d) # 0 /\ Cardinality(d) \in Nat
      BY <2>3, <3>1, FS_EmptySet, FS_CardinalityType
    <3>3. Cardinality(first) # 0
      BY <2>2, <3>2, ChecksConstants
    <3>. QED BY <3>3, FS_EmptySet
  <2>5. /\ flight' \in Flight /\ flight'.owner = c /\ flight'.probing = first
        /\ flight'.left \cup flight'.probing = d
    BY <2>2, <2>3 DEF Flight, ChecksInv, ListTyped
  <2>6. UNCHANGED <<savedEndpoints, storageRead, endpoints, mutations, observed>>
    BY <1>1 DEF Checks!listVars
  <2>7. ListTyped'
    BY <1>1, <1>3, <2>5, <2>6 DEF ChecksInv, ListTyped
  <2>8. ChangesTyped' /\ ListsFit'
    BY <1>1, <1>3, ListStays DEF ChecksInv, ListsFit
  <2>9. PhasesFit'
    BY <1>1, <1>3, <2>6 DEF ChecksInv, PhasesFit, Checks!stopped
  <2>10. ChecksFit'
    BY <1>3, <2>3, <2>4, <2>5, <2>6 DEF ChecksInv, ChecksFit, Checks!AddedIsChecked, Checks!IdsOf,
      Checks!stopped
  <2>. QED BY <2>7, <2>8, <2>9, <2>10 DEF ChecksInv
<1>. QED BY <1>2, <1>3, CountedAlike DEF Checks!Refresh

LEMMA ProbeEndsKeeps ==
  ASSUME ChecksInv, NEW i \in EndpointIds, Checks!ProbeEnds(i) PROVE ChecksInv'
<1>1. /\ flight # None /\ i \in flight.probing /\ observed' = Checks!Observed(i)
      /\ UNCHANGED <<savedEndpoints, storageRead, endpoints, mutations, checkTimer, refreshers, answered, monitorPhase>>
      /\ UNCHANGED Checks!listVars
  BY DEF Checks!ProbeEnds, Checks!listVars
<1>2. flight \in Flight /\ flight.owner \in refreshers /\ storageRead
  BY <1>1 DEF ChecksInv, ListTyped
<1>3. observed' \subseteq Checks!IdsOf(endpoints) /\ observed \subseteq observed' /\ observed' \subseteq EndpointIds
      /\ (~Checks!stopped /\ i \in Checks!IdsOf(endpoints) => i \in observed')
  BY <1>1 DEF Checks!Observed, ChecksInv, ListsFit, ListTyped
<1>4. /\ flight' \in Flight /\ flight'.owner = flight.owner
      /\ flight'.left \cup flight'.probing = (flight.left \cup flight.probing) \ {i}
         \/ flight'.left \cup flight'.probing = flight.left \cup flight.probing
      /\ ~Checks!stopped /\ flight'.probing = {} => flight'.left = {}
  <2>1. CASE Checks!stopped \/ flight.left = {}
    <3>1. flight' = [flight EXCEPT !.probing = flight.probing \ {i}]
      BY <2>1 DEF Checks!ProbeEnds
    <3>2. flight' \in Flight /\ flight'.owner = flight.owner /\ flight'.left = flight.left
          /\ flight'.probing = flight.probing \ {i}
      BY <1>2, <3>1 DEF Flight
    <3>. QED BY <1>1, <1>2, <2>1, <3>2 DEF Flight
  <2>2. CASE ~(Checks!stopped \/ flight.left = {})
    <3>1. PICK j \in flight.left :
            flight' = [flight EXCEPT !.probing = (flight.probing \ {i}) \cup {j}, !.left = flight.left \ {j}]
      BY <2>2 DEF Checks!ProbeEnds
    <3>2. /\ flight' \in Flight /\ flight'.owner = flight.owner /\ flight'.left = flight.left \ {j}
          /\ flight'.probing = (flight.probing \ {i}) \cup {j}
      BY <1>2, <3>1 DEF Flight
    <3>. QED BY <1>1, <1>2, <3>1, <3>2
  <2>. QED BY <2>1, <2>2
<1>5. ListTyped'
  BY <1>1, <1>2, <1>3, <1>4 DEF ChecksInv, ListTyped
<1>6. ChangesTyped' /\ ListsFit'
  BY <1>1, <1>3, ListStays
<1>7. PhasesFit'
  BY <1>1, <1>2 DEF ChecksInv, PhasesFit
<1>8. ChecksFit'
  BY <1>1, <1>3, <1>4 DEF ChecksInv, ChecksFit, Checks!AddedIsChecked, Checks!IdsOf, Checks!stopped
<1>. QED BY <1>5, <1>6, <1>7, <1>8 DEF ChecksInv

LEMMA ChecksKeep ==
  ASSUME ChecksInv,
         Checks!FlightEnds \/ Checks!TimerFires \/ Checks!Start \/ Checks!Stop \/ Checks!StopReturns \/ Checks!Kill
  PROVE  ChecksInv'
<1>1. CASE Checks!FlightEnds
  <2>1. /\ flight # None /\ flight.probing = {} /\ flight' = None /\ Checks!Returns(flight.owner)
        /\ UNCHANGED <<Checks!listVars, observed>>
    BY <1>1 DEF Checks!FlightEnds
  <2>2. PICK c \in refreshers : c = flight.owner
    BY <2>1 DEF ChecksInv, ListTyped
  <2>3. storageRead /\ (~Checks!stopped /\ c \in Checks!IdsOf(endpoints) => c \in observed)
    BY <2>1, <2>2 DEF ChecksInv, ListTyped, ChecksFit
  <2>4. Checks!Returns(c)
    BY <2>1, <2>2 DEF Checks!Returns
  <2>. QED BY <2>1, <2>3, <2>4, ReturnsKeeps
<1>2. CASE Checks!TimerFires
  <2>1. /\ checkTimer /\ checkTimer' = FALSE /\ refreshers' = refreshers \cup {"timer"}
        /\ UNCHANGED <<Checks!listVars, savedEndpoints, storageRead, endpoints, mutations, observed, flight, answered, monitorPhase>>
    BY <1>2 DEF Checks!TimerFires, Checks!listVars
  <2>2. ChangesTyped' /\ ListsFit'
    BY <2>1, ListStays DEF ChecksInv, ListsFit
  <2>3. ListTyped' /\ PhasesFit'
    BY <2>1 DEF ChecksInv, ListTyped, PhasesFit
  <2>4. ChecksFit'
    BY <2>1 DEF ChecksInv, ChecksFit, Checks!AddedIsChecked, Checks!IdsOf, Checks!stopped
  <2>. QED BY <2>2, <2>3, <2>4 DEF ChecksInv
<1>3. CASE Checks!Start
  <2>1. /\ monitorPhase = "off" /\ monitorPhase' = "starting" /\ refreshers' = {"start"}
        /\ UNCHANGED <<Checks!listVars, savedEndpoints, storageRead, endpoints, mutations, observed, checkTimer, flight, answered>>
    BY <1>3 DEF Checks!Start, Checks!listVars
  <2>2. ChangesTyped' /\ ListsFit'
    BY <2>1, ListStays DEF ChecksInv, ListsFit
  <2>3. ListTyped' /\ PhasesFit'
    BY <2>1 DEF ChecksInv, ListTyped, PhasesFit
  <2>4. ChecksFit'
    BY <2>1 DEF ChecksInv, ChecksFit, PhasesFit, Checks!AddedIsChecked, Checks!IdsOf, Checks!stopped
  <2>. QED BY <2>2, <2>3, <2>4 DEF ChecksInv
<1>4. CASE Checks!Stop \/ Checks!StopReturns
  <2>1. /\ \/ monitorPhase \in {"starting", "up"} /\ monitorPhase' = "stopping" /\ checkTimer' = FALSE
           \/ monitorPhase = "stopping" /\ flight = None /\ monitorPhase' = "stopped" /\ checkTimer' = checkTimer
        /\ UNCHANGED <<Checks!listVars, savedEndpoints, storageRead, endpoints, mutations, observed, refreshers, flight, answered>>
    BY <1>4 DEF Checks!Stop, Checks!StopReturns, Checks!listVars, Checks!checkVars
  <2>2. ChangesTyped' /\ ListsFit'
    BY <2>1, ListStays DEF ChecksInv, ListsFit
  <2>a. ListTyped'
    BY <2>1 DEF ChecksInv, ListTyped
  <2>b. ASSUME monitorPhase' = "stopping" PROVE PhasesFit'
    BY <2>1, <2>b DEF ChecksInv, PhasesFit
  <2>c. ASSUME monitorPhase' = "stopped" PROVE PhasesFit'
    BY <2>1, <2>c DEF ChecksInv, PhasesFit
  <2>3. ListTyped' /\ PhasesFit'
    BY <2>1, <2>a, <2>b, <2>c
  <2>4. ChecksFit'
    BY <2>1 DEF ChecksInv, ChecksFit, PhasesFit, Checks!AddedIsChecked, Checks!IdsOf, Checks!stopped
  <2>. QED BY <2>2, <2>3, <2>4 DEF ChecksInv
<1>5. CASE Checks!Kill
  <2>1. /\ monitorPhase' = "off" /\ storageRead' = FALSE /\ endpoints' = {} /\ mutations' = <<>>
        /\ observed' = {} /\ checkTimer' = FALSE /\ refreshers' = {} /\ flight' = None /\ answered' = {}
        /\ savedEndpoints' = savedEndpoints
    BY <1>5 DEF Checks!Kill
  <2>2. mutations' \in Seq(Mutation) /\ Len(mutations') = 0
    BY <2>1, EmptySeq
  <2>3. ChangesTyped'
    BY <2>1, <2>2 DEF ChangesTyped
  <2>. QED BY <2>1, <2>3
    DEF ChecksInv, ListTyped, PhasesFit, ListsFit, ChecksFit, Checks!AddedIsChecked, Checks!IdsOf
<1>. QED BY <1>1, <1>2, <1>3, <1>4, <1>5

LEMMA ChecksGo ==
  ASSUME ChecksInv, Checks!Next \/ UNCHANGED Checks!vars PROVE ChecksInv'
<1>1. CASE UNCHANGED Checks!vars
  <2>1. UNCHANGED <<savedEndpoints, storageRead, endpoints, mutations, observed, checkTimer, refreshers, flight,
                    answered, monitorPhase>>
    BY <1>1 DEF Checks!vars, Checks!listVars, Checks!checkVars
  <2>. QED BY <2>1 DEF ChecksInv, ListTyped, ChangesTyped, PhasesFit, ListsFit, ChecksFit,
    Checks!AddedIsChecked, Checks!IdsOf, Checks!stopped, Checks!Acceptable, Checks!Changed
<1>2. ASSUME NEW i \in EndpointIds, Checks!RemoveConnection(i) PROVE ChecksInv'
  BY <1>2, AskKeeps DEF Checks!RemoveConnection
<1>3. ASSUME NEW u \in EndpointUrls \cup {None}, Checks!AddConnection(u) PROVE ChecksInv'
  <2>1. PICK i \in EndpointIds : Checks!Fresh(i) /\ Checks!Ask("add", i, u)
    BY <1>3 DEF Checks!AddConnection
  <2>. QED BY <2>1, AskKeeps
<1>. QED BY <1>1, <1>2, <1>3, LoadKeeps, WriteKeeps, BeginMutationKeeps, EndMutationKeeps, RefreshKeeps,
  ProbeEndsKeeps, ChecksKeep DEF Checks!Next

-----------------------------------------------------------------------------
\* What the constants of this part are.
LEMMA CatalogsConstants ==
  /\ MaxReleases \in Nat \ {0}
BY PluginAssumption

\* A catalog in force is one whose key was pinned; an install goes on with the key that was
\* in force when it began or when it found its entry, and what was fetched is signed with it.
CatalogsInv ==
  /\ Catalogs!TypeOK
  /\ served \in [key : CatalogKeys \cup {None}, release : Catalogs!Releases]
  /\ addedCatalog \in [at : {"idle", "reading", "discovering", "verifying", "storing"},
                 key : CatalogKeys \cup {None}]
  /\ install \in [at : {"idle", "finding", "loading", "fetching"}, pin : CatalogKeys \cup {None},
                  entry : 0..MaxReleases, signedBy : CatalogKeys \cup {None}]
  /\ installed \in [release : 0..MaxReleases, entry : 0..MaxReleases,
                    signedBy : CatalogKeys \cup {None}]
  /\ addedCatalog.at = "storing" => addedCatalog.key \in CatalogKeys
  /\ addedCatalog.at = "verifying" => addedCatalog.key \in CatalogKeys
  /\ stored # None => stored \in pinned
  /\ install.at = "loading" =>
       unlisted \/ (install.pin # None /\ install.pin \in pinned)
  /\ install.at = "fetching" => unlisted \/ install.signedBy \in pinned
  /\ Catalogs!InstalledIsTrusted

LEMMA CatalogsBegin ==
  ASSUME Catalogs!Init PROVE CatalogsInv
<1>. USE DEF Catalogs!NotAdding, Catalogs!NotInstalling, Catalogs!NothingInstalled, Catalogs!Releases
<1>1. 1 \in 1..MaxReleases /\ 0 \in 0..MaxReleases
  BY CatalogsConstants
<1>2. Catalogs!TypeOK
  BY <1>1 DEF Catalogs!Init, Catalogs!TypeOK
<1>. QED BY <1>1, <1>2 DEF Catalogs!Init, CatalogsInv, Catalogs!InstalledIsTrusted

\* What the publisher does is seen when it is read.
LEMMA PublisherActs ==
  ASSUME CatalogsInv,
         Catalogs!Upload \/ (\E k \in CatalogKeys \cup {None} : Catalogs!Publish(k)) \/ (\E k \in CatalogKeys : Catalogs!ChangeKey(k))
  PROVE  CatalogsInv'
<1>1. /\ UNCHANGED Catalogs!user
      /\ uploaded' \in Catalogs!Releases /\ besides' \in CatalogKeys
      /\ served' \in [key : CatalogKeys \cup {None}, release : Catalogs!Releases]
  <2>1. CASE Catalogs!Upload
    <3>1. uploaded + 1 \in Catalogs!Releases
      BY <2>1, CatalogsConstants DEF Catalogs!Upload, CatalogsInv, Catalogs!TypeOK, Catalogs!Releases
    <3>. QED BY <2>1, <3>1 DEF Catalogs!Upload, CatalogsInv, Catalogs!TypeOK
  <2>2. ASSUME NEW k \in CatalogKeys \cup {None}, Catalogs!Publish(k)
        PROVE  /\ UNCHANGED <<Catalogs!user, uploaded, besides>>
               /\ served' \in [key : CatalogKeys \cup {None}, release : Catalogs!Releases]
    BY <2>2 DEF Catalogs!Publish, CatalogsInv, Catalogs!TypeOK
  <2>3. ASSUME NEW k \in CatalogKeys, Catalogs!ChangeKey(k)
        PROVE  UNCHANGED <<Catalogs!user, uploaded, served>> /\ besides' \in CatalogKeys
    BY <2>3 DEF Catalogs!ChangeKey
  <2>. QED BY <2>1, <2>2, <2>3 DEF CatalogsInv, Catalogs!TypeOK
<1>. QED BY <1>1 DEF CatalogsInv, Catalogs!TypeOK, Catalogs!InstalledIsTrusted, Catalogs!user

\* Adding and removing the catalog: what is stored is pinned in the same step.
LEMMA CatalogKept ==
  ASSUME CatalogsInv,
         Catalogs!AddCatalog \/ Catalogs!AddFails \/ Catalogs!ReadUnverified \/ Catalogs!DiscoverPublisherKeys \/ Catalogs!VerifyWithKey
           \/ Catalogs!StoreCatalog \/ Catalogs!RemoveCatalog
  PROVE  CatalogsInv'
<1>1. /\ UNCHANGED <<Catalogs!publisher, install, installed, unlisted>>
      /\ pinned \subseteq pinned' /\ pinned' \subseteq CatalogKeys
      /\ stored' \in CatalogKeys \cup {None} /\ (stored' # None => stored' \in pinned')
      /\ addedCatalog' \in [at : {"idle", "reading", "discovering", "verifying", "storing"},
                      key : CatalogKeys \cup {None}]
      /\ addedCatalog'.at = "storing" => addedCatalog'.key \in CatalogKeys
      /\ addedCatalog'.at = "verifying" => addedCatalog'.key \in CatalogKeys
  <2>1. CASE Catalogs!AddCatalog \/ Catalogs!AddFails \/ Catalogs!ReadUnverified
    BY <2>1 DEF Catalogs!AddCatalog, Catalogs!AddFails, Catalogs!ReadUnverified, CatalogsInv,
      Catalogs!TypeOK, Catalogs!NotAdding
  <2>2. CASE Catalogs!DiscoverPublisherKeys
    BY <2>2 DEF Catalogs!DiscoverPublisherKeys, CatalogsInv, Catalogs!TypeOK
  <2>3. CASE Catalogs!VerifyWithKey
    BY <2>3 DEF Catalogs!VerifyWithKey, CatalogsInv, Catalogs!TypeOK
  <2>4. CASE Catalogs!StoreCatalog \/ Catalogs!RemoveCatalog
    BY <2>4 DEF Catalogs!StoreCatalog, Catalogs!RemoveCatalog, CatalogsInv, Catalogs!TypeOK,
      Catalogs!NotAdding
  <2>. QED BY <2>1, <2>2, <2>3, <2>4
<1>2. Catalogs!InstalledIsTrusted'
  BY <1>1 DEF CatalogsInv, Catalogs!InstalledIsTrusted, Catalogs!NothingInstalled
<1>. QED BY <1>1, <1>2 DEF CatalogsInv, Catalogs!TypeOK, Catalogs!publisher

\* An install keeps the key it goes on with until what it fetched is there.
LEMMA InstallKept ==
  ASSUME CatalogsInv,
         Catalogs!Install \/ Catalogs!InstallFails \/ Catalogs!FindAdded \/ Catalogs!LoadCatalog
  PROVE  CatalogsInv'
<1>. USE DEF CatalogsInv, Catalogs!TypeOK, Catalogs!publisher
<1>1. CASE Catalogs!Install
  BY <1>1 DEF Catalogs!Install, Catalogs!InstalledIsTrusted, Catalogs!NothingInstalled
<1>2. CASE Catalogs!InstallFails
  <2>1. Catalogs!NotInstalling \in [at : {"idle", "finding", "loading", "fetching"}, pin : CatalogKeys \cup {None},
                  entry : 0..MaxReleases, signedBy : CatalogKeys \cup {None}]
    BY CatalogsConstants DEF Catalogs!NotInstalling
  <2>2. Catalogs!NotInstalling.at = "idle"
    BY DEF Catalogs!NotInstalling
  <2>. QED BY <1>2, <2>1, <2>2 DEF Catalogs!InstallFails, Catalogs!InstalledIsTrusted,
    Catalogs!NothingInstalled
<1>3. CASE Catalogs!FindAdded
  BY <1>3 DEF Catalogs!FindAdded, Catalogs!InstalledIsTrusted, Catalogs!NothingInstalled
<1>4. CASE Catalogs!LoadCatalog
  <2>1. served.release \in 0..MaxReleases
    BY CatalogsConstants DEF Catalogs!Releases
  <2>2. install' = [install EXCEPT !.at = "fetching", !.entry = served.release,
                                   !.signedBy = served.key]
        /\ install.at = "loading" /\ (install.pin # None => served.key = install.pin)
        /\ UNCHANGED <<Catalogs!publisher, stored, addedCatalog, installed, pinned, unlisted>>
    BY <1>4 DEF Catalogs!LoadCatalog, Catalogs!Verifies
  <2>. QED BY <2>1, <2>2 DEF Catalogs!publisher, Catalogs!InstalledIsTrusted, Catalogs!NothingInstalled
<1>. QED BY <1>1, <1>2, <1>3, <1>4

\* What is installed is the package of the entry.
LEMMA InstallEnds ==
  ASSUME CatalogsInv, Catalogs!FindOfficial \/ Catalogs!InstallPackage PROVE CatalogsInv'
<1>. USE DEF CatalogsInv, Catalogs!TypeOK, Catalogs!publisher
<1>1. /\ Catalogs!NotInstalling \in [at : {"idle", "finding", "loading", "fetching"}, pin : CatalogKeys \cup {None},
                            entry : 0..MaxReleases, signedBy : CatalogKeys \cup {None}]
      /\ Catalogs!NotInstalling.at = "idle"
      /\ Catalogs!NothingInstalled \in [release : 0..MaxReleases, entry : 0..MaxReleases,
                               signedBy : CatalogKeys \cup {None}]
  BY CatalogsConstants DEF Catalogs!NotInstalling, Catalogs!NothingInstalled
<1>2. CASE Catalogs!FindOfficial
  BY <1>1, <1>2 DEF Catalogs!FindOfficial, Catalogs!InstalledIsTrusted
<1>3. CASE Catalogs!InstallPackage
  <2>1. uploaded \in 0..MaxReleases /\ uploaded = install.entry
    BY <1>3, CatalogsConstants DEF Catalogs!InstallPackage, Catalogs!VerifyPackage, Catalogs!Releases
  <2>. QED BY <1>1, <1>3, <2>1 DEF Catalogs!InstallPackage, Catalogs!InstalledIsTrusted
<1>. QED BY <1>2, <1>3

LEMMA CatalogsGoOn ==
  ASSUME CatalogsInv, Catalogs!Next \/ UNCHANGED Catalogs!vars PROVE CatalogsInv'
<1>1. CASE UNCHANGED Catalogs!vars
  BY <1>1 DEF Catalogs!vars, CatalogsInv, Catalogs!TypeOK, Catalogs!InstalledIsTrusted
<1>. QED BY <1>1, PublisherActs, CatalogKept, InstallKept, InstallEnds DEF Catalogs!Next

-----------------------------------------------------------------------------
\* What the code of a directory was allowed.
Allowed(d) == policy \cup (IF d = ("d1") THEN consented ELSE {})

Agreed(p) == p \in Loader!Plugin /\ p.host \subseteq Allowed(p.dir)

Granting == [id : {"p"}, granted : SUBSET LoaderPermissions]
Pass ==
  [for : {"p"} \cup {None}, at : {"idle", "next", "module"}, left : SUBSET {"d1", "d2"},
   grants : Granting \cup {None}, file : Loader!Content \cup {None}, dir : {"d1", "d2"} \cup {None},
   loaded : Seq(Loader!Plugin)]

\* Grants are of what was agreed to, the ones that a pass began with included; what is loaded
\* next was checked against them; and a plugin, wherever it is, has no more.
GrantsFit ==
  /\ managed # None => managed \in Granting /\ managed.granted \subseteq consented
  /\ pass.grants # None => pass.grants.granted \subseteq consented
  /\ pass.at = "module" =>
       pass.file \in Loader!Content /\ pass.dir \in {"d1", "d2"} /\ pass.file.asks \subseteq Allowed(pass.dir)

PluginsFit ==
  /\ \A k \in DOMAIN pass.loaded : Agreed(pass.loaded[k])
  /\ \A p \in strays : Agreed(p)
  /\ \A i \in DOMAIN plugins : Agreed(plugins[i]) /\ Loader!KeepsContract(plugins[i])
  /\ pass.for # None => pass.for \in DOMAIN plugins

LoaderInv ==
  /\ disk \in [{"d1", "d2"} -> PluginFiles \cup {None}] /\ used \in [{"d1", "d2"} -> SUBSET LoaderPermissions]
  /\ policy \subseteq LoaderPermissions /\ pass \in Pass
  /\ GrantsFit /\ PluginsFit /\ Loader!ActsAsAgreed

LEMMA EmptyPass ==
  /\ Loader!NoPass \in Pass /\ Loader!NoPass.at = "idle" /\ Loader!NoPass.grants = None /\ Loader!NoPass.for = None
  /\ DOMAIN Loader!NoPass.loaded = {} /\ Loader!NoPass.loaded = <<>>
<1>1. <<>> \in Seq(Loader!Plugin) /\ DOMAIN <<>> = {}
  BY EmptySeq
<1>. QED BY <1>1 DEF Loader!NoPass, Pass

LEMMA LoaderBegins ==
  ASSUME Loader!Init PROVE LoaderInv
<1>1. plugins = <<>> /\ DOMAIN plugins = {}
  BY EmptySeq DEF Loader!Init
<1>2. pass = Loader!NoPass /\ managed = None /\ strays = {} /\ ~undeclared
  BY DEF Loader!Init
<1>3. GrantsFit /\ PluginsFit
  BY <1>1, <1>2, EmptyPass DEF GrantsFit, PluginsFit
<1>4. Loader!ActsAsAgreed
  BY DEF Loader!Init, Loader!ActsAsAgreed
<1>. QED BY <1>2, <1>3, <1>4, EmptyPass DEF Loader!Init, LoaderInv

\* More is allowed, never less.
LEMMA AgreedRemains ==
  ASSUME policy' = policy, consented \subseteq consented'
  PROVE  /\ \A d : Allowed(d) \subseteq Allowed(d)'
         /\ \A p : Agreed(p) => Agreed(p)'
<1>1. \A d : Allowed(d) \subseteq Allowed(d)'
  BY DEF Allowed
<1>. QED BY <1>1 DEF Agreed

LEMMA InstallKeeps ==
  ASSUME LoaderInv, NEW c \in PluginFiles, Loader!Install(c) PROVE LoaderInv'
<1>1. /\ disk' = [disk EXCEPT ![("d1")] = c] /\ managed' = [id |-> c.id, granted |-> c.asks]
      /\ consented' = consented \cup c.asks
      /\ UNCHANGED <<policy, pass, plugins, strays, used, undeclared>>
  BY DEF Loader!Install
<1>2. c \in Loader!Content /\ managed' \in Granting /\ managed'.granted \subseteq consented'
  BY <1>1, FilesAreContents DEF Loader!Content, Granting
<1>3. /\ \A d : Allowed(d) \subseteq Allowed(d)'
      /\ \A p : Agreed(p) => Agreed(p)'
  BY <1>1, AgreedRemains
<1>4. GrantsFit'
  BY <1>1, <1>2, <1>3 DEF LoaderInv, GrantsFit
<1>5. PluginsFit'
  BY <1>1, <1>3 DEF LoaderInv, PluginsFit, Loader!KeepsContract
<1>6. Loader!ActsAsAgreed'
  BY <1>1, <1>3 DEF LoaderInv, Loader!ActsAsAgreed
<1>. QED BY <1>1, <1>4, <1>5, <1>6 DEF LoaderInv

LEMMA SameAgreements ==
  ASSUME LoaderInv, UNCHANGED <<managed, policy, consented>>
  PROVE  /\ \A d : Allowed(d)' = Allowed(d)
         /\ \A p : Agreed(p) => Agreed(p)'
         /\ (UNCHANGED <<used, undeclared>> => Loader!ActsAsAgreed')
<1>1. \A d : Allowed(d)' = Allowed(d)
  BY DEF Allowed
<1>. QED BY <1>1 DEF Agreed, LoaderInv, Loader!ActsAsAgreed

LEMMA PassKeeps ==
  ASSUME LoaderInv
  PROVE  /\ (\E for \in {"p"} \cup {None} : Loader!StartPass(for)) => LoaderInv'
         /\ (\E d \in {"d1", "d2"} : Loader!ReadManifest(d)) => LoaderInv'
<1>1. ASSUME NEW for \in {"p"} \cup {None}, Loader!StartPass(for) PROVE LoaderInv'
  <2>1. /\ pass' = [Loader!NoPass EXCEPT !.for = for, !.at = "next", !.left = {"d1", "d2"}, !.grants = managed]
        /\ plugins' = [i \in DOMAIN plugins |->
             IF i = for /\ plugins[i].isolated THEN [plugins[i] EXCEPT !.code = None] ELSE plugins[i]]
        /\ for # None => for \in DOMAIN plugins
        /\ UNCHANGED <<disk, managed, policy, strays, consented, used, undeclared>>
    BY <1>1 DEF Loader!StartPass
  <2>2. /\ pass'.at = "next" /\ pass'.grants = managed /\ pass'.for = for /\ pass'.loaded = <<>>
        /\ pass' \in Pass
    BY <2>1, EmptyPass DEF Pass, Loader!NoPass, LoaderInv, GrantsFit
  <2>3. DOMAIN plugins' = DOMAIN plugins
    BY <2>1
  <2>4. ASSUME NEW i \in DOMAIN plugins
        PROVE  Agreed(plugins'[i]) /\ Loader!KeepsContract(plugins'[i])
    <3>1. Agreed(plugins[i]) /\ Loader!KeepsContract(plugins[i])
      BY DEF LoaderInv, PluginsFit
    <3>2. plugins'[i] \in {plugins[i], [plugins[i] EXCEPT !.code = None]}
      BY <2>1
    <3>. QED BY <3>1, <3>2 DEF Agreed, Loader!Plugin, Loader!KeepsContract
  <2>5. PluginsFit'
    BY <2>1, <2>2, <2>3, <2>4, SameAgreements, EmptySeq DEF LoaderInv, PluginsFit, Loader!KeepsContract
  <2>6. GrantsFit'
    BY <2>1, <2>2 DEF LoaderInv, GrantsFit
  <2>. QED BY <2>1, <2>2, <2>5, <2>6, SameAgreements DEF LoaderInv
<1>2. ASSUME NEW d \in {"d1", "d2"}, Loader!ReadManifest(d) PROVE LoaderInv'
  <2>1. UNCHANGED <<disk, managed, policy, plugins, strays, consented, used, undeclared>>
    BY <1>2 DEF Loader!ReadManifest
  <2>2. pass \in Pass
    BY DEF LoaderInv
  <2>3. CASE /\ disk[d] # None /\ Loader!Denied(d, disk[d]) = {}
             /\ pass' = [pass EXCEPT !.at = "module", !.file = disk[d], !.dir = d]
    <3>1. disk[d] \in Loader!Content
      BY <2>3, FilesAreContents DEF LoaderInv
    <3>2. /\ pass' \in Pass /\ pass'.at = "module" /\ pass'.file = disk[d] /\ pass'.dir = d
          /\ pass'.grants = pass.grants /\ pass'.loaded = pass.loaded /\ pass'.for = pass.for
      BY <2>2, <2>3, <3>1 DEF Pass
    <3>3. disk[d].asks \subseteq Allowed(d)
      BY <2>3, <3>1 DEF Loader!Denied, Loader!Grants, Allowed, LoaderInv, GrantsFit
    <3>4. GrantsFit'
      BY <2>1, <3>1, <3>2, <3>3, SameAgreements DEF LoaderInv, GrantsFit
    <3>5. PluginsFit'
      BY <2>1, <3>2, SameAgreements DEF LoaderInv, PluginsFit, Loader!KeepsContract
    <3>. QED BY <2>1, <3>2, <3>4, <3>5, SameAgreements DEF LoaderInv
  <2>4. CASE pass' = [pass EXCEPT !.left = @ \ {d}]
    <3>1. /\ pass' \in Pass /\ pass'.at = pass.at /\ pass'.file = pass.file /\ pass'.dir = pass.dir
          /\ pass'.grants = pass.grants /\ pass'.loaded = pass.loaded /\ pass'.for = pass.for
      BY <2>2, <2>4 DEF Pass
    <3>2. GrantsFit'
      BY <2>1, <3>1, SameAgreements DEF LoaderInv, GrantsFit
    <3>3. PluginsFit'
      BY <2>1, <3>1, SameAgreements DEF LoaderInv, PluginsFit, Loader!KeepsContract
    <3>. QED BY <2>1, <3>1, <3>2, <3>3, SameAgreements DEF LoaderInv
  <2>. QED BY <1>2, <2>3, <2>4 DEF Loader!ReadManifest
<1>. QED BY <1>1, <1>2

LEMMA LoadIsKept ==
  ASSUME LoaderInv, Loader!LoadModule PROVE LoaderInv'
<1>1. /\ pass.at = "module" /\ pass \in Pass /\ pass.dir \in {"d1", "d2"} /\ pass.file \in Loader!Content
      /\ pass.file.asks \subseteq Allowed(pass.dir) /\ pass.loaded \in Seq(Loader!Plugin)
      /\ UNCHANGED <<disk, managed, policy, plugins, strays, consented, used, undeclared>>
  BY DEF Loader!LoadModule, LoaderInv, GrantsFit, Pass
<1>. DEFINE rest == [pass EXCEPT !.at = "next", !.left = @ \ {pass.dir}, !.file = None, !.dir = None]
<1>2. /\ rest \in Pass /\ rest.at = "next" /\ rest.grants = pass.grants
      /\ rest.loaded = pass.loaded /\ rest.for = pass.for
  BY <1>1 DEF Pass
<1>. HIDE DEF rest
<1>3. \/ /\ disk[pass.dir] # None /\ disk[pass.dir].id = pass.file.id
         /\ pass' = [rest EXCEPT !.loaded = Append(rest.loaded, Loader!Loaded)]
      \/ pass' = rest
  BY DEF Loader!LoadModule, rest
<1>4. CASE pass' = rest
  <2>1. GrantsFit' /\ PluginsFit'
    BY <1>1, <1>2, <1>4, SameAgreements DEF LoaderInv, GrantsFit, PluginsFit, Loader!KeepsContract
  <2>. QED BY <1>1, <1>2, <1>4, <2>1, SameAgreements DEF LoaderInv
<1>5. CASE /\ disk[pass.dir] # None
           /\ pass' = [rest EXCEPT !.loaded = Append(rest.loaded, Loader!Loaded)]
  <2>1. disk[pass.dir] \in Loader!Content
    BY <1>1, <1>5, FilesAreContents DEF LoaderInv
  <2>2. Agreed(Loader!Loaded)
    BY <1>1, <2>1 DEF Agreed, Loader!Plugin, Loader!Loaded, Loader!HostPermissions, Loader!Content
  <2>3. Loader!Loaded \in Loader!Plugin
    BY <2>2 DEF Agreed
  <2>. DEFINE more == Append(pass.loaded, Loader!Loaded)
  <2>4. /\ more \in Seq(Loader!Plugin) /\ DOMAIN more = 1..Len(pass.loaded) + 1
        /\ DOMAIN pass.loaded = 1..Len(pass.loaded) /\ Len(pass.loaded) \in Nat
        /\ \A k \in 1..Len(pass.loaded) : more[k] = pass.loaded[k]
        /\ more[Len(pass.loaded) + 1] = Loader!Loaded
    BY <1>1, <2>3, AppendProperties, LenProperties
  <2>. HIDE DEF more
  <2>5. more = Append(rest.loaded, Loader!Loaded)
    BY <1>2 DEF more
  <2>6. /\ pass' \in Pass /\ pass'.at = "next" /\ pass'.grants = pass.grants
        /\ pass'.loaded = more /\ pass'.for = pass.for
    BY <1>2, <1>5, <2>4, <2>5 DEF Pass
  <2>7. \A k \in DOMAIN more : Agreed(more[k])
    BY <2>2, <2>4 DEF LoaderInv, PluginsFit
  <2>8. GrantsFit'
    BY <1>1, <2>6, SameAgreements DEF LoaderInv, GrantsFit
  <2>9. PluginsFit'
    BY <1>1, <2>6, <2>7, SameAgreements DEF LoaderInv, PluginsFit, Loader!KeepsContract
  <2>. QED BY <1>1, <2>6, <2>8, <2>9, SameAgreements DEF LoaderInv
<1>. QED BY <1>3, <1>4, <1>5

LEMMA RegisterKeeps ==
  ASSUME LoaderInv, Loader!Register PROVE LoaderInv'
<1>. DEFINE p == Head(pass.loaded)
<1>1. /\ pass \in Pass /\ pass.at = "next" /\ pass.loaded \in Seq(Loader!Plugin)
      /\ UNCHANGED <<disk, managed, policy, consented, used, undeclared>>
  BY DEF Loader!Register, LoaderInv, Pass
<1>2. CASE pass.loaded = <<>>
  <2>1. pass' = Loader!NoPass /\ UNCHANGED <<plugins, strays>>
    BY <1>2 DEF Loader!Register
  <2>2. GrantsFit' /\ PluginsFit'
    BY <1>1, <2>1, EmptyPass, SameAgreements DEF LoaderInv, GrantsFit, PluginsFit, Loader!KeepsContract
  <2>. QED BY <1>1, <2>1, <2>2, EmptyPass, SameAgreements DEF LoaderInv
<1>3. CASE pass.loaded # <<>>
  <2>1. /\ pass' = [pass EXCEPT !.loaded = Tail(pass.loaded)]
        /\ \/ /\ Loader!KeepsContract(p) /\ strays' = strays
              /\ plugins' = [i \in DOMAIN plugins \cup {p.id} |-> IF i = p.id THEN p ELSE plugins[i]]
           \/ strays' = strays \cup {p} /\ UNCHANGED plugins
    BY <1>3 DEF Loader!Register
  <2>2. /\ p = pass.loaded[1] /\ 1 \in DOMAIN pass.loaded /\ Tail(pass.loaded) \in Seq(Loader!Plugin)
        /\ \A k \in DOMAIN Tail(pass.loaded) :
             k + 1 \in DOMAIN pass.loaded /\ Tail(pass.loaded)[k] = pass.loaded[k + 1]
    BY <1>1, <1>3, HeadTailProperties, LenProperties
  <2>3. Agreed(p)
    BY <2>2 DEF LoaderInv, PluginsFit
  <2>. HIDE DEF p
  <2>. DEFINE tail == Tail(pass.loaded)
  <2>4. \A k \in DOMAIN tail : Agreed(tail[k])
    BY <2>2 DEF LoaderInv, PluginsFit
  <2>. HIDE DEF tail
  <2>5. /\ pass' \in Pass /\ pass'.at = pass.at /\ pass'.grants = pass.grants /\ pass'.loaded = tail
        /\ pass'.for = pass.for
    BY <1>1, <2>1, <2>2 DEF Pass, tail
  <2>6. GrantsFit'
    BY <1>1, <2>5, SameAgreements DEF LoaderInv, GrantsFit
  <2>7. \A i \in DOMAIN plugins' : Agreed(plugins'[i]) /\ Loader!KeepsContract(plugins'[i])
    BY <2>1, <2>3 DEF LoaderInv, PluginsFit
  <2>8. \A q \in strays' : Agreed(q)
    BY <2>1, <2>3 DEF LoaderInv, PluginsFit
  <2>9. PluginsFit'
    BY <1>1, <2>1, <2>4, <2>5, <2>7, <2>8, SameAgreements DEF LoaderInv, PluginsFit, Loader!KeepsContract
  <2>. QED BY <1>1, <2>5, <2>6, <2>9, SameAgreements DEF LoaderInv
<1>. QED BY <1>2, <1>3

LEMMA ReloadKeeps ==
  ASSUME LoaderInv, Loader!Reloaded PROVE LoaderInv'
<1>1. /\ pass' = Loader!NoPass /\ pass.loaded \in Seq(Loader!Plugin)
      /\ pass.for \in DOMAIN plugins
      /\ UNCHANGED <<disk, managed, policy, consented, used, undeclared>>
  BY DEF Loader!Reloaded, LoaderInv, PluginsFit, Pass
<1>2. \A p \in Loader!LoadedSet : Agreed(p)
  BY DEF Loader!LoadedSet, LoaderInv, PluginsFit
<1>. DEFINE Old == {p \in {plugins[pass.for]} : p.code # None}
<1>3. \/ \E k \in DOMAIN pass.loaded :
            /\ Loader!KeepsContract(pass.loaded[k])
            /\ plugins' = [plugins EXCEPT ![pass.for] = pass.loaded[k]]
            /\ strays' = strays \cup (Loader!LoadedSet \ {pass.loaded[k]}) \cup Old
      \/ strays' = strays \cup Loader!LoadedSet /\ UNCHANGED plugins
  BY DEF Loader!Reloaded
<1>4. GrantsFit'
  BY <1>1, EmptyPass, SameAgreements DEF LoaderInv, GrantsFit
<1>5. PluginsFit'
  <2>1. CASE strays' = strays \cup Loader!LoadedSet /\ UNCHANGED plugins
    BY <1>1, <1>2, <2>1, EmptyPass, SameAgreements DEF LoaderInv, PluginsFit, Loader!KeepsContract
  <2>2. ASSUME NEW k \in DOMAIN pass.loaded,
               Loader!KeepsContract(pass.loaded[k]),
               plugins' = [plugins EXCEPT ![pass.for] = pass.loaded[k]],
               strays' = strays \cup (Loader!LoadedSet \ {pass.loaded[k]}) \cup Old
        PROVE  PluginsFit'
    <3>1. Agreed(pass.loaded[k])
      BY DEF LoaderInv, PluginsFit
    <3>2. \A i \in DOMAIN plugins' : Agreed(plugins'[i]) /\ Loader!KeepsContract(plugins'[i])
      BY <2>2, <3>1 DEF LoaderInv, PluginsFit
    <3>3. \A p \in strays' : Agreed(p)
      BY <1>1, <1>2, <2>2 DEF LoaderInv, PluginsFit
    <3>. QED BY <1>1, <3>2, <3>3, EmptyPass, SameAgreements DEF PluginsFit, Loader!KeepsContract
  <2>. QED BY <1>3, <2>1, <2>2
<1>. QED BY <1>1, <1>4, <1>5, EmptyPass, SameAgreements DEF LoaderInv

LEMMA RunKeeps ==
  ASSUME LoaderInv
  PROVE  /\ (\E p \in Loader!Running, x \in LoaderPermissions : Loader!HostCall(p, x)) => LoaderInv'
         /\ \A i : Loader!Crash(i) \/ Loader!Respawn(i) => LoaderInv'
         /\ \A i, c : Loader!Use(i, c) => LoaderInv'
<1>1. ASSUME NEW p \in Loader!Running, NEW x \in LoaderPermissions, Loader!HostCall(p, x) PROVE LoaderInv'
  <2>1. /\ x \in p.host /\ used' = [used EXCEPT ![p.dir] = @ \cup {x}]
        /\ UNCHANGED <<disk, managed, policy, pass, plugins, strays, consented, undeclared>>
    BY <1>1 DEF Loader!HostCall
  <2>2. Agreed(p)
    BY DEF Loader!Running, Loader!LoadedSet, LoaderInv, PluginsFit
  <2>3. p.dir \in {"d1", "d2"} /\ x \in Allowed(p.dir)
    BY <2>1, <2>2 DEF Agreed, Loader!Plugin
  <2>4. used' \in [{"d1", "d2"} -> SUBSET LoaderPermissions]
    BY <2>1, <2>3 DEF LoaderInv
  <2>5. Loader!ActsAsAgreed'
    BY <2>1, <2>3 DEF LoaderInv, Loader!ActsAsAgreed, Allowed
  <2>6. GrantsFit' /\ PluginsFit'
    BY <2>1, SameAgreements DEF LoaderInv, GrantsFit, PluginsFit, Loader!KeepsContract
  <2>. QED BY <2>1, <2>4, <2>5, <2>6 DEF LoaderInv
<1>2. ASSUME NEW i, Loader!Crash(i) \/ Loader!Respawn(i) PROVE LoaderInv'
  <2>1. /\ i \in DOMAIN plugins
        /\ UNCHANGED <<disk, managed, policy, pass, strays, consented, used, undeclared>>
    BY <1>2 DEF Loader!Crash, Loader!Respawn
  <2>2. Agreed(plugins[i]) /\ Loader!KeepsContract(plugins[i])
    BY <2>1 DEF LoaderInv, PluginsFit
  <2>3. \E o \in (SUBSET {"m", "u"}) \cup {None} : plugins' = [plugins EXCEPT ![i].code = o]
    <3>1. CASE Loader!Crash(i)
      BY <3>1 DEF Loader!Crash
    <3>2. CASE Loader!Respawn(i)
      <4>1. /\ disk[plugins[i].dir] # None
            /\ plugins' = [plugins EXCEPT ![i].code = disk[plugins[i].dir].offers]
        BY <3>2 DEF Loader!Respawn
      <4>2. plugins[i].dir \in {"d1", "d2"}
        BY <2>2 DEF Agreed, Loader!Plugin
      <4>3. disk[plugins[i].dir] \in Loader!Content
        BY <4>1, <4>2, FilesAreContents DEF LoaderInv
      <4>. QED BY <4>1, <4>3 DEF Loader!Content
    <3>. QED BY <1>2, <3>1, <3>2
  <2>4. /\ DOMAIN plugins' = DOMAIN plugins
        /\ \A j \in DOMAIN plugins' : Agreed(plugins'[j]) /\ Loader!KeepsContract(plugins'[j])
    <3>1. PICK o \in (SUBSET {"m", "u"}) \cup {None} : plugins' = [plugins EXCEPT ![i].code = o]
      BY <2>3
    <3>2. DOMAIN plugins' = DOMAIN plugins /\ \A j \in DOMAIN plugins : j # i => plugins'[j] = plugins[j]
      BY <3>1
    <3>3. plugins'[i] = [plugins[i] EXCEPT !.code = o]
      BY <2>1, <3>1
    <3>4. Agreed(plugins'[i]) /\ Loader!KeepsContract(plugins'[i])
      BY <2>2, <3>3 DEF Agreed, Loader!Plugin, Loader!KeepsContract
    <3>. QED BY <3>2, <3>4 DEF LoaderInv, PluginsFit
  <2>5. GrantsFit'
    BY <2>1, SameAgreements DEF LoaderInv, GrantsFit
  <2>6. PluginsFit'
    BY <2>1, <2>4, SameAgreements DEF LoaderInv, PluginsFit, Loader!KeepsContract
  <2>. QED BY <2>1, <2>5, <2>6, SameAgreements DEF LoaderInv
<1>3. ASSUME NEW i, NEW c, Loader!Use(i, c) PROVE LoaderInv'
  <2>1. /\ i \in DOMAIN plugins /\ c \in plugins[i].methods
        /\ c \in {"u"} => plugins[i].methods \cap {"u"} \subseteq plugins[i].declares
        /\ undeclared' = (undeclared \/ c \notin plugins[i].declares)
        /\ UNCHANGED <<disk, managed, policy, pass, plugins, strays, consented, used>>
    BY <1>3 DEF Loader!Use
  <2>2. c \in plugins[i].declares
    BY <2>1 DEF LoaderInv, PluginsFit, Loader!KeepsContract
  <2>3. ~undeclared'
    BY <2>1, <2>2, Zenon DEF LoaderInv, Loader!ActsAsAgreed
  <2>4. Loader!ActsAsAgreed'
    BY <2>1, <2>3 DEF LoaderInv, Loader!ActsAsAgreed
  <2>5. GrantsFit' /\ PluginsFit'
    BY <2>1, SameAgreements DEF LoaderInv, GrantsFit, PluginsFit, Loader!KeepsContract
  <2>. QED BY <2>1, <2>4, <2>5 DEF LoaderInv
<1>. QED BY <1>1, <1>2, <1>3

LEMMA LoaderGoesOn ==
  ASSUME LoaderInv, Loader!Next \/ UNCHANGED Loader!vars PROVE LoaderInv'
<1>1. ASSUME NEW c \in PluginFiles, NEW d \in {"d1", "d2"}, Loader!Edit(d, c) PROVE LoaderInv'
  <2>1. /\ disk' = [disk EXCEPT ![d] = c]
        /\ UNCHANGED <<managed, policy, pass, plugins, strays, consented, used, undeclared>>
    BY <1>1 DEF Loader!Edit
  <2>2. GrantsFit' /\ PluginsFit'
    BY <2>1, SameAgreements DEF LoaderInv, GrantsFit, PluginsFit, Loader!KeepsContract
  <2>. QED BY <2>1, <2>2, SameAgreements DEF LoaderInv
<1>2. CASE UNCHANGED Loader!vars
  <2>1. GrantsFit' /\ PluginsFit'
    BY <1>2, SameAgreements DEF LoaderInv, GrantsFit, PluginsFit, Loader!KeepsContract, Loader!vars
  <2>. QED BY <1>2, <2>1, SameAgreements DEF LoaderInv, Loader!vars
<1>. QED BY <1>1, <1>2, InstallKeeps, PassKeeps, LoadIsKept, RegisterKeeps, ReloadKeeps,
  RunKeeps DEF Loader!Next

-----------------------------------------------------------------------------
\* No operation has gone astray; only what all providers offer may have Docker among those that
\* said yes, a project has no source, and the one that lists its actions is not Docker.
EntitiesInv ==
  /\ elsewhere = {} /\ DOMAIN operation = {"kind", "source", "left", "said", "at"}
  /\ operation.kind \in Entities!Kinds \cup {"none"} /\ IsFiniteSet(operation.said)
  /\ operation.kind = "project" => operation.source = None
  /\ operation.at = "listing" => Entities!Asked # "docker" /\ operation.kind = "action"

LEMMA NothingAsked ==
  ASSUME elsewhere' = {}, operation' = Entities!NoRequest PROVE EntitiesInv'
<1>1. IsFiniteSet({})
  BY FS_EmptySet
<1>. QED BY <1>1 DEF EntitiesInv, Entities!NoRequest, Entities!Kinds

LEMMA EntitiesBegin ==
  ASSUME Entities!Init PROVE EntitiesInv
<1>1. IsFiniteSet({})
  BY FS_EmptySet
<1>. QED BY <1>1 DEF Entities!Init, EntitiesInv, Entities!NoRequest, Entities!Kinds

LEMMA StartKeeps ==
  ASSUME EntitiesInv, NEW k \in Entities!Kinds, NEW s, NEW ps, k = "project" => s = None,
         Entities!Start(k, s, ps)
  PROVE  EntitiesInv'
<1>1. IsFiniteSet({})
  BY FS_EmptySet
<1>2. /\ operation' = [kind |-> k, source |-> s, left |-> ps, said |-> {}, at |-> "asking"]
      /\ elsewhere' = {}
  BY DEF Entities!Start, EntitiesInv
<1>. QED BY <1>1, <1>2 DEF EntitiesInv

LEMMA AskedKeeps ==
  ASSUME EntitiesInv
  PROVE  /\ Entities!DockerAnswers => EntitiesInv'
         /\ Entities!AnswersNo \/ Entities!AnswersYes => EntitiesInv'
         /\ \A listed \in BOOLEAN : Entities!ActionListed(listed) => EntitiesInv'
<1>1. IsFiniteSet(operation.said) /\ \A p : IsFiniteSet(operation.said \cup {p})
  BY FS_AddElement DEF EntitiesInv
<1>2. CASE Entities!DockerAnswers
  <2>1. CASE operation' = [operation EXCEPT !.left = Tail(operation.left)] /\ UNCHANGED elsewhere
    BY <1>1, <1>2, <2>1 DEF Entities!DockerAnswers, Entities!Asking, EntitiesInv
  <2>2. CASE /\ operation' = [operation EXCEPT !.left = Tail(operation.left), !.said = @ \cup {"docker"}]
             /\ UNCHANGED elsewhere
    BY <1>1, <1>2, <2>2 DEF Entities!DockerAnswers, Entities!Asking, EntitiesInv
  <2>3. CASE /\ operation' = Entities!NoRequest /\ Entities!CanHandleDocker(operation.source)
             /\ Entities!Operate("docker", {"docker"})
    <3>1. elsewhere' = {}
      BY <2>3 DEF Entities!Operate, Entities!CanHandleDocker, Entities!DockerClient, EntitiesInv
    <3>. QED BY <2>3, <3>1, NothingAsked
  <2>. QED BY <1>2, <2>1, <2>2, <2>3 DEF Entities!DockerAnswers, Entities!Unasked
<1>3. CASE Entities!AnswersNo
  BY <1>1, <1>3 DEF Entities!AnswersNo, Entities!Asking, Entities!Unasked, EntitiesInv
<1>4. CASE Entities!AnswersYes
  <2>1. CASE operation.kind = "entity"
    <3>1. operation' = Entities!NoRequest /\ Entities!Asked # "docker" /\ Entities!Operate(Entities!Asked, {Entities!Asked})
      BY <1>4, <2>1 DEF Entities!AnswersYes
    <3>2. elsewhere' = {}
      BY <3>1 DEF Entities!Operate, EntitiesInv
    <3>. QED BY <3>1, <3>2, NothingAsked
  <2>2. CASE operation.kind = "action"
    <3>1. operation' = [operation EXCEPT !.at = "listing"] /\ Entities!Asked # "docker" /\ UNCHANGED elsewhere
      BY <1>4, <2>2 DEF Entities!AnswersYes
    <3>. QED BY <1>1, <2>2, <3>1 DEF EntitiesInv, Entities!Asked
  <2>3. CASE operation.kind \notin {"entity", "action"}
    <3>1. /\ operation' = [operation EXCEPT !.left = Tail(operation.left), !.said = @ \cup {Entities!Asked}]
          /\ operation.at = "asking" /\ UNCHANGED elsewhere
      BY <1>4, <2>3 DEF Entities!AnswersYes, Entities!Unasked, Entities!Asking, EntitiesInv
    <3>. QED BY <1>1, <3>1 DEF EntitiesInv
  <2>. QED BY <2>1, <2>2, <2>3
<1>5. ASSUME NEW listed \in BOOLEAN, Entities!ActionListed(listed) PROVE EntitiesInv'
  <2>1. Entities!Asked # "docker" /\ operation.kind = "action"
    BY <1>5 DEF Entities!ActionListed, EntitiesInv
  <2>2. CASE listed
    <3>1. operation' = Entities!NoRequest /\ Entities!Operate(Entities!Asked, {Entities!Asked})
      BY <1>5, <2>2 DEF Entities!ActionListed
    <3>2. elsewhere' = {}
      BY <2>1, <3>1 DEF Entities!Operate, EntitiesInv
    <3>. QED BY <3>1, <3>2, NothingAsked
  <2>3. CASE ~listed
    <3>1. operation' = [operation EXCEPT !.left = Tail(operation.left), !.at = "asking"] /\ UNCHANGED elsewhere
      BY <1>5, <2>3 DEF Entities!ActionListed, Entities!Unasked, EntitiesInv
    <3>. QED BY <1>1, <3>1 DEF EntitiesInv
  <2>. QED BY <2>2, <2>3
<1>. QED BY <1>2, <1>3, <1>4, <1>5

LEMMA EndKeeps ==
  ASSUME EntitiesInv, Entities!End PROVE EntitiesInv'
<1>1. operation' = Entities!NoRequest
  BY DEF Entities!End
<1>2. CASE operation.kind = "project" /\ Entities!Unambiguous(operation.said)
  <2>1. PICK q : operation.said = {q}
    BY <1>2, FS_Singleton, CountedAlike DEF Entities!Unambiguous, EntitiesInv
  <2>2. (CHOOSE p \in operation.said : TRUE) = q
    BY <2>1
  <2>3. Entities!Operate(q, {q}) /\ operation.source = None
    BY <1>2, <2>1, <2>2 DEF Entities!End, EntitiesInv
  <2>4. elsewhere' = {}
    BY <2>3 DEF Entities!Operate, EntitiesInv
  <2>. QED BY <1>1, <2>4, NothingAsked
<1>3. CASE ~(operation.kind = "project" /\ Entities!Unambiguous(operation.said))
  BY <1>1, <1>3, NothingAsked DEF Entities!End, EntitiesInv
<1>. QED BY <1>2, <1>3

LEMMA EntitiesGoOn ==
  ASSUME EntitiesInv, Entities!Next \/ UNCHANGED Entities!vars PROVE EntitiesInv'
<1>1. CASE \/ \E n \in HostNames, d \in Daemons : Entities!AddHost(n, d)
           \/ \E a \in addedHosts, ok \in BOOLEAN : Entities!HostAnswers(a, ok)
           \/ \E n \in HostNames : Entities!RemoveHost(n)
           \/ \E p \in Entities!External : Entities!Toggle(p)
           \/ UNCHANGED Entities!vars
  BY <1>1 DEF Entities!AddHost, Entities!HostAnswers, Entities!RemoveHost, Entities!Toggle,
    Entities!vars, EntitiesInv, Entities!Asked
<1>2. CASE \E s \in HostNames \cup {"local", None} :
             Entities!AskEntity(s) \/ Entities!AskAll(s) \/ \E p \in Entities!External \cup {"docker"} : Entities!AskPlugin(s, p)
  BY <1>2, StartKeeps DEF Entities!AskEntity, Entities!AskAll, Entities!AskPlugin, Entities!Kinds
<1>3. CASE Entities!AskResource \/ \E p \in Entities!External \cup {"compose", None} : Entities!AskProject(p)
  BY <1>3, StartKeeps DEF Entities!AskResource, Entities!AskProject, Entities!Kinds
<1>4. CASE Entities!ProviderFails
  BY <1>4, NothingAsked DEF Entities!ProviderFails, EntitiesInv
<1>. QED BY <1>1, <1>2, <1>3, <1>4, AskedKeeps, EndKeeps DEF Entities!Next

-----------------------------------------------------------------------------
PollSet ==
  [seen : SUBSET (SUBSET Connections!Connections), offered : SUBSET (SUBSET {"d", "k"}),
   adding : BOOLEAN, alone : BOOLEAN]
Form ==
  [selected : {"d", "k"} \cup {None}, key : {"d", "k"} \cup {None},
   draft : [of : {"d", "k"} \cup {None}, filled : BOOLEAN], adding : BOOLEAN]
Current == [conns |-> Connections!Listed, providers |-> activeProviders]

PanelTyped ==
  /\ activeProviders \subseteq {"d", "k"} /\ conns \subseteq Connections!Connections
  /\ lists \in [conns : SUBSET Connections!Connections, providers : SUBSET {"d", "k"}]
  /\ form \in Form /\ polls \subseteq PollSet /\ connectionsBehind \in BOOLEAN

\* The draft is of the provider it is kept for, and that is the one selected, if it is listed.
DraftFits ==
  /\ form.draft.of = form.key
  /\ form.selected \in lists.providers => form.key = form.selected
OpsFit ==
  \A o \in connectionOps : o.draft = o.provider /\ o.kind \in {"add", "remove"}
                 /\ DOMAIN o = {"kind", "provider", "conn", "draft", "at"}

\* The button waits for an addition, or for the request for the lists that follows it.
AddingFits == form.adding => (\E o \in connectionOps : o.kind = "add") \/ \E p \in polls : p.adding

\* A request without another one sees the lists as they are; and so does each, unless requests
\* crossed or failed or an operation has just succeeded.
AloneFits == \A p \in polls : p.alone => polls = {p} /\ p.seen = {Connections!Listed} /\ p.offered = {activeProviders}
ListsCurrent ==
  ~connectionsBehind =>
    \/ \E o \in connectionOps : o.at = "ok"
    \/ /\ polls = {} => lists = Current
       /\ \A p \in polls : p.seen = {Connections!Listed} /\ p.offered = {activeProviders}

ConnectionsInv ==
  PanelTyped /\ DraftFits /\ OpsFit /\ AddingFits /\ AloneFits /\ ListsCurrent

LEMMA ConnectionsFollow ==
  ASSUME ConnectionsInv PROVE Connections!ConnectionsFit
<1>1. Connections!SelectedProvider # None => form.key = Connections!SelectedProvider /\ form.draft.of = form.key
  BY DEF ConnectionsInv, DraftFits, Connections!SelectedProvider
<1>2. \A o \in connectionOps : o.draft = o.provider
  BY DEF ConnectionsInv, OpsFit
<1>3. connectionOps = {} /\ polls = {} => ~form.adding
  BY DEF ConnectionsInv, AddingFits
<1>4. connectionOps = {} /\ polls = {} /\ ~connectionsBehind => lists = [conns |-> Connections!Listed, providers |-> activeProviders]
  BY DEF ConnectionsInv, ListsCurrent, Current
<1>. QED BY <1>1, <1>2, <1>3, <1>4 DEF Connections!ConnectionsFit

LEMMA ListedThere == PanelTyped => Connections!Listed \subseteq Connections!Connections /\ activeProviders \subseteq {"d", "k"}
BY DEF PanelTyped, Connections!Listed

LEMMA NewPollFits ==
  ASSUME PanelTyped, NEW adding \in BOOLEAN, NEW only \in BOOLEAN
  PROVE  /\ Connections!NewPoll(adding, only) \in PollSet
         /\ Connections!NewPoll(adding, only).seen = {Connections!Listed} /\ Connections!NewPoll(adding, only).offered = {activeProviders}
         /\ Connections!NewPoll(adding, only).adding = adding /\ Connections!NewPoll(adding, only).alone = only
BY ListedThere DEF Connections!NewPoll, PollSet

LEMMA ConnectionsBegin ==
  ASSUME Connections!Init PROVE ConnectionsInv
<1>1. PanelTyped
  <2>1. activeProviders = {"d", "k"} /\ conns \subseteq Connections!Connections /\ Connections!Listed \subseteq Connections!Connections
    BY DEF Connections!Init, Connections!Listed
  <2>2. polls = {Connections!NewPoll(FALSE, TRUE)} /\ polls \subseteq PollSet
    BY <2>1 DEF Connections!Init, Connections!NewPoll, PollSet
  <2>. QED BY <2>1, <2>2 DEF Connections!Init, PanelTyped, Form
<1>2. polls = {Connections!NewPoll(FALSE, TRUE)} /\ connectionsBehind = TRUE /\ connectionOps = {}
  BY DEF Connections!Init
<1>3. AloneFits
  BY <1>1, <1>2, NewPollFits DEF AloneFits
<1>4. DraftFits /\ AddingFits
  BY DEF Connections!Init, DraftFits, AddingFits
<1>. QED BY <1>1, <1>2, <1>3, <1>4 DEF ConnectionsInv, OpsFit, ListsCurrent

\* After the effect the draft is one of the provider that is selected.
LEMMA ShownFits ==
  ASSUME NEW l \in [conns : SUBSET Connections!Connections, providers : SUBSET {"d", "k"}],
         NEW f \in Form, f.draft.of = f.key, Connections!Shown(l, f)
  PROVE  lists' = l /\ form' \in Form /\ form'.adding = f.adding /\ DraftFits'
<1>1. PICK first \in {"d", "k"} \cup {None} :
        lists' = l /\ form' = Connections!Keyed([f EXCEPT !.selected = first], l.providers)
  BY DEF Connections!Shown, Form
<1>. DEFINE g == [f EXCEPT !.selected = first]
<1>2. g \in Form /\ g.draft = f.draft /\ g.key = f.key /\ g.selected = first /\ g.adding = f.adding
  BY DEF Form
<1>. HIDE DEF g
<1>3. form' = Connections!Keyed(g, l.providers)
  BY <1>1 DEF g
<1>4. CASE g.selected \in l.providers /\ g.key # g.selected
  <2>1. form' = [g EXCEPT !.key = g.selected, !.draft = [of |-> g.selected, filled |-> FALSE]]
    BY <1>3, <1>4 DEF Connections!Keyed
  <2>2. /\ form' \in Form /\ form'.key = g.selected /\ form'.selected = g.selected
        /\ form'.draft.of = g.selected /\ form'.adding = g.adding
    BY <1>2, <2>1 DEF Form
  <2>. QED BY <1>1, <1>2, <2>2 DEF DraftFits
<1>5. CASE ~(g.selected \in l.providers /\ g.key # g.selected)
  BY <1>1, <1>2, <1>3, <1>5 DEF Connections!Keyed, DraftFits
<1>. QED BY <1>4, <1>5

\* Requests are kept, with what else they see.
LEMMA SeenKeeps ==
  ASSUME PanelTyped, activeProviders' \subseteq {"d", "k"}, conns' \subseteq Connections!Connections,
         polls' = Connections!Seen(polls)
  PROVE  /\ polls' \subseteq PollSet /\ \A q \in polls' : ~q.alone
         /\ (\E p \in polls : p.adding) => \E q \in polls' : q.adding
         /\ \A q \in polls' : \E p \in polls :
              q.seen = p.seen \cup {Connections!Listed'} /\ q.offered = p.offered \cup {activeProviders'}
<1>. DEFINE Again(p) == [p EXCEPT !.seen = @ \cup {Connections!Listed'}, !.offered = @ \cup {activeProviders'}, !.alone = FALSE]
<1>1. Connections!Listed' \subseteq Connections!Connections
  BY DEF Connections!Listed
<1>2. \A p \in polls : /\ Again(p) \in PollSet /\ ~Again(p).alone /\ Again(p).adding = p.adding
                       /\ Again(p).seen = p.seen \cup {Connections!Listed'}
                       /\ Again(p).offered = p.offered \cup {activeProviders'}
  <2>1. SUFFICES ASSUME NEW p \in polls
                 PROVE  /\ Again(p) \in PollSet /\ ~Again(p).alone /\ Again(p).adding = p.adding
                        /\ Again(p).seen = p.seen \cup {Connections!Listed'}
                        /\ Again(p).offered = p.offered \cup {activeProviders'}
    OBVIOUS
  <2>2. p \in PollSet
    BY DEF PanelTyped
  <2>4. PICK l \in SUBSET Connections!Connections : l = Connections!Listed'
    BY <1>1
  <2>5. PICK a \in SUBSET {"d", "k"} : a = activeProviders'
    OBVIOUS
  <2>6. PICK q : q = [p EXCEPT !.seen = p.seen \cup {l}, !.offered = p.offered \cup {a}, !.alone = FALSE]
    OBVIOUS
  <2>7. q = Again(p)
    BY <2>4, <2>5, <2>6
  <2>8. /\ q \in PollSet /\ ~q.alone /\ q.adding = p.adding
        /\ q.seen = p.seen \cup {l} /\ q.offered = p.offered \cup {a}
    BY <2>2, <2>6 DEF PollSet
  <2>. HIDE DEF Again
  <2>. QED BY <2>4, <2>5, <2>7, <2>8
<1>3. polls' = {Again(p) : p \in polls}
  BY DEF Connections!Seen
<1>. HIDE DEF Again
<1>. QED BY <1>2, <1>3

\* A new request, after which none is alone but it.
LEMMA MoreKeeps ==
  ASSUME ConnectionsInv, NEW adding \in BOOLEAN, UNCHANGED <<activeProviders, conns>>,
         polls' = {[p EXCEPT !.alone = FALSE] : p \in polls} \cup {Connections!NewPoll(adding, polls = {})}
  PROVE  /\ polls' \subseteq PollSet /\ AloneFits'
         /\ \E q \in polls' : adding = q.adding
         /\ (\E p \in polls : p.adding) => \E q \in polls' : q.adding
         /\ polls = {} => \A q \in polls' : q.seen = {Connections!Listed} /\ q.offered = {activeProviders}
<1>. DEFINE Again(p) == [p EXCEPT !.alone = FALSE]
            new == Connections!NewPoll(adding, polls = {})
<1>1. \A p \in polls : Again(p) \in PollSet /\ ~Again(p).alone /\ Again(p).adding = p.adding
  <2>1. polls \subseteq PollSet
    BY DEF ConnectionsInv, PanelTyped
  <2>2. \A p \in PollSet : Again(p) \in PollSet /\ ~Again(p).alone /\ Again(p).adding = p.adding
    BY DEF PollSet
  <2>. QED BY <2>1, <2>2
<1>2. /\ new \in PollSet /\ new.adding = adding /\ (new.alone <=> polls = {})
      /\ new.seen = {Connections!Listed} /\ new.offered = {activeProviders}
  BY NewPollFits DEF ConnectionsInv
<1>3. polls' = {Again(p) : p \in polls} \cup {new}
  OBVIOUS
<1>. HIDE DEF Again, new
<1>4. Connections!Listed' = Connections!Listed /\ activeProviders' = activeProviders
  BY DEF Connections!Listed
<1>5. polls = {} => polls' = {new}
  BY <1>3
<1>6. \A q \in polls' : q.alone => polls = {}
  BY <1>1, <1>2, <1>3
<1>7. AloneFits'
  BY <1>2, <1>4, <1>5, <1>6 DEF AloneFits
<1>8. polls' \subseteq PollSet
  BY <1>1, <1>2, <1>3
<1>9. new \in polls'
  BY <1>3
<1>10. \A p \in polls : \E q \in polls' : q.adding = p.adding
  BY <1>1, <1>3
<1>. QED BY <1>2, <1>5, <1>7, <1>8, <1>9, <1>10

LEMMA PollKeeps ==
  ASSUME ConnectionsInv
  PROVE  /\ Connections!Poll => ConnectionsInv'
         /\ (\E p \in polls, ok \in BOOLEAN : Connections!PollEnds(p, ok)) => ConnectionsInv'
<1>1. CASE Connections!Poll
  <2>1. /\ polls' = {[p EXCEPT !.alone = FALSE] : p \in polls} \cup {Connections!NewPoll(FALSE, polls = {})}
        /\ connectionsBehind' = (connectionsBehind \/ polls # {})
        /\ UNCHANGED <<activeProviders, conns, lists, form, connectionOps>>
    BY <1>1 DEF Connections!Poll, Connections!serverVars
  <2>2. /\ polls' \subseteq PollSet /\ AloneFits'
        /\ (\E p \in polls : p.adding) => \E q \in polls' : q.adding
        /\ polls' # {}
        /\ polls = {} => \A q \in polls' : q.seen = {Connections!Listed} /\ q.offered = {activeProviders}
    BY <2>1, MoreKeeps
  <2>3. Connections!Listed' = Connections!Listed
    BY <2>1 DEF Connections!Listed
  <2>4. ~connectionsBehind' => polls = {}
    BY <2>1, Zenon
  <2>5. ListsCurrent'
    BY <2>1, <2>2, <2>3, <2>4 DEF ListsCurrent
  <2>6. connectionsBehind' \in BOOLEAN
    BY <2>1
  <2>7. PanelTyped' /\ DraftFits' /\ OpsFit' /\ AddingFits'
    BY <2>1, <2>2, <2>6 DEF ConnectionsInv, PanelTyped, DraftFits, OpsFit, AddingFits
  <2>. QED BY <2>2, <2>5, <2>7 DEF ConnectionsInv
<1>2. ASSUME NEW p \in polls, NEW ok \in BOOLEAN, Connections!PollEnds(p, ok) PROVE ConnectionsInv'
  <2>. DEFINE f == IF p.adding THEN [form EXCEPT !.adding = FALSE] ELSE form
  <2>1. /\ polls' = polls \ {p}
        /\ IF ok THEN \E cs \in p.seen, ps \in p.offered : Connections!Shown([conns |-> cs, providers |-> ps], f)
           ELSE Connections!Shown([conns |-> {}, providers |-> {}], f)
        /\ connectionsBehind' = IF ok /\ p.alone THEN FALSE ELSE connectionsBehind \/ ~ok
        /\ UNCHANGED <<activeProviders, conns, connectionOps>>
    BY <1>2 DEF Connections!PollEnds, Connections!serverVars
  <2>2. /\ f \in Form /\ f.draft.of = f.key
        /\ f.adding => form.adding /\ ~p.adding
    BY DEF ConnectionsInv, PanelTyped, DraftFits, Form
  <2>. HIDE DEF f
  <2>3. p \in PollSet /\ Connections!Listed' = Connections!Listed
    BY <2>1 DEF ConnectionsInv, PanelTyped, Connections!Listed
  <2>4. /\ form' \in Form /\ form'.adding = f.adding /\ DraftFits'
        /\ lists' \in [conns : SUBSET Connections!Connections, providers : SUBSET {"d", "k"}]
        /\ ok => \E cs \in p.seen, ps \in p.offered : lists' = [conns |-> cs, providers |-> ps]
    <3>1. CASE ok
      <4>1. PICK cs \in p.seen, ps \in p.offered : Connections!Shown([conns |-> cs, providers |-> ps], f)
        BY <2>1, <3>1
      <4>2. [conns |-> cs, providers |-> ps] \in [conns : SUBSET Connections!Connections, providers : SUBSET {"d", "k"}]
        BY <2>3 DEF PollSet
      <4>. QED BY <2>2, <4>1, <4>2, ShownFits
    <3>2. CASE ~ok
      <4>1. [conns |-> {}, providers |-> {}] \in [conns : SUBSET Connections!Connections, providers : SUBSET {"d", "k"}]
        OBVIOUS
      <4>. QED BY <2>1, <2>2, <3>2, <4>1, ShownFits
    <3>. QED BY <3>1, <3>2
  <2>5. AddingFits'
    BY <2>1, <2>2, <2>4 DEF ConnectionsInv, AddingFits
  <2>6. AloneFits'
    BY <2>1, <2>3 DEF ConnectionsInv, AloneFits
  <2>7. ListsCurrent'
    <3>. SUFFICES ASSUME ~connectionsBehind', \A o \in connectionOps : o.at # "ok"
                  PROVE  /\ polls' = {} => lists' = Current'
                         /\ \A q \in polls' : q.seen = {Connections!Listed'} /\ q.offered = {activeProviders'}
      BY <2>1 DEF ListsCurrent
    <3>1. ok /\ (p.alone \/ ~connectionsBehind)
      BY <2>1, Zenon
    <3>2. p.seen = {Connections!Listed} /\ p.offered = {activeProviders}
      BY <3>1 DEF ConnectionsInv, AloneFits, ListsCurrent
    <3>3. lists' = Current'
      BY <2>1, <2>3, <2>4, <3>1, <3>2 DEF Current
    <3>4. \A q \in polls' : q.seen = {Connections!Listed} /\ q.offered = {activeProviders}
      BY <2>1, <3>1 DEF ConnectionsInv, AloneFits, ListsCurrent
    <3>. QED BY <2>1, <2>3, <3>3, <3>4
  <2>8. connectionsBehind' \in BOOLEAN
    BY <2>1 DEF ConnectionsInv, PanelTyped
  <2>9. PanelTyped' /\ OpsFit'
    BY <2>1, <2>4, <2>8 DEF ConnectionsInv, PanelTyped, OpsFit
  <2>. QED BY <2>4, <2>5, <2>6, <2>7, <2>9 DEF ConnectionsInv
<1>. QED BY <1>1, <1>2

LEMMA ServerKeeps ==
  ASSUME ConnectionsInv
  PROVE  /\ \A p \in {"d", "k"} : Connections!TogglePlugin(p) => ConnectionsInv'
         /\ \A o \in connectionOps : (\E done, ok \in BOOLEAN : Connections!Serve(o, done, ok)) => ConnectionsInv'
<1>1. ASSUME NEW p \in {"d", "k"}, Connections!TogglePlugin(p) PROVE ConnectionsInv'
  <2>1. /\ activeProviders' \subseteq {"d", "k"} /\ conns' = conns /\ polls' = Connections!Seen(polls) /\ connectionsBehind' = TRUE
        /\ UNCHANGED <<lists, form, connectionOps>>
    BY <1>1 DEF Connections!TogglePlugin, ConnectionsInv, PanelTyped
  <2>2. /\ polls' \subseteq PollSet /\ \A q \in polls' : ~q.alone
        /\ (\E q \in polls : q.adding) => \E q \in polls' : q.adding
    BY <2>1, SeenKeeps DEF ConnectionsInv, PanelTyped
  <2>3. PanelTyped' /\ DraftFits' /\ OpsFit' /\ AddingFits'
    BY <2>1, <2>2 DEF ConnectionsInv, PanelTyped, DraftFits, OpsFit, AddingFits
  <2>. QED BY <2>1, <2>2, <2>3 DEF ConnectionsInv, AloneFits, ListsCurrent
<1>2. ASSUME NEW o \in connectionOps, NEW done \in BOOLEAN, NEW ok \in BOOLEAN,
             Connections!Serve(o, done, ok)
      PROVE  ConnectionsInv'
  <2>. DEFINE answer == [o EXCEPT !.at = IF ok THEN "ok" ELSE "failed"]
  <2>1. /\ o.at = "sent" /\ (ok => done) /\ (~done => conns' = conns) /\ activeProviders' = activeProviders
        /\ connectionOps' = (connectionOps \ {o}) \cup {answer}
        /\ polls' = Connections!Seen(polls) /\ connectionsBehind' = (connectionsBehind \/ (done /\ ~ok))
        /\ UNCHANGED <<lists, form>>
    BY <1>2 DEF Connections!Serve
  <2>2. conns' \subseteq Connections!Connections
    BY <1>2 DEF Connections!Serve, ConnectionsInv, PanelTyped
  <2>3. /\ answer.draft = answer.provider /\ answer.kind = o.kind
        /\ o.kind \in {"add", "remove"} /\ (ok => answer.at = "ok")
        /\ DOMAIN answer = {"kind", "provider", "conn", "draft", "at"}
    BY DEF ConnectionsInv, OpsFit
  <2>. HIDE DEF answer
  <2>4. /\ polls' \subseteq PollSet /\ \A q \in polls' : ~q.alone
        /\ (\E q \in polls : q.adding) => \E q \in polls' : q.adding
        /\ \A q \in polls' : \E p \in polls :
             q.seen = p.seen \cup {Connections!Listed'} /\ q.offered = p.offered \cup {activeProviders'}
    BY <2>1, <2>2, SeenKeeps DEF ConnectionsInv, PanelTyped
  <2>5. connectionsBehind' \in BOOLEAN
    BY <2>1
  <2>6. PanelTyped' /\ DraftFits' /\ OpsFit' /\ AddingFits'
    BY <2>1, <2>2, <2>3, <2>4, <2>5
    DEF ConnectionsInv, PanelTyped, DraftFits, OpsFit, AddingFits
  <2>7. ListsCurrent'
    <3>. SUFFICES ASSUME ~connectionsBehind', \A q \in connectionOps' : q.at # "ok"
                  PROVE  /\ polls' = {} => lists' = Current'
                         /\ \A q \in polls' : q.seen = {Connections!Listed'} /\ q.offered = {activeProviders'}
      BY DEF ListsCurrent
    <3>1. ~connectionsBehind /\ ~(done /\ ~ok)
      BY <2>1, Zenon
    <3>2. ~ok
      BY <2>1, <2>3
    <3>3. conns' = conns /\ Connections!Listed' = Connections!Listed
      BY <2>1, <3>1, <3>2 DEF Connections!Listed
    <3>4. \A q \in connectionOps : q.at # "ok"
      BY <2>1
    <3>5. /\ polls = {} => lists = Current
          /\ \A p \in polls : p.seen = {Connections!Listed} /\ p.offered = {activeProviders}
      BY <3>1, <3>4 DEF ConnectionsInv, ListsCurrent
    <3>6. \A q \in polls' : q.seen = {Connections!Listed'} /\ q.offered = {activeProviders'}
      BY <2>1, <2>4, <3>3, <3>5
    <3>7. polls' = {} => polls = {}
      BY <2>1 DEF Connections!Seen
    <3>. QED BY <2>1, <3>3, <3>5, <3>6, <3>7 DEF Current
  <2>. QED BY <2>4, <2>6, <2>7 DEF ConnectionsInv, AloneFits
<1>. QED BY <1>1, <1>2

LEMMA AnsweredKeeps ==
  ASSUME ConnectionsInv, NEW o \in connectionOps, Connections!Answered(o) PROVE ConnectionsInv'
<1>. DEFINE good == o.at = "ok" /\ (o.kind = "add" => Connections!SelectedProvider # None)
<1>1. /\ connectionOps' = connectionOps \ {o} /\ UNCHANGED <<activeProviders, conns, lists>>
      /\ polls' = IF good THEN Connections!Refreshed(o) ELSE polls
      /\ connectionsBehind' = (connectionsBehind \/ polls # {} \/ (~good /\ o.at = "ok"))
      /\ form' = IF o.kind = "remove" THEN form
                 ELSE IF good THEN [form EXCEPT !.draft = [of |-> Connections!SelectedProvider, filled |-> FALSE],
                                                !.adding = (polls' # polls)]
                 ELSE [form EXCEPT !.adding = FALSE]
  BY DEF Connections!Answered, Connections!serverVars
<1>2. Connections!Listed' = Connections!Listed /\ o.kind \in {"add", "remove"} /\ form \in Form /\ connectionsBehind' \in BOOLEAN
  BY <1>1 DEF Connections!Listed, ConnectionsInv, OpsFit, PanelTyped
<1>3. CASE good
  <2>1. /\ polls' \subseteq PollSet /\ AloneFits'
        /\ \E q \in polls' : (o.kind = "add") = q.adding
        /\ (\E p \in polls : p.adding) => \E q \in polls' : q.adding
        /\ polls = {} => \A q \in polls' : q.seen = {Connections!Listed} /\ q.offered = {activeProviders}
    BY <1>1, <1>3, MoreKeeps DEF Connections!Refreshed
  <2>2. ~connectionsBehind' => polls = {}
    BY <1>1, Zenon
  <2>3. ListsCurrent'
    BY <1>1, <1>2, <2>1, <2>2 DEF ListsCurrent
  <2>4. form' \in Form /\ DraftFits' /\ AddingFits'
    <3>1. CASE o.kind = "remove"
      BY <1>1, <1>2, <2>1, <3>1 DEF ConnectionsInv, DraftFits, AddingFits
    <3>2. CASE o.kind # "remove"
      <4>1. form' = [form EXCEPT !.draft = [of |-> Connections!SelectedProvider, filled |-> FALSE],
                                 !.adding = (polls' # polls)]
        BY <1>1, <1>3, <3>2
      <4>2. /\ Connections!SelectedProvider = form.selected /\ form.key = form.selected
            /\ form.selected \in {"d", "k"}
        BY <1>2, <1>3, <3>2 DEF Connections!SelectedProvider, ConnectionsInv, DraftFits, PanelTyped
      <4>3. /\ form' \in Form /\ form'.draft.of = Connections!SelectedProvider /\ form'.key = form.key
            /\ form'.selected = form.selected
        BY <1>2, <4>1, <4>2 DEF Form
      <4>. QED BY <1>2, <2>1, <3>2, <4>2, <4>3 DEF DraftFits, AddingFits
    <3>. QED BY <3>1, <3>2
  <2>5. PanelTyped' /\ OpsFit'
    BY <1>1, <1>2, <2>1, <2>4 DEF ConnectionsInv, PanelTyped, OpsFit
  <2>. QED BY <2>1, <2>3, <2>4, <2>5 DEF ConnectionsInv
<1>4. CASE ~good
  <2>1. polls' = polls
    BY <1>1, <1>4
  <2>2. ~connectionsBehind' => ~connectionsBehind /\ polls = {} /\ o.at # "ok"
    BY <1>1, <1>4, Zenon
  <2>3. ListsCurrent'
    BY <1>1, <1>2, <2>1, <2>2 DEF ConnectionsInv, ListsCurrent, Current
  <2>4. AloneFits'
    BY <1>1, <1>2, <2>1 DEF ConnectionsInv, AloneFits
  <2>5. form' \in Form /\ DraftFits' /\ AddingFits'
    <3>1. CASE o.kind = "remove"
      BY <1>1, <1>2, <2>1, <3>1 DEF ConnectionsInv, DraftFits, AddingFits
    <3>2. CASE o.kind # "remove"
      <4>1. form' = [form EXCEPT !.adding = FALSE]
        BY <1>1, <1>4, <3>2
      <4>. QED BY <1>1, <1>2, <4>1 DEF ConnectionsInv, DraftFits, AddingFits, Form
    <3>. QED BY <3>1, <3>2
  <2>6. PanelTyped' /\ OpsFit'
    BY <1>1, <1>2, <2>1, <2>5 DEF ConnectionsInv, PanelTyped, OpsFit
  <2>. QED BY <2>3, <2>4, <2>5, <2>6 DEF ConnectionsInv
<1>. QED BY <1>3, <1>4

LEMMA EditKeeps ==
  ASSUME ConnectionsInv
  PROVE  /\ \A p : Connections!SelectProvider(p) => ConnectionsInv'
         /\ Connections!SetDraft \/ Connections!AddConnection => ConnectionsInv'
         /\ \A c : Connections!RemoveConnection(c) => ConnectionsInv'
<1>0. form \in Form /\ lists \in [conns : SUBSET Connections!Connections, providers : SUBSET {"d", "k"}]
  BY DEF ConnectionsInv, PanelTyped
<1>. DEFINE Same == UNCHANGED <<activeProviders, conns, polls, connectionsBehind>>
<1>1. ASSUME Same, lists' = lists, form' \in Form, DraftFits', OpsFit', AddingFits',
             \A o \in connectionOps : o \in connectionOps'
      PROVE  ConnectionsInv'
  <2>1. Connections!Listed' = Connections!Listed
    BY <1>1 DEF Connections!Listed
  <2>2. ListsCurrent'
    BY <1>1, <2>1 DEF ConnectionsInv, ListsCurrent, Current
  <2>3. AloneFits'
    BY <1>1, <2>1 DEF ConnectionsInv, AloneFits
  <2>4. PanelTyped'
    BY <1>1 DEF ConnectionsInv, PanelTyped
  <2>. QED BY <1>1, <2>2, <2>3, <2>4 DEF ConnectionsInv
<1>2. ASSUME NEW p, Connections!SelectProvider(p) PROVE ConnectionsInv'
  <2>. DEFINE f == [form EXCEPT !.selected = p]
  <2>1. Connections!Shown(lists, f) /\ Same /\ connectionOps' = connectionOps /\ p \in lists.providers
    BY <1>2 DEF Connections!SelectProvider, Connections!serverVars
  <2>2. f \in Form /\ f.draft.of = f.key /\ f.adding = form.adding
    BY <1>0, <2>1 DEF ConnectionsInv, DraftFits, Form
  <2>. HIDE DEF f
  <2>3. lists' = lists /\ form' \in Form /\ form'.adding = form.adding /\ DraftFits'
    BY <1>0, <2>1, <2>2, ShownFits
  <2>4. OpsFit' /\ AddingFits'
    BY <2>1, <2>3 DEF ConnectionsInv, OpsFit, AddingFits
  <2>. QED BY <1>1, <2>1, <2>3, <2>4
<1>3. CASE Connections!SetDraft
  <2>1. form' = [form EXCEPT !.draft.filled = TRUE] /\ Same /\ lists' = lists /\ connectionOps' = connectionOps
    BY <1>3 DEF Connections!SetDraft, Connections!serverVars
  <2>2. form' = [form EXCEPT !.draft = [form.draft EXCEPT !.filled = TRUE]]
    BY <2>1
  <2>3. /\ form' \in Form /\ form'.draft.of = form.draft.of /\ form'.key = form.key
        /\ form'.selected = form.selected /\ form'.adding = form.adding
    BY <1>0, <2>2 DEF Form
  <2>4. DraftFits' /\ OpsFit' /\ AddingFits'
    BY <2>1, <2>3 DEF ConnectionsInv, DraftFits, OpsFit, AddingFits
  <2>. QED BY <1>1, <2>1, <2>3, <2>4
<1>4. CASE Connections!AddConnection
  <2>. DEFINE o == [kind |-> "add", provider |-> Connections!SelectedProvider, conn |-> None,
                    draft |-> form.draft.of, at |-> "sent"]
  <2>1. /\ form' = [form EXCEPT !.adding = TRUE] /\ Same /\ lists' = lists
        /\ connectionOps' = connectionOps \cup {o} /\ Connections!SelectedProvider # None
    BY <1>4 DEF Connections!AddConnection, Connections!Begin, Connections!serverVars
  <2>2. /\ form' \in Form /\ form'.draft = form.draft /\ form'.key = form.key
        /\ form'.selected = form.selected
    BY <1>0, <2>1 DEF Form
  <2>3. /\ o.draft = o.provider /\ o.kind = "add"
        /\ DOMAIN o = {"kind", "provider", "conn", "draft", "at"}
    BY <2>1 DEF ConnectionsInv, DraftFits, Connections!SelectedProvider
  <2>. HIDE DEF o
  <2>4. DraftFits' /\ OpsFit' /\ AddingFits'
    BY <2>1, <2>2, <2>3 DEF ConnectionsInv, DraftFits, OpsFit, AddingFits
  <2>. QED BY <1>1, <2>1, <2>2, <2>4
<1>5. ASSUME NEW c, Connections!RemoveConnection(c) PROVE ConnectionsInv'
  <2>. DEFINE o == [kind |-> "remove", provider |-> OwnProvider[c], conn |-> c,
                    draft |-> OwnProvider[c], at |-> "sent"]
  <2>1. form' = form /\ Same /\ lists' = lists /\ connectionOps' = connectionOps \cup {o}
    BY <1>5 DEF Connections!RemoveConnection, Connections!Begin, Connections!serverVars
  <2>2. /\ o.draft = o.provider /\ o.kind = "remove"
        /\ DOMAIN o = {"kind", "provider", "conn", "draft", "at"}
    OBVIOUS
  <2>. HIDE DEF o
  <2>3. DraftFits' /\ OpsFit' /\ AddingFits'
    BY <2>1, <2>2 DEF ConnectionsInv, DraftFits, OpsFit, AddingFits
  <2>. QED BY <1>0, <1>1, <2>1, <2>3
<1>. QED BY <1>2, <1>3, <1>4, <1>5

LEMMA ConnectionsGoOn ==
  ASSUME ConnectionsInv, Connections!Next \/ UNCHANGED Connections!vars PROVE ConnectionsInv'
<1>1. CASE UNCHANGED Connections!vars
  BY <1>1 DEF Connections!vars, Connections!serverVars, ConnectionsInv, PanelTyped, DraftFits, OpsFit,
    AddingFits, AloneFits,
    ListsCurrent, Current, Connections!Listed
<1>. QED BY <1>1, PollKeeps, ServerKeeps, AnsweredKeeps, EditKeeps DEF Connections!Next

-----------------------------------------------------------------------------
\* What the constants of this part are.
LEMMA ProjectsConstants ==
  /\ None \notin Projects!RequestSet
  /\ None \notin Slots
BY PluginAssumption

States == [{"c", "d"} -> {"running", "stopped", "gone"}]
SeenOf(r) == Projects!Of(r.project) \cap Projects!There(r.seen)

\* What a request that reports success has done to a container it saw.
Did(r, s, c) ==
  CASE r.kind = "stop" -> s[c] # "running"
    [] r.kind \in {"start", "up"} -> s[c] = "running"
    [] r.kind = "restart" -> (r.seen[c] = "running" => s[c] = "running")
    [] OTHER -> s[c] = "gone"

\* Unless its project was changed by others, what is left for a request is as it saw it, and
\* the rest is done.
RequestTrue(r, s) ==
  r.kind # "list" /\ ~r.disturbed =>
    /\ r.phase = "seen" =>
         /\ r.left \subseteq SeenOf(r)
         /\ \A c \in r.left : s[c] = r.seen[c]
         /\ \A c \in SeenOf(r) \ r.left : Did(r, s, c)
    /\ r.phase = "ran" => \A c \in SeenOf(r) : Did(r, s, c)
    /\ r.phase = "answered" /\ r.ok =>
         \/ \A c \in SeenOf(r) : Did(r, s, c)
         \/ r.kind \in {"down", "destroy"} /\ r.project \notin {"p"}
RequestFits(r, s) == RequestTrue(r, s) /\ (r.phase # "answered" => ~r.ok)

RequestsFit ==
  /\ containers \in States /\ requests \in [Slots -> Projects!RequestSet \cup {None}]
  /\ \A i \in Projects!InFlight : RequestFits(requests[i], containers)

\* What was destroyed is nowhere.
Blind(r, p) == r.kind = "list" /\ r.phase = "seen" => Projects!Of(p) \cap Projects!There(r.seen) = {}
DestroyedFits ==
  \A p \in destroyed :
    /\ p \notin cache /\ Projects!Of(p) \cap Projects!There(containers) = {}
    /\ \A i \in Projects!InFlight : Blind(requests[i], p)

PanelFits == Projects!PanelWaits /\ refreshes \in Nat /\ pending \in Slots \cup {None}

ProjectsInv == RequestsFit /\ DestroyedFits /\ PanelFits

LEMMA ProjectsFollow ==
  ASSUME ProjectsInv PROVE Projects!ProjectsAreTrue
<1>1. Projects!DoneAsAsked
  <2>. SUFFICES ASSUME NEW i \in Projects!InFlight, requests[i].kind # "list", requests[i].phase = "answered",
                       requests[i].ok, ~requests[i].disturbed
                PROVE  LET r == requests[i]
                           seen == Projects!Of(r.project) \cap Projects!There(r.seen)
                       IN CASE r.kind = "stop" -> seen \cap Projects!Running(containers) = {}
                            [] r.kind = "start" -> seen \subseteq Projects!Running(containers)
                            [] r.kind = "restart" -> seen \cap Projects!Running(r.seen) \subseteq Projects!Running(containers)
                            [] r.kind = "up" -> seen \subseteq Projects!Running(containers)
                            [] OTHER -> seen \cap Projects!There(containers) = {} \/ r.project \notin {"p"}
    BY DEF Projects!DoneAsAsked
  <2>. DEFINE r == requests[i]
  <2>1. \/ \A c \in SeenOf(r) : Did(r, containers, c)
        \/ r.kind \in {"down", "destroy"} /\ r.project \notin {"p"}
    BY DEF ProjectsInv, RequestsFit, RequestFits, RequestTrue
  <2>2. r.kind \in Projects!Actions /\ SeenOf(r) \subseteq {"c", "d"}
    BY DEF ProjectsInv, RequestsFit, Projects!RequestSet, Projects!InFlight, SeenOf, Projects!Of
  <2>. HIDE DEF r
  <2>3. CASE \A c \in SeenOf(r) : Did(r, containers, c)
    BY <2>2, <2>3 DEF r, Did, SeenOf, Projects!Running, Projects!There, Projects!Actions
  <2>4. CASE r.kind \in {"down", "destroy"} /\ r.project \notin {"p"}
    BY <2>4 DEF r
  <2>. QED BY <2>1, <2>3, <2>4
<1>2. Projects!DestroyedIsForgotten
  BY DEF ProjectsInv, DestroyedFits, Blind, Projects!DestroyedIsForgotten
<1>. QED BY <1>1, <1>2 DEF ProjectsInv, PanelFits, Projects!ProjectsAreTrue

LEMMA ProjectsBegin ==
  ASSUME Projects!Init PROVE ProjectsInv
<1>1. Projects!InFlight = {} /\ Projects!Listings = {}
  BY DEF Projects!Init, Projects!InFlight, Projects!Listings
<1>2. containers \in States /\ requests \in [Slots -> Projects!RequestSet \cup {None}]
  BY DEF Projects!Init, States
<1>. QED BY <1>1, <1>2 DEF Projects!Init, ProjectsInv, RequestsFit, DestroyedFits, PanelFits,
  Projects!PanelWaits

LEMMA InFlightTyped ==
  ASSUME RequestsFit, NEW i \in Projects!InFlight PROVE i \in Slots /\ requests[i] \in Projects!RequestSet
BY DEF RequestsFit, Projects!InFlight

\* What is true of a request stays true while its project is not touched.
LEMMA TrueWhileSame ==
  ASSUME NEW r, NEW s, NEW t, RequestTrue(r, s), \A c \in Projects!Of(r.project) : t[c] = s[c]
  PROVE  RequestTrue(r, t)
<1>1. \A c \in SeenOf(r) : t[c] = s[c]
  BY DEF SeenOf
<1>2. \A c \in SeenOf(r) : Did(r, s, c) => Did(r, t, c)
  BY <1>1 DEF Did
<1>. QED BY <1>1, <1>2 DEF RequestTrue

\* A request that goes on leaves the others, and the panel, as they are.
LEMMA AdvanceKeeps ==
  ASSUME ProjectsInv, NEW i \in Projects!InFlight, NEW r \in Projects!RequestSet, r.kind = requests[i].kind,
         RequestFits(r, containers), Projects!Advance(i, r), UNCHANGED <<containers, pending, projectsLoading, refreshes>>
  PROVE  /\ RequestsFit' /\ PanelFits' /\ Projects!InFlight' = Projects!InFlight
         /\ requests'[i] = r /\ \A j \in Projects!InFlight \ {i} : requests'[j] = requests[j]
<1>1. i \in Slots /\ requests \in [Slots -> Projects!RequestSet \cup {None}]
  BY InFlightTyped DEF ProjectsInv, RequestsFit
<1>2. /\ requests' \in [Slots -> Projects!RequestSet \cup {None}] /\ requests'[i] = r
      /\ \A j \in Slots \ {i} : requests'[j] = requests[j]
  BY <1>1 DEF Projects!Advance
<1>3. r # None
  BY ProjectsConstants
<1>4. Projects!InFlight' = Projects!InFlight /\ Projects!InFlight \subseteq Slots
  BY <1>2, <1>3 DEF Projects!InFlight
<1>5. RequestsFit'
  BY <1>2, <1>4 DEF ProjectsInv, RequestsFit
<1>6. \A j \in Projects!InFlight : requests'[j].kind = requests[j].kind
  BY <1>2, <1>4
<1>7. PanelFits'
  BY <1>4, <1>6 DEF ProjectsInv, PanelFits, Projects!PanelWaits, Projects!Listings
<1>. QED BY <1>2, <1>4, <1>5, <1>7

LEMMA DestroyedStays ==
  ASSUME ProjectsInv, NEW i \in Projects!InFlight, NEW r, Projects!InFlight' = Projects!InFlight,
         requests'[i] = r,
         \A j \in Projects!InFlight \ {i} : requests'[j] = requests[j],
         \A p \in destroyed : Blind(r, p),
         UNCHANGED <<containers, cache, destroyed>>
  PROVE  DestroyedFits'
<1>1. ASSUME NEW p \in destroyed, NEW j \in Projects!InFlight PROVE Blind(requests'[j], p)
  BY DEF ProjectsInv, DestroyedFits
<1>. QED BY <1>1 DEF ProjectsInv, DestroyedFits

\* Containers of a project change: whoever had looked at them is disturbed.
LEMMA ChangeKeeps ==
  ASSUME ProjectsInv, NEW s \in States, NEW i, NEW r,
         \/ i \in Projects!InFlight /\ r \in Projects!RequestSet /\ r.kind = requests[i].kind /\ RequestFits(r, s)
                           /\ (r.kind = "list" => r.phase # "seen")
         \/ i = None,
         Projects!Change(s, <<i, r>>), UNCHANGED <<cache, pending, projectsLoading, refreshes>>
  PROVE  ProjectsInv'
<1>. DEFINE touched == {([c |-> "p", d |-> "p"])[c] : c \in {d \in {"c", "d"} : s[d] # containers[d]}}
            Met(j) == IF j \in Projects!InFlight /\ requests[j].phase # "asked" /\ requests[j].project \in touched
                       THEN [requests[j] EXCEPT !.disturbed = TRUE] ELSE requests[j]
<1>1. /\ containers' = s
      /\ destroyed' = destroyed \ {p \in touched : \E c \in Projects!Of(p) : s[c] # "gone"}
      /\ requests' = [j \in Slots |-> IF j = i THEN r ELSE Met(j)]
  BY DEF Projects!Change
<1>2. ASSUME NEW p, p \notin touched PROVE \A c \in Projects!Of(p) : s[c] = containers[c]
  <2>1. SUFFICES ASSUME NEW c \in Projects!Of(p), s[c] # containers[c] PROVE p \in touched
    BY <1>2
  <2>2. c \in {d \in {"c", "d"} : s[d] # containers[d]} /\ ([c |-> "p", d |-> "p"])[c] = p
    BY <2>1 DEF Projects!Of
  <2>. QED BY <2>2
<1>. HIDE DEF touched
<1>3. ASSUME NEW j \in Projects!InFlight
      PROVE  /\ Met(j) \in Projects!RequestSet /\ Met(j).kind = requests[j].kind
             /\ Met(j).phase = requests[j].phase /\ Met(j).seen = requests[j].seen
             /\ RequestFits(Met(j), s)
  <2>1. requests[j] \in Projects!RequestSet /\ RequestFits(requests[j], containers)
    BY InFlightTyped DEF ProjectsInv, RequestsFit
  <2>2. CASE requests[j].phase # "asked" /\ requests[j].project \in touched
    <3>1. Met(j) = [requests[j] EXCEPT !.disturbed = TRUE]
      BY <2>2
    <3>2. /\ Met(j) \in Projects!RequestSet /\ Met(j).kind = requests[j].kind /\ Met(j).disturbed
          /\ Met(j).phase = requests[j].phase /\ Met(j).seen = requests[j].seen
          /\ Met(j).ok = requests[j].ok
      BY <2>1, <3>1 DEF Projects!RequestSet
    <3>. QED BY <2>1, <3>2 DEF RequestFits, RequestTrue
  <2>3. CASE requests[j].phase = "asked"
    BY <2>1, <2>3 DEF RequestFits, RequestTrue
  <2>4. CASE requests[j].phase # "asked" /\ requests[j].project \notin touched
    <3>1. RequestTrue(requests[j], s)
      BY <1>2, <2>1, <2>4, TrueWhileSame DEF RequestFits
    <3>. QED BY <2>1, <2>4, <3>1 DEF RequestFits
  <2>. QED BY <2>2, <2>3, <2>4
<1>4. \A j \in Slots \ Projects!InFlight : Met(j) = None
  BY DEF Projects!InFlight
<1>. HIDE DEF Met
<1>5. i = None => i \notin Slots
  BY ProjectsConstants
<1>6. Projects!InFlight \subseteq Slots /\ None \notin Projects!RequestSet
  BY ProjectsConstants DEF Projects!InFlight
<1>7. /\ requests' \in [Slots -> Projects!RequestSet \cup {None}]
      /\ \A j \in Projects!InFlight : requests'[j] = IF j = i THEN r ELSE Met(j)
  BY <1>1, <1>3, <1>4, <1>5, <1>6
<1>8. Projects!InFlight' = Projects!InFlight
  BY <1>1, <1>3, <1>4, <1>5, <1>6, <1>7 DEF Projects!InFlight
<1>9. \A j \in Projects!InFlight : j = i => i # None
  BY <1>5, <1>6
<1>10. RequestsFit'
  BY <1>1, <1>3, <1>7, <1>8, <1>9 DEF RequestsFit
<1>11. \A j \in Projects!InFlight : requests'[j].kind = requests[j].kind
  BY <1>3, <1>7, <1>9
<1>12. PanelFits'
  BY <1>8, <1>11 DEF ProjectsInv, PanelFits, Projects!PanelWaits, Projects!Listings
<1>13. ASSUME NEW p \in destroyed'
       PROVE  p \notin cache /\ Projects!Of(p) \cap Projects!There(s) = {} /\ \A j \in Projects!InFlight : Blind(requests'[j], p)
  <2>1. /\ p \in destroyed /\ p \notin cache /\ Projects!Of(p) \cap Projects!There(containers) = {}
        /\ \A j \in Projects!InFlight : Blind(requests[j], p)
    BY <1>1 DEF ProjectsInv, DestroyedFits
  <2>2. Projects!Of(p) \cap Projects!There(s) = {}
    <3>1. CASE p \in touched
      BY <1>1, <3>1 DEF Projects!There
    <3>2. CASE p \notin touched
      BY <1>2, <2>1, <3>2 DEF Projects!There
    <3>. QED BY <3>1, <3>2
  <2>3. \A j \in Projects!InFlight : Blind(requests'[j], p)
    BY <1>3, <1>7, <1>9, <2>1 DEF Blind
  <2>. QED BY <2>1, <2>2, <2>3
<1>14. DestroyedFits'
  BY <1>1, <1>8, <1>13 DEF DestroyedFits
<1>. QED BY <1>10, <1>12, <1>14 DEF ProjectsInv

LEMMA SeeKeeps ==
  ASSUME ProjectsInv, NEW i \in Projects!InFlight
  PROVE  Projects!See(i) \/ Projects!List(i) => ProjectsInv'
<1>. DEFINE r == requests[i]
<1>1. r \in Projects!RequestSet /\ RequestFits(r, containers) /\ containers \in States
  BY InFlightTyped DEF ProjectsInv, RequestsFit
<1>2. CASE Projects!See(i)
  <2>1. PICK q : q = [r EXCEPT !.phase = "seen", !.seen = containers,
                              !.left = Projects!Of(r.project) \cap Projects!There(containers)]
    OBVIOUS
  <2>2. /\ r.phase = "asked" /\ Projects!Advance(i, q)
        /\ UNCHANGED <<containers, cache, destroyed, pending, projectsLoading, refreshes>>
    BY <1>2, <2>1 DEF Projects!See
  <2>. HIDE DEF r
  <2>3. /\ q \in Projects!RequestSet /\ q.phase = "seen" /\ q.seen = containers /\ q.kind = r.kind
        /\ q.left = Projects!Of(r.project) \cap Projects!There(containers) /\ q.ok = r.ok /\ q.project = r.project
    <3>1. Projects!Of(r.project) \cap Projects!There(containers) \in SUBSET {"c", "d"}
      BY DEF Projects!Of
    <3>. QED BY <1>1, <2>1, <3>1 DEF Projects!RequestSet, States
  <2>4. SeenOf(q) = q.left
    BY <2>3 DEF SeenOf
  <2>5. RequestFits(q, containers)
    BY <1>1, <2>2, <2>3, <2>4 DEF RequestFits, RequestTrue
  <2>6. \A p \in destroyed : Blind(q, p)
    BY <2>3 DEF Blind, ProjectsInv, DestroyedFits
  <2>7. /\ RequestsFit' /\ PanelFits' /\ Projects!InFlight' = Projects!InFlight
        /\ requests'[i] = q /\ \A j \in Projects!InFlight \ {i} : requests'[j] = requests[j]
    BY <2>2, <2>3, <2>5, AdvanceKeeps DEF r
  <2>. QED BY <2>2, <2>6, <2>7, DestroyedStays DEF ProjectsInv
<1>3. CASE Projects!List(i)
  <2>1. PICK q : q = [r EXCEPT !.phase = "answered", !.ok = TRUE]
    OBVIOUS
  <2>2. /\ r.kind = "list" /\ r.phase = "seen" /\ Projects!Advance(i, q)
        /\ cache' = cache \cup {p \in {"p"} : Projects!Of(p) \cap Projects!There(r.seen) # {}}
        /\ UNCHANGED <<containers, destroyed, pending, projectsLoading, refreshes>>
    BY <1>3, <2>1 DEF Projects!List, Projects!CacheProjectMeta
  <2>. HIDE DEF r
  <2>4. q \in Projects!RequestSet /\ q.phase = "answered" /\ q.kind = r.kind
    BY <1>1, <2>1 DEF Projects!RequestSet
  <2>5. RequestFits(q, containers)
    BY <2>2, <2>4 DEF RequestFits, RequestTrue
  <2>6. /\ RequestsFit' /\ PanelFits' /\ Projects!InFlight' = Projects!InFlight
        /\ requests'[i] = q /\ \A j \in Projects!InFlight \ {i} : requests'[j] = requests[j]
    BY <2>2, <2>4, <2>5, AdvanceKeeps DEF r
  <2>7. ASSUME NEW p \in destroyed
        PROVE  p \notin cache' /\ \A j \in Projects!InFlight : Blind(requests'[j], p)
    <3>1. p \notin cache /\ \A j \in Projects!InFlight : Blind(requests[j], p)
      BY DEF ProjectsInv, DestroyedFits
    <3>2. Projects!Of(p) \cap Projects!There(r.seen) = {}
      BY <2>2, <3>1 DEF r, Blind
    <3>. QED BY <2>2, <2>4, <2>6, <3>1, <3>2 DEF Blind
  <2>8. DestroyedFits'
    BY <2>2, <2>6, <2>7 DEF ProjectsInv, DestroyedFits
  <2>. QED BY <2>6, <2>8 DEF ProjectsInv
<1>. QED BY <1>2, <1>3

LEMMA ComposeKeeps ==
  ASSUME ProjectsInv, NEW i \in Projects!InFlight
  PROVE  Projects!RunCompose(i) \/ Projects!ComposeRan(i) \/ Projects!NoCompose(i) => ProjectsInv'
<1>. DEFINE r == requests[i]
<1>1. r \in Projects!RequestSet /\ RequestFits(r, containers) /\ containers \in States
  BY InFlightTyped DEF ProjectsInv, RequestsFit
<1>2. CASE Projects!RunCompose(i)
  <2>1. /\ r.kind \in Projects!Compose /\ r.phase = "seen"
        /\ UNCHANGED <<cache, pending, projectsLoading, refreshes>>
    BY <1>2 DEF Projects!RunCompose
  <2>2. CASE Projects!Change(Projects!Wanted(r), <<i, [r EXCEPT !.phase = "ran"]>>)
    <3>1. PICK q : q = [r EXCEPT !.phase = "ran"]
      OBVIOUS
    <3>2. Projects!Change(Projects!Wanted(r), <<i, q>>)
      BY <2>2, <3>1
    <3>. HIDE DEF r
    <3>3. /\ q \in Projects!RequestSet /\ q.phase = "ran" /\ q.kind = r.kind /\ q.seen = r.seen
          /\ q.project = r.project /\ q.ok = r.ok
      BY <1>1, <3>1 DEF Projects!RequestSet
    <3>4. Projects!Wanted(r) \in States
      BY <1>1 DEF Projects!Wanted, States
    <3>5. \A c \in SeenOf(q) : Projects!Wanted(r)[c] = IF r.kind = "up" THEN "running" ELSE "gone"
      BY <3>3 DEF SeenOf, Projects!Of, Projects!Wanted
    <3>6. \A c \in SeenOf(q) : Did(q, Projects!Wanted(r), c)
      BY <2>1, <3>3, <3>5 DEF Did, Projects!Compose
    <3>7. RequestFits(q, Projects!Wanted(r)) /\ q.kind # "list"
      BY <1>1, <2>1, <3>3, <3>6 DEF RequestFits, RequestTrue, Projects!Compose
    <3>8. q.kind = requests[i].kind
      BY <3>3 DEF r
    <3>. QED BY <2>1, <3>2, <3>3, <3>4, <3>7, <3>8, ChangeKeeps
  <2>3. ASSUME NEW some \in SUBSET Projects!Of(r.project),
               Projects!Change([c \in {"c", "d"} |-> IF c \in some THEN Projects!Wanted(r)[c] ELSE containers[c]],
                      <<i, [r EXCEPT !.phase = "answered"]>>)
        PROVE  ProjectsInv'
    <3>1. PICK q : q = [r EXCEPT !.phase = "answered"]
      OBVIOUS
    <3>2. PICK s : s = [c \in {"c", "d"} |-> IF c \in some THEN Projects!Wanted(r)[c] ELSE containers[c]]
      OBVIOUS
    <3>3. Projects!Change(s, <<i, q>>)
      BY <2>3, <3>1, <3>2
    <3>. HIDE DEF r
    <3>4. q \in Projects!RequestSet /\ q.phase = "answered" /\ q.kind = r.kind /\ q.ok = r.ok
      BY <1>1, <3>1 DEF Projects!RequestSet
    <3>5. s \in States
      BY <1>1, <3>2 DEF Projects!Wanted, States
    <3>6. RequestFits(q, s) /\ q.kind # "list"
      BY <1>1, <2>1, <3>4 DEF RequestFits, RequestTrue, Projects!Compose
    <3>7. q.kind = requests[i].kind
      BY <3>4 DEF r
    <3>. QED BY <2>1, <3>3, <3>4, <3>5, <3>6, <3>7, ChangeKeeps
  <2>. QED BY <1>2, <2>2, <2>3 DEF Projects!RunCompose
<1>3. CASE Projects!ComposeRan(i)
  <2>. DEFINE seen == \E j \in Projects!Listings : /\ requests[j].phase = "seen"
                                         /\ Projects!Of(r.project) \cap Projects!There(requests[j].seen) # {}
  <2>1. PICK q : q = [r EXCEPT !.phase = "answered", !.ok = TRUE]
    OBVIOUS
  <2>2. /\ r.phase = "ran" /\ Projects!Advance(i, q) /\ cache' = cache \ Projects!Forgotten(r)
        /\ destroyed' = IF r.kind = "destroy" /\ ~seen /\ Projects!Of(r.project) \cap Projects!There(containers) = {}
                        THEN destroyed \cup {r.project} ELSE destroyed
        /\ UNCHANGED <<containers, pending, projectsLoading, refreshes>>
    BY <1>3, <2>1 DEF Projects!ComposeRan
  <2>. HIDE DEF r, seen
  <2>3. /\ q \in Projects!RequestSet /\ q.phase = "answered" /\ q.kind = r.kind /\ q.seen = r.seen
        /\ q.project = r.project /\ q.disturbed = r.disturbed
    BY <1>1, <2>1 DEF Projects!RequestSet
  <2>4. SeenOf(q) = SeenOf(r) /\ \A c : Did(r, containers, c) => Did(q, containers, c)
    BY <2>3 DEF SeenOf, Did
  <2>5. RequestFits(q, containers)
    BY <1>1, <2>2, <2>3, <2>4 DEF RequestFits, RequestTrue
  <2>6. /\ RequestsFit' /\ PanelFits' /\ Projects!InFlight' = Projects!InFlight
        /\ requests'[i] = q /\ \A j \in Projects!InFlight \ {i} : requests'[j] = requests[j]
    BY <2>2, <2>3, <2>5, AdvanceKeeps DEF r
  <2>7. ASSUME NEW p \in destroyed'
        PROVE  p \notin cache' /\ Projects!Of(p) \cap Projects!There(containers) = {} /\ \A j \in Projects!InFlight : Blind(requests'[j], p)
    <3>1. CASE p \in destroyed
      <4>1. p \notin cache /\ Projects!Of(p) \cap Projects!There(containers) = {} /\ \A j \in Projects!InFlight : Blind(requests[j], p)
        BY <3>1 DEF ProjectsInv, DestroyedFits
      <4>. QED BY <2>2, <2>3, <2>6, <4>1 DEF Blind
    <3>2. CASE p \notin destroyed
      <4>1. r.kind = "destroy" /\ ~seen /\ Projects!Of(p) \cap Projects!There(containers) = {} /\ p = r.project
        BY <2>2, <3>2
      <4>2. p \notin cache'
        BY <2>2, <4>1 DEF Projects!Forgotten
      <4>3. \A j \in Projects!InFlight : Blind(requests[j], p)
        BY <4>1 DEF seen, Projects!Listings, Blind
      <4>. QED BY <2>3, <2>6, <4>1, <4>2, <4>3 DEF Blind
    <3>. QED BY <3>1, <3>2
  <2>8. DestroyedFits'
    BY <2>2, <2>6, <2>7 DEF DestroyedFits
  <2>. QED BY <2>6, <2>8 DEF ProjectsInv
<1>4. CASE Projects!NoCompose(i)
  <2>1. PICK q : q = [r EXCEPT !.phase = "answered", !.ok = TRUE]
    OBVIOUS
  <2>2. /\ r.kind \in {"down", "destroy"} /\ r.phase = "seen" /\ ~Projects!ComposeKnown(r) /\ Projects!Advance(i, q)
        /\ UNCHANGED <<containers, cache, destroyed, pending, projectsLoading, refreshes>>
    BY <1>4, <2>1 DEF Projects!NoCompose
  <2>. HIDE DEF r
  <2>3. /\ q \in Projects!RequestSet /\ q.phase = "answered" /\ q.kind = r.kind /\ q.seen = r.seen
        /\ q.project = r.project
    BY <1>1, <2>1 DEF Projects!RequestSet
  <2>4. q.project \notin {"p"} \/ SeenOf(q) = {}
    BY <2>2, <2>3 DEF Projects!ComposeKnown, SeenOf
  <2>5. RequestFits(q, containers)
    BY <2>2, <2>3, <2>4 DEF RequestFits, RequestTrue
  <2>6. /\ RequestsFit' /\ PanelFits' /\ Projects!InFlight' = Projects!InFlight
        /\ requests'[i] = q /\ \A j \in Projects!InFlight \ {i} : requests'[j] = requests[j]
    BY <2>2, <2>3, <2>5, AdvanceKeeps DEF r
  <2>7. \A p \in destroyed : Blind(q, p)
    BY <2>3 DEF Blind
  <2>. QED BY <2>2, <2>6, <2>7, DestroyedStays DEF ProjectsInv
<1>. QED BY <1>2, <1>3, <1>4

LEMMA LoopKeeps ==
  ASSUME ProjectsInv, NEW i \in Projects!InFlight
  PROVE  /\ (\E c \in requests[i].left : Projects!StepContainer(i, c)) => ProjectsInv'
         /\ Projects!EndLoop(i) => ProjectsInv'
<1>. DEFINE r == requests[i]
<1>1. r \in Projects!RequestSet /\ RequestFits(r, containers) /\ containers \in States
  BY InFlightTyped DEF ProjectsInv, RequestsFit
<1>2. ASSUME NEW c \in r.left, Projects!StepContainer(i, c) PROVE ProjectsInv'
  <2>. DEFINE after == IF r.kind = "stop" THEN "stopped" ELSE "running"
  <2>1. PICK q : q = [r EXCEPT !.left = @ \ {c}]
    OBVIOUS
  <2>2. PICK a : a = [r EXCEPT !.phase = "answered"]
    OBVIOUS
  <2>3. /\ Projects!Loops(r) /\ r.phase = "seen" /\ UNCHANGED <<cache, pending, projectsLoading, refreshes>>
        /\ \/ ~Projects!Concerned(r, c) /\ Projects!Change(containers, <<i, q>>)
           \/ Projects!Possible(r, c) /\ Projects!Change([containers EXCEPT ![c] = after], <<i, q>>)
           \/ Projects!Change(containers, <<i, a>>)
    BY <1>2, <2>1, <2>2 DEF Projects!StepContainer
  <2>4. r.kind \in {"stop", "start", "restart", "up"} /\ r.kind = requests[i].kind
    BY <2>3 DEF Projects!Loops
  <2>. HIDE DEF r, after
  <2>5. /\ q \in Projects!RequestSet /\ q.phase = "seen" /\ q.kind = r.kind /\ q.seen = r.seen
        /\ q.left = r.left \ {c} /\ q.project = r.project /\ q.disturbed = r.disturbed /\ q.ok = r.ok
    BY <1>1, <2>1, <2>3 DEF Projects!RequestSet
  <2>6. /\ a \in Projects!RequestSet /\ a.phase = "answered" /\ a.kind = r.kind /\ a.ok = r.ok
    BY <1>1, <2>2 DEF Projects!RequestSet
  <2>7. SeenOf(q) = SeenOf(r) /\ r.left \subseteq {"c", "d"} /\ c \in {"c", "d"}
    BY <1>1, <2>5 DEF SeenOf, Projects!RequestSet
  <2>8. ASSUME NEW s, \A d \in {"c", "d"} \ {c} : s[d] = containers[d],
               ~r.disturbed => Did(q, s, c)
        PROVE  RequestFits(q, s)
    <3>1. ~q.ok
      BY <1>1, <2>3, <2>5 DEF RequestFits
    <3>2. CASE ~r.disturbed
      <4>1. /\ r.left \subseteq SeenOf(r)
            /\ \A d \in r.left : containers[d] = r.seen[d]
            /\ \A d \in SeenOf(r) \ r.left : Did(r, containers, d)
        BY <1>1, <2>3, <2>4, <3>2 DEF RequestFits, RequestTrue
      <4>2. SeenOf(r) \subseteq {"c", "d"}
        BY DEF SeenOf, Projects!Of
      <4>3. \A d \in SeenOf(r) \ r.left : Did(q, s, d)
        BY <2>5, <2>8, <4>1, <4>2 DEF Did
      <4>. QED BY <2>5, <2>7, <2>8, <3>1, <3>2, <4>1, <4>2, <4>3 DEF RequestFits, RequestTrue
    <3>3. CASE r.disturbed
      BY <2>5, <3>1, <3>3 DEF RequestFits, RequestTrue
    <3>. QED BY <3>2, <3>3
  <2>9. CASE ~Projects!Concerned(r, c) /\ Projects!Change(containers, <<i, q>>)
    <3>1. ~r.disturbed => containers[c] = r.seen[c]
      BY <1>1, <2>3, <2>4 DEF RequestFits, RequestTrue, r
    <3>2. ~r.disturbed => Did(q, containers, c)
      BY <2>4, <2>5, <2>9, <3>1 DEF Did, Projects!Concerned
    <3>3. RequestFits(q, containers)
      BY <2>8, <3>2
    <3>. QED BY <1>1, <2>3, <2>4, <2>5, <2>9, <3>3, ChangeKeeps
  <2>10. CASE Projects!Change([containers EXCEPT ![c] = after], <<i, q>>)
    <3>1. PICK s : s = [containers EXCEPT ![c] = after]
      OBVIOUS
    <3>2. /\ s \in States /\ s[c] = after /\ \A d \in {"c", "d"} \ {c} : s[d] = containers[d]
          /\ Projects!Change(s, <<i, q>>)
      BY <1>1, <2>7, <2>10, <3>1 DEF States, after
    <3>3. Did(q, s, c)
      BY <2>4, <2>5, <3>2 DEF Did, after
    <3>4. RequestFits(q, s)
      BY <2>8, <3>2, <3>3
    <3>. QED BY <2>3, <2>4, <2>5, <3>2, <3>4, ChangeKeeps
  <2>11. CASE Projects!Change(containers, <<i, a>>)
    <3>1. RequestFits(a, containers)
      BY <1>1, <2>3, <2>6 DEF RequestFits, RequestTrue
    <3>. QED BY <1>1, <2>3, <2>4, <2>6, <2>11, <3>1, ChangeKeeps
  <2>. QED BY <2>3, <2>9, <2>10, <2>11
<1>3. CASE Projects!EndLoop(i)
  <2>1. PICK q : q = [r EXCEPT !.phase = "answered", !.ok = TRUE]
    OBVIOUS
  <2>2. /\ Projects!Loops(r) /\ r.phase = "seen" /\ r.left = {} /\ Projects!Advance(i, q)
        /\ UNCHANGED <<containers, cache, destroyed, pending, projectsLoading, refreshes>>
    BY <1>3, <2>1 DEF Projects!EndLoop
  <2>. HIDE DEF r
  <2>3. /\ q \in Projects!RequestSet /\ q.phase = "answered" /\ q.kind = r.kind /\ q.seen = r.seen
        /\ q.project = r.project /\ q.disturbed = r.disturbed
    BY <1>1, <2>1 DEF Projects!RequestSet
  <2>4. SeenOf(q) = SeenOf(r) /\ \A c : Did(r, containers, c) => Did(q, containers, c)
    BY <2>3 DEF SeenOf, Did
  <2>5. RequestFits(q, containers)
    BY <1>1, <2>2, <2>3, <2>4 DEF RequestFits, RequestTrue
  <2>6. /\ RequestsFit' /\ PanelFits' /\ Projects!InFlight' = Projects!InFlight
        /\ requests'[i] = q /\ \A j \in Projects!InFlight \ {i} : requests'[j] = requests[j]
    BY <2>2, <2>3, <2>5, AdvanceKeeps DEF r
  <2>7. \A p \in destroyed : Blind(q, p)
    BY <2>3 DEF Blind
  <2>. QED BY <2>2, <2>6, <2>7, DestroyedStays DEF ProjectsInv
<1>. QED BY <1>2, <1>3

\* A slot is taken by a new request.
LEMMA SendKeeps ==
  ASSUME ProjectsInv, NEW i \in Slots, NEW k \in Projects!Actions \cup {"list"},
         NEW p \in Projects!Projects \cup {None},
         Projects!Send(i, k, p), UNCHANGED <<containers, cache, destroyed>>
  PROVE  /\ RequestsFit' /\ DestroyedFits'
         /\ i \notin Projects!InFlight /\ Projects!InFlight' = Projects!InFlight \cup {i} /\ requests'[i].kind = k
         /\ \A j \in Projects!InFlight : requests'[j] = requests[j]
<1>. DEFINE r == Projects!Request(k, p)
<1>1. /\ r \in Projects!RequestSet /\ r.phase = "asked" /\ ~r.ok /\ r.kind = k
  BY DEF Projects!Request, Projects!RequestSet
<1>2. /\ i \notin Projects!InFlight /\ requests' = [requests EXCEPT ![i] = r]
      /\ requests \in [Slots -> Projects!RequestSet \cup {None}]
  BY DEF Projects!Send, ProjectsInv, RequestsFit
<1>. HIDE DEF r
<1>3. /\ requests' \in [Slots -> Projects!RequestSet \cup {None}] /\ requests'[i] = r
      /\ \A j \in Slots \ {i} : requests'[j] = requests[j]
  BY <1>1, <1>2
<1>4. r # None
  BY <1>1, ProjectsConstants
<1>5. Projects!InFlight' = Projects!InFlight \cup {i} /\ \A j \in Projects!InFlight : requests'[j] = requests[j]
  BY <1>2, <1>3, <1>4 DEF Projects!InFlight
<1>6. RequestFits(r, containers)
  BY <1>1 DEF RequestFits, RequestTrue
<1>7. RequestsFit'
  BY <1>3, <1>5, <1>6 DEF ProjectsInv, RequestsFit
<1>8. \A q : Blind(r, q)
  BY <1>1 DEF Blind
<1>9. DestroyedFits'
  BY <1>3, <1>5, <1>8 DEF ProjectsInv, DestroyedFits
<1>. QED BY <1>1, <1>2, <1>3, <1>5, <1>7, <1>9

\* A slot is free again.
LEMMA ReleaseKeeps ==
  ASSUME ProjectsInv, NEW i \in Projects!InFlight, Projects!Advance(i, None),
         UNCHANGED <<containers, cache, destroyed>>
  PROVE  /\ RequestsFit' /\ DestroyedFits' /\ Projects!InFlight' = Projects!InFlight \ {i}
         /\ \A j \in Projects!InFlight' : requests'[j] = requests[j]
<1>1. /\ requests' = [requests EXCEPT ![i] = None] /\ i \in Slots
      /\ requests \in [Slots -> Projects!RequestSet \cup {None}]
  BY InFlightTyped DEF Projects!Advance, ProjectsInv, RequestsFit
<1>2. /\ requests' \in [Slots -> Projects!RequestSet \cup {None}]
      /\ Projects!InFlight' = Projects!InFlight \ {i} /\ \A j \in Projects!InFlight' : requests'[j] = requests[j]
  BY <1>1 DEF Projects!InFlight
<1>. QED BY <1>2 DEF ProjectsInv, RequestsFit, DestroyedFits

LEMMA PanelKeeps ==
  ASSUME ProjectsInv
  PROVE  /\ \A i \in Slots : Projects!FetchProjects(i) => ProjectsInv'
         /\ \A i \in Slots, p \in Projects!Projects, action \in Projects!Actions : Projects!DoAction(i, p, action) => ProjectsInv'
         /\ \A i \in Projects!InFlight : Projects!Fetched(i) \/ Projects!ActionDone(i) => ProjectsInv'
<1>0. Projects!PanelWaits /\ refreshes \in Nat /\ pending \in Slots \cup {None} /\ None \notin Slots
  BY ProjectsConstants DEF ProjectsInv, PanelFits
<1>1. ASSUME NEW i \in Slots, Projects!FetchProjects(i) PROVE ProjectsInv'
  <2>1. /\ refreshes > 0 /\ refreshes' = refreshes - 1 /\ Projects!Send(i, "list", None)
        /\ UNCHANGED <<containers, cache, destroyed, pending>>
    BY <1>1 DEF Projects!FetchProjects
  <2>2. /\ RequestsFit' /\ DestroyedFits' /\ i \notin Projects!InFlight /\ Projects!InFlight' = Projects!InFlight \cup {i}
        /\ requests'[i].kind = "list" /\ \A j \in Projects!InFlight : requests'[j] = requests[j]
    BY <2>1, SendKeeps
  <2>3. refreshes' \in Nat
    BY <1>0, <2>1
  <2>4. Projects!PanelWaits'
    BY <1>0, <2>1, <2>2 DEF Projects!PanelWaits, Projects!Listings
  <2>. QED BY <1>0, <2>1, <2>2, <2>3, <2>4 DEF ProjectsInv, PanelFits
<1>2. ASSUME NEW i \in Slots, NEW p \in Projects!Projects, NEW action \in Projects!Actions,
             Projects!DoAction(i, p, action)
      PROVE  ProjectsInv'
  <2>1. /\ pending = None /\ ~projectsLoading /\ pending' = i /\ Projects!Send(i, action, p)
        /\ UNCHANGED <<containers, cache, destroyed, projectsLoading, refreshes>>
    BY <1>2 DEF Projects!DoAction, Projects!Enabled
  <2>2. /\ RequestsFit' /\ DestroyedFits' /\ i \notin Projects!InFlight /\ Projects!InFlight' = Projects!InFlight \cup {i}
        /\ requests'[i].kind = action /\ \A j \in Projects!InFlight : requests'[j] = requests[j]
    BY <2>1, SendKeeps
  <2>3. action # "list"
    BY DEF Projects!Actions
  <2>4. {j \in Projects!InFlight' : requests'[j].kind # "list"} = {i}
    BY <1>0, <2>1, <2>2, <2>3 DEF Projects!PanelWaits
  <2>5. Projects!PanelWaits'
    BY <1>0, <2>1, <2>4 DEF Projects!PanelWaits
  <2>. QED BY <1>0, <2>1, <2>2, <2>5 DEF ProjectsInv, PanelFits
<1>3. ASSUME NEW i \in Projects!InFlight, Projects!Fetched(i) PROVE ProjectsInv'
  <2>1. /\ requests[i].kind = "list" /\ ~projectsLoading' /\ Projects!Advance(i, None)
        /\ UNCHANGED <<containers, cache, destroyed, pending, refreshes>>
    BY <1>3 DEF Projects!Fetched
  <2>2. /\ RequestsFit' /\ DestroyedFits' /\ Projects!InFlight' = Projects!InFlight \ {i}
        /\ \A j \in Projects!InFlight' : requests'[j] = requests[j]
    BY <2>1, ReleaseKeeps
  <2>3. Projects!PanelWaits'
    BY <1>0, <2>1, <2>2 DEF Projects!PanelWaits
  <2>. QED BY <1>0, <2>1, <2>2, <2>3 DEF ProjectsInv, PanelFits
<1>4. ASSUME NEW i \in Projects!InFlight, Projects!ActionDone(i) PROVE ProjectsInv'
  <2>1. /\ requests[i].kind # "list" /\ pending' = None /\ Projects!Advance(i, None)
        /\ refreshes' \in {refreshes, refreshes + 1}
        /\ UNCHANGED <<containers, cache, destroyed, projectsLoading>>
    BY <1>0, <1>4 DEF Projects!ActionDone, Projects!PendingAfter
  <2>2. /\ RequestsFit' /\ DestroyedFits' /\ Projects!InFlight' = Projects!InFlight \ {i}
        /\ \A j \in Projects!InFlight' : requests'[j] = requests[j]
    BY <2>1, ReleaseKeeps
  <2>3. {j \in Projects!InFlight : requests[j].kind # "list"} = {i}
    BY <1>0, <2>1 DEF Projects!PanelWaits
  <2>4. {j \in Projects!InFlight' : requests'[j].kind # "list"} = {}
    BY <2>2, <2>3
  <2>5. refreshes' \in Nat /\ (refreshes > 0 => refreshes' > 0)
    BY <1>0, <2>1
  <2>6. Projects!Listings \subseteq Projects!Listings'
    BY <2>1, <2>2 DEF Projects!Listings
  <2>7. Projects!PanelWaits'
    BY <1>0, <2>1, <2>4, <2>5, <2>6 DEF Projects!PanelWaits
  <2>. QED BY <1>0, <2>1, <2>2, <2>5, <2>7 DEF ProjectsInv, PanelFits
<1>. QED BY <1>1, <1>2, <1>3, <1>4

LEMMA ProjectsGoOn ==
  ASSUME ProjectsInv, Projects!Next \/ UNCHANGED Projects!vars PROVE ProjectsInv'
<1>1. ASSUME NEW c \in {"c", "d"}, NEW t \in {"running", "stopped", "gone"}, Projects!OutsideChange(c, t)
      PROVE  ProjectsInv'
  <2>1. PICK s : s = [containers EXCEPT ![c] = t]
    OBVIOUS
  <2>2. Projects!Change(s, <<None, None>>) /\ UNCHANGED <<cache, pending, projectsLoading, refreshes>>
    BY <1>1, <2>1 DEF Projects!OutsideChange
  <2>3. s \in States
    BY <2>1 DEF ProjectsInv, RequestsFit, States
  <2>. QED BY <2>2, <2>3, ChangeKeeps
<1>2. CASE UNCHANGED Projects!vars
  BY <1>2 DEF Projects!vars, ProjectsInv, RequestsFit, DestroyedFits, PanelFits, Projects!PanelWaits,
    Projects!InFlight, Projects!Listings
<1>. QED BY <1>1, <1>2, SeeKeeps, ComposeKeeps, LoopKeeps, PanelKeeps DEF Projects!Next

-----------------------------------------------------------------------------
(* The panel where plugins and catalogs are managed.                       *)

ManagerKinds ==
  {"load", "health", "config", "secret", "approval", "toggle", "market", "trust", "remove",
   "reload", "command", "preview"}
ManagerSeen ==
  [enabled : SUBSET BOOLEAN, config : SUBSET PanelValues, secret : SUBSET BOOLEAN,
   approved : SUBSET BOOLEAN, installed : SUBSET BOOLEAN, catalogs : SUBSET SUBSET PanelSources]

\* A request carries what its kind needs, and a catalog that is to be trusted was vetted.
ManagerAsks(o, trusted) ==
  /\ o = [id |-> o.id, kind |-> o.kind, flag |-> o.flag, body |-> o.body, at |-> o.at,
          got |-> o.got, seen |-> o.seen, alone |-> o.alone]
  /\ o.kind \in ManagerKinds /\ o.at \in {"sent", "ok", "failed"} /\ o.alone \in BOOLEAN
  /\ o.kind = "config" => o.body \in PanelValues
  /\ o.kind \in {"approval", "toggle"} => o.body \in BOOLEAN
  /\ o.kind \in {"trust", "remove", "preview"} => o.body \in PanelSources
  /\ o.kind = "trust" => o.body \in trusted
  /\ o.kind \in Manager!Loads => o.at = "sent" /\ o.seen \in ManagerSeen
  /\ o.at = "ok" => o.got \in Manager!Contents

\* Until its answer is taken, what a request has changed is not shown.
ManagerBehind(o, has, shows) ==
  /\ o.alone
  /\ o.at = "ok" => o.got = has
  /\ \/ o.kind = "load"
     \/ o.at = "ok" /\ o.kind \in Manager!Reloading
     \/ /\ shows.enabled = has.enabled /\ shows.approved = has.approved
        /\ shows.config = has.config \/ (o.at = "ok" /\ o.kind = "config")
        /\ shows.secret = has.secret \/ (o.at = "ok" /\ o.kind = "secret")
        /\ \/ shows.installed = has.installed /\ shows.catalogs = has.catalogs
           \/ o.at = "ok" /\ o.kind \in {"trust", "remove"}

\* A button waits for a request under way; a request is alone until another one is made, and
\* unless something crossed or failed, each one is.
ManagerInv ==
  /\ serverHas \in Manager!Contents /\ managerShown \in Manager!Contents
  /\ draft \in PanelValues \cup {None} /\ typedInput \in PanelValues
  /\ draft \in {None, typedInput} /\ (draft = None => typedInput = Manager!Default)
  /\ managerBehind \in BOOLEAN
  /\ catalogForm = [open |-> catalogForm.open, source |-> catalogForm.source, preview |-> catalogForm.preview]
  /\ catalogForm.source \in PanelSources \cup {None}
  /\ catalogForm.preview # None => catalogForm.preview.source \in PanelSources
  /\ \A o \in managerOps : ManagerAsks(o, vetted)
  /\ \A o \in managerOps : o.alone =>
       managerOps = {o} /\ (o.kind \in Manager!Loads => o.seen = [f \in DOMAIN serverHas |-> {serverHas[f]}])
  /\ \A f \in flags : \E o \in managerOps : o.flag = f
  /\ managerLoading \in BOOLEAN /\ (managerLoading => \E o \in managerOps : o.kind = "load")
  /\ ~managerBehind => (managerOps = {} => managerShown = serverHas) /\ \A o \in managerOps : ManagerBehind(o, serverHas, managerShown)

LEMMA ManagerDefault == Manager!Default \in PanelValues /\ Manager!Default # None
<1>1. \E v \in PanelValues : TRUE
  BY PluginAssumption
<1>. QED BY <1>1, PluginAssumption DEF Manager!Default

\* A request that was just made.
LEMMA ManagerRequested ==
  ASSUME serverHas \in Manager!Contents, NEW id, NEW kind \in ManagerKinds, NEW flag, NEW body,
         NEW t \in BOOLEAN,
         kind = "config" => body \in PanelValues,
         kind \in {"approval", "toggle"} => body \in BOOLEAN,
         kind \in {"trust", "remove", "preview"} => body \in PanelSources,
         kind = "trust" => body \in vetted', UNCHANGED serverHas
  PROVE  LET r == Manager!Request(id, kind, flag, body, t)
         IN /\ ManagerAsks(r, vetted')
            /\ r.kind = kind /\ r.flag = flag /\ r.at = "sent" /\ r.alone = t
            /\ kind \in Manager!Loads => r.seen = [f \in DOMAIN serverHas |-> {serverHas[f]}]
<1>. DEFINE seen == [f \in DOMAIN serverHas |-> {serverHas[f]}]
            r == Manager!Request(id, kind, flag, body, t)
<1>1. DOMAIN serverHas = {"enabled", "config", "secret", "approved", "installed", "catalogs"}
  BY DEF Manager!Contents
<1>2. seen \in ManagerSeen
  <2>1. seen = [enabled |-> {serverHas.enabled}, config |-> {serverHas.config}, secret |-> {serverHas.secret},
                approved |-> {serverHas.approved}, installed |-> {serverHas.installed},
                catalogs |-> {serverHas.catalogs}]
    BY <1>1
  <2>. HIDE DEF seen
  <2>. QED BY <2>1 DEF ManagerSeen, Manager!Contents
<1>. HIDE DEF seen
<1>3. r = [id |-> id, kind |-> kind, flag |-> flag, body |-> body, at |-> "sent", got |-> None,
           seen |-> IF kind \in Manager!Loads THEN seen ELSE <<>>, alone |-> t]
  BY DEF Manager!Request, seen
<1>. HIDE DEF r
<1>4. /\ r.kind = kind /\ r.flag = flag /\ r.at = "sent" /\ r.alone = t /\ r.body = body
      /\ r = [id |-> r.id, kind |-> r.kind, flag |-> r.flag, body |-> r.body, at |-> r.at,
              got |-> r.got, seen |-> r.seen, alone |-> r.alone]
      /\ kind \in Manager!Loads => r.seen = seen
  BY <1>3
<1>5. ManagerAsks(r, vetted')
  BY <1>2, <1>4 DEF ManagerAsks
<1>. QED BY <1>4, <1>5 DEF seen, r

LEMMA ManagerBegins ==
  ASSUME Manager!Init PROVE ManagerInv
<1>. DEFINE r == Manager!Request(0, "load", None, None, TRUE)
            first == CHOOSE s \in PanelSources : TRUE
<1>1. first \in PanelSources
  <2>1. \E s \in PanelSources : TRUE
    BY PluginAssumption
  <2>. QED BY <2>1
<1>. HIDE DEF first
<1>2. serverHas = [enabled |-> TRUE, config |-> Manager!Default, secret |-> FALSE, approved |-> FALSE,
                installed |-> FALSE, catalogs |-> {first}] /\ managerShown = serverHas
  BY DEF Manager!Init, first
<1>3. serverHas \in Manager!Contents
  BY <1>1, <1>2, ManagerDefault DEF Manager!Contents
<1>4. /\ ManagerAsks(r, vetted) /\ r.kind = "load" /\ r.flag = None
      /\ r.seen = [f \in DOMAIN serverHas |-> {serverHas[f]}]
  <2>. DEFINE seen == [f \in DOMAIN serverHas |-> {serverHas[f]}]
  <2>1. seen \in ManagerSeen
    <3>1. seen = [enabled |-> {serverHas.enabled}, config |-> {serverHas.config}, secret |-> {serverHas.secret},
                  approved |-> {serverHas.approved}, installed |-> {serverHas.installed},
                  catalogs |-> {serverHas.catalogs}]
      BY <1>3 DEF Manager!Contents
    <3>. HIDE DEF seen
    <3>. QED BY <1>3, <3>1 DEF ManagerSeen, Manager!Contents
  <2>. HIDE DEF seen
  <2>2. r = [id |-> 0, kind |-> "load", flag |-> None, body |-> None, at |-> "sent", got |-> None,
             seen |-> seen, alone |-> TRUE]
    BY DEF Manager!Request, Manager!Loads, seen
  <2>. HIDE DEF r
  <2>3. ManagerAsks(r, vetted) /\ r.kind = "load" /\ r.flag = None /\ r.seen = seen
    BY <2>1, <2>2 DEF ManagerAsks, ManagerKinds
  <2>. QED BY <2>3 DEF seen
<1>. HIDE DEF r
<1>5. managerOps = {r} /\ flags = {} /\ managerLoading = TRUE /\ managerBehind = TRUE /\ draft = None /\ typedInput = Manager!Default
  BY DEF Manager!Init, r
<1>6. catalogForm = Manager!NoForm
  BY DEF Manager!Init
<1>7. /\ catalogForm = [open |-> catalogForm.open, source |-> catalogForm.source, preview |-> catalogForm.preview]
      /\ catalogForm.source = None /\ catalogForm.preview = None
  BY <1>6 DEF Manager!NoForm
<1>. QED BY <1>2, <1>3, <1>4, <1>5, <1>7, ManagerDefault DEF ManagerInv

\* The form, and what is typed.
ManagerForms ==
  /\ draft \in PanelValues \cup {None} /\ typedInput \in PanelValues
  /\ draft \in {None, typedInput} /\ (draft = None => typedInput = Manager!Default)
  /\ catalogForm = [open |-> catalogForm.open, source |-> catalogForm.source, preview |-> catalogForm.preview]
  /\ catalogForm.source \in PanelSources \cup {None}
  /\ catalogForm.preview # None => catalogForm.preview.source \in PanelSources

\* A request is made; one that was under way is not alone any more.
LEMMA ManagerAsked ==
  ASSUME ManagerInv, NEW kind \in ManagerKinds, NEW flag, NEW body,
         kind = "config" => body \in PanelValues,
         kind \in {"approval", "toggle"} => body \in BOOLEAN,
         kind \in {"trust", "remove", "preview"} => body \in PanelSources,
         kind = "trust" => body \in vetted',
         Manager!Begin(kind, flag, body), ManagerForms', vetted \subseteq vetted',
         managerLoading' = managerLoading \/ (managerLoading' = TRUE /\ kind = "load")
  PROVE  ManagerInv'
<1>. DEFINE t == managerOps = {}
            r == Manager!Request(Manager!NewId(kind), kind, flag, body, t)
            q(o) == [o EXCEPT !.alone = FALSE]
<1>1. /\ managerOps' = {q(o) : o \in managerOps} \cup {r}
      /\ managerBehind' = (managerBehind \/ managerOps # {}) /\ flags' = flags \cup ({flag} \ {None})
      /\ UNCHANGED <<serverHas, managerShown>>
  BY DEF Manager!Begin
<1>2. t \in BOOLEAN
  OBVIOUS
<1>3. (t = TRUE <=> managerOps = {}) /\ (t = FALSE <=> managerOps # {})
  OBVIOUS
<1>. HIDE DEF t
<1>4. /\ ManagerAsks(r, vetted')
      /\ r.kind = kind /\ r.flag = flag /\ r.at = "sent" /\ r.alone = t
      /\ kind \in Manager!Loads => r.seen = [f \in DOMAIN serverHas |-> {serverHas[f]}]
  BY <1>1, <1>2, ManagerRequested DEF ManagerInv
<1>5. ASSUME NEW o \in managerOps
      PROVE  ManagerAsks(q(o), vetted') /\ q(o).alone = FALSE /\ q(o).kind = o.kind /\ q(o).flag = o.flag
  <2>1. PICK p : p = q(o)
    OBVIOUS
  <2>2. /\ o = [id |-> o.id, kind |-> o.kind, flag |-> o.flag, body |-> o.body, at |-> o.at,
                got |-> o.got, seen |-> o.seen, alone |-> o.alone]
        /\ ManagerAsks(o, vetted)
    BY DEF ManagerInv, ManagerAsks
  <2>3. p = [id |-> o.id, kind |-> o.kind, flag |-> o.flag, body |-> o.body, at |-> o.at,
             got |-> o.got, seen |-> o.seen, alone |-> FALSE]
    BY <2>1, <2>2
  <2>. QED BY <1>1, <2>1, <2>2, <2>3 DEF ManagerAsks
<1>. HIDE DEF r, q
<1>6. \A o \in managerOps' : ManagerAsks(o, vetted')
  BY <1>1, <1>4, <1>5
<1>7. \A o \in managerOps' : o.alone => o = r /\ managerOps = {}
  BY <1>1, <1>3, <1>4, <1>5
<1>8. \A o \in managerOps' : o.alone =>
        managerOps' = {o} /\ (o.kind \in Manager!Loads => o.seen = [f \in DOMAIN serverHas' |-> {serverHas'[f]}])
  BY <1>1, <1>4, <1>7
<1>9. \A f \in flags' : \E o \in managerOps' : o.flag = f
  <2>1. \A f \in flags : \E o \in managerOps : o.flag = f
    BY DEF ManagerInv
  <2>2. \A o \in managerOps : q(o) \in managerOps' /\ q(o).flag = o.flag
    BY <1>1, <1>5
  <2>. QED BY <1>1, <1>4, <2>1, <2>2
<1>10. managerLoading' \in BOOLEAN /\ (managerLoading' => \E o \in managerOps' : o.kind = "load")
  <2>1. managerLoading \in BOOLEAN /\ (managerLoading => \E o \in managerOps : o.kind = "load")
    BY DEF ManagerInv
  <2>2. \A o \in managerOps : q(o) \in managerOps' /\ q(o).kind = o.kind
    BY <1>1, <1>5
  <2>3. CASE managerLoading' = managerLoading
    BY <2>1, <2>2, <2>3
  <2>4. CASE managerLoading' = TRUE /\ kind = "load"
    <3>1. r \in managerOps' /\ r.kind = "load"
      BY <1>1, <1>4, <2>4
    <3>. QED BY <2>4, <3>1
  <2>. QED BY <2>3, <2>4
<1>11. ~managerBehind' => managerOps' = {r} /\ r.alone /\ managerShown' = serverHas'
  BY <1>1, <1>3, <1>4 DEF ManagerInv
<1>12. ~managerBehind' => (managerOps' = {} => managerShown' = serverHas') /\ \A o \in managerOps' : ManagerBehind(o, serverHas', managerShown')
  BY <1>4, <1>11 DEF ManagerBehind
<1>13. serverHas' \in Manager!Contents /\ managerShown' \in Manager!Contents /\ managerBehind' \in BOOLEAN
  BY <1>1 DEF ManagerInv
<1>. QED BY <1>6, <1>8, <1>9, <1>10, <1>12, <1>13 DEF ManagerInv, ManagerForms

\* A request has ended, and what is shown then is what there is if it was the only one.
LEMMA ManagerEnds ==
  ASSUME ManagerInv, NEW o \in managerOps, Manager!End(o), UNCHANGED <<serverHas, vetted>>,
         managerShown' \in Manager!Contents, ManagerForms', managerBehind' \in BOOLEAN,
         (managerLoading' = managerLoading /\ o.kind # "load") \/ managerLoading' = FALSE,
         ~managerBehind' => managerOps = {o} /\ managerShown' = serverHas
  PROVE  ManagerInv'
<1>1. managerOps' = managerOps \ {o} /\ flags' = flags \ {o.flag}
  BY DEF Manager!End
<1>2. \A p \in managerOps' : ManagerAsks(p, vetted')
  BY <1>1 DEF ManagerInv, ManagerAsks
<1>3. \A p \in managerOps' : ~p.alone
  BY <1>1 DEF ManagerInv
<1>4. \A f \in flags' : \E p \in managerOps' : p.flag = f
  BY <1>1 DEF ManagerInv
<1>5. managerLoading' \in BOOLEAN /\ (managerLoading' => \E p \in managerOps' : p.kind = "load")
  <2>1. managerLoading \in BOOLEAN /\ (managerLoading => \E p \in managerOps : p.kind = "load")
    BY DEF ManagerInv
  <2>2. CASE managerLoading' = managerLoading /\ o.kind # "load"
    BY <1>1, <2>1, <2>2
  <2>3. CASE managerLoading' = FALSE
    BY <2>3
  <2>. QED BY <2>2, <2>3
<1>6. ~managerBehind' => managerOps' = {} /\ managerShown' = serverHas'
  BY <1>1
<1>7. serverHas' \in Manager!Contents
  BY DEF ManagerInv
<1>. QED BY <1>2, <1>3, <1>4, <1>5, <1>6, <1>7 DEF ManagerInv, ManagerForms

\* What a request does leaves the server with contents, and changes what is of its kind.
LEMMA ManagerEffects ==
  ASSUME serverHas \in Manager!Contents, NEW o, ManagerAsks(o, vetted), o.kind \notin Manager!Loads
  PROVE  /\ Manager!Effect(o) \in Manager!Contents
         /\ o.kind \notin Manager!Reloading =>
              /\ Manager!Effect(o).enabled = serverHas.enabled /\ Manager!Effect(o).approved = serverHas.approved
              /\ o.kind # "config" => Manager!Effect(o).config = serverHas.config
              /\ o.kind # "secret" => Manager!Effect(o).secret = serverHas.secret
              /\ o.kind \notin {"trust", "remove"} =>
                   Manager!Effect(o).installed = serverHas.installed /\ Manager!Effect(o).catalogs = serverHas.catalogs
<1>. USE DEF Manager!Contents, Manager!Reloading, Manager!Loads
<1>1. o.kind \in ManagerKinds \ Manager!Loads
  BY DEF ManagerAsks
<1>2. CASE o.kind = "config"
  <2>1. Manager!Effect(o) = [serverHas EXCEPT !.config = o.body] /\ o.body \in PanelValues
    BY <1>2 DEF Manager!Effect, ManagerAsks
  <2>. QED BY <1>2, <2>1
<1>3. CASE o.kind = "secret"
  <2>1. Manager!Effect(o) = [serverHas EXCEPT !.secret = TRUE]
    BY <1>3 DEF Manager!Effect
  <2>. QED BY <1>3, <2>1
<1>4. CASE o.kind = "approval"
  <2>1. Manager!Effect(o) = [serverHas EXCEPT !.approved = o.body] /\ o.body \in BOOLEAN
    BY <1>4 DEF Manager!Effect, ManagerAsks
  <2>. QED BY <1>4, <2>1
<1>5. CASE o.kind = "toggle"
  <2>1. Manager!Effect(o) = [serverHas EXCEPT !.enabled = o.body] /\ o.body \in BOOLEAN
    BY <1>5 DEF Manager!Effect, ManagerAsks
  <2>. QED BY <1>5, <2>1
<1>6. CASE o.kind = "market"
  <2>. DEFINE t == o.body = "install"
  <2>1. Manager!Effect(o) = [serverHas EXCEPT !.installed = t]
    BY <1>6 DEF Manager!Effect
  <2>2. t \in BOOLEAN
    OBVIOUS
  <2>. HIDE DEF t
  <2>. QED BY <1>6, <2>1, <2>2
<1>7. CASE o.kind \in {"trust", "remove"}
  <2>1. o.body \in PanelSources
    BY <1>7 DEF ManagerAsks
  <2>2. \E c \in SUBSET PanelSources : Manager!Effect(o) = [serverHas EXCEPT !.catalogs = c]
    <3>1. CASE o.kind = "trust"
      BY <2>1, <3>1 DEF Manager!Effect
    <3>2. CASE o.kind = "remove"
      BY <2>1, <3>2 DEF Manager!Effect
    <3>. QED BY <1>7, <3>1, <3>2
  <2>. QED BY <1>7, <2>2
<1>8. CASE o.kind \in {"reload", "command", "preview"}
  <2>1. Manager!Effect(o) = serverHas
    BY <1>8 DEF Manager!Effect
  <2>. QED BY <2>1
<1>. QED BY <1>1, <1>2, <1>3, <1>4, <1>5, <1>6, <1>7, <1>8 DEF ManagerKinds

\* Requests are changed in place.
LEMMA ManagerFields ==
  ASSUME NEW o, NEW trusted, ManagerAsks(o, trusted), NEW a, NEW g
  PROVE  [o EXCEPT !.at = a, !.got = g] =
           [id |-> o.id, kind |-> o.kind, flag |-> o.flag, body |-> o.body, at |-> a, got |-> g,
            seen |-> o.seen, alone |-> o.alone]
<1>1. SUFFICES ASSUME NEW i, NEW k, NEW f, NEW b, NEW t, NEW h, NEW s, NEW z,
                      o = [id |-> i, kind |-> k, flag |-> f, body |-> b, at |-> t, got |-> h, seen |-> s,
                           alone |-> z]
               PROVE  [o EXCEPT !.at = a, !.got = g] =
                        [id |-> i, kind |-> k, flag |-> f, body |-> b, at |-> a, got |-> g, seen |-> s,
                         alone |-> z]
  BY DEF ManagerAsks
<1>2. PICK q : q = [o EXCEPT !.at = a, !.got = g]
  OBVIOUS
<1>3. /\ q = [x \in DOMAIN q |-> q[x]]
      /\ DOMAIN q = {"id", "kind", "flag", "body", "at", "got", "seen", "alone"}
      /\ q.id = i /\ q.kind = k /\ q.flag = f /\ q.body = b /\ q.at = a /\ q.got = g
      /\ q.seen = s /\ q.alone = z
  BY <1>1, <1>2
<1>4. q = [id |-> i, kind |-> k, flag |-> f, body |-> b, at |-> a, got |-> g, seen |-> s, alone |-> z]
  BY <1>3
<1>. QED BY <1>2, <1>4

\* What a load has seen, and what there is now.
LEMMA ManagerSees ==
  ASSUME NEW seen \in ManagerSeen, NEW c \in Manager!Contents
  PROVE  [f \in DOMAIN seen |-> seen[f] \cup {c[f]}] \in ManagerSeen
<1>. DEFINE look == [f \in DOMAIN seen |-> seen[f] \cup {c[f]}]
<1>1. DOMAIN seen = {"enabled", "config", "secret", "approved", "installed", "catalogs"}
  BY DEF ManagerSeen
<1>2. look = [enabled |-> seen.enabled \cup {c.enabled}, config |-> seen.config \cup {c.config},
              secret |-> seen.secret \cup {c.secret}, approved |-> seen.approved \cup {c.approved},
              installed |-> seen.installed \cup {c.installed},
              catalogs |-> seen.catalogs \cup {c.catalogs}]
  <2>1. DOMAIN look = {"enabled", "config", "secret", "approved", "installed", "catalogs"}
    BY <1>1
  <2>2. \A f \in DOMAIN look : look[f] = seen[f] \cup {c[f]}
    OBVIOUS
  <2>3. look = [f \in DOMAIN look |-> look[f]]
    OBVIOUS
  <2>. HIDE DEF look
  <2>. QED BY <2>1, <2>2, <2>3
<1>. HIDE DEF look
<1>3. look \in ManagerSeen
  BY <1>2 DEF ManagerSeen, Manager!Contents
<1>. QED BY <1>3 DEF look

\* The server does what a request asks, or not, while loads watch.
LEMMA ManagerServes ==
  ASSUME ManagerInv, NEW o \in managerOps, NEW done \in BOOLEAN, NEW ok \in BOOLEAN,
         Manager!Serve(o, done, ok)
  PROVE  ManagerInv'
<1>. DEFINE at == IF ok THEN "ok" ELSE "failed"
            m == [o EXCEPT !.at = at, !.got = serverHas']
            look(l) == [f \in DOMAIN l.seen |-> l.seen[f] \cup {serverHas'[f]}]
            q(l) == [l EXCEPT !.seen = look(l)]
<1>1. /\ o.at = "sent" /\ o.kind \notin Manager!Loads /\ (ok => done)
      /\ serverHas' = IF done THEN Manager!Effect(o) ELSE serverHas
      /\ managerBehind' = (managerBehind \/ (~ok /\ serverHas' # serverHas))
      /\ UNCHANGED <<managerShown, managerLoading, flags, Manager!formVars>>
  BY DEF Manager!Serve
<1>2. managerOps' = {m} \cup {q(l) : l \in managerOps \ {o}}
  BY DEF Manager!Serve
<1>3. ManagerAsks(o, vetted) /\ serverHas \in Manager!Contents
  BY DEF ManagerInv
<1>4. serverHas' \in Manager!Contents
  BY <1>1, <1>3, ManagerEffects
<1>5. UNCHANGED vetted /\ ManagerForms'
  BY <1>1 DEF Manager!formVars, ManagerInv, ManagerForms
<1>6. at \in {"ok", "failed"} /\ (at = "ok" <=> ok)
  OBVIOUS
<1>. HIDE DEF at
<1>7. /\ ManagerAsks(m, vetted') /\ m.kind = o.kind /\ m.flag = o.flag /\ m.alone = o.alone
      /\ m.at = at /\ m.got = serverHas'
  <2>1. m = [id |-> o.id, kind |-> o.kind, flag |-> o.flag, body |-> o.body, at |-> at,
             got |-> serverHas', seen |-> o.seen, alone |-> o.alone]
    BY <1>3, ManagerFields
  <2>. HIDE DEF m
  <2>. QED BY <1>1, <1>3, <1>4, <1>5, <1>6, <2>1 DEF ManagerAsks
<1>8. ASSUME NEW l \in managerOps \ {o}
      PROVE  ManagerAsks(q(l), vetted') /\ q(l).kind = l.kind /\ q(l).flag = l.flag /\ q(l).alone = l.alone
  <2>1. ManagerAsks(l, vetted)
    BY DEF ManagerInv
  <2>2. l = [id |-> l.id, kind |-> l.kind, flag |-> l.flag, body |-> l.body, at |-> l.at,
             got |-> l.got, seen |-> l.seen, alone |-> l.alone]
    BY <2>1 DEF ManagerAsks
  <2>3. l.seen \in ManagerSeen => look(l) \in ManagerSeen
    BY <1>4, ManagerSees
  <2>. DEFINE sees == look(l)
              p == q(l)
  <2>4. p = [l EXCEPT !.seen = sees]
    OBVIOUS
  <2>5. l.seen \in ManagerSeen => sees \in ManagerSeen
    BY <2>3
  <2>. HIDE DEF sees, p
  <2>6. p = [id |-> l.id, kind |-> l.kind, flag |-> l.flag, body |-> l.body, at |-> l.at,
             got |-> l.got, seen |-> sees, alone |-> l.alone]
    BY <2>2, <2>4
  <2>7. ManagerAsks(p, vetted') /\ p.kind = l.kind /\ p.flag = l.flag /\ p.alone = l.alone
    BY <1>5, <2>1, <2>5, <2>6 DEF ManagerAsks
  <2>. QED BY <2>7 DEF p
<1>. HIDE DEF m, q
<1>9. \A p \in managerOps' : ManagerAsks(p, vetted')
  BY <1>2, <1>7, <1>8
<1>10. \A p \in managerOps' : p.alone => p = m /\ managerOps = {o} /\ managerOps' = {m}
  <2>1. ASSUME NEW l \in managerOps \ {o}, l.alone PROVE FALSE
    BY <2>1 DEF ManagerInv
  <2>2. o.alone => managerOps = {o}
    BY DEF ManagerInv
  <2>. QED BY <1>2, <1>7, <1>8, <2>1, <2>2
<1>11. \A p \in managerOps' : p.alone =>
         managerOps' = {p} /\ (p.kind \in Manager!Loads => p.seen = [f \in DOMAIN serverHas' |-> {serverHas'[f]}])
  BY <1>1, <1>7, <1>10
<1>12. \A f \in flags' : \E p \in managerOps' : p.flag = f
  BY <1>1, <1>2, <1>7, <1>8 DEF ManagerInv
<1>13. managerLoading' \in BOOLEAN /\ (managerLoading' => \E p \in managerOps' : p.kind = "load")
  BY <1>1, <1>2, <1>7, <1>8 DEF ManagerInv, Manager!Loads
<1>14. m \in managerOps'
  BY <1>2
<1>15. ASSUME ~managerBehind' PROVE managerOps' = {m} /\ ManagerBehind(m, serverHas', managerShown')
  <2>1. ~managerBehind /\ (ok \/ serverHas' = serverHas)
    BY <1>1, <1>15
  <2>2. ManagerBehind(o, serverHas, managerShown) /\ o.alone
    BY <2>1 DEF ManagerInv, ManagerBehind
  <2>3. managerOps' = {m}
    BY <1>7, <1>10, <1>14, <2>2
  <2>4. /\ managerShown.enabled = serverHas.enabled /\ managerShown.approved = serverHas.approved
        /\ managerShown.config = serverHas.config /\ managerShown.secret = serverHas.secret
        /\ managerShown.installed = serverHas.installed /\ managerShown.catalogs = serverHas.catalogs
    BY <1>1, <2>2 DEF ManagerBehind, Manager!Loads
  <2>5. managerShown' = managerShown /\ m.alone /\ m.got = serverHas'
    BY <1>1, <1>7, <2>2
  <2>6. CASE serverHas' = serverHas
    BY <2>3, <2>4, <2>5, <2>6 DEF ManagerBehind
  <2>7. CASE ok
    <3>1. serverHas' = Manager!Effect(o) /\ m.at = "ok" /\ m.kind = o.kind
      BY <1>1, <1>6, <1>7, <2>7
    <3>2. CASE o.kind \in Manager!Reloading
      BY <2>3, <2>5, <3>1, <3>2 DEF ManagerBehind
    <3>3. CASE o.kind \notin Manager!Reloading
      <4>1. /\ serverHas'.enabled = serverHas.enabled /\ serverHas'.approved = serverHas.approved
            /\ o.kind # "config" => serverHas'.config = serverHas.config
            /\ o.kind # "secret" => serverHas'.secret = serverHas.secret
            /\ o.kind \notin {"trust", "remove"} =>
                 serverHas'.installed = serverHas.installed /\ serverHas'.catalogs = serverHas.catalogs
        BY <1>1, <1>3, <3>1, <3>3, ManagerEffects
      <4>. QED BY <2>3, <2>4, <2>5, <3>1, <4>1 DEF ManagerBehind
    <3>. QED BY <3>2, <3>3
  <2>. QED BY <2>1, <2>6, <2>7
<1>16. ~managerBehind' => (managerOps' = {} => managerShown' = serverHas') /\ \A p \in managerOps' : ManagerBehind(p, serverHas', managerShown')
  BY <1>15
<1>17. managerShown' \in Manager!Contents /\ managerBehind' \in BOOLEAN
  BY <1>1 DEF ManagerInv
<1>. QED BY <1>4, <1>5, <1>9, <1>11, <1>12, <1>13, <1>16, <1>17 DEF ManagerInv, ManagerForms

\* Contents are the same when their parts are.
LEMMA ManagerContents ==
  ASSUME NEW c \in Manager!Contents, NEW d \in Manager!Contents,
         c.enabled = d.enabled, c.config = d.config, c.secret = d.secret, c.approved = d.approved,
         c.installed = d.installed, c.catalogs = d.catalogs
  PROVE  c = d
BY DEF Manager!Contents

\* The answer of a load is taken.
LEMMA ManagerLoaded ==
  ASSUME ManagerInv, NEW o \in managerOps, NEW ok \in BOOLEAN, Manager!LoadEnds(o, ok) PROVE ManagerInv'
<1>1. /\ o.kind = "load" /\ managerLoading' = FALSE /\ Manager!End(o)
      /\ managerBehind' = IF ok /\ o.alone THEN FALSE ELSE managerBehind \/ ~ok
      /\ UNCHANGED <<serverHas, review, catalogForm, vetted, managerCount>>
  BY DEF Manager!LoadEnds
<1>2. o.seen \in ManagerSeen /\ o.alone \in BOOLEAN
  BY <1>1 DEF ManagerInv, ManagerAsks, Manager!Loads
<1>3. managerBehind' \in BOOLEAN
  BY <1>1 DEF ManagerInv
<1>4. CASE ~ok
  <2>1. UNCHANGED <<managerShown, draft, typedInput>>
    BY <1>4 DEF Manager!LoadEnds
  <2>2. managerBehind' = TRUE
    BY <1>1, <1>4
  <2>3. ManagerForms' /\ managerShown' \in Manager!Contents
    BY <1>1, <2>1 DEF ManagerInv, ManagerForms
  <2>. QED BY <1>1, <1>3, <2>2, <2>3, ManagerEnds
<1>5. CASE ok
  <2>1. PICK s \in [enabled: o.seen.enabled, config: o.seen.config, secret: o.seen.secret,
                    approved: o.seen.approved, installed: o.seen.installed,
                    catalogs: o.seen.catalogs], listed \in o.seen.enabled :
          managerShown' = s /\ draft' = Manager!CommandDraft(listed) /\ typedInput' = IF listed THEN typedInput ELSE Manager!Default
    BY <1>5 DEF Manager!LoadEnds
  <2>2. /\ s.enabled \in o.seen.enabled /\ s.config \in o.seen.config /\ s.secret \in o.seen.secret
        /\ s.approved \in o.seen.approved /\ s.installed \in o.seen.installed
        /\ s.catalogs \in o.seen.catalogs
    BY <2>1
  <2>3. s \in Manager!Contents
    BY <1>2, <2>1 DEF ManagerSeen, Manager!Contents
  <2>4. ManagerForms'
    <3>1. /\ draft' \in PanelValues \cup {None} /\ typedInput' \in PanelValues
          /\ draft' \in {None, typedInput'} /\ (draft' = None => typedInput' = Manager!Default)
      BY <2>1, ManagerDefault DEF Manager!CommandDraft, ManagerInv
    <3>. QED BY <1>1, <3>1 DEF ManagerInv, ManagerForms
  <2>5. ASSUME ~managerBehind' PROVE managerOps = {o} /\ managerShown' = serverHas
    <3>1. o.alone
      BY <1>1, <1>5, <2>5 DEF ManagerInv, ManagerBehind
    <3>2. managerOps = {o} /\ o.seen = [f \in DOMAIN serverHas |-> {serverHas[f]}] /\ serverHas \in Manager!Contents
      BY <1>1, <3>1 DEF ManagerInv, Manager!Loads
    <3>3. /\ o.seen.enabled = {serverHas.enabled} /\ o.seen.config = {serverHas.config}
          /\ o.seen.secret = {serverHas.secret} /\ o.seen.approved = {serverHas.approved}
          /\ o.seen.installed = {serverHas.installed} /\ o.seen.catalogs = {serverHas.catalogs}
      BY <3>2 DEF Manager!Contents
    <3>. QED BY <2>1, <2>2, <2>3, <3>2, <3>3, ManagerContents
  <2>. QED BY <1>1, <1>3, <2>1, <2>3, <2>4, <2>5, ManagerEnds
<1>. QED BY <1>4, <1>5

\* Other answers are taken.
LEMMA ManagerAnswered ==
  ASSUME ManagerInv, NEW o \in managerOps,
         \/ Manager!Fails(o) \/ Manager!ConfigSaved(o) \/ Manager!SecretSaved(o) \/ Manager!CatalogsChanged(o)
         \/ \E ok \in BOOLEAN : Manager!HealthEnds(o, ok) \/ Manager!PreviewEnds(o, ok)
  PROVE  ManagerInv'
<1>1. /\ Manager!End(o) /\ o.kind # "load" /\ UNCHANGED <<serverHas, managerLoading, managerBehind, vetted, draft, typedInput>>
  BY DEF Manager!Fails, Manager!ConfigSaved, Manager!SecretSaved, Manager!CatalogsChanged,
    Manager!HealthEnds, Manager!PreviewEnds, Manager!formVars, ManagerInv,
    ManagerAsks, Manager!Loads
<1>2. /\ managerBehind \in BOOLEAN /\ serverHas \in Manager!Contents /\ managerShown \in Manager!Contents /\ ManagerAsks(o, vetted)
      /\ o.at = "ok" => o.got \in Manager!Contents
  BY DEF ManagerInv, ManagerAsks
<1>3. ASSUME ~managerBehind PROVE managerOps = {o} /\ ManagerBehind(o, serverHas, managerShown)
  BY <1>3 DEF ManagerInv, ManagerBehind
<1>4. ManagerForms
  BY DEF ManagerInv, ManagerForms
<1>5. SUFFICES managerShown' \in Manager!Contents /\ ManagerForms' /\ (~managerBehind => managerShown' = serverHas)
  BY <1>1, <1>2, <1>3, ManagerEnds
<1>6. CASE Manager!Fails(o)
  <2>1. UNCHANGED <<managerShown, catalogForm>> /\ o.at = "failed"
    BY <1>6 DEF Manager!Fails, Manager!formVars
  <2>2. ManagerForms'
    BY <1>1, <1>4, <2>1 DEF ManagerForms
  <2>3. ASSUME ~managerBehind PROVE managerShown = serverHas
    BY <1>1, <1>2, <1>3, <2>1, <2>3, ManagerContents DEF ManagerBehind
  <2>. QED BY <1>2, <2>1, <2>2, <2>3
<1>7. CASE Manager!ConfigSaved(o)
  <2>1. managerShown' = [managerShown EXCEPT !.config = o.got.config] /\ o.at = "ok" /\ o.kind = "config" /\ UNCHANGED catalogForm
    BY <1>7 DEF Manager!ConfigSaved, Manager!formVars
  <2>2. ManagerForms'
    BY <1>1, <1>4, <2>1 DEF ManagerForms
  <2>3. managerShown' \in Manager!Contents /\ managerShown'.config = o.got.config
        /\ managerShown'.enabled = managerShown.enabled /\ managerShown'.approved = managerShown.approved /\ managerShown'.secret = managerShown.secret
        /\ managerShown'.installed = managerShown.installed /\ managerShown'.catalogs = managerShown.catalogs
    BY <1>2, <2>1 DEF Manager!Contents
  <2>4. ASSUME ~managerBehind PROVE managerShown' = serverHas
    <3>1. /\ o.got = serverHas
          /\ managerShown.enabled = serverHas.enabled
          /\ managerShown.approved = serverHas.approved
          /\ managerShown.secret = serverHas.secret
          /\ managerShown.installed = serverHas.installed
          /\ managerShown.catalogs = serverHas.catalogs
      BY <1>3, <2>1, <2>4 DEF ManagerBehind, Manager!Reloading
    <3>. QED BY <1>2, <2>3, <3>1, ManagerContents
  <2>. QED BY <2>2, <2>3, <2>4
<1>8. CASE Manager!SecretSaved(o)
  <2>1. managerShown' = [managerShown EXCEPT !.secret = o.got.secret] /\ o.at = "ok" /\ o.kind = "secret" /\ UNCHANGED catalogForm
    BY <1>8 DEF Manager!SecretSaved, Manager!formVars
  <2>2. ManagerForms'
    BY <1>1, <1>4, <2>1 DEF ManagerForms
  <2>3. managerShown' \in Manager!Contents /\ managerShown'.secret = o.got.secret
        /\ managerShown'.enabled = managerShown.enabled /\ managerShown'.approved = managerShown.approved /\ managerShown'.config = managerShown.config
        /\ managerShown'.installed = managerShown.installed /\ managerShown'.catalogs = managerShown.catalogs
    BY <1>2, <2>1 DEF Manager!Contents
  <2>4. ASSUME ~managerBehind PROVE managerShown' = serverHas
    <3>1. /\ o.got = serverHas
          /\ managerShown.enabled = serverHas.enabled
          /\ managerShown.approved = serverHas.approved
          /\ managerShown.config = serverHas.config
          /\ managerShown.installed = serverHas.installed
          /\ managerShown.catalogs = serverHas.catalogs
      BY <1>3, <2>1, <2>4 DEF ManagerBehind, Manager!Reloading
    <3>. QED BY <1>2, <2>3, <3>1, ManagerContents
  <2>. QED BY <2>2, <2>3, <2>4
<1>9. CASE Manager!CatalogsChanged(o)
  <2>1. /\ managerShown' = [managerShown EXCEPT !.installed = o.got.installed, !.catalogs = o.got.catalogs]
        /\ o.at = "ok" /\ o.kind \in {"trust", "remove"} /\ catalogForm' \in {catalogForm, Manager!NoForm}
    BY <1>9 DEF Manager!CatalogsChanged
  <2>2. ManagerForms'
    <3>1. /\ Manager!NoForm = [open |-> Manager!NoForm.open, source |-> Manager!NoForm.source, preview |-> Manager!NoForm.preview]
          /\ Manager!NoForm.source = None /\ Manager!NoForm.preview = None
      BY DEF Manager!NoForm
    <3>. QED BY <1>1, <1>4, <2>1, <3>1 DEF ManagerForms
  <2>3. managerShown' \in Manager!Contents /\ managerShown'.installed = o.got.installed /\ managerShown'.catalogs = o.got.catalogs
        /\ managerShown'.enabled = managerShown.enabled /\ managerShown'.approved = managerShown.approved /\ managerShown'.config = managerShown.config
        /\ managerShown'.secret = managerShown.secret
    BY <1>2, <2>1 DEF Manager!Contents
  <2>4. ASSUME ~managerBehind PROVE managerShown' = serverHas
    <3>1. /\ o.got = serverHas
          /\ managerShown.enabled = serverHas.enabled
          /\ managerShown.approved = serverHas.approved
          /\ managerShown.config = serverHas.config
          /\ managerShown.secret = serverHas.secret
      BY <1>3, <2>1, <2>4 DEF ManagerBehind, Manager!Reloading
    <3>. QED BY <1>2, <2>3, <3>1, ManagerContents
  <2>. QED BY <2>2, <2>3, <2>4
<1>10. ASSUME NEW ok \in BOOLEAN,
              Manager!HealthEnds(o, ok) PROVE managerShown' \in Manager!Contents /\ ManagerForms' /\ (~managerBehind => managerShown' = serverHas)
  <2>1. PICK e \in o.seen.enabled : managerShown' = [managerShown EXCEPT !.enabled = IF ok THEN e ELSE managerShown.enabled]
    BY <1>10 DEF Manager!HealthEnds
  <2>2. o.kind = "health" /\ UNCHANGED catalogForm /\ o.at = "sent" /\ o.seen \in ManagerSeen
    BY <1>2, <1>10 DEF Manager!HealthEnds, Manager!formVars, ManagerAsks, Manager!Loads
  <2>3. ManagerForms'
    BY <1>1, <1>4, <2>2 DEF ManagerForms
  <2>4. e \in BOOLEAN
    BY <2>1, <2>2 DEF ManagerSeen
  <2>5. managerShown' \in Manager!Contents /\ managerShown'.enabled \in {e, managerShown.enabled}
        /\ managerShown'.approved = managerShown.approved /\ managerShown'.config = managerShown.config /\ managerShown'.secret = managerShown.secret
        /\ managerShown'.installed = managerShown.installed /\ managerShown'.catalogs = managerShown.catalogs
    BY <1>2, <2>1, <2>4 DEF Manager!Contents
  <2>6. ASSUME ~managerBehind PROVE managerShown' = serverHas
    <3>1. ManagerBehind(o, serverHas, managerShown) /\ o.alone
      BY <1>3, <2>6 DEF ManagerBehind
    <3>2. o.seen = [f \in DOMAIN serverHas |-> {serverHas[f]}]
      BY <2>2, <3>1 DEF ManagerInv, Manager!Loads
    <3>3. e = serverHas.enabled
      BY <1>2, <2>1, <3>2 DEF Manager!Contents
    <3>4. /\ managerShown.enabled = serverHas.enabled /\ managerShown.approved = serverHas.approved
          /\ managerShown.config = serverHas.config /\ managerShown.secret = serverHas.secret
          /\ managerShown.installed = serverHas.installed /\ managerShown.catalogs = serverHas.catalogs
      BY <2>2, <3>1 DEF ManagerBehind
    <3>. QED BY <1>2, <2>5, <3>3, <3>4, ManagerContents
  <2>. QED BY <2>3, <2>5, <2>6
<1>11. ASSUME NEW ok \in BOOLEAN,
              Manager!PreviewEnds(o, ok) PROVE managerShown' \in Manager!Contents /\ ManagerForms' /\ (~managerBehind => managerShown' = serverHas)
  <2>1. /\ o.kind = "preview" /\ o.at = "ok" /\ managerShown' = managerShown
        /\ catalogForm' = [catalogForm EXCEPT !.preview = [source |-> o.body, verified |-> ok]]
    BY <1>11 DEF Manager!PreviewEnds
  <2>2. o.body \in PanelSources
    BY <1>2, <2>1 DEF ManagerAsks
  <2>3. catalogForm = [open |-> catalogForm.open, source |-> catalogForm.source, preview |-> catalogForm.preview]
    BY <1>4 DEF ManagerForms
  <2>4. catalogForm' = [open |-> catalogForm.open, source |-> catalogForm.source,
                   preview |-> [source |-> o.body, verified |-> ok]]
    BY <2>1, <2>3
  <2>5. ManagerForms'
    BY <1>1, <1>4, <2>2, <2>4 DEF ManagerForms
  <2>6. ASSUME ~managerBehind PROVE managerShown = serverHas
    BY <1>2, <1>3, <2>1, <2>6, ManagerContents DEF ManagerBehind, Manager!Reloading
  <2>. QED BY <1>2, <2>1, <2>5, <2>6
<1>. QED BY <1>6, <1>7, <1>8, <1>9, <1>10, <1>11

\* An operation is done, and everything is loaded again.
LEMMA ManagerReloads ==
  ASSUME ManagerInv, NEW o \in managerOps, Manager!ThenLoads(o) PROVE ManagerInv'
<1>. DEFINE t == managerOps = {o}
            r == Manager!Request(Manager!NewId("load"), "load", o.flag, None, t)
<1>1. /\ o.at = "ok" /\ o.kind \in Manager!Reloading /\ managerShown' = Manager!Taken(o)
      /\ managerOps' = (managerOps \ {o}) \cup {r} /\ managerLoading' = TRUE
      /\ UNCHANGED <<flags, serverHas, draft, review, catalogForm, typedInput, vetted, managerBehind>>
  BY DEF Manager!ThenLoads, Manager!Reloading, Manager!formVars
<1>2. t \in BOOLEAN /\ (t = TRUE <=> managerOps = {o})
  OBVIOUS
<1>. HIDE DEF t
<1>3. /\ ManagerAsks(r, vetted') /\ r.kind = "load" /\ r.flag = o.flag /\ r.at = "sent" /\ r.alone = t
      /\ r.seen = [f \in DOMAIN serverHas |-> {serverHas[f]}]
  <2>1. "load" \in ManagerKinds /\ "load" \in Manager!Loads /\ serverHas \in Manager!Contents /\ UNCHANGED serverHas
    BY <1>1 DEF ManagerInv, ManagerKinds, Manager!Loads
  <2>. QED BY <1>2, <2>1, ManagerRequested
<1>. HIDE DEF r
<1>4. managerShown \in Manager!Contents /\ o.got \in Manager!Contents /\ serverHas \in Manager!Contents
  BY <1>1 DEF ManagerInv, ManagerAsks
<1>5. managerShown' \in Manager!Contents
  BY <1>1, <1>4 DEF Manager!Taken, Manager!Contents
<1>6. \A p \in managerOps' : ManagerAsks(p, vetted')
  BY <1>1, <1>3 DEF ManagerInv, ManagerAsks
<1>7. \A p \in managerOps' : p.alone => p = r /\ managerOps' = {r}
  <2>1. \A p \in managerOps \ {o} : ~p.alone
    BY DEF ManagerInv
  <2>. QED BY <1>1, <1>2, <1>3, <2>1
<1>8. \A p \in managerOps' : p.alone =>
        managerOps' = {p} /\ (p.kind \in Manager!Loads => p.seen = [f \in DOMAIN serverHas' |-> {serverHas'[f]}])
  BY <1>1, <1>3, <1>7
<1>9. \A f \in flags' : \E p \in managerOps' : p.flag = f
  BY <1>1, <1>3 DEF ManagerInv
<1>10. \E p \in managerOps' : p.kind = "load"
  BY <1>1, <1>3
<1>11. ASSUME ~managerBehind PROVE managerOps' = {r} /\ r.alone
  <2>1. managerOps = {o}
    BY <1>11 DEF ManagerInv, ManagerBehind
  <2>. QED BY <1>1, <1>2, <1>3, <2>1
<1>12. ~managerBehind' => (managerOps' = {} => managerShown' = serverHas') /\ \A p \in managerOps' : ManagerBehind(p, serverHas', managerShown')
  BY <1>1, <1>3, <1>11 DEF ManagerBehind
<1>. QED BY <1>1, <1>4, <1>5, <1>6, <1>8, <1>9, <1>10, <1>12 DEF ManagerInv

LEMMA ManagerGoesOn ==
  ASSUME ManagerInv, Manager!Next \/ UNCHANGED Manager!vars PROVE ManagerInv'
<1>1. ASSUME NEW o \in managerOps, NEW ok \in BOOLEAN, NEW done \in BOOLEAN,
             Manager!LoadEnds(o, ok) \/ Manager!HealthEnds(o, ok) \/ Manager!PreviewEnds(o, ok) \/ Manager!Serve(o, done, ok)
      PROVE  ManagerInv'
  BY <1>1, ManagerLoaded, ManagerAnswered, ManagerServes
<1>2. ASSUME NEW o \in managerOps,
             Manager!Fails(o) \/ Manager!ConfigSaved(o) \/ Manager!SecretSaved(o) \/ Manager!ThenLoads(o) \/ Manager!CatalogsChanged(o)
      PROVE  ManagerInv'
  BY <1>2, ManagerAnswered, ManagerReloads
<1>3. ManagerForms /\ managerShown \in Manager!Contents
  BY DEF ManagerInv, ManagerForms
<1>4. ASSUME NEW kind \in ManagerKinds, NEW flag, NEW body, Manager!Begin(kind, flag, body),
             \/ kind \in {"load", "health", "secret", "reload", "command", "market"}
             \/ kind = "config" /\ body \in PanelValues
             \/ kind \in {"approval", "toggle"} /\ body \in BOOLEAN
             \/ kind = "remove" /\ body \in PanelSources,
             UNCHANGED <<draft, catalogForm, typedInput, vetted>>,
             managerLoading' = managerLoading \/ (managerLoading' = TRUE /\ kind = "load")
      PROVE  ManagerInv'
  <2>1. ManagerForms' /\ vetted' = vetted
    BY <1>3, <1>4 DEF ManagerForms
  <2>. QED BY <1>4, <2>1, ManagerAsked
<1>. USE DEF ManagerKinds, Manager!formVars, Manager!Start
<1>5. CASE Manager!RetryCatalog
  BY <1>4, <1>5 DEF Manager!RetryCatalog
<1>6. CASE Manager!RefreshHealth
  BY <1>4, <1>6 DEF Manager!RefreshHealth
<1>7. CASE Manager!SaveSecret \/ Manager!ReloadPlugin \/ Manager!RunCommand \/ Manager!RunMigration
  BY <1>4, <1>7 DEF Manager!SaveSecret, Manager!ReloadPlugin, Manager!RunCommand, Manager!RunMigration
<1>8. CASE Manager!ChangeApproval
  <2>1. (~managerShown.approved) \in BOOLEAN
    OBVIOUS
  <2>. QED BY <1>4, <1>8, <2>1 DEF Manager!ChangeApproval
<1>9. CASE Manager!TogglePlugin
  <2>1. (~managerShown.enabled) \in BOOLEAN
    OBVIOUS
  <2>. QED BY <1>4, <1>9, <2>1 DEF Manager!TogglePlugin
<1>10. ASSUME NEW v \in PanelValues, Manager!SaveConfig(v) PROVE ManagerInv'
  BY <1>4, <1>10 DEF Manager!SaveConfig
<1>11. ASSUME NEW s \in PanelSources, Manager!RemoveCatalog(s) PROVE ManagerInv'
  BY <1>4, <1>11 DEF Manager!RemoveCatalog
<1>12. CASE Manager!ConfirmReview
  BY <1>4, <1>12 DEF Manager!ConfirmReview
<1>13. CASE Manager!PreviewCatalog
  <2>1. /\ catalogForm' = [catalogForm EXCEPT !.preview = None] /\ catalogForm.source \in PanelSources
        /\ Manager!Begin("preview", "busy", catalogForm.source) /\ UNCHANGED <<managerLoading, draft, typedInput, vetted>>
    BY <1>3, <1>13 DEF Manager!PreviewCatalog, ManagerForms
  <2>2. /\ catalogForm = [open |-> catalogForm.open, source |-> catalogForm.source, preview |-> catalogForm.preview]
    BY <1>3 DEF ManagerForms
  <2>3. catalogForm' = [open |-> catalogForm.open, source |-> catalogForm.source, preview |-> None]
    BY <2>1, <2>2
  <2>4. ManagerForms'
    BY <1>3, <2>1, <2>3 DEF ManagerForms
  <2>. QED BY <2>1, <2>4, ManagerAsked
<1>14. CASE Manager!TrustCatalog
  <2>1. /\ Manager!Begin("trust", "busy", catalogForm.preview.source) /\ catalogForm.preview.source \in PanelSources
        /\ vetted' = vetted \cup {catalogForm.preview.source} /\ UNCHANGED <<managerLoading, draft, catalogForm, typedInput>>
    BY <1>3, <1>14 DEF Manager!TrustCatalog, Manager!TrustedSource, ManagerForms
  <2>2. ManagerForms'
    BY <1>3, <2>1 DEF ManagerForms
  <2>. QED BY <2>1, <2>2, ManagerAsked
<1>15. ASSUME ManagerForms',
              UNCHANGED <<serverHas, managerShown, managerLoading, flags, vetted, managerOps, managerBehind>> PROVE ManagerInv'
  <2>1. \A o : ManagerAsks(o, vetted') <=> ManagerAsks(o, vetted)
    BY <1>15 DEF ManagerAsks
  <2>2. \A o : ManagerBehind(o, serverHas', managerShown') <=> ManagerBehind(o, serverHas, managerShown)
    BY <1>15 DEF ManagerBehind
  <2>. QED BY <1>15, <2>1, <2>2 DEF ManagerInv, ManagerForms
<1>16. ASSUME NEW v \in PanelValues, Manager!EditCommand(v) PROVE ManagerInv'
  <2>1. ManagerForms'
    BY <1>3, <1>16, PluginAssumption DEF Manager!EditCommand, ManagerForms
  <2>. QED BY <1>15, <1>16, <2>1 DEF Manager!EditCommand
<1>17. CASE Manager!RequestReview \/ Manager!CancelReview
  <2>1. ManagerForms'
    BY <1>3, <1>17 DEF Manager!RequestReview, Manager!CancelReview, ManagerForms
  <2>. QED BY <1>15, <1>17, <2>1 DEF Manager!RequestReview, Manager!CancelReview
<1>18. ASSUME NEW a, catalogForm' = a, UNCHANGED <<draft, typedInput>>,
              a = [open |-> a.open, source |-> a.source, preview |-> a.preview],
              a.source \in PanelSources \cup {None}, a.preview # None => a.preview.source \in PanelSources
       PROVE  ManagerForms'
  BY <1>3, <1>18 DEF ManagerForms
<1>19. catalogForm = [open |-> catalogForm.open, source |-> catalogForm.source, preview |-> catalogForm.preview]
  BY <1>3 DEF ManagerForms
<1>20. CASE Manager!ToggleForm
  <2>1. CASE catalogForm' = Manager!NoForm
    <3>1. /\ Manager!NoForm = [open |-> Manager!NoForm.open, source |-> Manager!NoForm.source, preview |-> Manager!NoForm.preview]
          /\ Manager!NoForm.source = None /\ Manager!NoForm.preview = None
      BY DEF Manager!NoForm
    <3>. QED BY <1>15, <1>18, <1>20, <2>1, <3>1 DEF Manager!ToggleForm
  <2>2. CASE catalogForm' = [catalogForm EXCEPT !.open = TRUE]
    <3>1. catalogForm' = [open |-> TRUE, source |-> catalogForm.source, preview |-> catalogForm.preview]
      BY <1>19, <2>2
    <3>2. ManagerForms'
      BY <1>3, <1>20, <3>1 DEF ManagerForms, Manager!ToggleForm
    <3>. QED BY <1>15, <1>20, <3>2 DEF Manager!ToggleForm
  <2>. QED BY <1>20, <2>1, <2>2 DEF Manager!ToggleForm
<1>21. ASSUME NEW s \in PanelSources, Manager!EditSource(s) PROVE ManagerInv'
  <2>1. catalogForm' = [open |-> catalogForm.open, source |-> s, preview |-> catalogForm.preview]
    BY <1>19, <1>21 DEF Manager!EditSource
  <2>2. ManagerForms'
    BY <1>3, <1>21, <2>1 DEF ManagerForms, Manager!EditSource
  <2>. QED BY <1>15, <1>21, <2>2 DEF Manager!EditSource
<1>22. CASE UNCHANGED Manager!vars
  <2>1. ManagerForms'
    BY <1>3, <1>22 DEF Manager!vars, ManagerForms
  <2>. QED BY <1>15, <1>22, <2>1 DEF Manager!vars
<1>. QED BY <1>1, <1>2, <1>5, <1>6, <1>7, <1>8, <1>9, <1>10, <1>11, <1>12, <1>13, <1>14, <1>16,
  <1>17, <1>20, <1>21, <1>22 DEF Manager!Next

LEMMA ManagerFollows ==
  ASSUME ManagerInv PROVE Manager!PanelSettles
BY DEF ManagerInv, Manager!PanelSettles, ManagerAsks, Manager!Loads

-----------------------------------------------------------------------------
(* The types of the clock, of the connections and of the comparison.       *)

\* The clock of the metrics.
MetricsTypes == metricsNow \in 0..4

\* With the invariant, it is all that is left of the types of the metrics.
LEMMA MetricsAreTyped ==
  ASSUME MetricsInv, MetricsTypes PROVE Metrics!TypeOK
<1>1. \A c \in podCallers : c.pod \in {"p", "q"} /\ c.since \in Nat /\ c.since <= metricsNow
  BY DEF MetricsInv
<1>. QED BY <1>1 DEF MetricsInv, MetricsTypes, Metrics!TypeOK

\* It begins at zero.
LEMMA MetricsBeginTyped ==
  ASSUME Metrics!Init PROVE MetricsTypes
BY DEF Metrics!Init, MetricsTypes

\* It ends at its bound.
LEMMA MetricsStayTyped ==
  ASSUME MetricsTypes, Metrics!Next \/ UNCHANGED Metrics!vars PROVE MetricsTypes'
<1>1. metricsNow' = metricsNow \/ (metricsNow < 4 /\ metricsNow' = metricsNow + 1)
  BY DEF Metrics!Next, Metrics!vars, Metrics!Tick, Metrics!Ask, Metrics!FetchEnds
<1>. QED BY <1>1 DEF MetricsTypes

\* The counts of polls, requests and switches.
ConnectionsTypes ==
  polled \in 0..MaxPolls /\ connectionCount \in 0..MaxConnectionOps /\ toggled \in 0..MaxToggles

\* With the invariant, these are all the types of the panel of connections.
LEMMA ConnectionsAreTyped ==
  ASSUME ConnectionsInv, ConnectionsTypes PROVE Connections!TypeOK
<1>1. {activeProviders, lists.providers} \subseteq SUBSET {"d", "k"} /\ {conns, lists.conns} \subseteq SUBSET Connections!Connections
  BY DEF ConnectionsInv, PanelTyped
<1>2. {form.selected, form.key, form.draft.of} \subseteq {"d", "k"} \cup {None}
      /\ {form.adding, form.draft.filled, connectionsBehind} \subseteq BOOLEAN
  BY DEF ConnectionsInv, PanelTyped, Form
<1>. QED BY <1>1, <1>2 DEF ConnectionsTypes, Connections!TypeOK

\* They begin at zero.
LEMMA ConnectionsBeginTyped ==
  ASSUME Connections!Init PROVE ConnectionsTypes
BY LimitsAssumption DEF Connections!Init, ConnectionsTypes

\* They end at their bounds.
LEMMA ConnectionsStayTyped ==
  ASSUME ConnectionsTypes, Connections!Next \/ UNCHANGED Connections!vars PROVE ConnectionsTypes'
<1>1. polled' = polled \/ (polled < MaxPolls /\ polled' = polled + 1)
  BY DEF Connections!Next, Connections!vars, Connections!TogglePlugin, Connections!SelectProvider,
    Connections!Serve, Connections!Answered, Connections!Poll, Connections!SetDraft,
    Connections!AddConnection, Connections!PollEnds, Connections!RemoveConnection, Connections!Begin
<1>2. connectionCount' = connectionCount \/ (connectionCount < MaxConnectionOps /\ connectionCount' = connectionCount + 1)
  BY DEF Connections!Next, Connections!vars, Connections!TogglePlugin, Connections!SelectProvider,
    Connections!Serve, Connections!Answered, Connections!Poll, Connections!SetDraft,
    Connections!AddConnection, Connections!PollEnds, Connections!RemoveConnection, Connections!Begin
<1>3. toggled' = toggled \/ (toggled < MaxToggles /\ toggled' = toggled + 1)
  BY DEF Connections!Next, Connections!vars, Connections!TogglePlugin, Connections!SelectProvider,
    Connections!Serve, Connections!Answered, Connections!Poll, Connections!SetDraft, Connections!serverVars,
    Connections!AddConnection, Connections!PollEnds, Connections!RemoveConnection, Connections!Begin
<1>4. {MaxPolls, MaxConnectionOps, MaxToggles} \subseteq Nat
  BY LimitsAssumption
<1>. QED BY <1>1, <1>2, <1>3, <1>4 DEF ConnectionsTypes

\* The pairs that are chosen and compared are of environments.
CompareTypes ==
  /\ there \subseteq {"a", "b"} /\ comparing \in {None} \cup {"a", "b"} \X {"a", "b"}
  /\ chosen = <<None, None>> \/ chosen \in {"a", "b"} \X {"a", "b"}

\* These are all the types of the comparison.
LEMMA CompareIsTyped ==
  ASSUME CompareTypes PROVE Compare!TypeOK
BY DEF CompareTypes, Compare!TypeOK

\* Nothing is chosen yet.
LEMMA CompareBeginsTyped ==
  ASSUME Compare!Init PROVE CompareTypes
BY DEF Compare!Init, CompareTypes

\* Each step of the comparison keeps them.
LEMMA CompareStaysTyped ==
  ASSUME CompareTypes, Compare!Next \/ UNCHANGED Compare!vars PROVE CompareTypes'
<1>1. ASSUME NEW c \in {"a", "b"}, Compare!SourceChanges(c) PROVE CompareTypes'
  <2>1. there' \subseteq {"a", "b"} /\ chosen' \in Compare!Chosen(chosen, there') /\ comparing' = comparing
    BY <1>1 DEF Compare!SourceChanges, CompareTypes
  <2>2. chosen' = chosen \/ chosen' \in {"a", "b"} \X {"a", "b"}
    BY <2>1 DEF Compare!Chosen
  <2>. QED BY <2>1, <2>2 DEF CompareTypes
<1>2. ASSUME NEW pair \in {"a", "b"} \X {"a", "b"}, Compare!Choose(pair) PROVE CompareTypes'
  BY <1>2 DEF Compare!Choose, CompareTypes
<1>3. CASE Compare!RunCompare
  BY <1>3 DEF Compare!RunCompare, CompareTypes
<1>4. CASE Compare!CompareFails \/ \E a, b \in ComparedGraphs : Compare!CompareEnds(a, b)
  BY <1>4 DEF Compare!CompareFails, Compare!CompareEnds, CompareTypes
<1>5. CASE UNCHANGED Compare!vars
  BY <1>5 DEF Compare!vars, CompareTypes
<1>. QED BY <1>1, <1>2, <1>3, <1>4, <1>5 DEF Compare!Next

-----------------------------------------------------------------------------
(* The types of the loader.                                                *)

\* A plugin is registered under its id.
LoaderTypes ==
  /\ consented \subseteq LoaderPermissions /\ changes \in 0..MaxChanges /\ DOMAIN plugins \subseteq {"p"}
  /\ \A i \in DOMAIN plugins : plugins[i].id = i
  /\ undeclared \in BOOLEAN

\* With the invariant, these are all the types of the loader.
LEMMA LoaderIsTyped ==
  ASSUME LoaderInv, LoaderTypes PROVE Loader!TypeOK
<1>1. disk \in [{"d1", "d2"} -> PluginFiles \cup {None}] /\ used \in [{"d1", "d2"} -> SUBSET LoaderPermissions] /\ policy \subseteq LoaderPermissions
  BY DEF LoaderInv
<1>2. managed = None \/ managed \in [id : {"p"}, granted : SUBSET LoaderPermissions]
  BY DEF LoaderInv, GrantsFit, Granting
<1>3. pass.at \in {"idle", "next", "module"}
  BY DEF LoaderInv, Pass
<1>4. Loader!LoadedSet \subseteq Loader!Plugin /\ strays \subseteq Loader!Plugin
  BY DEF LoaderInv, PluginsFit, Agreed, Loader!LoadedSet
<1>5. \A i \in DOMAIN plugins : plugins[i] \in Loader!Plugin
  BY DEF LoaderInv, PluginsFit, Agreed
<1>. QED BY <1>1, <1>2, <1>3, <1>4, <1>5, Zenon DEF LoaderTypes, Loader!TypeOK

\* No plugin is registered yet.
LEMMA LoaderBeginsTyped ==
  ASSUME Loader!Init PROVE LoaderTypes
<1>1. MaxChanges \in Nat /\ DOMAIN <<>> = {}
  BY LimitsAssumption
<1>2. 0 \in 0..MaxChanges
  BY <1>1
<1>. QED BY <1>1, <1>2, Zenon DEF Loader!Init, LoaderTypes

\* Each step of the loader keeps them.
LEMMA LoaderStaysTyped ==
  ASSUME LoaderInv, LoaderTypes, Loader!Next \/ UNCHANGED Loader!vars PROVE LoaderTypes'
<1>. DEFINE Fit(ps) == DOMAIN ps \subseteq {"p"} /\ \A i \in DOMAIN ps : ps[i].id = i
<1>1. Fit(plugins) /\ MaxChanges \in Nat /\ pass \in Pass
  BY LimitsAssumption DEF LoaderTypes, LoaderInv
<1>2. ASSUME Loader!Change PROVE changes' \in 0..MaxChanges
  BY <1>1, <1>2 DEF Loader!Change, LoaderTypes
<1>3. ASSUME UNCHANGED <<consented, changes, undeclared>>, Fit(plugins') PROVE LoaderTypes'
  BY <1>3 DEF LoaderTypes
<1>4. ASSUME NEW i \in DOMAIN plugins, NEW p, p.id = i, plugins' = [plugins EXCEPT ![i] = p] PROVE Fit(plugins')
  BY <1>1, <1>4
<1>5. \A i \in DOMAIN plugins : plugins[i] \in Loader!Plugin
  BY DEF LoaderInv, PluginsFit, Agreed
<1>6. \A c : \A i \in DOMAIN plugins : [plugins[i] EXCEPT !.code = c].id = i
  BY <1>1, <1>5 DEF Loader!Plugin
<1>7. ASSUME NEW c \in PluginFiles, Loader!Install(c) PROVE LoaderTypes'
  <2>1. c.asks \subseteq LoaderPermissions
    BY <1>7 DEF PluginFiles, Content, Inside, LoaderPermissions
  <2>2. consented' = consented \cup c.asks /\ UNCHANGED <<plugins, undeclared>> /\ Loader!Change
    BY <1>7 DEF Loader!Install
  <2>. QED BY <1>2, <2>1, <2>2 DEF LoaderTypes
<1>8. ASSUME NEW c \in PluginFiles, NEW d \in {"d1", "d2"}, Loader!Edit(d, c) PROVE LoaderTypes'
  BY <1>2, <1>8 DEF Loader!Edit, LoaderTypes
<1>9. ASSUME NEW for \in {"p"} \cup {None}, Loader!StartPass(for) PROVE LoaderTypes'
  <2>1. changes' \in 0..MaxChanges /\ UNCHANGED <<consented, undeclared>>
    BY <1>2, <1>9 DEF Loader!StartPass, LoaderTypes
  <2>2. plugins' = [i \in DOMAIN plugins |->
          IF i = for /\ plugins[i].isolated THEN [plugins[i] EXCEPT !.code = None] ELSE plugins[i]]
    BY <1>9 DEF Loader!StartPass
  <2>3. Fit(plugins')
    BY <1>1, <1>6, <2>2
  <2>. QED BY <2>1, <2>3 DEF LoaderTypes
<1>10. CASE (\E d \in {"d1", "d2"} : Loader!ReadManifest(d)) \/ Loader!LoadModule
  BY <1>1, <1>3, <1>10 DEF Loader!ReadManifest, Loader!LoadModule
<1>11. CASE Loader!Register
  <2>1. UNCHANGED <<consented, changes, undeclared>>
    BY <1>11 DEF Loader!Register
  <2>2. CASE UNCHANGED plugins
    BY <1>1, <1>3, <2>1, <2>2
  <2>3. CASE plugins' # plugins
    <3>1. PICK p : /\ p = Head(pass.loaded) /\ pass.loaded # <<>>
                   /\ plugins' = [i \in DOMAIN plugins \cup {p.id} |-> IF i = p.id THEN p ELSE plugins[i]]
      BY <1>11, <2>3 DEF Loader!Register
    <3>2. p \in Loader!Plugin
      BY <1>1, <3>1 DEF Pass
    <3>3. p.id = "p"
      BY <3>2 DEF Loader!Plugin
    <3>4. Fit(plugins')
      BY <1>1, <3>1, <3>3
    <3>. QED BY <1>3, <2>1, <3>4
  <2>. QED BY <2>2, <2>3
<1>12. CASE Loader!Reloaded
  <2>1. UNCHANGED <<consented, changes, undeclared>>
    BY <1>12 DEF Loader!Reloaded
  <2>2. CASE UNCHANGED plugins
    BY <1>1, <1>3, <2>1, <2>2
  <2>3. CASE plugins' # plugins
    <3>1. PICK k \in DOMAIN pass.loaded :
            pass.loaded[k].id = pass.for /\ plugins' = [plugins EXCEPT ![pass.for] = pass.loaded[k]] /\ pass.for # None
      BY <1>12, <2>3 DEF Loader!Reloaded
    <3>2. pass.for \in DOMAIN plugins
      BY <3>1 DEF LoaderInv, PluginsFit
    <3>3. Fit(plugins')
      BY <1>4, <3>1, <3>2
    <3>. QED BY <1>3, <2>1, <3>3
  <2>. QED BY <2>2, <2>3
<1>13. ASSUME NEW p, NEW x, Loader!HostCall(p, x) PROVE LoaderTypes'
  BY <1>1, <1>3, <1>13 DEF Loader!HostCall
<1>14. ASSUME NEW i \in {"p"}, Loader!Crash(i) \/ Loader!Respawn(i) PROVE LoaderTypes'
  <2>1. i \in DOMAIN plugins /\ UNCHANGED <<consented, changes, undeclared>>
    BY <1>14 DEF Loader!Crash, Loader!Respawn
  <2>2. PICK c : plugins' = [plugins EXCEPT ![i].code = c]
    BY <1>14 DEF Loader!Crash, Loader!Respawn
  <2>3. plugins' = [plugins EXCEPT ![i] = [plugins[i] EXCEPT !.code = c]]
    BY <2>2
  <2>. QED BY <1>3, <1>4, <1>6, <2>1, <2>3
<1>15. ASSUME NEW i \in {"p"}, NEW c, Loader!Use(i, c) PROVE LoaderTypes'
  <2>1. undeclared' \in BOOLEAN /\ UNCHANGED <<plugins, consented, changes>>
    BY <1>15, Zenon DEF Loader!Use, LoaderTypes
  <2>. QED BY <2>1, Zenon DEF LoaderTypes
<1>16. CASE UNCHANGED Loader!vars
  BY <1>16 DEF Loader!vars, LoaderTypes
<1>. QED BY <1>7, <1>8, <1>9, <1>10, <1>11, <1>12, <1>13, <1>14, <1>15, <1>16 DEF Loader!Next

-----------------------------------------------------------------------------
(* The types of the projects.                                              *)

\* What is cached, shown and asked for is of the one project.
ProjectsTypes ==
  /\ cache \subseteq {"p"} /\ destroyed \subseteq {"p"} /\ DOMAIN projectsShown \subseteq {"p"}
  /\ projectsLoading \in BOOLEAN /\ outside \in 0..MaxOutside
  /\ \A i \in Slots : requests[i] # None /\ requests[i].kind # "list" => requests[i].project = "p"

\* There is one project.
LEMMA ProjectsAre ==
  Projects!Projects = {"p"}
BY DEF Projects!Projects

\* With the invariant, these are all the types of the projects.
LEMMA ProjectsAreTyped ==
  ASSUME ProjectsInv, ProjectsTypes PROVE Projects!TypeOK
<1>1. containers \in [{"c", "d"} -> {"running", "stopped", "gone"}] /\ requests \in [Slots -> Projects!RequestSet \cup {None}]
  BY DEF ProjectsInv, RequestsFit, States
<1>2. pending \in Slots \cup {None} /\ refreshes \in Nat
  BY DEF ProjectsInv, PanelFits
<1>. QED BY <1>1, <1>2, ProjectsAre, Zenon DEF ProjectsTypes, Projects!TypeOK

\* Nothing is cached, shown or asked for yet.
LEMMA ProjectsBeginTyped ==
  ASSUME Projects!Init PROVE ProjectsTypes
<1>1. MaxOutside \in Nat /\ DOMAIN <<>> = {}
  BY LimitsAssumption
<1>2. 0 \in 0..MaxOutside
  BY <1>1
<1>3. \A i \in Slots : requests[i] = None
  BY DEF Projects!Init
<1>. QED BY <1>1, <1>2, <1>3, Zenon DEF Projects!Init, ProjectsTypes

\* Each step of the requests and of the panel keeps them.
LEMMA ProjectsStayTyped ==
  ASSUME ProjectsInv, ProjectsTypes, Projects!Next \/ UNCHANGED Projects!vars PROVE ProjectsTypes'
<1>. DEFINE Named(rs) == \A i \in Slots : rs[i] # None /\ rs[i].kind # "list" => rs[i].project = "p"
<1>1. Named(requests) /\ MaxOutside \in Nat /\ requests \in [Slots -> Projects!RequestSet \cup {None}]
  BY LimitsAssumption DEF ProjectsTypes, ProjectsInv, RequestsFit
<1>2. \A i \in Projects!InFlight : requests[i] \in Projects!RequestSet /\ i \in Slots /\ requests[i] # None
  BY <1>1 DEF Projects!InFlight
<1>3. ASSUME NEW i \in Slots, NEW r, r # None /\ r.kind # "list" => r.project = "p", Projects!Advance(i, r)
      PROVE  Named(requests')
  BY <1>1, <1>3 DEF Projects!Advance
<1>4. ASSUME NEW i \in Projects!InFlight
      PROVE  \A ph, s, l, ok :
               /\ [requests[i] EXCEPT !.phase = ph, !.ok = ok].kind = requests[i].kind
               /\ [requests[i] EXCEPT !.phase = ph, !.ok = ok].project = requests[i].project
               /\ [requests[i] EXCEPT !.phase = ph, !.seen = s, !.left = l].kind = requests[i].kind
               /\ [requests[i] EXCEPT !.phase = ph, !.seen = s, !.left = l].project = requests[i].project
               /\ [requests[i] EXCEPT !.phase = ph].kind = requests[i].kind
               /\ [requests[i] EXCEPT !.phase = ph].project = requests[i].project
               /\ [requests[i] EXCEPT !.left = l].kind = requests[i].kind
               /\ [requests[i] EXCEPT !.left = l].project = requests[i].project
               /\ [requests[i] EXCEPT !.disturbed = TRUE].kind = requests[i].kind
               /\ [requests[i] EXCEPT !.disturbed = TRUE].project = requests[i].project
  BY <1>2 DEF Projects!RequestSet
<1>5. ASSUME NEW s, NEW by, by[2] # None /\ by[2].kind # "list" => by[2].project = "p", Projects!Change(s, by)
      PROVE  Named(requests') /\ destroyed' \subseteq destroyed
  <2>1. \A i \in Slots : \/ requests'[i] = by[2]
                         \/ requests'[i] = requests[i]
                         \/ i \in Projects!InFlight /\ requests'[i] = [requests[i] EXCEPT !.disturbed = TRUE]
    BY <1>5 DEF Projects!Change
  <2>2. destroyed' \subseteq destroyed
    BY <1>5 DEF Projects!Change
  <2>. QED BY <1>1, <1>2, <1>4, <1>5, <2>1, <2>2
<1>6. ASSUME NEW i \in Projects!InFlight PROVE requests[i].kind # "list" => requests[i].project = "p"
  BY <1>1, <1>2
<1>7. ASSUME NEW i \in Slots, NEW k, NEW p, k # "list" => p = "p", Projects!Send(i, k, p) PROVE Named(requests')
  BY <1>1, <1>7 DEF Projects!Send, Projects!Request
<1>. HIDE DEF Named
<1>8. ASSUME Named(requests'), UNCHANGED <<cache, outside, projectsShown, projectsLoading>>, destroyed' \subseteq destroyed
      PROVE  ProjectsTypes'
  BY <1>8 DEF ProjectsTypes, Named
<1>9. ASSUME NEW i \in Slots, Projects!FetchProjects(i) PROVE ProjectsTypes'
  <2>1. Named(requests')
    BY <1>7, <1>9 DEF Projects!FetchProjects
  <2>. QED BY <1>9, <2>1, Zenon DEF Projects!FetchProjects, ProjectsTypes, Named
<1>10. ASSUME NEW i \in Slots, NEW p \in Projects!Projects, NEW action \in Projects!Actions, Projects!DoAction(i, p, action)
       PROVE  ProjectsTypes'
  BY <1>7, <1>8, <1>10, ProjectsAre DEF Projects!DoAction
<1>11. ASSUME NEW i \in Projects!InFlight, Projects!See(i) PROVE ProjectsTypes'
  <2>1. Named(requests')
    <3>. DEFINE r == [requests[i] EXCEPT !.phase = "seen", !.seen = containers,
                                   !.left = Projects!Of(requests[i].project) \cap Projects!There(containers)]
    <3>1. Projects!Advance(i, r)
      BY <1>11 DEF Projects!See
    <3>2. r.kind = requests[i].kind /\ r.project = requests[i].project
      BY <1>2 DEF Projects!RequestSet
    <3>. HIDE DEF r
    <3>. QED BY <1>2, <1>3, <1>6, <3>1, <3>2
  <2>. QED BY <1>8, <1>11, <2>1 DEF Projects!See
<1>12. ASSUME NEW i \in Projects!InFlight, Projects!List(i) PROVE ProjectsTypes'
  <2>1. Named(requests')
    <3>. DEFINE r == [requests[i] EXCEPT !.phase = "answered", !.ok = TRUE]
    <3>1. Projects!Advance(i, r)
      BY <1>12 DEF Projects!List
    <3>2. r.kind = requests[i].kind /\ r.project = requests[i].project
      BY <1>2 DEF Projects!RequestSet
    <3>. HIDE DEF r
    <3>. QED BY <1>2, <1>3, <1>6, <3>1, <3>2
  <2>2. cache' \subseteq {"p"}
    BY <1>12 DEF Projects!List, Projects!CacheProjectMeta, ProjectsTypes
  <2>. QED BY <1>12, <2>1, <2>2, Zenon DEF Projects!List, ProjectsTypes, Named
<1>13. ASSUME NEW i \in Projects!InFlight, Projects!RunCompose(i) PROVE ProjectsTypes'
  <2>1. PICK s, ph : Projects!Change(s, <<i, [requests[i] EXCEPT !.phase = ph]>>)
    BY <1>13 DEF Projects!RunCompose
  <2>2. Named(requests') /\ destroyed' \subseteq destroyed
    BY <1>4, <1>5, <1>6, <2>1
  <2>. QED BY <1>8, <1>13, <2>2 DEF Projects!RunCompose
<1>14. ASSUME NEW i \in Projects!InFlight, Projects!ComposeRan(i) PROVE ProjectsTypes'
  <2>1. Named(requests')
    <3>. DEFINE r == [requests[i] EXCEPT !.phase = "answered", !.ok = TRUE]
    <3>1. Projects!Advance(i, r)
      BY <1>14 DEF Projects!ComposeRan
    <3>2. r.kind = requests[i].kind /\ r.project = requests[i].project
      BY <1>2 DEF Projects!RequestSet
    <3>. HIDE DEF r
    <3>. QED BY <1>2, <1>3, <1>6, <3>1, <3>2
  <2>2. requests[i].kind = "destroy" => requests[i].project = "p"
    BY <1>6
  <2>3. destroyed' = destroyed \/ (requests[i].kind = "destroy" /\ destroyed' = destroyed \cup {requests[i].project})
    BY <1>14 DEF Projects!ComposeRan
  <2>4. destroyed' \subseteq {"p"} /\ cache' \subseteq cache
    BY <1>14, <2>2, <2>3 DEF Projects!ComposeRan, ProjectsTypes
  <2>. QED BY <1>14, <2>1, <2>4, Zenon DEF Projects!ComposeRan, ProjectsTypes, Named
<1>15. ASSUME NEW i \in Projects!InFlight, Projects!NoCompose(i) \/ Projects!EndLoop(i) PROVE ProjectsTypes'
  <2>1. Named(requests')
    <3>. DEFINE r == [requests[i] EXCEPT !.phase = "answered", !.ok = TRUE]
    <3>1. Projects!Advance(i, r)
      BY <1>15 DEF Projects!NoCompose, Projects!EndLoop
    <3>2. r.kind = requests[i].kind /\ r.project = requests[i].project
      BY <1>2 DEF Projects!RequestSet
    <3>. HIDE DEF r
    <3>. QED BY <1>2, <1>3, <1>6, <3>1, <3>2
  <2>. QED BY <1>8, <1>15, <2>1 DEF Projects!NoCompose, Projects!EndLoop
<1>16. ASSUME NEW i \in Projects!InFlight, NEW c, Projects!StepContainer(i, c) PROVE ProjectsTypes'
  <2>1. PICK s, ph, l : \/ Projects!Change(s, <<i, [requests[i] EXCEPT !.phase = ph]>>)
                        \/ Projects!Change(s, <<i, [requests[i] EXCEPT !.left = l]>>)
    BY <1>16 DEF Projects!StepContainer
  <2>2. Named(requests') /\ destroyed' \subseteq destroyed
    BY <1>4, <1>5, <1>6, <2>1
  <2>. QED BY <1>8, <1>16, <2>2 DEF Projects!StepContainer
<1>17. ASSUME NEW i \in Projects!InFlight, Projects!Fetched(i) PROVE ProjectsTypes'
  <2>1. Named(requests')
    BY <1>2, <1>3, <1>17 DEF Projects!Fetched
  <2>2. DOMAIN projectsShown' \subseteq {"p"}
    <3>1. DOMAIN <<>> = {}
      OBVIOUS
    <3>. QED BY <1>17, <3>1, ProjectsAre DEF Projects!Fetched, Projects!Listed, ProjectsTypes
  <2>. QED BY <1>17, <2>1, <2>2, Zenon DEF Projects!Fetched, ProjectsTypes, Named
<1>18. ASSUME NEW i \in Projects!InFlight, Projects!ActionDone(i) PROVE ProjectsTypes'
  <2>1. Named(requests')
    BY <1>2, <1>3, <1>18 DEF Projects!ActionDone
  <2>. QED BY <1>8, <1>18, <2>1 DEF Projects!ActionDone
<1>19. ASSUME NEW c, NEW s, Projects!OutsideChange(c, s) PROVE ProjectsTypes'
  <2>1. Projects!Change([containers EXCEPT ![c] = s], <<None, None>>)
        /\ UNCHANGED <<cache, projectsShown, projectsLoading>>
    BY <1>19 DEF Projects!OutsideChange
  <2>2. Named(requests') /\ destroyed' \subseteq destroyed
    BY <1>5, <2>1
  <2>3. outside' \in 0..MaxOutside
    BY <1>1, <1>19 DEF Projects!OutsideChange, ProjectsTypes
  <2>. QED BY <2>1, <2>2, <2>3 DEF ProjectsTypes, Named
<1>20. CASE UNCHANGED Projects!vars
  BY <1>20 DEF Projects!vars, ProjectsTypes
<1>. QED BY <1>9, <1>10, <1>11, <1>12, <1>13, <1>14, <1>15, <1>16, <1>17, <1>18, <1>19, <1>20 DEF Projects!Next

-----------------------------------------------------------------------------
(* The types of the manager of plugins.                                    *)

\* There are no more values of a function than places.
LEMMA NoMoreValues ==
  ASSUME NEW S, IsFiniteSet(S), NEW f, DOMAIN f = S, f = [x \in S |-> f[x]]
  PROVE  IsFiniteSet({f[x] : x \in S}) /\ Cardinality({f[x] : x \in S}) <= Cardinality(S)
<1>. DEFINE T == {f[x] : x \in S}
<1>1. f \in [S -> T]
  OBVIOUS
<1>2. \A t \in T : \E x \in S : f[x] = t
  OBVIOUS
<1>. HIDE DEF T
<1>3. f \in Surjection(S, T)
  BY <1>1, <1>2, Fun_IsSurj
<1>. QED BY <1>3, FS_Surjection DEF T

\* The flags that a request of the manager raises.
ManagerFlags == {"saving", "toggling", "reloading", "running", "acting", "busy"}

\* There are no more requests than were made, beside the first load.
ManagerTypes ==
  /\ review \in {None, "install", "uninstall"} /\ flags \subseteq ManagerFlags
  /\ \A o \in managerOps : o.flag \in ManagerFlags \cup {None} /\ o.id \in 0..MaxManagerOps
  /\ managerCount \in 0..MaxManagerOps
  /\ IsFiniteSet(managerOps) /\ Cardinality(managerOps) <= managerCount + 1

\* With the invariant, these are all the types of the manager.
LEMMA ManagerIsTyped ==
  ASSUME ManagerInv, ManagerTypes PROVE Manager!TypeOK
<1>1. \A o \in managerOps : o.at \in {"sent", "ok", "failed"}
  BY DEF ManagerInv, ManagerAsks
<1>2. {serverHas, managerShown} \subseteq Manager!Contents /\ draft \in PanelValues \cup {None}
      /\ {managerLoading, managerBehind} \subseteq BOOLEAN /\ catalogForm.source \in PanelSources \cup {None}
  BY DEF ManagerInv
<1>. QED BY <1>1, <1>2, Zenon DEF ManagerTypes, ManagerFlags, Manager!TypeOK

\* The first load is the one request.
LEMMA ManagerBeginsTyped ==
  ASSUME Manager!Init PROVE ManagerTypes
<1>. DEFINE r == Manager!Request(0, "load", None, None, TRUE)
<1>1. 0 \in 0..MaxManagerOps /\ MaxManagerOps \in Nat
  BY LimitsAssumption
<1>2. r.flag = None /\ r.id = 0
  BY DEF Manager!Request
<1>. HIDE DEF r
<1>3. managerOps = {r} /\ review = None /\ flags = {} /\ managerCount = 0
  BY DEF Manager!Init, r
<1>4. IsFiniteSet(managerOps) /\ Cardinality(managerOps) = 1
  BY <1>3, FS_Singleton
<1>. QED BY <1>1, <1>2, <1>3, <1>4 DEF ManagerTypes

\* An id is free for a request of a sort, as long as there are no more of it than the bound.
LEMMA NewIdIsThere ==
  ASSUME ManagerTypes, NEW sort, NEW S \in SUBSET managerOps, Cardinality(S) <= MaxManagerOps,
         \A o \in managerOps : o.kind = sort => o \in S
  PROVE  Manager!NewId(sort) \in 0..MaxManagerOps
<1>. DEFINE all == 0..MaxManagerOps
            ids == {o.id : o \in S}
<1>1. MaxManagerOps \in Nat
  BY LimitsAssumption
<1>2. IsFiniteSet(S)
  BY FS_Subset DEF ManagerTypes
<1>3. IsFiniteSet(ids) /\ Cardinality(ids) <= Cardinality(S)
  <2>. DEFINE f == [o \in S |-> o.id]
  <2>1. DOMAIN f = S /\ f = [o \in S |-> f[o]] /\ ids = {f[o] : o \in S}
    OBVIOUS
  <2>. HIDE DEF f, ids
  <2>. QED BY <1>2, <2>1, NoMoreValues
<1>4. IsFiniteSet(all) /\ Cardinality(all) = MaxManagerOps + 1
  BY <1>1, FS_Interval
<1>5. ids \subseteq all
  BY DEF ManagerTypes
<1>6. Cardinality(S) \in Nat /\ Cardinality(ids) \in Nat
  BY <1>2, <1>3, FS_CardinalityType
<1>7. ids # all
  <2>1. Cardinality(ids) < Cardinality(all)
    BY <1>1, <1>3, <1>4, <1>6
  <2>. HIDE DEF all, ids
  <2>2. ASSUME ids = all PROVE Cardinality(ids) = Cardinality(all)
    BY <2>2
  <2>. QED BY <1>6, <2>1, <2>2
<1>8. PICK i \in 0..MaxManagerOps : i \notin ids
  BY <1>5, <1>7
<1>9. ~\E o \in managerOps : o.kind = sort /\ o.id = i
  BY <1>8
<1>. QED BY <1>9, Zenon DEF Manager!NewId

\* A request is made.
LEMMA ManagerAsksTyped ==
  ASSUME ManagerInv, ManagerTypes, NEW sort, NEW flag \in ManagerFlags \cup {None}, NEW body,
         Manager!Begin(sort, flag, body), review' \in {None, "install", "uninstall"}
  PROVE  ManagerTypes'
<1>. DEFINE r == Manager!Request(Manager!NewId(sort), sort, flag, body, managerOps = {})
            q(o) == [o EXCEPT !.alone = FALSE]
            others == {q(o) : o \in managerOps}
<1>1. MaxManagerOps \in Nat /\ managerCount \in Nat /\ managerCount < MaxManagerOps /\ managerCount' = managerCount + 1
      /\ managerOps' = others \cup {r} /\ flags' = flags \cup ({flag} \ {None})
  BY LimitsAssumption DEF Manager!Begin, ManagerTypes
<1>2. IsFiniteSet(managerOps) /\ Cardinality(managerOps) \in Nat /\ Cardinality(managerOps) <= managerCount + 1
  BY FS_CardinalityType DEF ManagerTypes
<1>3. Manager!NewId(sort) \in 0..MaxManagerOps
  <2>1. Cardinality(managerOps) <= MaxManagerOps
    BY <1>1, <1>2
  <2>. QED BY <2>1, NewIdIsThere
<1>4. r.flag = flag /\ r.id \in 0..MaxManagerOps
  BY <1>3 DEF Manager!Request
<1>5. \A o \in managerOps : q(o).flag = o.flag /\ q(o).id = o.id
  <2>1. \A o \in managerOps :
          o = [id |-> o.id, kind |-> o.kind, flag |-> o.flag, body |-> o.body, at |-> o.at,
               got |-> o.got, seen |-> o.seen, alone |-> o.alone]
    BY DEF ManagerInv, ManagerAsks
  <2>. QED BY <2>1
<1>. HIDE DEF r, q
<1>6. IsFiniteSet(others) /\ Cardinality(others) <= Cardinality(managerOps)
  <2>. DEFINE f == [o \in managerOps |-> q(o)]
  <2>1. DOMAIN f = managerOps /\ f = [o \in managerOps |-> f[o]] /\ others = {f[o] : o \in managerOps}
    OBVIOUS
  <2>. HIDE DEF f, others
  <2>. QED BY <1>2, <2>1, NoMoreValues
<1>. HIDE DEF others
<1>7. IsFiniteSet(managerOps') /\ Cardinality(managerOps') <= Cardinality(others) + 1
  <2>1. /\ IsFiniteSet(others \cup {r})
        /\ Cardinality(others \cup {r}) = IF r \in others THEN Cardinality(others) ELSE Cardinality(others) + 1
    BY <1>6, FS_AddElement
  <2>2. Cardinality(others) \in Nat
    BY <1>6, FS_CardinalityType
  <2>. QED BY <1>1, <2>1, <2>2
<1>8. Cardinality(managerOps') <= managerCount' + 1
  <2>1. Cardinality(others) \in Nat /\ Cardinality(managerOps') \in Nat
    BY <1>6, <1>7, FS_CardinalityType
  <2>. QED BY <1>1, <1>2, <1>6, <1>7, <2>1
<1>9. managerCount' \in 0..MaxManagerOps
  BY <1>1
<1>10. \A o \in managerOps' : o.flag \in ManagerFlags \cup {None} /\ o.id \in 0..MaxManagerOps
  BY <1>1, <1>4, <1>5 DEF others, ManagerTypes
<1>11. flags' \subseteq ManagerFlags
  BY <1>1 DEF ManagerTypes
<1>. QED BY <1>7, <1>8, <1>9, <1>10, <1>11 DEF ManagerTypes

\* Requests change, or another one takes the place of one, or some go.
LEMMA ManagerKeepsTyped ==
  ASSUME ManagerTypes, NEW f, DOMAIN f = managerOps, f = [o \in managerOps |-> f[o]],
         managerOps' \subseteq {f[o] : o \in managerOps},
         \A o \in managerOps' : o.flag \in ManagerFlags \cup {None} /\ o.id \in 0..MaxManagerOps,
         flags' \subseteq flags, review' = review, managerCount' = managerCount
  PROVE  ManagerTypes'
<1>. DEFINE all == {f[o] : o \in managerOps}
<1>1. IsFiniteSet(managerOps) /\ Cardinality(managerOps) \in Nat
  BY FS_CardinalityType DEF ManagerTypes
<1>2. IsFiniteSet(all) /\ Cardinality(all) <= Cardinality(managerOps)
  BY <1>1, NoMoreValues
<1>. HIDE DEF all
<1>3. managerOps' \subseteq all
  BY DEF all
<1>4. IsFiniteSet(managerOps') /\ Cardinality(managerOps') <= Cardinality(all)
  BY <1>2, <1>3, FS_Subset
<1>5. Cardinality(managerOps') \in Nat /\ Cardinality(all) \in Nat
  BY <1>2, <1>4, FS_CardinalityType
<1>6. managerCount \in Nat /\ Cardinality(managerOps) <= managerCount + 1
  BY LimitsAssumption DEF ManagerTypes
<1>7. Cardinality(managerOps') <= managerCount' + 1
  BY <1>1, <1>2, <1>4, <1>5, <1>6
<1>. QED BY <1>4, <1>7 DEF ManagerTypes

\* Each step of the manager keeps them.
LEMMA ManagerStaysTyped ==
  ASSUME ManagerInv, ManagerTypes, Manager!Next \/ UNCHANGED Manager!vars PROVE ManagerTypes'
<1>1. \A o \in managerOps : o.flag \in ManagerFlags \cup {None} /\ o.id \in 0..MaxManagerOps
  BY DEF ManagerTypes
<1>2. \A o \in managerOps :
        o = [id |-> o.id, kind |-> o.kind, flag |-> o.flag, body |-> o.body, at |-> o.at,
             got |-> o.got, seen |-> o.seen, alone |-> o.alone]
  BY DEF ManagerInv, ManagerAsks
<1>3. ASSUME NEW o \in managerOps, Manager!End(o), review' = review, managerCount' = managerCount PROVE ManagerTypes'
  <2>. DEFINE f == [p \in managerOps |-> p]
  <2>1. DOMAIN f = managerOps /\ f = [p \in managerOps |-> f[p]] /\ {f[p] : p \in managerOps} = managerOps
    OBVIOUS
  <2>2. managerOps' \subseteq managerOps /\ flags' \subseteq flags
    BY <1>3 DEF Manager!End
  <2>. HIDE DEF f
  <2>. QED BY <1>1, <1>3, <2>1, <2>2, ManagerKeepsTyped
<1>4. ASSUME NEW o \in managerOps, NEW done, NEW ok, Manager!Serve(o, done, ok) PROVE ManagerTypes'
  <2>. DEFINE replied == [o EXCEPT !.at = IF ok THEN "ok" ELSE "failed", !.got = serverHas']
              later(p) == [p EXCEPT !.seen = [k \in DOMAIN p.seen |-> p.seen[k] \cup {serverHas'[k]}]]
              f == [p \in managerOps |-> IF p = o THEN replied ELSE later(p)]
  <2>1. managerOps' = {replied} \cup {later(p) : p \in managerOps \ {o}}
    BY <1>4 DEF Manager!Serve
  <2>2. replied.flag = o.flag /\ replied.id = o.id
    BY <1>2
  <2>3. \A p \in managerOps : later(p).flag = p.flag /\ later(p).id = p.id
    BY <1>2
  <2>4. UNCHANGED <<flags, review, managerCount>>
    BY <1>4 DEF Manager!Serve, Manager!formVars
  <2>. HIDE DEF replied, later
  <2>5. DOMAIN f = managerOps /\ f = [p \in managerOps |-> f[p]] /\ managerOps' \subseteq {f[p] : p \in managerOps}
    BY <2>1
  <2>6. \A p \in managerOps' : p.flag \in ManagerFlags \cup {None} /\ p.id \in 0..MaxManagerOps
    BY <1>1, <2>1, <2>2, <2>3
  <2>. HIDE DEF f
  <2>. QED BY <2>4, <2>5, <2>6, ManagerKeepsTyped
<1>5. ASSUME NEW o \in managerOps, Manager!ThenLoads(o) PROVE ManagerTypes'
  <2>1. UNCHANGED <<review, managerCount>>
    BY <1>5 DEF Manager!ThenLoads, Manager!formVars
  <2>2. CASE Manager!End(o)
    BY <1>3, <2>1, <2>2
  <2>3. CASE ~Manager!End(o)
    <3>. DEFINE r == Manager!Request(Manager!NewId("load"), "load", o.flag, None, managerOps = {o})
                f == [p \in managerOps |-> IF p = o THEN r ELSE p]
    <3>1. managerOps' = (managerOps \ {o}) \cup {r} /\ flags' = flags
      BY <1>5, <2>3 DEF Manager!ThenLoads
    <3>2. Manager!NewId("load") \in 0..MaxManagerOps
      <4>1. IsFiniteSet(managerOps) /\ Cardinality(managerOps) \in Nat /\ managerCount \in Nat
            /\ Cardinality(managerOps) <= managerCount + 1 /\ managerCount <= MaxManagerOps /\ MaxManagerOps \in Nat
        BY FS_CardinalityType, LimitsAssumption DEF ManagerTypes
      <4>2. Cardinality(managerOps \ {o}) = Cardinality(managerOps) - 1
        BY <4>1, FS_RemoveElement
      <4>3. Cardinality(managerOps \ {o}) <= MaxManagerOps
        BY <4>1, <4>2
      <4>4. o.kind # "load"
        BY <1>5 DEF Manager!ThenLoads
      <4>. QED BY <4>3, <4>4, NewIdIsThere
    <3>3. r.flag = o.flag /\ r.id \in 0..MaxManagerOps
      BY <3>2 DEF Manager!Request
    <3>. HIDE DEF r
    <3>4. DOMAIN f = managerOps /\ f = [p \in managerOps |-> f[p]] /\ managerOps' \subseteq {f[p] : p \in managerOps}
      BY <3>1
    <3>5. \A p \in managerOps' : p.flag \in ManagerFlags \cup {None} /\ p.id \in 0..MaxManagerOps
      BY <1>1, <3>1, <3>3
    <3>. HIDE DEF f
    <3>. QED BY <2>1, <3>1, <3>4, <3>5, ManagerKeepsTyped
  <2>. QED BY <2>2, <2>3
<1>6. ASSUME NEW sort, NEW flag \in ManagerFlags \cup {None}, NEW body, Manager!Begin(sort, flag, body),
             review' \in {None, review}
      PROVE  ManagerTypes'
  <2>1. review' \in {None, "install", "uninstall"}
    BY <1>6 DEF ManagerTypes
  <2>. QED BY <1>6, <2>1, ManagerAsksTyped
<1>7. ASSUME NEW o \in managerOps, NEW ok,
             Manager!LoadEnds(o, ok) \/ Manager!HealthEnds(o, ok) \/ Manager!PreviewEnds(o, ok)
      PROVE  ManagerTypes'
  BY <1>3, <1>7 DEF Manager!LoadEnds, Manager!HealthEnds, Manager!PreviewEnds, Manager!formVars
<1>8. ASSUME NEW o \in managerOps,
             Manager!Fails(o) \/ Manager!ConfigSaved(o) \/ Manager!SecretSaved(o) \/ Manager!CatalogsChanged(o)
      PROVE  ManagerTypes'
  BY <1>3, <1>8 DEF Manager!Fails, Manager!ConfigSaved, Manager!SecretSaved, Manager!CatalogsChanged, Manager!formVars
<1>9. ASSUME NEW v, NEW s,
             \/ Manager!RetryCatalog \/ Manager!RefreshHealth \/ Manager!SaveSecret \/ Manager!ChangeApproval
             \/ Manager!TogglePlugin \/ Manager!ReloadPlugin \/ Manager!RunCommand \/ Manager!RunMigration
             \/ Manager!SaveConfig(v) \/ Manager!ConfirmReview \/ Manager!PreviewCatalog
             \/ Manager!TrustCatalog \/ Manager!RemoveCatalog(s)
      PROVE  ManagerTypes'
  <2>1. \E sort, body : \E flag \in ManagerFlags \cup {None} : Manager!Begin(sort, flag, body)
    BY <1>9 DEF Manager!RetryCatalog, Manager!RefreshHealth, Manager!SaveSecret, Manager!ChangeApproval,
      Manager!TogglePlugin, Manager!ReloadPlugin, Manager!RunCommand, Manager!RunMigration, Manager!SaveConfig,
      Manager!ConfirmReview, Manager!PreviewCatalog, Manager!TrustCatalog, Manager!RemoveCatalog, Manager!Start,
      ManagerFlags
  <2>2. review' \in {None, review}
    BY <1>9 DEF Manager!RetryCatalog, Manager!RefreshHealth, Manager!SaveSecret, Manager!ChangeApproval,
      Manager!TogglePlugin, Manager!ReloadPlugin, Manager!RunCommand, Manager!RunMigration, Manager!SaveConfig,
      Manager!ConfirmReview, Manager!PreviewCatalog, Manager!TrustCatalog, Manager!RemoveCatalog, Manager!Start,
      Manager!formVars
  <2>. QED BY <1>6, <2>1, <2>2
<1>10. ASSUME NEW v, NEW s,
              \/ Manager!EditCommand(v) \/ Manager!RequestReview \/ Manager!CancelReview
              \/ Manager!ToggleForm \/ Manager!EditSource(s)
       PROVE  ManagerTypes'
  <2>1. UNCHANGED <<flags, managerOps, managerCount>> /\ review' \in {None, "install", "uninstall", review}
    BY <1>10 DEF Manager!EditCommand, Manager!RequestReview, Manager!CancelReview, Manager!ToggleForm, Manager!EditSource
  <2>. QED BY <2>1 DEF ManagerTypes
<1>11. CASE UNCHANGED Manager!vars
  BY <1>11 DEF Manager!vars, Manager!formVars, ManagerTypes
<1>. QED BY <1>4, <1>5, <1>7, <1>8, <1>9, <1>10, <1>11 DEF Manager!Next

-----------------------------------------------------------------------------
(* The types of the 2D view and of the cluster.                            *)

\* What the 2D view keeps beside its graph: the filter, its modes and its camera.
FlatTypes ==
  /\ flatSnapshot # None => flatSnapshot.filter \in FlatFilters
  /\ impact \in BOOLEAN /\ sized \in BOOLEAN /\ fitted \in BOOLEAN
  /\ camera \in [by : {"none", "fit", "user", "focus"}, on : SUBSET Flat!AllIds]

\* What is in the scope, and what is of a network, are nodes.
LEMMA ScopedThere ==
  ASSUME NEW s, s # None => s.graph \in FlatGraphs
  PROVE  Flat!Scoped(s) \subseteq Flat!AllIds /\ \A w : Flat!NetworkMembers(s, w) \subseteq Flat!AllIds
<1>1. CASE s = None
  <2>1. Flat!Scoped(s) = {}
    BY <1>1 DEF Flat!Scoped, Flat!Graph, Flat!Nodes
  <2>. QED BY <2>1 DEF Flat!NetworkMembers
<1>2. CASE s # None
  <2>1. Flat!Nodes(s.graph) \subseteq Flat!AllIds
    BY <1>2, PluginAssumption DEF FlatGraphsAreSound
  <2>2. Flat!Scoped(s) \subseteq Flat!Nodes(s.graph)
    BY <1>2 DEF Flat!Scoped, Flat!Graph
  <2>. QED BY <2>1, <2>2 DEF Flat!NetworkMembers
<1>. QED BY <1>1, <1>2

\* With the invariant, these are all the types of the 2D view.
LEMMA FlatIsTyped ==
  ASSUME FlatInv, FlatTypes PROVE Flat!TypeOK
<1>1. ASSUME flatSnapshot # None
      PROVE  flatSnapshot.graph \in FlatGraphs /\ flatSnapshot.selected \in Flat!AllIds \cup {None}
  <2>1. flatSnapshot.graph \in FlatGraphs /\ flatSnapshot.selected \in Flat!Nodes(flatSnapshot.graph) \cup {None}
    BY <1>1 DEF FlatInv
  <2>2. Flat!Nodes(flatSnapshot.graph) \subseteq Flat!AllIds
    BY <2>1, PluginAssumption DEF FlatGraphsAreSound
  <2>. QED BY <2>1, <2>2
<1>2. ASSUME network # None
      PROVE  \E g \in FlatGraphs : \E n \in Flat!Nodes(g) : network \in Flat!NetworksOf(g, n)
  <2>1. network \in Flat!Networks(flatSnapshot)
    BY <1>2 DEF FlatInv
  <2>2. PICK n \in Flat!Scoped(flatSnapshot) : network \in Flat!NetworksOf(flatSnapshot.graph, n)
    BY <2>1 DEF Flat!Networks
  <2>3. n \in Flat!Nodes(Flat!Graph(flatSnapshot))
    BY <2>2 DEF Flat!Scoped
  <2>4. flatSnapshot # None /\ n \in Flat!Nodes(flatSnapshot.graph)
    BY <2>3 DEF Flat!Graph, Flat!Nodes
  <2>. QED BY <1>1, <2>2, <2>4
<1>. QED BY <1>1, <1>2 DEF FlatTypes, Flat!TypeOK

\* Nothing is shown yet.
LEMMA FlatBeginsTyped ==
  ASSUME Flat!Init PROVE FlatTypes
BY DEF Flat!Init, FlatTypes

\* What the camera shows is of the nodes.
LEMMA CameraTyped ==
  ASSUME FlatTypes, NEW ids \in SUBSET Flat!AllIds, camera' = camera \/ camera' = Flat!Fit(ids)
  PROVE  camera' \in [by : {"none", "fit", "user", "focus"}, on : SUBSET Flat!AllIds]
BY DEF Flat!Fit, FlatTypes

\* The effects of a render keep them.
LEMMA EffectsTyped ==
  ASSUME FlatTypes, NEW s, NEW w, NEW mode \in BOOLEAN, Flat!Effects(s, w, mode), sized' \in BOOLEAN,
         s # None => s.graph \in FlatGraphs /\ s.filter \in FlatFilters
  PROVE  FlatTypes'
<1>. DEFINE ids == IF Flat!NetworkAfter(s, w) = None THEN Flat!Scoped(s) ELSE Flat!NetworkMembers(s, w)
            settled == Flat!Nodes(Flat!Graph(s)) # {} /\ (fitted \/ sized')
<1>1. ids \in SUBSET Flat!AllIds
  BY ScopedThere
<1>2. /\ flatSnapshot' = s /\ impact' = Flat!ImpactAfter(s, mode) /\ fitted' = settled
      /\ camera' = camera \/ camera' = Flat!Fit(ids)
  BY Zenon DEF Flat!Effects
<1>3. settled \in BOOLEAN /\ Flat!ImpactAfter(s, mode) \in BOOLEAN
  BY DEF Flat!ImpactAfter
<1>. HIDE DEF ids, settled
<1>4. camera' \in [by : {"none", "fit", "user", "focus"}, on : SUBSET Flat!AllIds]
  BY <1>1, <1>2, CameraTyped
<1>5. fitted' \in BOOLEAN /\ impact' \in BOOLEAN
  BY <1>2, <1>3, Zenon
<1>. QED BY <1>2, <1>4, <1>5, Zenon DEF FlatTypes, Flat!AllIds

\* Each step of the 2D view keeps them.
LEMMA FlatStaysTyped ==
  ASSUME FlatInv, FlatTypes, Flat!Next \/ UNCHANGED Flat!vars PROVE FlatTypes'
<1>1. /\ flatSnapshot # None => flatSnapshot.graph \in FlatGraphs /\ flatSnapshot.filter \in FlatFilters
      /\ impact \in BOOLEAN /\ sized \in BOOLEAN /\ fitted \in BOOLEAN
  BY DEF FlatInv, FlatTypes
<1>2. ASSUME NEW w, NEW mode \in BOOLEAN, Flat!Effects(flatSnapshot, w, mode), sized' \in BOOLEAN PROVE FlatTypes'
  BY <1>1, <1>2, EffectsTyped
<1>3. ASSUME NEW shown \in FlatGraphs, NEW filter \in FlatFilters, NEW n, Flat!Subscribed(shown, n, filter)
      PROVE  FlatTypes'
  <2>. DEFINE s == [graph |-> shown, selected |-> n, filter |-> filter]
  <2>1. Flat!Effects(s, network, impact) /\ sized' = sized
    BY <1>3, Zenon DEF Flat!Subscribed
  <2>2. s.graph \in FlatGraphs /\ s.filter \in FlatFilters
    OBVIOUS
  <2>3. sized' \in BOOLEAN
    BY <1>1, <2>1, Zenon
  <2>. HIDE DEF s
  <2>. QED BY <1>1, <2>1, <2>2, <2>3, EffectsTyped, Zenon
<1>4. ASSUME NEW n, Flat!ChooseNode(n) PROVE FlatTypes'
  <2>1. Flat!Effects(flatSnapshot, None, impact) /\ sized' = sized
    BY <1>4, Zenon DEF Flat!ChooseNode
  <2>. QED BY <1>1, <1>2, <2>1, Zenon
<1>5. ASSUME NEW w, Flat!ChooseNetwork(w) PROVE FlatTypes'
  <2>1. Flat!Effects(flatSnapshot, IF network = w THEN None ELSE w, FALSE) /\ sized' = sized
    BY <1>5, Zenon DEF Flat!ChooseNetwork, Flat!Chip
  <2>2. FALSE \in BOOLEAN
    OBVIOUS
  <2>. QED BY <1>1, <1>2, <2>1, <2>2, Zenon
<1>6. CASE Flat!Resize
  <2>1. Flat!Effects(flatSnapshot, network, impact) /\ sized' = TRUE
    BY <1>6, Zenon DEF Flat!Resize
  <2>2. sized' \in BOOLEAN
    BY <2>1
  <2>. QED BY <1>1, <1>2, <2>1, <2>2, Zenon
<1>7. CASE Flat!ResetNetwork
  <2>1. Flat!Effects(flatSnapshot, None, impact) /\ sized' = sized
    BY <1>7, Zenon DEF Flat!ResetNetwork
  <2>. QED BY <1>1, <1>2, <2>1, Zenon
<1>8. CASE Flat!ToggleImpactMode
  <2>1. Flat!Effects(flatSnapshot, None, ~impact) /\ sized' = sized
    BY <1>8, Zenon DEF Flat!ToggleImpactMode
  <2>2. (~impact) \in BOOLEAN
    OBVIOUS
  <2>. QED BY <1>1, <1>2, <2>1, <2>2, Zenon
<1>9. Flat!Visible \subseteq Flat!AllIds /\ Flat!Scoped(flatSnapshot) \subseteq Flat!AllIds
  BY <1>1, ScopedThere DEF Flat!Visible
<1>10. ASSUME UNCHANGED <<flatSnapshot, sized, fitted>>, impact' \in {impact, FALSE},
              camera' \in [by : {"none", "fit", "user", "focus"}, on : SUBSET Flat!AllIds]
       PROVE  FlatTypes'
  <2>1. impact' \in BOOLEAN
    BY <1>1, <1>10
  <2>. QED BY <1>1, <1>10, <2>1, Zenon DEF FlatTypes, Flat!AllIds
<1>11. CASE Flat!ResetCamera
  <2>1. UNCHANGED <<flatSnapshot, sized, fitted>> /\ impact' = FALSE /\ camera' = Flat!Fit(Flat!Scoped(flatSnapshot))
    BY <1>11, Zenon DEF Flat!ResetCamera
  <2>. QED BY <1>9, <1>10, <2>1, CameraTyped
<1>12. CASE Flat!ZoomToFit
  <2>1. UNCHANGED <<flatSnapshot, sized, fitted, impact>> /\ camera' = Flat!Fit(Flat!Visible)
    BY <1>12, Zenon DEF Flat!ZoomToFit
  <2>. QED BY <1>9, <1>10, <2>1, CameraTyped
<1>13. CASE Flat!MoveCamera
  <2>1. UNCHANGED <<flatSnapshot, sized, fitted, impact>> /\ camera' = [by |-> "user", on |-> {}]
    BY <1>13, Zenon DEF Flat!MoveCamera
  <2>2. camera' \in [by : {"none", "fit", "user", "focus"}, on : SUBSET Flat!AllIds]
    BY <2>1
  <2>. QED BY <1>10, <2>1, <2>2
<1>14. CASE Flat!CenterOnNode
  <2>1. UNCHANGED <<flatSnapshot, sized, fitted, impact>>
        /\ camera' = [by |-> "focus", on |-> {Flat!Selected(flatSnapshot)}] /\ Flat!Selected(flatSnapshot) \in Flat!Visible
    BY <1>14, Zenon DEF Flat!CenterOnNode
  <2>2. camera' \in [by : {"none", "fit", "user", "focus"}, on : SUBSET Flat!AllIds]
    BY <1>9, <2>1
  <2>. QED BY <1>10, <2>1, <2>2
<1>15. CASE UNCHANGED Flat!vars
  BY <1>15 DEF Flat!vars, FlatTypes
<1>. QED BY <1>3, <1>4, <1>5, <1>6, <1>7, <1>8, <1>11, <1>12, <1>13, <1>14, <1>15 DEF Flat!Next

\* The cluster, its changes and the kinds that it refuses.
ClusterTypes ==
  /\ DOMAIN cluster \subseteq DOMAIN ClusterObjects /\ clusterChanges \in 0..MaxClusterChanges
  /\ refused \subseteq Cluster!Kinds /\ still \in BOOLEAN /\ nodeActions \in 0..MaxNodeActions

\* With the invariant, these are all the types of the Kubernetes graph.
LEMMA ClusterIsTyped ==
  ASSUME ClusterInv, ClusterTypes PROVE Cluster!TypeOK
<1>1. kindLists # <<>> => DOMAIN kindLists = Cluster!Kinds
  BY DEF ClusterInv, ListsInv
<1>. QED BY <1>1, Zenon DEF ClusterTypes, Cluster!TypeOK

\* The first cluster is one of those that are given.
LEMMA ClusterBeginsTyped ==
  ASSUME Cluster!Init PROVE ClusterTypes
<1>1. \A c \in ClusterStates : DOMAIN c \subseteq DOMAIN ClusterObjects
  BY PluginAssumption, Zenon DEF ClustersAreSound
<1>2. 0 \in 0..MaxClusterChanges /\ 0 \in 0..MaxNodeActions
  BY LimitsAssumption
<1>. QED BY <1>1, <1>2 DEF Cluster!Init, ClusterTypes

\* Each step of the cluster and of its lists keeps them.
LEMMA ClusterStaysTyped ==
  ASSUME ClusterTypes, Cluster!Next \/ UNCHANGED Cluster!vars PROVE ClusterTypes'
<1>1. MaxClusterChanges \in Nat /\ MaxNodeActions \in Nat /\ \A r \in RefusedKinds : r \subseteq Cluster!Kinds
  BY LimitsAssumption
<1>2. \A c \in ClusterStates : DOMAIN c \subseteq DOMAIN ClusterObjects
  BY PluginAssumption, Zenon DEF ClustersAreSound
<1>3. CASE Cluster!Collect
  BY <1>1, <1>3 DEF Cluster!Collect, ClusterTypes
<1>4. CASE Cluster!BuildGraph \/ \E k \in Cluster!Kinds : Cluster!List(k)
  BY <1>4 DEF Cluster!BuildGraph, Cluster!List, ClusterTypes
<1>5. ASSUME NEW c \in ClusterStates, Cluster!Change(c) PROVE ClusterTypes'
  <2>1. clusterChanges' \in 0..MaxClusterChanges
    BY <1>1, <1>5 DEF Cluster!Change, ClusterTypes
  <2>. QED BY <1>2, <1>5, <2>1 DEF Cluster!Change, ClusterTypes
<1>6. ASSUME NEW n, NEW action, NEW input, Cluster!RunAction(n, action, input) PROVE ClusterTypes'
  <2>1. nodeActions' \in 0..MaxNodeActions /\ UNCHANGED <<clusterChanges, refused, still>>
    BY <1>1, <1>6 DEF Cluster!RunAction, ClusterTypes
  <2>2. DOMAIN cluster' \subseteq DOMAIN cluster
    <3>1. \A S : DOMAIN Cluster!Patched(S, action, input) \subseteq DOMAIN cluster
      BY DEF Cluster!Patched
    <3>. QED BY <1>6, <3>1 DEF Cluster!RunAction
  <2>. QED BY <2>1, <2>2 DEF ClusterTypes
<1>7. CASE UNCHANGED Cluster!vars
  BY <1>7 DEF Cluster!vars, ClusterTypes
<1>. QED BY <1>3, <1>4, <1>5, <1>6, <1>7 DEF Cluster!Next

-----------------------------------------------------------------------------
(* The types of the endpoints.                                             *)

\* The invariant has the types.
LEMMA ChecksAreTyped ==
  ASSUME ChecksInv PROVE Checks!TypeOK
<1>1. \A m \in DOMAIN mutations : mutations[m].at \in {"queued", "writing", "written"}
  <2>1. mutations \in Seq(Mutation)
    BY DEF ChecksInv, ChangesTyped
  <2>2. \A m \in DOMAIN mutations : mutations[m] \in Mutation
    BY <2>1
  <2>. QED BY <2>2 DEF Mutation
<1>2. flight # None => flight.left \cup flight.probing \subseteq EndpointIds /\ flight.owner \in refreshers
  <2>1. flight # None => flight \in Flight /\ flight.owner \in refreshers
    BY DEF ChecksInv, ListTyped
  <2>. QED BY <2>1 DEF Flight
<1>. QED BY <1>1, <1>2, Zenon DEF ChecksInv, ListTyped, Checks!TypeOK

=============================================================================
