---------------------------- MODULE EvidenceProofs ----------------------------
(***************************************************************************)
(* Facts about the operators of Evidence, for any knowledge base: the      *)
(* choices the selection rules make are well defined, the closing slice    *)
(* respects its length, and eviction under the cap reaches its last resort *)
(* only when there is no room for one chunk per category.                  *)
(***************************************************************************)
EXTENDS Evidence, LeastElements, FiniteSetTheorems, TLAPS

(***************************************************************************)
(* The rules of Evidence as relations, and what makes them orders.         *)
(***************************************************************************)

PrecedesRel == {p \in Chunks \X Chunks : Precedes(p[1], p[2])}

\* Ranking by distance, then by place, orders any two different chunks.
LEMMA PrecedesIsAnOrder ==
    /\ \A c, d \in Chunks : c # d => Precedes(c, d) \/ Precedes(d, c)
    /\ \A c \in Chunks : ~ Precedes(c, c)
    /\ \A c, d, e \in Chunks : Precedes(c, d) /\ Precedes(d, e) => Precedes(c, e)
BY EvidenceAssumption DEF Precedes

\* A nonempty set of stored chunks has a first chunk (main.py:969: the loop
\* over the evidence finds one whenever a chunk qualifies).
LEMMA FirstExists ==
    ASSUME NEW S \in SUBSET Chunks, S # {}
    PROVE  First(S) \in S /\ \A d \in S \ {First(S)} : Precedes(First(S), d)
<1>1. IsFiniteSet(S)
  BY FS_Subset, EvidenceAssumption
<1>2. \E a \in S : \A b \in S \ {a} : <<a, b>> \in PrecedesRel
  <2>1. \A a, b \in S : a # b => <<a, b>> \in PrecedesRel \/ <<b, a>> \in PrecedesRel
    BY PrecedesIsAnOrder DEF PrecedesRel
  <2>2. \A a \in S : <<a, a>> \notin PrecedesRel
    BY PrecedesIsAnOrder DEF PrecedesRel
  <2>3. \A a, b, c \in S :
            <<a, b>> \in PrecedesRel /\ <<b, c>> \in PrecedesRel => <<a, c>> \in PrecedesRel
    BY PrecedesIsAnOrder DEF PrecedesRel
  <2>4. QED BY <1>1, <2>1, <2>2, <2>3, LeastElement
<1>3. \E a \in S : \A b \in S \ {a} : Precedes(a, b)
  BY <1>2 DEF PrecedesRel
<1>4. QED BY <1>3 DEF First

(***************************************************************************)
(* The closing slice.                                                      *)
(***************************************************************************)

Earlier(S, c) == {d \in S : Precedes(d, c)}

\* A later chunk has strictly more chunks before it.
LEMMA RankIsMonotone ==
    ASSUME NEW S \in SUBSET Chunks, NEW c \in S, NEW d \in S, Precedes(c, d)
    PROVE  /\ Cardinality(Earlier(S, c)) \in Nat
           /\ Cardinality(Earlier(S, d)) \in Nat
           /\ Cardinality(Earlier(S, c)) < Cardinality(Earlier(S, d))
<1>1. IsFiniteSet(S)
  BY FS_Subset, EvidenceAssumption
<1>2. IsFiniteSet(Earlier(S, c)) /\ IsFiniteSet(Earlier(S, d))
  BY <1>1, FS_Subset DEF Earlier
<1>3. Earlier(S, c) \subseteq Earlier(S, d)
  BY PrecedesIsAnOrder DEF Earlier
<1>4. c \in Earlier(S, d) /\ c \notin Earlier(S, c)
  BY PrecedesIsAnOrder DEF Earlier
<1>5. /\ Cardinality(Earlier(S, c)) <= Cardinality(Earlier(S, d))
      /\ Cardinality(Earlier(S, d)) # Cardinality(Earlier(S, c))
  BY <1>2, <1>3, <1>4, FS_Subset
<1>6. QED BY <1>2, <1>5, FS_CardinalityType

\* working[:n] keeps at most n chunks (retrieval.py:933).
LEMMA TopIsBounded ==
    ASSUME NEW S \in SUBSET Chunks, NEW n \in Nat
    PROVE  /\ Top(S, n) \subseteq S
           /\ IsFiniteSet(Top(S, n))
           /\ Cardinality(Top(S, n)) \in Nat
           /\ Cardinality(Top(S, n)) <= n
<1> DEFINE rank == [c \in Top(S, n) |-> Cardinality(Earlier(S, c))]
<1>1. IsFiniteSet(S)
  BY FS_Subset, EvidenceAssumption
<1>2. Top(S, n) \subseteq S
  BY DEF Top
<1>3. \A c \in Top(S, n) : Cardinality(Earlier(S, c)) \in 0..(n - 1)
  <2>1. \A c \in S : IsFiniteSet(Earlier(S, c))
    BY <1>1, FS_Subset DEF Earlier
  <2>2. \A c \in S : Cardinality(Earlier(S, c)) \in Nat
    BY <2>1, FS_CardinalityType
  <2>3. \A c \in Top(S, n) : Cardinality(Earlier(S, c)) < n
    BY DEF Top, Earlier
  <2>4. QED BY <2>2, <2>3, <1>2
<1>4. rank \in Injection(Top(S, n), 0..(n - 1))
  <2>1. rank \in [Top(S, n) -> 0..(n - 1)]
    BY <1>3
  <2>2. ASSUME NEW c \in Top(S, n), NEW d \in Top(S, n), rank[c] = rank[d], c # d
        PROVE  FALSE
    <3>1. CASE Precedes(c, d)
      BY <3>1, <2>2, <1>2, RankIsMonotone
    <3>2. CASE Precedes(d, c)
      BY <3>2, <2>2, <1>2, RankIsMonotone
    <3>3. QED BY <3>1, <3>2, <2>2, <1>2, PrecedesIsAnOrder
  <2>3. QED BY <2>1, <2>2 DEF Injection, IsInjective
<1>5. IsFiniteSet(0..(n - 1)) /\ Cardinality(0..(n - 1)) = n
  BY FS_Interval
<1>6. QED
  <2> HIDE DEF rank
  <2>1. IsFiniteSet(Top(S, n)) /\ Cardinality(Top(S, n)) <= n
    BY <1>4, <1>5, FS_Injection
  <2>2. QED BY <2>1, <1>2, FS_CardinalityType

\* Slicing to at least the number of chunks there are drops none.
LEMMA TopKeepsAll ==
    ASSUME NEW S \in SUBSET Chunks, NEW n \in Nat, Cardinality(S) <= n
    PROVE  Top(S, n) = S
<1>1. IsFiniteSet(S)
  BY FS_Subset, EvidenceAssumption
<1>2. ASSUME NEW c \in S
      PROVE  Cardinality(Earlier(S, c)) < n
  <2>1. Earlier(S, c) \subseteq S /\ c \notin Earlier(S, c)
    BY PrecedesIsAnOrder DEF Earlier
  <2>2. IsFiniteSet(Earlier(S, c)) /\ Cardinality(Earlier(S, c)) <= Cardinality(S)
        /\ Cardinality(Earlier(S, c)) # Cardinality(S)
    BY <1>1, <2>1, FS_Subset
  <2>3. QED BY <1>1, <2>2, FS_CardinalityType
<1>3. QED BY <1>2 DEF Top, Earlier

\* A slice to one or more of a nonempty set is not empty.
LEMMA TopIsNonempty ==
    ASSUME NEW S \in SUBSET Chunks, S # {}, NEW n \in Nat \ {0}
    PROVE  Top(S, n) # {}
<1>1. First(S) \in S /\ \A d \in S \ {First(S)} : Precedes(First(S), d)
  BY FirstExists
<1>2. Earlier(S, First(S)) = {}
  BY <1>1, PrecedesIsAnOrder DEF Earlier
<1>3. Cardinality(Earlier(S, First(S))) = 0
  BY <1>2, FS_EmptySet
<1>4. First(S) \in Top(S, n)
  BY <1>1, <1>3 DEF Top, Earlier
<1>5. QED BY <1>4

(***************************************************************************)
(* Eviction.                                                               *)
(***************************************************************************)

EvictedBeforeRel(prov, routed, W) ==
    {p \in W \X W : EvictedBefore(prov, routed, W, p[1], p[2])}

\* The eviction loop removes one of its candidates, an unpinned chunk.
LEMMA VictimExists ==
    ASSUME NEW W \in SUBSET Chunks, NEW prov, NEW routed, Unpinned(prov, W) # {}
    PROVE  /\ Victim(prov, routed, W) \in EvictionCandidates(prov, routed, W)
           /\ Victim(prov, routed, W) \in Unpinned(prov, W)
<1> DEFINE S == EvictionCandidates(prov, routed, W)
           R == EvictedBeforeRel(prov, routed, W)
<1>1. IsFiniteSet(W)
  BY FS_Subset, EvidenceAssumption
<1>2. S \subseteq Unpinned(prov, W) /\ S # {}
  BY DEF EvictionCandidates
<1>3. S \subseteq W /\ IsFiniteSet(S)
  BY <1>1, <1>2, FS_Subset DEF Unpinned
<1>4. \A c \in W : Representation(prov, routed, W, c) \in Nat
  <2>1. \A c \in W : IsFiniteSet({d \in W : prov[d].origin = prov[c].origin})
    BY <1>1, FS_Subset
  <2>2. \A c \in W : Cardinality({d \in W : prov[d].origin = prov[c].origin}) \in Nat
    BY <2>1, FS_CardinalityType
  <2>3. QED BY <2>2 DEF Representation
<1>5. \A c \in W : c \in Nat /\ Dist[c] \in Nat
  BY EvidenceAssumption
<1>6. \A a, b \in S : a # b => <<a, b>> \in R \/ <<b, a>> \in R
  BY <1>3, <1>4, <1>5 DEF EvictedBeforeRel, EvictedBefore
<1>7. \A a \in S : <<a, a>> \notin R
  BY <1>3, <1>4, <1>5 DEF EvictedBeforeRel, EvictedBefore
<1>8. \A a, b, c \in S : <<a, b>> \in R /\ <<b, c>> \in R => <<a, c>> \in R
  BY <1>3, <1>4, <1>5 DEF EvictedBeforeRel, EvictedBefore
<1>9. \E a \in S : \A b \in S \ {a} : <<a, b>> \in R
  <2> HIDE DEF S, R
  <2>1. QED BY <1>2, <1>3, <1>6, <1>7, <1>8, LeastElement
<1>10. \E a \in S : \A b \in S \ {a} : EvictedBefore(prov, routed, W, a, b)
  BY <1>9 DEF EvictedBeforeRel
<1>11. Victim(prov, routed, W) \in S
  BY <1>10 DEF Victim
<1>12. QED BY <1>2, <1>11

\* When every unpinned chunk is the last to cover some routed category, there
\* are at most as many of them as routed categories: each covers one that no
\* other does.
LEMMA SoleCoversAreFew ==
    ASSUME NEW W \in SUBSET Chunks, NEW prov, NEW routed \in Seq(RoutedCategory),
           \A c \in Unpinned(prov, W) : SoleCover(prov, routed, W, c)
    PROVE  Cardinality(Unpinned(prov, W)) <= Len(routed)
<1> DEFINE Alone(c, i) ==
               /\ routed[i].category \in prov[c].origins
               /\ \A d \in W \ {c} : routed[i].category \notin prov[d].origins
           place == [c \in Unpinned(prov, W) |-> CHOOSE i \in 1..Len(routed) : Alone(c, i)]
<1>1. \A c \in Unpinned(prov, W) : \E i \in 1..Len(routed) : Alone(c, i)
  <2>1. SUFFICES ASSUME NEW c \in Unpinned(prov, W)
                 PROVE  \E i \in 1..Len(routed) : Alone(c, i)
    OBVIOUS
  <2>2. PICK o \in CategoriesOf(routed) :
            o \in prov[c].origins /\ \A d \in W \ {c} : o \notin prov[d].origins
    BY <2>1 DEF SoleCover, Present
  <2>3. PICK i \in DOMAIN routed : o = routed[i].category
    BY DEF CategoriesOf
  <2>4. QED BY <2>2, <2>3
<1>2. \A c \in Unpinned(prov, W) : place[c] \in 1..Len(routed) /\ Alone(c, place[c])
  BY <1>1
<1>3. place \in Injection(Unpinned(prov, W), 1..Len(routed))
  <2>1. place \in [Unpinned(prov, W) -> 1..Len(routed)]
    BY <1>2
  <2>2. ASSUME NEW c \in Unpinned(prov, W), NEW d \in Unpinned(prov, W),
               place[c] = place[d], c # d
        PROVE  FALSE
    <3>1. Alone(c, place[c]) /\ Alone(d, place[c])
      BY <1>2, <2>2
    <3>2. d \in W \ {c}
      BY <2>2 DEF Unpinned
    <3> HIDE DEF place
    <3>3. QED BY <3>1, <3>2
  <2>3. QED BY <2>1, <2>2 DEF Injection, IsInjective
<1>4. IsFiniteSet(1..Len(routed)) /\ Cardinality(1..Len(routed)) = Len(routed)
  <2>1. Len(routed) \in Nat
    OBVIOUS
  <2>2. QED BY <2>1, FS_Interval
<1>5. QED
  <2> HIDE DEF place
  <2>1. QED BY <1>3, <1>4, FS_Injection

\* Over a cap that has room for the pinned chunks and one chunk per routed
\* category, the victim is never the last chunk to cover a category: the last
\* resort of retrieval.py:917 is not taken.
LEMMA VictimIsRedundant ==
    ASSUME NEW W \in SUBSET Chunks, NEW prov, NEW routed \in Seq(RoutedCategory),
           NEW P \in SUBSET Chunks, W \ Unpinned(prov, W) \subseteq P,
           NEW cap \in Nat, Cardinality(W) > cap, Cardinality(P) + Len(routed) <= cap
    PROVE  ~ SoleCover(prov, routed, W, Victim(prov, routed, W))
<1> DEFINE U == Unpinned(prov, W)
<1>1. IsFiniteSet(W) /\ IsFiniteSet(P) /\ U \subseteq W /\ IsFiniteSet(U)
  BY FS_Subset, EvidenceAssumption DEF Unpinned
<1>2. Cardinality(W) = Cardinality(U) + Cardinality(W \ U)
  <2>1. W \cap U = U
    BY <1>1
  <2>2. Cardinality(W \ U) = Cardinality(W) - Cardinality(W \cap U)
    BY <1>1, FS_Difference
  <2>3. Cardinality(W) \in Nat /\ Cardinality(U) \in Nat
    BY <1>1, FS_CardinalityType
  <2>4. Cardinality(W \ U) = Cardinality(W) - Cardinality(U)
    BY <2>1, <2>2, Zenon
  <2> HIDE DEF U
  <2>5. QED BY <2>3, <2>4
<1>3. Cardinality(W \ U) <= Cardinality(P)
  BY <1>1, FS_Subset
<1>4. /\ Cardinality(W) \in Nat /\ Cardinality(U) \in Nat /\ Cardinality(P) \in Nat
      /\ Cardinality(W \ U) \in Nat
  BY <1>1, FS_CardinalityType, FS_Difference
<1>5. Cardinality(U) > Len(routed)
  <2> HIDE DEF U
  <2>1. QED BY <1>2, <1>3, <1>4
<1>6. ~ \A c \in U : SoleCover(prov, routed, W, c)
  BY <1>5, <1>4, SoleCoversAreFew
<1>7. EvictionCandidates(prov, routed, W) = {c \in U : ~ SoleCover(prov, routed, W, c)}
  BY <1>6 DEF EvictionCandidates
<1>8. Unpinned(prov, W) # {}
  BY <1>6
<1>9. QED BY <1>7, <1>8, VictimExists

\* Removing a redundant chunk uncovers nothing.
LEMMA CoverageKept ==
    ASSUME NEW W, NEW prov, NEW routed, NEW c \in W,
           ~ SoleCover(prov, routed, W, c),
           Present(prov, routed) \subseteq OriginsOf(prov, W)
    PROVE  Present(prov, routed) \subseteq OriginsOf(prov, W \ {c})
BY DEF SoleCover, OriginsOf

(***************************************************************************)
(* Budgets.                                                                *)
(***************************************************************************)

Distinct(routed) ==
    \A i, j \in DOMAIN routed : routed[i].category = routed[j].category => i = j

LEMMA RankIsNatural == \A c \in Confidence : ConfidenceRank(c) \in Nat
BY DEF Confidence, ConfidenceRank

\* Routed categories have a rank.
LEMMA RoutedHaveRanks ==
    ASSUME NEW routed \in Seq(RoutedCategory)
    PROVE  \A i \in DOMAIN routed : ConfidenceRank(routed[i].confidence) \in Nat
<1>1. \A i \in DOMAIN routed : routed[i] \in RoutedCategory
  OBVIOUS
<1>2. \A i \in DOMAIN routed : routed[i].confidence \in Confidence
  BY <1>1 DEF RoutedCategory
<1>3. QED BY <1>2, RankIsNatural

Leads(rank, size, name, a, b) ==
    \/ rank[a] < rank[b]
    \/ rank[a] = rank[b] /\ size[a] > size[b]
    \/ rank[a] = rank[b] /\ size[a] = size[b] /\ name[a] < name[b]

\* Comparing three keys in turn, the last of which is never equal, finds a
\* first element: smallest rank, then largest size, then smallest name.
LEMMA LexicographicLeast ==
    ASSUME NEW S, IsFiniteSet(S), S # {},
           NEW rank \in [S -> Nat], NEW size \in [S -> Nat], NEW name \in [S -> Nat],
           \A a, b \in S : a # b => name[a] # name[b]
    PROVE  \E a \in S : \A b \in S \ {a} : Leads(rank, size, name, a, b)
<1> DEFINE R == {p \in S \X S : Leads(rank, size, name, p[1], p[2])}
<1>1. \A a \in S : rank[a] \in Nat /\ size[a] \in Nat /\ name[a] \in Nat
  OBVIOUS
<1>2. \A a, b \in S : a # b => <<a, b>> \in R \/ <<b, a>> \in R
  BY <1>1 DEF Leads
<1>3. \A a \in S : <<a, a>> \notin R
  BY <1>1 DEF Leads
<1>4. \A a, b, c \in S : <<a, b>> \in R /\ <<b, c>> \in R => <<a, c>> \in R
  BY <1>1 DEF Leads
<1>5. PICK a \in S : \A b \in S \ {a} : <<a, b>> \in R
  <2> HIDE DEF R
  <2>1. QED BY <1>2, <1>3, <1>4, LeastElement
<1>6. ASSUME NEW b \in S \ {a}
      PROVE  Leads(rank, size, name, a, b)
  <2>1. <<a, b>> \in R
    BY <1>5
  <2>2. QED BY <2>1 DEF Leads
<1>7. QED BY <1>6

\* The clamp finds a budget to lower whenever one is above one, because the
\* admitted categories are distinct, and the one it takes is the least
\* confident of those it could lower (main.py:463).
LEMMA NextReducedExists ==
    ASSUME NEW routed \in Seq(RoutedCategory), Distinct(routed),
           NEW budgets \in Seq(Nat), Len(budgets) = Len(routed),
           Reducible(budgets) # {}
    PROVE  /\ NextReduced(routed, budgets) \in Reducible(budgets)
           /\ \A j \in Reducible(budgets) \ {NextReduced(routed, budgets)} :
                  ReducedBefore(routed, budgets, NextReduced(routed, budgets), j)
<1> DEFINE S == Reducible(budgets)
           rank == [i \in S |-> ConfidenceRank(routed[i].confidence)]
           size == [i \in S |-> budgets[i]]
           name == [i \in S |-> routed[i].category]
<1>1. S \subseteq 1..Len(budgets) /\ IsFiniteSet(S) /\ S # {}
  <2>1. Len(budgets) \in Nat
    OBVIOUS
  <2>2. IsFiniteSet(1..Len(budgets))
    BY <2>1, FS_Interval
  <2>3. S \subseteq 1..Len(budgets)
    BY DEF Reducible
  <2>4. QED BY <2>2, <2>3, FS_Subset
<1>2. \A i \in DOMAIN routed :
          ConfidenceRank(routed[i].confidence) \in Nat /\ routed[i].category \in Nat
  <2>1. \A i \in DOMAIN routed : routed[i] \in RoutedCategory
    OBVIOUS
  <2>2. \A i \in DOMAIN routed :
            routed[i].confidence \in Confidence /\ routed[i].category \in Nat
    BY <2>1, EvidenceAssumption DEF RoutedCategory
  <2>3. QED BY <2>2, RankIsNatural
<1>3. S \subseteq DOMAIN routed /\ \A i \in S : budgets[i] \in Nat
  BY <1>1
<1>4. rank \in [S -> Nat] /\ size \in [S -> Nat] /\ name \in [S -> Nat]
  <2> HIDE DEF S
  <2>1. QED BY <1>2, <1>3
<1>5. \A a, b \in S : a # b => name[a] # name[b]
  <2> HIDE DEF S
  <2>1. QED BY <1>3 DEF Distinct
<1>6. \E a \in S : \A b \in S \ {a} : Leads(rank, size, name, a, b)
  <2> HIDE DEF S, rank, size, name
  <2>1. QED BY <1>1, <1>4, <1>5, LexicographicLeast
<1>7. \E a \in S : \A b \in S \ {a} : ReducedBefore(routed, budgets, a, b)
  <2> HIDE DEF S
  <2>1. QED BY <1>6 DEF Leads, ReducedBefore
<1>8. QED BY <1>7 DEF NextReduced

\* Bounded budgets have finitely many units to count.
LEMMA UnitsAreFinite ==
    ASSUME NEW N \in Nat, NEW budgets \in Seq(1..N)
    PROVE  IsFiniteSet(Units(budgets))
<1>1. Units(budgets) \subseteq (1..Len(budgets)) \X (1..N)
  BY DEF Units
<1>2. IsFiniteSet(1..Len(budgets)) /\ IsFiniteSet(1..N)
  <2>1. Len(budgets) \in Nat
    OBVIOUS
  <2>2. QED BY <2>1, FS_Interval
<1>3. IsFiniteSet((1..Len(budgets)) \X (1..N))
  BY <1>2, FS_Product
<1>4. QED BY <1>1, <1>3, FS_Subset

\* The sum of bounded budgets is a number.
LEMMA TotalIsNatural ==
    ASSUME NEW N \in Nat, NEW budgets \in Seq(1..N)
    PROVE  Total(budgets) \in Nat
BY UnitsAreFinite, FS_CardinalityType DEF Total

\* Nothing to lower means one chunk for every category.
LEMMA TotalOfOnes ==
    ASSUME NEW budgets \in Seq(Nat \ {0}), Reducible(budgets) = {}
    PROVE  Total(budgets) = Len(budgets) /\ \A i \in DOMAIN budgets : budgets[i] = 1
<1>1. \A i \in DOMAIN budgets : budgets[i] = 1
  BY DEF Reducible
<1>2. Units(budgets) = (1..Len(budgets)) \X {1}
  BY <1>1 DEF Units
<1>3. /\ IsFiniteSet(1..Len(budgets)) /\ Cardinality(1..Len(budgets)) = Len(budgets)
      /\ IsFiniteSet({1}) /\ Cardinality({1}) = 1
      /\ Len(budgets) \in Nat
  <2>1. Len(budgets) \in Nat
    OBVIOUS
  <2>2. IsFiniteSet(1..Len(budgets)) /\ Cardinality(1..Len(budgets)) = Len(budgets)
    BY <2>1, FS_Interval
  <2>3. IsFiniteSet({1}) /\ Cardinality({1}) = 1
    BY FS_Singleton, Zenon
  <2>4. QED BY <2>1, <2>2, <2>3
<1>4. Cardinality((1..Len(budgets)) \X {1}) = Len(budgets) * 1
  BY <1>3, FS_Product
<1>5. QED BY <1>1, <1>2, <1>3, <1>4 DEF Total

\* Each turn of the clamp takes one from the sum.
LEMMA TotalIsLowered ==
    ASSUME NEW N \in Nat, NEW budgets \in Seq(1..N), NEW i \in Reducible(budgets)
    PROVE  Total([budgets EXCEPT ![i] = @ - 1]) = Total(budgets) - 1
<1> DEFINE lowered == [budgets EXCEPT ![i] = @ - 1]
<1>1. i \in DOMAIN budgets /\ budgets[i] \in Nat /\ budgets[i] > 1
  BY DEF Reducible
<1>2. \A x : x \in Units(budgets) <=> \E j \in DOMAIN budgets : \E n \in 1..budgets[j] : x = <<j, n>>
  BY DEF Units
<1>3. \A x : x \in Units(lowered) <=> \E j \in DOMAIN budgets : \E n \in 1..lowered[j] : x = <<j, n>>
  BY DEF Units
<1>4. lowered[i] = budgets[i] - 1 /\ \A j \in DOMAIN budgets \ {i} : lowered[j] = budgets[j]
  BY <1>1
<1> HIDE DEF lowered
<1>5. Units(lowered) = Units(budgets) \ {<<i, budgets[i]>>}
  <2>1. ASSUME NEW x
        PROVE  x \in Units(lowered) <=> x \in Units(budgets) /\ x # <<i, budgets[i]>>
    <3>1. ASSUME NEW j \in DOMAIN budgets, NEW n
          PROVE  n \in 1..lowered[j] <=> n \in 1..budgets[j] /\ ~(j = i /\ n = budgets[i])
      BY <1>1, <1>4
    <3>2. ASSUME x \in Units(lowered) PROVE x \in Units(budgets) /\ x # <<i, budgets[i]>>
      <4>1. PICK j \in DOMAIN budgets : \E n \in 1..lowered[j] : x = <<j, n>>
        BY <1>3, <3>2
      <4>2. PICK n \in 1..lowered[j] : x = <<j, n>>
        BY <4>1
      <4>3. n \in 1..budgets[j] /\ ~(j = i /\ n = budgets[i])
        BY <3>1, <4>2
      <4>4. QED BY <1>2, <4>2, <4>3
    <3>3. ASSUME x \in Units(budgets), x # <<i, budgets[i]>> PROVE x \in Units(lowered)
      <4>1. PICK j \in DOMAIN budgets : \E n \in 1..budgets[j] : x = <<j, n>>
        BY <1>2, <3>3
      <4>2. PICK n \in 1..budgets[j] : x = <<j, n>>
        BY <4>1
      <4>3. n \in 1..lowered[j]
        BY <3>1, <3>3, <4>2
      <4>4. QED BY <1>3, <4>2, <4>3
    <3>4. QED BY <3>2, <3>3
  <2>2. QED BY <2>1
<1>6. <<i, budgets[i]>> \in Units(budgets)
  BY <1>1, <1>2
<1>7. IsFiniteSet(Units(budgets))
  BY UnitsAreFinite
<1>8. Cardinality(Units(budgets) \ {<<i, budgets[i]>>}) = Cardinality(Units(budgets)) - 1
  BY <1>6, <1>7, FS_RemoveElement
<1>9. QED BY <1>5, <1>8 DEF Total, lowered

(***************************************************************************)
(* Merging.                                                                *)
(***************************************************************************)

\* The merge attributes every chunk of the passes to a routed category that
\* retrieved it, and keeps that category among its origins.
LEMMA MergeIsSound ==
    ASSUME NEW routed \in Seq(RoutedCategory), NEW retrieved \in Seq(SUBSET Chunks),
           Len(retrieved) <= Len(routed)
    PROVE  /\ DOMAIN MergeDedup(routed, retrieved) = UNION Range(retrieved)
           /\ MergeDedup(routed, retrieved) \in [UNION Range(retrieved) -> Provenance]
           /\ \A c \in UNION Range(retrieved) :
                  LET p == MergeDedup(routed, retrieved)[c]
                  IN  /\ p.origin \in p.origins
                      /\ p.origin \in CategoriesOf(routed)
                      /\ ~ p.pinned
<1> DEFINE passes(c) == {i \in DOMAIN retrieved : c \in retrieved[i]}
           first(c) == CHOOSE i \in passes(c) : \A j \in passes(c) : i <= j
           less == {p \in Nat \X Nat : p[1] < p[2]}
<1>1. ASSUME NEW c \in UNION Range(retrieved)
      PROVE  first(c) \in passes(c)
  <2>1. passes(c) # {} /\ passes(c) \subseteq 1..Len(retrieved)
    BY <1>1 DEF Range
  <2>2. IsFiniteSet(passes(c)) /\ passes(c) \subseteq Nat
    <3>1. Len(retrieved) \in Nat
      OBVIOUS
    <3>2. IsFiniteSet(1..Len(retrieved))
      BY <3>1, FS_Interval
    <3>3. QED BY <2>1, <3>1, <3>2, FS_Subset
  <2>3. \E a \in passes(c) : \A b \in passes(c) \ {a} : <<a, b>> \in less
    <3> DEFINE S == passes(c)
    <3>1. \A a, b \in S : a # b => <<a, b>> \in less \/ <<b, a>> \in less
      BY <2>2
    <3>2. \A a \in S : <<a, a>> \notin less
      BY <2>2
    <3>3. \A a, b, d \in S : <<a, b>> \in less /\ <<b, d>> \in less => <<a, d>> \in less
      BY <2>2
    <3>4. S # {} /\ IsFiniteSet(S)
      BY <2>1, <2>2
    <3> HIDE DEF S, less
    <3>5. \E a \in S : \A b \in S \ {a} : <<a, b>> \in less
      BY <3>1, <3>2, <3>3, <3>4, LeastElement
    <3>6. QED BY <3>5 DEF S
  <2>4. \E a \in passes(c) : \A b \in passes(c) : a <= b
    <3>1. PICK a \in passes(c) : \A b \in passes(c) \ {a} : <<a, b>> \in less
      BY <2>3
    <3>2. ASSUME NEW b \in passes(c)
          PROVE  a <= b
      <4>1. a \in Nat /\ b \in Nat
        BY <2>2
      <4>2. b # a => <<a, b>> \in less
        BY <3>1
      <4>3. QED BY <4>1, <4>2
    <3>3. QED BY <3>2
  <2> HIDE DEF passes
  <2>5. QED BY <2>4
<1>2. ASSUME NEW c \in UNION Range(retrieved)
      PROVE  first(c) \in DOMAIN routed /\ routed[first(c)] \in RoutedCategory
  <2>1. first(c) \in DOMAIN retrieved
    BY <1>1, <1>2
  <2> HIDE DEF first
  <2>2. first(c) \in DOMAIN routed
    BY <2>1
  <2>3. QED BY <2>2
<1>3. MergeDedup(routed, retrieved) =
          [c \in UNION Range(retrieved) |->
              [origin  |-> routed[first(c)].category,
               origins |-> {routed[i].category : i \in passes(c)},
               pinned  |-> FALSE]]
  BY DEF MergeDedup
<1>4. ASSUME NEW c \in UNION Range(retrieved)
      PROVE  /\ MergeDedup(routed, retrieved)[c] \in Provenance
             /\ LET p == MergeDedup(routed, retrieved)[c]
                IN  /\ p.origin \in p.origins
                    /\ p.origin \in CategoriesOf(routed)
                    /\ ~ p.pinned
  <2>1. first(c) \in passes(c) /\ first(c) \in DOMAIN routed
    BY <1>1, <1>2
  <2>2. \A i \in DOMAIN routed : routed[i].category \in Categories
    <3>1. \A i \in DOMAIN routed : routed[i] \in RoutedCategory
      OBVIOUS
    <3>2. QED BY <3>1 DEF RoutedCategory
  <2>3. passes(c) \subseteq DOMAIN routed
    OBVIOUS
  <2> HIDE DEF first, passes
  <2>4. {routed[i].category : i \in passes(c)} \subseteq Origin
    BY <2>2, <2>3 DEF Origin
  <2>5. routed[first(c)].category \in Origin
    BY <2>1, <2>2 DEF Origin
  <2>6. MergeDedup(routed, retrieved)[c] =
           [origin  |-> routed[first(c)].category,
            origins |-> {routed[i].category : i \in passes(c)},
            pinned  |-> FALSE]
    BY <1>3
  <2>7. QED BY <2>1, <2>4, <2>5, <2>6 DEF Provenance, CategoriesOf
<1> HIDE DEF first, passes
<1>5. QED BY <1>3, <1>4

===============================================================================
