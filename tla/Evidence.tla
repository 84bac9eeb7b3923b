------------------------------- MODULE Evidence -------------------------------
(***************************************************************************)
(* The pure rules by which POST /chat turns a router's answer into a       *)
(* bounded set of evidence chunks: budget allocation and clamping          *)
(* (backend/app/main.py) and merging, pinning, capping and ordering of     *)
(* retrieved chunks (backend/app/retrieval.py).                            *)
(*                                                                         *)
(* A chunk stands for its deduplication key (card, section, content hash); *)
(* its number is its place in the (card_id, section) order that breaks     *)
(* ties between equal distances.  A routing category is its place in the   *)
(* alphabetical order of the category names.                               *)
(***************************************************************************)
EXTENDS Integers, Sequences, FiniteSets, Functions

CONSTANTS
    Categories,     \* routing categories (positive numbers, alphabetical)
    Cards,          \* knowledge cards
    Chunks,         \* chunk keys the knowledge base can hold
    CardOf,         \* the card a chunk belongs to
    Dist            \* vector distance of a chunk to the current question

ASSUME EvidenceAssumption ==
    /\ Categories \subseteq Nat \ {0}
    /\ Chunks \subseteq Nat /\ IsFiniteSet(Chunks)
    /\ CardOf \in [Chunks -> Cards]
    /\ Dist \in [Chunks -> Nat]

Larger(a, b) == IF a >= b THEN a ELSE b

(***************************************************************************)
(* Budgets.                                                                *)
(***************************************************************************)

Confidence == {"Low", "Medium", "High"}

ConfidenceRank(confidence) ==
    [Low |-> 0, Medium |-> 1, High |-> 2][confidence]

RoutedCategory == [category : Categories, confidence : Confidence]

\* The sum of the budgets, counted one retrievable chunk at a time.
Units(budgets) == UNION {{i} \X (1..budgets[i]) : i \in DOMAIN budgets}

Total(budgets) == Cardinality(Units(budgets))

\* Mutant: the confidence comparison the wrong way round.
LeftLeads_Swapped(left, right) ==
    ConfidenceRank(left.confidence) < ConfidenceRank(right.confidence)

\* Whether the left of two routed categories receives the fixed share of 3.
LeftLeads(left, right) ==
    LET l == ConfidenceRank(left.confidence)
        r == ConfidenceRank(right.confidence)
    IN  l > r \/ (l = r /\ left.category <= right.category)

\* The policy named "deterministic".  A zero remainder becomes 1, a negative
\* one is left to the clamp.
DeterministicBudgets(routed, maxTotal) ==
    LET rest == Larger(2, maxTotal) - 3
        share == IF rest = 0 THEN 1 ELSE rest
    IN  CASE Len(routed) = 1 -> <<Larger(1, maxTotal)>>
          [] Len(routed) = 2 -> IF LeftLeads(routed[1], routed[2])
                                  THEN <<3, share>> ELSE <<share, 3>>
          [] OTHER           -> [i \in DOMAIN routed |-> 2]

\* Any other policy name: everything to the first category.
FirstTakesAll(routed, maxTotal) ==
    [i \in DOMAIN routed |-> IF i = 1 THEN maxTotal ELSE 1]

\* Mutant: a budget of one may still be lowered.
Reducible_ToZero(budgets) == {i \in DOMAIN budgets : budgets[i] >= 1}

Reducible(budgets) == {i \in DOMAIN budgets : budgets[i] > 1}

\* The clamp lowers the least confident category first, then the larger
\* budget, then the alphabetically first category.
ReducedBefore(routed, budgets, i, j) ==
    LET ci == ConfidenceRank(routed[i].confidence)
        cj == ConfidenceRank(routed[j].confidence)
    IN  \/ ci < cj
        \/ ci = cj /\ budgets[i] > budgets[j]
        \/ ci = cj /\ budgets[i] = budgets[j] /\ routed[i].category < routed[j].category

NextReduced(routed, budgets) ==
    CHOOSE i \in Reducible(budgets) :
        \A j \in Reducible(budgets) \ {i} : ReducedBefore(routed, budgets, i, j)

\* What is still over the cap once nothing is reducible comes off the last
\* budget, which never drops below 1.
HardTrim(budgets, maxTotal) ==
    [budgets EXCEPT ![Len(budgets)] = Larger(1, @ - (Total(budgets) - maxTotal))]

(***************************************************************************)
(* Order of chunks: by distance, then by card and section.                 *)
(***************************************************************************)

Precedes(c, d) == Dist[c] < Dist[d] \/ (Dist[c] = Dist[d] /\ c < d)

First(S) == CHOOSE c \in S : \A d \in S \ {c} : Precedes(c, d)

\* The first n chunks of S.
Top(S, n) == {c \in S : Cardinality({d \in S : Precedes(d, c)}) < n}

(***************************************************************************)
(* Provenance.  A merged result maps every chunk to the routed category it *)
(* is attributed to, all the categories it was retrieved for, and whether  *)
(* a pinning rule put it there.                                            *)
(***************************************************************************)

PinnedLabel == 0                  \* the wrapper key "_pinned" of the re-dedup
Origin      == Categories \cup {PinnedLabel}
Provenance  == [origin : Origin, origins : SUBSET Origin, pinned : BOOLEAN]

CategoriesOf(routed) == {routed[i].category : i \in DOMAIN routed}

\* merge_dedup_preserve_provenance over the per-category results: passes run
\* in routing order and a chunk has one distance, so the first pass that
\* returned it keeps the attribution.
MergeDedup(routed, retrieved) ==
    LET passes(c) == {i \in DOMAIN retrieved : c \in retrieved[i]}
        first(c)  == CHOOSE i \in passes(c) : \A j \in passes(c) : i <= j
    IN  [c \in UNION Range(retrieved) |->
            [origin  |-> routed[first(c)].category,
             origins |-> {routed[i].category : i \in passes(c)},
             pinned  |-> FALSE]]

\* The chunk retrieve_for_card returned for a pinning rule: it carries the
\* primary category as its origin and gains the rule's category.
Pinned(prov, chunk, primary, category) ==
    [c \in DOMAIN prov \cup {chunk} |->
        IF c = chunk
          THEN [origin |-> primary, origins |-> {primary, category}, pinned |-> TRUE]
          ELSE prov[c]]

\* The re-dedup after pinning wraps everything under the key "_pinned".
ReDedup(prov) == [c \in DOMAIN prov |-> [prov[c] EXCEPT !.origins = @ \cup {PinnedLabel}]]

PinnedChunks(prov) == {c \in DOMAIN prov : prov[c].pinned}

OriginsOf(prov, S) == UNION {prov[c].origins : c \in S}

(***************************************************************************)
(* cap_chunks_with_coverage.                                               *)
(***************************************************************************)

\* Routed categories at least one merged chunk was retrieved for.
Present(prov, routed) == OriginsOf(prov, DOMAIN prov) \cap CategoriesOf(routed)

\* c is the last chunk of W that covers some present category.
SoleCover(prov, routed, W, c) ==
    \E o \in prov[c].origins \cap Present(prov, routed) :
        \A d \in W \ {c} : o \notin prov[d].origins

Unpinned(prov, W) == {c \in W : ~prov[c].pinned}

\* Mutant: the coverage test is skipped.
EvictionCandidates_NoCoverage(prov, routed, W) == Unpinned(prov, W)

\* Mutant: pinned chunks compete like any other.
EvictionCandidates_IgnoresPins(prov, routed, W) ==
    LET removable == {c \in W : ~SoleCover(prov, routed, W, c)}
    IN  IF removable # {} THEN removable ELSE W

\* Chunks that may be evicted: unpinned ones whose loss uncovers nothing, or,
\* as a last resort, any unpinned one.
EvictionCandidates(prov, routed, W) ==
    LET removable == {c \in Unpinned(prov, W) : ~SoleCover(prov, routed, W, c)}
    IN  IF removable # {} THEN removable ELSE Unpinned(prov, W)

\* How over-represented the category is that c is attributed to.
Representation(prov, routed, W, c) ==
    IF prov[c].origin \in Present(prov, routed)
      THEN Cardinality({d \in W : prov[d].origin = prov[c].origin})
      ELSE 0

EvictedBefore(prov, routed, W, c, d) ==
    LET rc == Representation(prov, routed, W, c)
        rd == Representation(prov, routed, W, d)
    IN  \/ rc > rd
        \/ rc = rd /\ Dist[c] > Dist[d]
        \/ rc = rd /\ Dist[c] = Dist[d] /\ c < d

Victim(prov, routed, W) ==
    LET candidates == EvictionCandidates(prov, routed, W)
    IN  CHOOSE c \in candidates :
            \A d \in candidates \ {c} : EvictedBefore(prov, routed, W, c, d)

(***************************************************************************)
(* The quality gate and the coverage post-condition of chat().             *)
(***************************************************************************)

\* Mutant: every routed category is treated as missing.
ForcedCoverage_AllMissing(prov, routed, W, cited) ==
    LET cover(m) == {c \in W \ cited : m \in prov[c].origins}
    IN  [m \in {m \in CategoriesOf(routed) : cover(m) # {}} |-> First(cover(m))]

\* Chunks appended to the cited ones, per routed category no cited chunk
\* covers: the first uncited chunk retrieved for that category.
ForcedCoverage(prov, routed, W, cited) ==
    LET missing == CategoriesOf(routed) \ OriginsOf(prov, cited)
        cover(m) == {c \in W \ cited : m \in prov[c].origins}
    IN  [m \in {m \in missing : cover(m) # {}} |-> First(cover(m))]

===============================================================================
