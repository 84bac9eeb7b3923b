------------------------------ MODULE Retrieval -------------------------------
(***************************************************************************)
(* One retrieval pass (backend/app/retrieval.py): retrieve ("plain"),      *)
(* retrieve_for_category ("category") and retrieve_for_card ("card").      *)
(* The first two filter by distance, rank by distance and section and      *)
(* select in three rounds; the third only ranks.                           *)
(*                                                                         *)
(* Distances, penalties and weights are hundredths.  A chunk stands for    *)
(* its values (card, section, content); the order in which the selected    *)
(* chunks are returned is not modelled.                                    *)
(***************************************************************************)
EXTENDS Integers, Sequences, RetrievalContract

CONSTANTS
    Chunks,         \* stored chunks
    CardOf,         \* their cards
    SectionOf,      \* what their section is to the ranking
    Distances,      \* possible distances of the chunks to a question
    Requests,       \* passes that may be asked for
    Settings        \* configurations the process may run under

LowSignal == {"title", "category", "tech_stack"}
\* By length of content: at least 220 characters, under 120, between.
Substantive == {"long", "short", "medium"}
Sections == LowSignal \cup Substantive \cup {"links"}

\* A cutoff is a set of at most one distance, empty when it is off.
Cutoffs == {S \in SUBSET Int : Cardinality(S) <= 1}

SettingsRecord == [maxDistance : Cutoffs, delta : Cutoffs, perCardCap : Nat \ {0}]

\* card matters to a card pass only, and a plain pass has no weights.
Request == [kind : {"plain", "category", "card"}, card : {CardOf[c] : c \in Chunks},
            limit : Nat \ {0}, weights : [Sections -> Int]]

ASSUME RetrievalAssumption ==
    /\ IsFiniteSet(Chunks)
    /\ DOMAIN CardOf = Chunks
    /\ SectionOf \in [Chunks -> Sections]
    /\ Distances \subseteq [Chunks -> Nat]
    /\ Requests \subseteq Request
    /\ Settings \subseteq SettingsRecord

VARIABLES
    settings,   \* configuration, fixed for the life of the process
    stage,      \* where the pass is
    request,    \* what was asked
    dist,       \* distance of every chunk to the question
    rows,       \* rows the query returned, nearest first
    kept,       \* rows within the cutoffs, or the fallback
    left,       \* rows the current round has yet to visit
    deferred,   \* low-signal rows put off by the first round
    selected    \* rows selected so far

vars == <<settings, stage, request, dist, rows, kept, left, deferred, selected>>

Stages == {"query", "cutoff", "first", "second", "fill", "done", "failed"}

-------------------------------------------------------------------------------

\* WHERE section <> 'Links', and the card of a card pass.
Searchable ==
    {c \in Chunks : SectionOf[c] # "links" /\ (request.kind = "card" => CardOf[c] = request.card)}

Fetched == {rows[i] : i \in DOMAIN rows}

SameCard(c) == {d \in kept : CardOf[d] = CardOf[c]}

\* card_has_substantive
HasSubstantive(c) == \E d \in SameCard(c) : SectionOf[d] \in Substantive

HasLong(c) == \E d \in SameCard(c) : SectionOf[d] = "long"

SectionPenalty(section) ==
    CASE section = "title" -> 25 [] section = "category" -> 30 [] section = "tech_stack" -> 20
      [] OTHER -> 0

Penalty(c) ==
    IF ~HasSubstantive(c) THEN 0
    ELSE IF SectionOf[c] = "short" /\ HasLong(c) THEN 18
    ELSE SectionPenalty(SectionOf[c])

\* A weight counts only when positive, and up to MAX_SECTION_BONUS.
Bonus(c) ==
    LET w == request.weights[SectionOf[c]]
    IN  IF request.kind = "plain" \/ w < 0 THEN 0 ELSE IF w > 25 THEN 25 ELSE w

Adjusted(c) == dist[c] + Penalty(c) - Bonus(c)

Place(c) == CHOOSE i \in DOMAIN rows : rows[i] = c

\* sorted(rows, key=_adjusted_distance): ties keep the order of the rows.
RankedBefore(c, d) ==
    \/ Adjusted(c) < Adjusted(d)
    \/ Adjusted(c) = Adjusted(d) /\ dist[c] < dist[d]
    \/ Adjusted(c) = Adjusted(d) /\ dist[c] = dist[d] /\ Place(c) < Place(d)

NextRow == CHOOSE c \in left : \A d \in left \ {c} : RankedBefore(c, d)

Full == Cardinality(selected) >= request.limit

AtCap(c) == Cardinality({d \in selected : CardOf[d] = CardOf[c]}) >= settings.perCardCap

Near(c) ==
    /\ \A d \in settings.maxDistance : dist[c] <= d
    /\ \A d \in settings.delta : dist[c] <= dist[rows[1]] + d

-------------------------------------------------------------------------------

\* A pass is asked for.
Init ==
    /\ settings \in Settings
    /\ stage = "query"
    /\ request \in Requests
    /\ dist \in Distances
    /\ rows = <<>>
    /\ kept = {} /\ left = {} /\ deferred = {} /\ selected = {}

\* The query's rows, one at a time: nearest first, equally near ones in any
\* order, and, the index being approximate (ivfflat), not always all of them.
FetchRow ==
    /\ stage = "query"
    /\ \E c \in Searchable \ Fetched :
        /\ rows # <<>> => dist[rows[Len(rows)]] <= dist[c]
        /\ rows' = Append(rows, c)
    /\ UNCHANGED <<settings, stage, request, dist, kept, left, deferred, selected>>

\* No rows end the pass; a card pass ranks them all.
Fetch ==
    /\ stage = "query"
    /\ stage' = IF rows = <<>> THEN "done"
                ELSE IF request.kind = "card" THEN "fill" ELSE "cutoff"
    /\ kept' = IF request.kind = "card" THEN Fetched ELSE {}
    /\ left' = kept'
    /\ UNCHANGED <<settings, request, dist, rows, deferred, selected>>

\* The embedding provider or the database fails.
PassFails ==
    /\ stage = "query"
    /\ stage' = "failed"
    /\ UNCHANGED <<settings, request, dist, rows, kept, left, deferred, selected>>

\* Mutant: nothing within the cutoffs means nothing at all.
Cut_NoFallback ==
    /\ stage = "cutoff"
    /\ kept' = {c \in Fetched : Near(c)}
    /\ left' = kept'
    /\ stage' = "first"
    /\ UNCHANGED <<settings, request, dist, rows, deferred, selected>>

\* Mutant: the fallback tops up a short result.
Cut_TopUp ==
    /\ stage = "cutoff"
    /\ kept' = {c \in Fetched : Near(c)} \cup {rows[i] : i \in DOMAIN rows \cap 1..3}
    /\ left' = kept'
    /\ stage' = "first"
    /\ UNCHANGED <<settings, request, dist, rows, deferred, selected>>

FallbackSize == IF request.limit <= 3 THEN request.limit ELSE 3

\* Rows beyond a cutoff go; when all would go, the nearest few stay.
Cut ==
    /\ stage = "cutoff"
    /\ LET near == {c \in Fetched : Near(c)}
       IN  kept' = IF near # {} THEN near
                   ELSE {rows[i] : i \in DOMAIN rows \cap (1..FallbackSize)}
    /\ left' = kept'
    /\ stage' = "first"
    /\ UNCHANGED <<settings, request, dist, rows, deferred, selected>>

\* Mutant: low-signal rows are taken as they come.
VisitFirst_NoDeferral ==
    /\ stage = "first" /\ left # {} /\ ~Full
    /\ left' = left \ {NextRow}
    /\ selected' = IF AtCap(NextRow) THEN selected ELSE selected \cup {NextRow}
    /\ UNCHANGED <<settings, stage, request, dist, rows, kept, deferred>>

\* First round, under the per-card cap: low-signal rows of a card that has
\* better ones are put off.
VisitFirst ==
    /\ stage = "first" /\ left # {} /\ ~Full
    /\ left' = left \ {NextRow}
    /\ LET later == SectionOf[NextRow] \in LowSignal /\ HasSubstantive(NextRow)
       IN  /\ deferred' = IF ~AtCap(NextRow) /\ later THEN deferred \cup {NextRow} ELSE deferred
           /\ selected' = IF ~AtCap(NextRow) /\ ~later THEN selected \cup {NextRow} ELSE selected
    /\ UNCHANGED <<settings, stage, request, dist, rows, kept>>

\* Mutant: the deferred rows wait for the uncapped round.
FirstDone_SkipsSecond ==
    /\ stage = "first" /\ (left = {} \/ Full)
    /\ stage' = "fill"
    /\ left' = kept \ selected
    /\ UNCHANGED <<settings, request, dist, rows, kept, deferred, selected>>

FirstDone ==
    /\ stage = "first" /\ (left = {} \/ Full)
    /\ stage' = "second"
    /\ left' = deferred
    /\ UNCHANGED <<settings, request, dist, rows, kept, deferred, selected>>

\* Second round, still under the cap: the deferred rows.
VisitDeferred ==
    /\ stage = "second" /\ left # {} /\ ~Full
    /\ left' = left \ {NextRow}
    /\ selected' = IF AtCap(NextRow) THEN selected ELSE selected \cup {NextRow}
    /\ UNCHANGED <<settings, stage, request, dist, rows, kept, deferred>>

\* Mutant: the last round goes back to all rows of the query.
SecondDone_AllRows ==
    /\ stage = "second" /\ (left = {} \/ Full)
    /\ stage' = "fill"
    /\ left' = Fetched \ selected
    /\ UNCHANGED <<settings, request, dist, rows, kept, deferred, selected>>

SecondDone ==
    /\ stage = "second" /\ (left = {} \/ Full)
    /\ stage' = "fill"
    /\ left' = kept \ selected
    /\ UNCHANGED <<settings, request, dist, rows, kept, deferred, selected>>

\* Third round, without the cap; the only one of a card pass.
Fill ==
    /\ stage = "fill" /\ left # {} /\ ~Full
    /\ left' = left \ {NextRow}
    /\ selected' = selected \cup {NextRow}
    /\ UNCHANGED <<settings, stage, request, dist, rows, kept, deferred>>

Return ==
    /\ stage = "fill" /\ (left = {} \/ Full)
    /\ stage' = "done"
    /\ UNCHANGED <<settings, request, dist, rows, kept, left, deferred, selected>>

\* The pass is over; nothing else happens in it.
Over == stage \in {"done", "failed"} /\ UNCHANGED vars

Next ==
    \/ FetchRow \/ Fetch \/ PassFails \/ Cut
    \/ VisitFirst \/ FirstDone \/ VisitDeferred \/ SecondDone \/ Fill \/ Return \/ Over

Spec == Init /\ [][Next]_vars

-------------------------------------------------------------------------------

\* Rows are distinct stored chunks, kept ones are rows, and what the rounds
\* hold are kept ones.
TypeOK ==
    /\ settings \in Settings /\ request \in Requests /\ dist \in Distances
    /\ stage \in Stages
    /\ rows \in Seq(Searchable)
    /\ \A i, j \in DOMAIN rows : rows[i] = rows[j] => i = j
    /\ kept \subseteq Fetched
    /\ left \subseteq kept /\ deferred \subseteq kept /\ selected \subseteq kept

\* A pass keeps the contract the pipeline relies on, and comes back empty
\* only when the query found nothing: cutoffs, cap and deferral never leave
\* a question without sources (docs/RAG_PIPELINE.md:53).
KeepsContract ==
    stage = "done" => /\ selected \in Passes(Searchable, request.limit)
                      /\ selected = {} => rows = <<>>

\* The cutoffs are hard: a chunk beyond one is returned only when every row
\* is beyond one, and then it is among the nearest three.
CutoffsHold ==
    stage = "done" /\ request.kind # "card" /\ (\E c \in selected : ~Near(c)) =>
        /\ \A c \in Fetched : ~Near(c)
        /\ selected \subseteq {rows[i] : i \in DOMAIN rows \cap 1..3}

\* A card exceeds the per-card cap only when no other card could have filled
\* the place: every row within the cutoffs that was left out belongs to a
\* card that has reached the cap (config.py:379-382, retrieval.py:276).
CapYieldsLast ==
    stage = "done" /\ request.kind # "card" =>
        \A c \in selected :
            Cardinality({d \in selected : CardOf[d] = CardOf[c]}) > settings.perCardCap
                => \A d \in kept \ selected : AtCap(d)

\* A title, category or tech-stack section of a card with better sections
\* takes no place from them or from another card's: every substantive row
\* left out belongs to a card that has reached the cap (retrieval.py:236).
SignalFirst ==
    stage = "done" /\ request.kind # "card" =>
        \A c \in selected : SectionOf[c] \in LowSignal /\ HasSubstantive(c)
            => \A d \in kept \ selected : SectionOf[d] \in Substantive => AtCap(d)

===============================================================================
