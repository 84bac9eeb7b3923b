---------------------------- MODULE RetrievalProofs ----------------------------
(***************************************************************************)
(* What holds of a retrieval pass for every knowledge base, distance,      *)
(* section weight, cutoff and cap: it keeps the contract the pipeline      *)
(* relies on, its cutoffs are hard, cap and deferral yield in the right    *)
(* order, and its loops run down.                                          *)
(***************************************************************************)
EXTENDS Retrieval, LeastElements

LEMMA Configured ==
    ASSUME settings \in Settings
    PROVE  settings.perCardCap \in Nat \ {0}
BY RetrievalAssumption DEF SettingsRecord

LEMMA Asked ==
    ASSUME request \in Requests
    PROVE  /\ request.limit \in Nat \ {0}
           /\ request.kind \in {"plain", "category", "card"}
           /\ request.weights \in [Sections -> Int]
BY RetrievalAssumption DEF Request

-------------------------------------------------------------------------------
(***************************************************************************)
(* The next row of a round exists.                                         *)
(***************************************************************************)

LEMMA RowsAreChunks == ASSUME TypeOK PROVE Fetched \subseteq Searchable /\ Searchable \subseteq Chunks
BY DEF TypeOK, Fetched, Searchable

LEMMA PlacesDiffer ==
    ASSUME TypeOK
    PROVE  \A c \in Fetched : /\ Place(c) \in Nat
                              /\ \A d \in Fetched : Place(c) = Place(d) => c = d
<1>1. \A c \in Fetched : \E i \in DOMAIN rows : rows[i] = c
  BY DEF Fetched
<1>2. \A c \in Fetched : Place(c) \in DOMAIN rows /\ rows[Place(c)] = c
  BY <1>1 DEF Place
<1>3. DOMAIN rows \subseteq Nat
  BY DEF TypeOK
<1>4. QED BY <1>2, <1>3

LEMMA AdjustedIsNumber == ASSUME TypeOK, NEW c \in Chunks PROVE Adjusted(c) \in Int /\ dist[c] \in Nat
<1>1. dist[c] \in Nat /\ SectionOf[c] \in Sections
  BY RetrievalAssumption DEF TypeOK
<1>2. SectionPenalty(SectionOf[c]) \in Int
  BY DEF SectionPenalty
<1>3. Penalty(c) \in Int
  BY <1>2 DEF Penalty
<1>4. Bonus(c) \in Int
  <2>1. request.weights[SectionOf[c]] \in Int
    BY <1>1, Asked DEF TypeOK
  <2>2. QED BY <2>1 DEF Bonus
<1>5. QED BY <1>1, <1>3, <1>4 DEF Adjusted

\* sorted() has a first row: the key and the place of a row order all rows.
LEMMA NextRowExists == ASSUME TypeOK, left # {} PROVE NextRow \in left
<1> DEFINE R == {p \in left \X left : RankedBefore(p[1], p[2])}
<1>1. left \subseteq Fetched /\ left \subseteq Chunks
  BY RowsAreChunks DEF TypeOK
<1>2. IsFiniteSet(left)
  BY <1>1, RetrievalAssumption, FS_Subset
<1>3. \A c \in left : Adjusted(c) \in Int /\ dist[c] \in Nat /\ Place(c) \in Nat
  BY <1>1, AdjustedIsNumber, PlacesDiffer
<1>4. \A c, d \in left : Place(c) = Place(d) => c = d
  BY <1>1, PlacesDiffer
<1>5. \A a, b \in left : a # b => <<a, b>> \in R \/ <<b, a>> \in R
  BY <1>3, <1>4 DEF RankedBefore
<1>6. \A a \in left : <<a, a>> \notin R
  BY <1>3 DEF RankedBefore
<1>7. \A a, b, c \in left : <<a, b>> \in R /\ <<b, c>> \in R => <<a, c>> \in R
  BY <1>3 DEF RankedBefore
<1>8. \A a, b \in left : <<a, b>> \in R => RankedBefore(a, b)
  OBVIOUS
<1> HIDE DEF R
<1>9. \E c \in left : \A d \in left \ {c} : <<c, d>> \in R
  BY <1>2, <1>5, <1>6, <1>7, LeastElement
<1>10. \E c \in left : \A d \in left \ {c} : RankedBefore(c, d)
  BY <1>8, <1>9
<1>11. QED BY <1>10 DEF NextRow

-------------------------------------------------------------------------------
(***************************************************************************)
(* Counting the selected rows of a card.                                   *)
(***************************************************************************)

OfCard(c, S) == {d \in S : CardOf[d] = CardOf[c]}

\* No card is over the cap.
Capped == \A c \in selected : Cardinality(OfCard(c, selected)) <= settings.perCardCap

LowInformation(c) == SectionOf[c] \in LowSignal /\ HasSubstantive(c)

LEMMA SelectedIsFinite ==
    ASSUME TypeOK
    PROVE  /\ IsFiniteSet(selected) /\ Cardinality(selected) \in Nat
           /\ \A c : /\ IsFiniteSet(OfCard(c, selected))
                     /\ Cardinality(OfCard(c, selected)) \in Nat
<1>1. selected \subseteq Chunks
  BY RowsAreChunks DEF TypeOK
<1>2. IsFiniteSet(selected)
  BY <1>1, RetrievalAssumption, FS_Subset
<1>3. \A c : OfCard(c, selected) \subseteq selected
  BY DEF OfCard
<1>4. QED BY <1>2, <1>3, FS_Subset, FS_CardinalityType

\* A finite set with one more element.
LEMMA Grown ==
    ASSUME NEW S, IsFiniteSet(S), NEW r, NEW T, T = S \/ T = S \cup {r}
    PROVE  /\ Cardinality(S) \in Nat /\ Cardinality(T) \in Nat
           /\ Cardinality(S) <= Cardinality(T) /\ Cardinality(T) <= Cardinality(S) + 1
<1>1. Cardinality(S) \in Nat
  BY FS_CardinalityType
<1>2. Cardinality(S \cup {r}) = IF r \in S THEN Cardinality(S) ELSE Cardinality(S) + 1
  BY FS_AddElement
<1>3. Cardinality(T) \in {Cardinality(S), Cardinality(S) + 1}
  <2>1. CASE T = S
    BY <2>1
  <2>2. CASE T = S \cup {r}
    <3>1. Cardinality(T) = Cardinality(S \cup {r})
      BY <2>2, Zenon
    <3>2. QED BY <1>2, <3>1
  <2>3. QED BY <2>1, <2>2
<1>4. QED BY <1>1, <1>3

\* Selecting one more row takes no card back below the cap.
LEMMA SelectingOne ==
    ASSUME TypeOK, NEW r, selected' = selected \cup {r}, UNCHANGED <<settings, request>>
    PROVE  /\ r \notin selected => Cardinality(selected') = Cardinality(selected) + 1
           /\ Cardinality(selected') >= Cardinality(selected)
           /\ Cardinality(selected') \in Nat
           /\ \A c : AtCap(c) => AtCap(c)'
           /\ Full => Full'
<1>1. Cardinality(selected') = IF r \in selected THEN Cardinality(selected)
                               ELSE Cardinality(selected) + 1
  BY SelectedIsFinite, FS_AddElement
<1>2. ASSUME NEW c PROVE AtCap(c) => AtCap(c)'
  <2>1. OfCard(c, selected') = IF CardOf[r] = CardOf[c] THEN OfCard(c, selected) \cup {r}
                               ELSE OfCard(c, selected)
    BY DEF OfCard
  <2>2. /\ AtCap(c) <=> Cardinality(OfCard(c, selected)) >= settings.perCardCap
        /\ AtCap(c)' <=> Cardinality(OfCard(c, selected')) >= settings.perCardCap
    BY DEF AtCap, OfCard
  <2> DEFINE S == OfCard(c, selected)
             T == OfCard(c, selected')
  <2>3. IsFiniteSet(S) /\ (T = S \/ T = S \cup {r})
    BY <2>1, SelectedIsFinite
  <2> HIDE DEF S, T
  <2>4. Cardinality(S) \in Nat /\ Cardinality(T) \in Nat /\ Cardinality(T) >= Cardinality(S)
    BY <2>3, Grown
  <2>5. settings.perCardCap \in Nat
    BY Configured DEF TypeOK
  <2>6. Cardinality(S) >= settings.perCardCap => Cardinality(T) >= settings.perCardCap
    BY <2>4, <2>5
  <2>7. QED BY <2>2, <2>6 DEF S, T
<1>3. Full => Full'
  BY <1>1, SelectedIsFinite, Asked DEF Full, TypeOK
<1>4. QED BY <1>1, <1>2, <1>3, SelectedIsFinite

\* A row whose card is below the cap may be selected under it.
LEMMA SelectingUnderCap ==
    ASSUME TypeOK, Capped, NEW r, ~AtCap(r), selected' = selected \cup {r}, UNCHANGED settings
    PROVE  Capped'
<1> SUFFICES ASSUME NEW c \in selected'
             PROVE  Cardinality(OfCard(c, selected')) <= settings.perCardCap
  BY DEF Capped
<1>1. settings.perCardCap \in Nat /\ ~(Cardinality(OfCard(r, selected)) >= settings.perCardCap)
  <2>1. ~(Cardinality(OfCard(r, selected)) >= settings.perCardCap)
    BY DEF AtCap, OfCard
  <2>2. QED BY <2>1, Configured DEF TypeOK
<1>2. CASE CardOf[c] = CardOf[r]
  <2>1. OfCard(c, selected') = OfCard(r, selected) \cup {r}
    BY <1>2 DEF OfCard
  <2> DEFINE S == OfCard(r, selected)
             T == OfCard(c, selected')
  <2>2. IsFiniteSet(S) /\ T = S \cup {r}
    BY <2>1, SelectedIsFinite
  <2> HIDE DEF S, T
  <2>3. Cardinality(S) \in Nat /\ Cardinality(T) \in Nat /\ Cardinality(T) <= Cardinality(S) + 1
    BY <2>2, Grown
  <2>4. settings.perCardCap \in Nat /\ ~(Cardinality(S) >= settings.perCardCap)
    BY <1>1 DEF S
  <2>5. Cardinality(T) <= settings.perCardCap
    BY <2>3, <2>4
  <2>6. QED BY <2>5 DEF T
<1>3. CASE CardOf[c] # CardOf[r]
  <2>1. OfCard(c, selected') = OfCard(c, selected) /\ c \in selected
    BY <1>3 DEF OfCard
  <2>2. QED BY <2>1 DEF Capped
<1>4. QED BY <1>2, <1>3

-------------------------------------------------------------------------------
(***************************************************************************)
(* The inductive invariant.                                                *)
(***************************************************************************)

\* What each stage has not touched yet, and that no stage is without rows.
StageInv ==
    /\ stage \in {"query", "cutoff", "failed"} =>
           kept = {} /\ left = {} /\ deferred = {} /\ selected = {}
    /\ stage = "cutoff" => rows # <<>>
    /\ stage \in {"cutoff", "first", "second"} => request.kind # "card"
    /\ stage \in {"first", "second", "fill"} => kept # {}
    /\ stage = "fill" => kept \ selected \subseteq left
    /\ stage \in {"first", "second", "fill"} => left \cap selected = {}
    /\ stage = "first" => deferred \cap selected = {} /\ deferred \cap left = {}
    /\ Cardinality(selected) <= request.limit
    /\ stage = "done" /\ selected = {} => rows = <<>>

\* Either the rows within the cutoffs are kept, or there are none.
CutInv ==
    stage \in {"first", "second", "fill", "done"} /\ request.kind # "card" =>
        \/ kept = {c \in Fetched : Near(c)}
        \/ /\ \A c \in Fetched : ~Near(c)
           /\ kept \subseteq {rows[i] : i \in DOMAIN rows \cap 1..3}

\* Rows are passed over in the first two rounds only because of the cap, which
\* is exceeded only when nothing else is left.
CapInv ==
    /\ stage \in {"first", "second"} => Capped
    /\ stage = "first" => \A d \in kept \ (left \cup selected \cup deferred) : AtCap(d)
    /\ stage = "second" => Full \/ \A d \in kept \ (left \cup selected) : AtCap(d)
    /\ stage \in {"fill", "done"} /\ request.kind # "card" =>
           (Full /\ Capped) \/ \A d \in kept \ selected : AtCap(d)

\* Low-signal rows of better cards come after every substantive row had its turn.
SignalInv ==
    /\ stage = "first" => /\ \A c \in deferred : LowInformation(c)
                          /\ \A c \in selected : ~LowInformation(c)
    /\ stage \in {"second", "fill", "done"} /\ request.kind # "card" =>
           \/ Full /\ \A c \in selected : ~LowInformation(c)
           \/ \A d \in kept \ selected : SectionOf[d] \in Substantive => AtCap(d)

IInv == TypeOK /\ StageInv /\ CutInv /\ CapInv /\ SignalInv

LEMMA InitInv == Init => IInv
<1> SUFFICES ASSUME Init PROVE IInv
  OBVIOUS
<1> USE DEF Init
<1>1. TypeOK
  BY DEF TypeOK, Stages
<1>2. StageInv
  <2>1. Cardinality(selected) <= request.limit
    BY Asked, FS_EmptySet
  <2>2. QED BY <2>1 DEF StageInv
<1>3. CutInv /\ CapInv /\ SignalInv
  BY DEF CutInv, CapInv, SignalInv
<1>4. QED BY <1>1, <1>2, <1>3 DEF IInv

-------------------------------------------------------------------------------

LEMMA FetchRowInv == IInv /\ FetchRow => IInv'
<1> SUFFICES ASSUME IInv, FetchRow PROVE IInv'
  OBVIOUS
<1> USE DEF FetchRow, IInv
<1>1. PICK c \in Searchable \ Fetched : rows' = Append(rows, c)
  OBVIOUS
<1>2. rows' \in Seq(Searchable)
  BY <1>1 DEF TypeOK
<1>3. \A i, j \in DOMAIN rows' : rows'[i] = rows'[j] => i = j
  <2>1. /\ DOMAIN rows' = 1..(Len(rows) + 1) /\ DOMAIN rows = 1..Len(rows) /\ Len(rows) \in Nat
        /\ \A i \in 1..Len(rows) : rows'[i] = rows[i] /\ rows[i] # c
        /\ rows'[Len(rows) + 1] = c
    BY <1>1 DEF TypeOK, Fetched
  <2>2. \A i, j \in 1..Len(rows) : rows[i] = rows[j] => i = j
    BY <2>1 DEF TypeOK
  <2>3. QED BY <2>1, <2>2
<1>4. Searchable' = Searchable
  BY DEF Searchable
<1>5. kept = {} /\ left = {} /\ deferred = {} /\ selected = {}
  BY DEF StageInv
<1>6. TypeOK'
  BY <1>2, <1>3, <1>4, <1>5 DEF TypeOK
<1>7. StageInv' /\ CutInv' /\ CapInv' /\ SignalInv'
  BY DEF StageInv, CutInv, CapInv, SignalInv
<1>8. QED BY <1>6, <1>7

LEMMA FetchInv == IInv /\ Fetch => IInv'
<1> SUFFICES ASSUME IInv, Fetch PROVE IInv'
  OBVIOUS
<1> USE DEF Fetch, IInv
<1>1. /\ kept = {} /\ left = {} /\ deferred = {} /\ selected = {} /\ rows \in Seq(Searchable)
      /\ request.limit \in Nat /\ request.kind \in {"plain", "category", "card"}
  BY Asked DEF StageInv, TypeOK
<1>2. rows # <<>> => Fetched # {}
  <2>1. rows # <<>> => 1 \in DOMAIN rows
    BY <1>1
  <2>2. QED BY <2>1 DEF Fetched
<1>3. rows = <<>> => Fetched = {}
  BY DEF Fetched
<1>4. TypeOK'
  BY <1>1 DEF TypeOK, Stages, Searchable, Fetched
<1>5. StageInv'
  BY <1>1, <1>2, <1>3, FS_EmptySet DEF StageInv
<1>6. CutInv'
  <2>1. CASE rows = <<>>
    BY <1>3, <2>1 DEF CutInv, Fetched
  <2>2. CASE rows # <<>>
    BY <2>2 DEF CutInv
  <2>3. QED BY <2>1, <2>2
<1>7. CapInv' /\ SignalInv'
  BY <1>1, <1>3 DEF CapInv, SignalInv
<1>8. QED BY <1>4, <1>5, <1>6, <1>7

LEMMA PassFailsInv == IInv /\ PassFails => IInv'
<1> SUFFICES ASSUME IInv, PassFails PROVE IInv'
  OBVIOUS
<1> USE DEF PassFails, IInv
<1>1. TypeOK'
  BY DEF TypeOK, Stages, Searchable, Fetched
<1>2. StageInv' /\ CutInv' /\ CapInv' /\ SignalInv'
  BY DEF StageInv, CutInv, CapInv, SignalInv
<1>3. QED BY <1>1, <1>2

\* The cutoffs leave rows, or the fallback does.
LEMMA CutInvariant == IInv /\ Cut => IInv'
<1> SUFFICES ASSUME IInv, Cut PROVE IInv'
  OBVIOUS
<1> USE DEF Cut, IInv
<1> DEFINE near == {c \in Fetched : Near(c)}
           nearest == {rows[i] : i \in DOMAIN rows \cap (1..FallbackSize)}
<1>1. /\ deferred = {} /\ selected = {} /\ rows # <<>> /\ rows \in Seq(Searchable)
      /\ request.limit \in Nat \ {0} /\ request.kind # "card"
  BY Asked DEF StageInv, TypeOK
<1>2. FallbackSize \in 1..3
  BY <1>1 DEF FallbackSize
<1>3. 1 \in DOMAIN rows
  BY <1>1
<1>4. nearest \subseteq Fetched /\ nearest # {}
  BY <1>2, <1>3 DEF Fetched
<1>5. nearest \subseteq {rows[i] : i \in DOMAIN rows \cap 1..3}
  BY <1>2
<1>6. kept' = (IF near # {} THEN near ELSE nearest) /\ left' = kept' /\ stage' = "first"
      /\ UNCHANGED <<settings, request, dist, rows, deferred, selected>>
  OBVIOUS
<1>7. near \subseteq Fetched
  OBVIOUS
<1> HIDE DEF near, nearest
<1>8. kept' # {} /\ kept' \subseteq Fetched
  BY <1>4, <1>6, <1>7
<1>9. TypeOK'
  BY <1>1, <1>6, <1>8 DEF TypeOK, Stages, Searchable, Fetched
<1>10. StageInv'
  BY <1>1, <1>6, <1>8 DEF StageInv
<1>11. CutInv'
  <2>1. CASE near # {}
    <3>1. kept' = {c \in Fetched : Near(c)}
      BY <1>6, <2>1 DEF near
    <3>2. (\A c \in Fetched : Near(c)' <=> Near(c)) /\ Fetched' = Fetched
      BY <1>6 DEF Near, Fetched
    <3>3. QED BY <3>1, <3>2 DEF CutInv
  <2>2. CASE near = {}
    <3>1. (\A c \in Fetched : ~Near(c)) /\ kept' = nearest
      BY <1>6, <2>2 DEF near
    <3>2. (\A c \in Fetched : Near(c)' <=> Near(c)) /\ Fetched' = Fetched
      BY <1>6 DEF Near, Fetched
    <3>3. kept' \subseteq {rows'[i] : i \in DOMAIN rows' \cap 1..3}
      BY <1>5, <1>6, <3>1
    <3>4. QED BY <3>1, <3>2, <3>3 DEF CutInv
  <2>3. QED BY <2>1, <2>2
<1>12. CapInv' /\ SignalInv'
  BY <1>1, <1>6 DEF CapInv, SignalInv, Capped
<1>13. QED BY <1>9, <1>10, <1>11, <1>12

\* Rows within the cutoffs and the rows themselves stay what they are.
LEMMA CutInvStays ==
    ASSUME IInv, UNCHANGED <<settings, request, dist, rows, kept>>,
           stage \in {"first", "second", "fill"}
    PROVE  CutInv'
<1>1. Fetched' = Fetched /\ \A c : Near(c)' <=> Near(c)
  BY DEF Fetched, Near
<1>2. CASE request.kind = "card"
  BY <1>2 DEF CutInv
<1>3. CASE request.kind # "card"
  <2>1. CASE kept = {c \in Fetched : Near(c)}
    BY <1>1, <2>1 DEF CutInv
  <2>2. CASE /\ \A c \in Fetched : ~Near(c)
             /\ kept \subseteq {rows[i] : i \in DOMAIN rows \cap 1..3}
    BY <1>1, <2>2 DEF CutInv
  <2>3. QED BY <1>3, <2>1, <2>2 DEF IInv, CutInv
<1>4. QED BY <1>2, <1>3

\* What a card has among the kept rows is settled with them.
LEMMA SubstantiveStays ==
    ASSUME UNCHANGED kept
    PROVE  \A c : LowInformation(c)' <=> LowInformation(c)
BY DEF LowInformation, HasSubstantive, SameCard

\* Selecting a row that was left keeps the result within its limit.
LEMMA WithinLimit ==
    ASSUME IInv, ~Full, NEW r \in left, r \notin selected,
           selected' = selected \cup {r}, UNCHANGED <<settings, request>>
    PROVE  Cardinality(selected') <= request.limit
<1>1. request.limit \in Nat /\ Cardinality(selected) \in Nat
  BY Asked, SelectedIsFinite DEF IInv, TypeOK
<1>2. Cardinality(selected') = Cardinality(selected) + 1
  BY SelectingOne DEF IInv
<1>3. ~(Cardinality(selected) >= request.limit)
  BY DEF Full
<1>4. QED BY <1>1, <1>2, <1>3

LEMMA VisitFirstInv == IInv /\ VisitFirst => IInv'
<1> SUFFICES ASSUME IInv, VisitFirst PROVE IInv'
  OBVIOUS
<1> DEFINE r == NextRow
<1>1. r \in left /\ r \in kept /\ r \notin selected /\ r \notin deferred
  <2>1. r \in left
    BY NextRowExists DEF IInv, VisitFirst
  <2>2. QED BY <2>1 DEF IInv, TypeOK, StageInv, VisitFirst
<1>2. /\ stage = "first" /\ stage' = "first" /\ ~Full /\ left' = left \ {r}
      /\ UNCHANGED <<settings, request, dist, rows, kept>>
  BY DEF VisitFirst
<1>3. \/ AtCap(r) /\ UNCHANGED <<selected, deferred>>
      \/ ~AtCap(r) /\ LowInformation(r) /\ deferred' = deferred \cup {r} /\ UNCHANGED selected
      \/ ~AtCap(r) /\ ~LowInformation(r) /\ selected' = selected \cup {r} /\ UNCHANGED deferred
  BY DEF VisitFirst, LowInformation
<1> HIDE DEF r
<1>4. TypeOK'
  BY <1>1, <1>2, <1>3 DEF IInv, TypeOK, Searchable, Fetched
<1>5. Cardinality(selected') <= request'.limit
  BY <1>1, <1>2, <1>3, WithinLimit DEF IInv, StageInv
<1>6. StageInv'
  BY <1>1, <1>2, <1>3, <1>5 DEF IInv, TypeOK, StageInv
<1>7. CutInv'
  BY <1>2, CutInvStays
<1>8. Capped'
  <2>1. CASE UNCHANGED selected
    BY <1>2, <2>1 DEF IInv, CapInv, Capped
  <2>2. CASE ~AtCap(r) /\ selected' = selected \cup {r}
    BY <1>2, <2>2, SelectingUnderCap DEF IInv, CapInv
  <2>3. QED BY <1>3, <2>1, <2>2
<1>9. \A c : AtCap(c) => AtCap(c)'
  <2>1. CASE UNCHANGED selected
    BY <1>2, <2>1 DEF AtCap
  <2>2. CASE selected' = selected \cup {r}
    BY <1>2, <2>2, SelectingOne DEF IInv
  <2>3. QED BY <1>3, <2>1, <2>2
<1>10. CapInv'
  <2>1. \A d \in kept \ (left \cup selected \cup deferred) : AtCap(d)
    BY <1>2 DEF IInv, CapInv
  <2>2. ASSUME NEW d \in kept \ (left' \cup selected' \cup deferred')
        PROVE  AtCap(d)'
    <3>1. CASE d = r
      BY <1>3, <1>9, <2>2, <3>1
    <3>2. CASE d # r
      BY <1>2, <1>3, <1>9, <2>1, <2>2, <3>2
    <3>3. QED BY <3>1, <3>2
  <2>3. QED BY <1>2, <1>8, <2>2 DEF CapInv
<1>11. SignalInv'
  <2>1. (\A c \in deferred : LowInformation(c)) /\ (\A c \in selected : ~LowInformation(c))
    BY <1>2 DEF IInv, SignalInv
  <2>2. (\A c \in deferred' : LowInformation(c)) /\ (\A c \in selected' : ~LowInformation(c))
    BY <1>3, <2>1
  <2>3. QED BY <1>2, <2>2, SubstantiveStays DEF SignalInv
<1>12. QED BY <1>4, <1>6, <1>7, <1>10, <1>11 DEF IInv

\* The first round ends with every substantive row selected or its card at the
\* cap, unless the result is full.
LEMMA FirstDoneInv == IInv /\ FirstDone => IInv'
<1> SUFFICES ASSUME IInv, FirstDone PROVE IInv'
  OBVIOUS
<1>1. /\ stage = "first" /\ stage' = "second" /\ (left = {} \/ Full) /\ left' = deferred
      /\ UNCHANGED <<settings, request, dist, rows, kept, deferred, selected>>
  BY DEF FirstDone
<1>2. TypeOK'
  BY <1>1 DEF IInv, TypeOK, Stages, Searchable, Fetched
<1>3. StageInv'
  BY <1>1 DEF IInv, StageInv
<1>4. CutInv'
  BY <1>1, CutInvStays
<1>5. (\A c : AtCap(c)' <=> AtCap(c)) /\ (Full' <=> Full) /\ (Capped' <=> Capped)
  BY <1>1 DEF AtCap, Full, Capped
<1>6. left = {} => \A d \in kept \ (left' \cup selected) : AtCap(d)
  BY <1>1 DEF IInv, CapInv
<1>7. CapInv'
  BY <1>1, <1>5, <1>6 DEF IInv, CapInv
<1>8. (\A c \in deferred : LowInformation(c)) /\ (\A c \in selected : ~LowInformation(c))
  BY <1>1 DEF IInv, SignalInv
<1>9. left = {} => \A d \in kept \ selected : SectionOf[d] \in Substantive => AtCap(d)
  <2>1. LowSignal \cap Substantive = {}
    BY DEF LowSignal, Substantive
  <2>2. QED BY <1>1, <1>6, <1>8, <2>1 DEF LowInformation
<1>10. SignalInv'
  BY <1>1, <1>5, <1>8, <1>9, SubstantiveStays DEF SignalInv
<1>11. QED BY <1>2, <1>3, <1>4, <1>7, <1>10 DEF IInv

\* A deferred row is selected only when every substantive one had its turn.
LEMMA VisitDeferredInv == IInv /\ VisitDeferred => IInv'
<1> SUFFICES ASSUME IInv, VisitDeferred PROVE IInv'
  OBVIOUS
<1> DEFINE r == NextRow
<1>1. r \in left /\ r \in kept /\ r \notin selected
  <2>1. r \in left
    BY NextRowExists DEF IInv, VisitDeferred
  <2>2. QED BY <2>1 DEF IInv, TypeOK, StageInv, VisitDeferred
<1>2. /\ stage = "second" /\ stage' = "second" /\ ~Full /\ left' = left \ {r}
      /\ UNCHANGED <<settings, request, dist, rows, kept, deferred>>
  BY DEF VisitDeferred
<1>3. \/ AtCap(r) /\ UNCHANGED selected
      \/ ~AtCap(r) /\ selected' = selected \cup {r}
  BY DEF VisitDeferred
<1> HIDE DEF r
<1>4. TypeOK'
  BY <1>1, <1>2, <1>3 DEF IInv, TypeOK, Searchable, Fetched
<1>5. Cardinality(selected') <= request'.limit
  BY <1>1, <1>2, <1>3, WithinLimit DEF IInv, StageInv
<1>6. StageInv'
  BY <1>1, <1>2, <1>3, <1>5 DEF IInv, TypeOK, StageInv
<1>7. CutInv'
  BY <1>2, CutInvStays
<1>8. Capped'
  <2>1. CASE UNCHANGED selected
    BY <1>2, <2>1 DEF IInv, CapInv, Capped
  <2>2. CASE ~AtCap(r) /\ selected' = selected \cup {r}
    BY <1>2, <2>2, SelectingUnderCap DEF IInv, CapInv
  <2>3. QED BY <1>3, <2>1, <2>2
<1>9. \A c : AtCap(c) => AtCap(c)'
  <2>1. CASE UNCHANGED selected
    BY <1>2, <2>1 DEF AtCap
  <2>2. CASE selected' = selected \cup {r}
    BY <1>2, <2>2, SelectingOne DEF IInv
  <2>3. QED BY <1>3, <2>1, <2>2
<1>10. CapInv'
  <2>1. \A d \in kept \ (left \cup selected) : AtCap(d)
    BY <1>2 DEF IInv, CapInv
  <2>2. ASSUME NEW d \in kept \ (left' \cup selected')
        PROVE  AtCap(d)'
    <3>1. CASE d = r
      BY <1>3, <1>9, <2>2, <3>1
    <3>2. CASE d # r
      BY <1>2, <1>3, <1>9, <2>1, <2>2, <3>2
    <3>3. QED BY <3>1, <3>2
  <2>3. QED BY <1>2, <1>8, <2>2 DEF CapInv
<1>11. SignalInv'
  <2>1. request.kind # "card"
    BY <1>2 DEF IInv, StageInv
  <2>2. \A d \in kept \ selected : SectionOf[d] \in Substantive => AtCap(d)
    BY <1>2, <2>1 DEF IInv, SignalInv
  <2>3. \A d \in kept \ selected' : SectionOf[d] \in Substantive => AtCap(d)'
    BY <1>3, <1>9, <2>2
  <2>4. QED BY <1>2, <2>3 DEF SignalInv
<1>12. QED BY <1>4, <1>6, <1>7, <1>10, <1>11 DEF IInv

LEMMA SecondDoneInv == IInv /\ SecondDone => IInv'
<1> SUFFICES ASSUME IInv, SecondDone PROVE IInv'
  OBVIOUS
<1>1. /\ stage = "second" /\ stage' = "fill" /\ (left = {} \/ Full) /\ left' = kept \ selected
      /\ UNCHANGED <<settings, request, dist, rows, kept, deferred, selected>>
  BY DEF SecondDone
<1>2. TypeOK'
  BY <1>1 DEF IInv, TypeOK, Stages, Searchable, Fetched
<1>3. StageInv'
  BY <1>1 DEF IInv, StageInv
<1>4. CutInv'
  BY <1>1, CutInvStays
<1>5. (\A c : AtCap(c)' <=> AtCap(c)) /\ (Full' <=> Full) /\ (Capped' <=> Capped)
  BY <1>1 DEF AtCap, Full, Capped
<1>6. CapInv'
  BY <1>1, <1>5 DEF IInv, CapInv
<1>7. request.kind # "card"
  BY <1>1 DEF IInv, StageInv
<1>8. SignalInv'
  BY <1>1, <1>5, <1>7, SubstantiveStays DEF IInv, SignalInv
<1>9. QED BY <1>2, <1>3, <1>4, <1>6, <1>8 DEF IInv

\* The last round, which ignores the cap, only adds rows when every row still
\* out belongs to a card that has reached it.
LEMMA FillInv == IInv /\ Fill => IInv'
<1> SUFFICES ASSUME IInv, Fill PROVE IInv'
  OBVIOUS
<1> DEFINE r == NextRow
<1>1. r \in left /\ r \in kept /\ r \notin selected
  <2>1. r \in left
    BY NextRowExists DEF IInv, Fill
  <2>2. QED BY <2>1 DEF IInv, TypeOK, StageInv, Fill
<1>2. /\ stage = "fill" /\ stage' = "fill" /\ ~Full /\ left' = left \ {r}
      /\ selected' = selected \cup {r}
      /\ UNCHANGED <<settings, request, dist, rows, kept, deferred>>
  BY DEF Fill
<1> HIDE DEF r
<1>3. TypeOK'
  BY <1>1, <1>2 DEF IInv, TypeOK, Searchable, Fetched
<1>4. Cardinality(selected') <= request'.limit
  BY <1>1, <1>2, WithinLimit
<1>5. StageInv'
  BY <1>1, <1>2, <1>4 DEF IInv, TypeOK, StageInv
<1>6. CutInv'
  BY <1>2, CutInvStays
<1>7. \A c : AtCap(c) => AtCap(c)'
  BY <1>2, SelectingOne DEF IInv
<1>8. CapInv'
  <2>1. request.kind # "card" => \A d \in kept \ selected : AtCap(d)
    BY <1>2 DEF IInv, CapInv
  <2>2. request.kind # "card" => \A d \in kept \ selected' : AtCap(d)'
    BY <1>2, <1>7, <2>1
  <2>3. QED BY <1>2, <2>2 DEF CapInv
<1>9. SignalInv'
  <2>1. request.kind # "card" =>
            \A d \in kept \ selected : SectionOf[d] \in Substantive => AtCap(d)
    BY <1>2 DEF IInv, SignalInv
  <2>2. request.kind # "card" =>
            \A d \in kept \ selected' : SectionOf[d] \in Substantive => AtCap(d)'
    BY <1>2, <1>7, <2>1
  <2>3. QED BY <1>2, <2>2 DEF SignalInv
<1>10. QED BY <1>3, <1>5, <1>6, <1>8, <1>9 DEF IInv

LEMMA ReturnInv == IInv /\ Return => IInv'
<1> SUFFICES ASSUME IInv, Return PROVE IInv'
  OBVIOUS
<1>1. /\ stage = "fill" /\ stage' = "done" /\ (left = {} \/ Full)
      /\ UNCHANGED <<settings, request, dist, rows, kept, left, deferred, selected>>
  BY DEF Return
<1>2. TypeOK'
  BY <1>1 DEF IInv, TypeOK, Stages, Searchable, Fetched
<1>3. selected # {}
  <2>1. CASE left = {}
    BY <1>1, <2>1 DEF IInv, StageInv
  <2>2. CASE Full
    <3>1. request.limit \in Nat \ {0} /\ Cardinality(selected) >= request.limit
      BY <2>2, Asked DEF Full, IInv, TypeOK
    <3>2. QED BY <3>1, FS_EmptySet
  <2>3. QED BY <1>1, <2>1, <2>2
<1>4. StageInv'
  BY <1>1, <1>3 DEF IInv, StageInv
<1>5. CutInv'
  BY <1>1, CutInvStays
<1>6. (\A c : AtCap(c)' <=> AtCap(c)) /\ (Full' <=> Full) /\ (Capped' <=> Capped)
  BY <1>1 DEF AtCap, Full, Capped
<1>7. CapInv'
  BY <1>1, <1>6 DEF IInv, CapInv
<1>8. SignalInv'
  BY <1>1, <1>6, SubstantiveStays DEF IInv, SignalInv
<1>9. QED BY <1>2, <1>4, <1>5, <1>7, <1>8 DEF IInv

LEMMA StutterInv == IInv /\ UNCHANGED vars => IInv'
<1> SUFFICES ASSUME IInv, UNCHANGED vars PROVE IInv'
  OBVIOUS
<1> USE DEF vars, IInv
<1>1. TypeOK' /\ StageInv'
  BY DEF TypeOK, Searchable, Fetched, StageInv
<1>2. Fetched' = Fetched /\ \A c : Near(c)' <=> Near(c)
  BY DEF Fetched, Near
<1>3. CutInv'
  BY <1>2 DEF CutInv
<1>4. (\A c : AtCap(c)' <=> AtCap(c)) /\ (Full' <=> Full) /\ (Capped' <=> Capped)
  BY DEF AtCap, Full, Capped
<1>5. CapInv' /\ SignalInv'
  BY <1>4, SubstantiveStays DEF CapInv, SignalInv
<1>6. QED BY <1>1, <1>3, <1>5

(***************************************************************************)
(* Theorems.                                                               *)
(***************************************************************************)

\* The invariant of a pass holds in every state of it, whatever rows come back
\* in whatever order of ties.
THEOREM Invariance == Spec => []IInv
<1>1. IInv /\ [Next]_vars => IInv'
  BY FetchRowInv, FetchInv, PassFailsInv, CutInvariant, VisitFirstInv, FirstDoneInv,
     VisitDeferredInv, SecondDoneInv, FillInv, ReturnInv, StutterInv DEF Next, Over
<1>2. QED BY InitInv, <1>1, PTL DEF Spec

\* What the rounds hold are rows, each of them once.
THEOREM TypeCorrect == Spec => []TypeOK
<1>1. IInv => TypeOK
  BY DEF IInv
<1>2. QED BY <1>1, Invariance, PTL

\* Every pass returns what ChatPipeline takes a pass to return, and never
\* nothing when the query found something.
THEOREM PassesKeepTheContract == Spec => []KeepsContract
<1>1. IInv => KeepsContract
  <2> SUFFICES ASSUME IInv PROVE KeepsContract
    OBVIOUS
  <2>1. selected \subseteq Searchable
    BY RowsAreChunks DEF IInv, TypeOK
  <2>2. Cardinality(selected) <= request.limit
    BY DEF IInv, StageInv
  <2>3. QED BY <2>1, <2>2 DEF KeepsContract, Passes, IInv, StageInv
<1>2. QED BY <1>1, Invariance, PTL

\* _keep and the fallback (retrieval.py:111-139): nothing beyond a cutoff is
\* returned unless everything is, and then only the nearest three.
THEOREM CutoffsAreHard == Spec => []CutoffsHold
<1>1. IInv => CutoffsHold
  <2> SUFFICES ASSUME IInv, stage = "done", request.kind # "card",
                      NEW c \in selected, ~Near(c)
               PROVE  /\ \A d \in Fetched : ~Near(d)
                      /\ selected \subseteq {rows[i] : i \in DOMAIN rows \cap 1..3}
    BY DEF CutoffsHold
  <2>1. selected \subseteq kept
    BY DEF IInv, TypeOK
  <2>2. QED BY <2>1 DEF IInv, CutInv
<1>2. QED BY <1>1, Invariance, PTL

\* The fill round (retrieval.py:275) exceeds the per-card cap only for places
\* no card below it could take.
THEOREM CapYieldsOnlyLast == Spec => []CapYieldsLast
<1>1. IInv => CapYieldsLast
  <2> SUFFICES ASSUME IInv, stage = "done", request.kind # "card", NEW c \in selected,
                      Cardinality({d \in selected : CardOf[d] = CardOf[c]}) > settings.perCardCap,
                      NEW d \in kept \ selected
               PROVE  AtCap(d)
    BY DEF CapYieldsLast
  <2>1. ~Capped
    <3>1. Cardinality(OfCard(c, selected)) > settings.perCardCap
      BY DEF OfCard
    <3>2. Cardinality(OfCard(c, selected)) \in Nat /\ settings.perCardCap \in Nat
      BY SelectedIsFinite, Configured DEF IInv, TypeOK
    <3>3. ~(Cardinality(OfCard(c, selected)) <= settings.perCardCap)
      BY <3>1, <3>2
    <3>4. QED BY <3>3 DEF Capped
  <2>2. QED BY <2>1 DEF IInv, CapInv
<1>2. QED BY <1>1, Invariance, PTL

\* A deferred title, category or tech-stack row (retrieval.py:236) takes a
\* place only when every substantive row had its chance.
THEOREM SubstanceComesFirst == Spec => []SignalFirst
<1>1. IInv => SignalFirst
  BY DEF IInv, SignalInv, SignalFirst, LowInformation
<1>2. QED BY <1>1, Invariance, PTL

-------------------------------------------------------------------------------
(***************************************************************************)
(* The loops of a pass.                                                    *)
(***************************************************************************)

\* The stages of a pass in order, the last ones lowest.
StageRank(s) ==
    CASE s = "query" -> 5 [] s = "cutoff" -> 4 [] s = "first" -> 3 [] s = "second" -> 2
      [] s = "fill" -> 1 [] OTHER -> 0

\* Rows the query or the present round can still come to.
Ahead == IF stage = "query" THEN Searchable \ Fetched ELSE left

\* A step goes to a later stage, or deals with one of finitely many rows.
RunsDown ==
    \/ StageRank(stage') < StageRank(stage)
    \/ /\ stage' = stage
       /\ Cardinality(Ahead) \in Nat /\ Cardinality(Ahead') \in Nat
       /\ Cardinality(Ahead') < Cardinality(Ahead)

LEMMA RunsDownStep == IInv /\ [Next]_vars => [RunsDown]_vars
<1> SUFFICES ASSUME IInv, Next, vars' # vars PROVE RunsDown
  OBVIOUS
<1>1. TypeOK
  BY DEF IInv
<1>2. IsFiniteSet(Ahead) /\ Cardinality(Ahead) \in Nat
  <2>1. Ahead \subseteq Chunks
    BY <1>1, RowsAreChunks DEF Ahead, TypeOK
  <2>2. QED BY <2>1, RetrievalAssumption, FS_Subset, FS_CardinalityType
<1>3. ASSUME NEW c \in Ahead, stage' = stage, Ahead' = Ahead \ {c}
      PROVE  RunsDown
  <2>1. IsFiniteSet(Ahead') /\ Cardinality(Ahead') = Cardinality(Ahead) - 1
    BY <1>2, <1>3, FS_RemoveElement
  <2>2. Cardinality(Ahead') \in Nat
    BY <2>1, FS_CardinalityType
  <2>3. QED BY <1>2, <1>3, <2>1, <2>2 DEF RunsDown
<1>4. CASE FetchRow
  <2>1. PICK c \in Searchable \ Fetched : rows' = Append(rows, c)
    BY <1>4 DEF FetchRow
  <2>2. stage = "query" /\ stage' = stage /\ request' = request
    BY <1>4 DEF FetchRow
  <2>3. Fetched' = Fetched \cup {c}
    BY <1>1, <2>1 DEF TypeOK, Fetched
  <2>4. Searchable' = Searchable
    BY <2>2 DEF Searchable
  <2>5. c \in Ahead /\ Ahead' = Ahead \ {c}
    BY <2>1, <2>2, <2>3, <2>4 DEF Ahead
  <2>6. QED BY <1>3, <2>2, <2>5
<1>5. CASE VisitFirst \/ VisitDeferred \/ Fill
  <2>1. NextRow \in left
    BY <1>1, <1>5, NextRowExists DEF VisitFirst, VisitDeferred, Fill
  <2>2. stage \in {"first", "second", "fill"} /\ stage' = stage /\ left' = left \ {NextRow}
    BY <1>5 DEF VisitFirst, VisitDeferred, Fill
  <2>3. Ahead = left /\ Ahead' = left \ {NextRow}
    BY <2>2 DEF Ahead
  <2>4. QED BY <1>3, <2>1, <2>2, <2>3
<1>6. CASE Fetch \/ PassFails \/ Cut \/ FirstDone \/ SecondDone \/ Return
  BY <1>6 DEF Fetch, PassFails, Cut, FirstDone, SecondDone, Return, RunsDown, StageRank
<1>7. QED BY <1>4, <1>5, <1>6 DEF Next, Over

\* A pass comes to its end whatever the query hands over and however the rows
\* are ranked: its three selection loops (retrieval.py:244-289) visit every row
\* once at most.
THEOREM PassesRunDown == Spec => [][RunsDown]_vars
BY RunsDownStep, Invariance, PTL DEF Spec

===============================================================================
