-------------------------- MODULE ChatPipelineProofs --------------------------
(***************************************************************************)
(* What holds of POST /chat for every knowledge base, router, pinning      *)
(* table and configuration: its type invariant, that budgets and their     *)
(* order, pinned chunks and category coverage survive selection, that      *)
(* answers on the multi-category path cover what was retrieved, that a     *)
(* request only runs down, and that the pipeline implements GroundedAnswer.*)
(***************************************************************************)
EXTENDS ChatPipeline, EvidenceProofs

(***************************************************************************)
(* The inductive invariant.                                                *)
(***************************************************************************)

\* Stages before a retrieval result has been merged.
Early == {"rewrite", "route", "admit", "budget", "clamp", "retrieve"}

\* What each stage has not computed yet.
NotYet ==
    /\ stage \in {"rewrite", "route"} => routed = <<>>
    /\ stage \in {"rewrite", "route", "admit", "budget", "clamp"} => retrieved = <<>>
    /\ stage \in Early => DOMAIN prov = {} /\ chunks = {} /\ rules = {}
    /\ stage \in Early \cup {"pin", "cap", "synthesize"} => synthesis = NoSynthesis
    /\ stage # "idle" => reply = NoReply
    /\ stage \in {"admit", "budget", "clamp", "pin", "cap", "gate", "retry", "enforce"} => multi

\* Admitted categories are distinct, and there is one once admission is over.
RoutedInv ==
    /\ Distinct(routed)
    /\ multi /\ stage \notin {"idle", "rewrite", "route", "admit"} => routed # <<>>
    /\ stage = "admit" => raw # <<>> \/ routed # <<>>

BudgetInv ==
    /\ multi /\ stage \in {"clamp", "retrieve"} => Len(budgets) = Len(routed)
    /\ BudgetsWithinCap

\* Evidence is stored evidence, attributed to a category that was routed.
EvidenceInv ==
    /\ stored \subseteq corpus
    /\ Len(retrieved) <= Len(routed)
    /\ \A i \in DOMAIN retrieved : retrieved[i] \subseteq corpus
    /\ DOMAIN prov \subseteq corpus
    /\ chunks \subseteq DOMAIN prov
    /\ multi => \A c \in DOMAIN prov :
           prov[c].origin \in prov[c].origins /\ prov[c].origin \in CategoriesOf(routed)
    /\ \A r \in rules : r[1] \in DOMAIN routed

\* During eviction every pinned chunk and, given room, every category is kept.
CapInv ==
    /\ stage = "cap" => PinnedChunks(prov) \subseteq chunks
    /\ stage = "cap" /\ CapHasRoom => Present(prov, routed) \subseteq OriginsOf(prov, chunks)
    /\ Selected /\ ~multi => Cardinality(chunks) <= SingleLimit
    /\ PinnedSurvive
    /\ CoverageSurvives

\* Citations are evidence; an answer has some and a refusal has none.
AnswerInv ==
    /\ synthesis.cited \subseteq chunks
    /\ Range(synthesis.forced) \subseteq chunks \ synthesis.cited
    /\ synthesis.answer = "refusal" <=> synthesis.cited = {}
    /\ synthesis.cited = {} => Range(synthesis.forced) = {}
    /\ stage = "respond" /\ multi /\ CapHasRoom /\ synthesis.cited # {}
           => Present(prov, routed)
                  \subseteq OriginsOf(prov, synthesis.cited \cup Range(synthesis.forced))
    /\ CategoriesCited

IInv == TypeOK /\ NotYet /\ RoutedInv /\ BudgetInv /\ EvidenceInv /\ CapInv /\ AnswerInv

-------------------------------------------------------------------------------

\* The ranges configuration gives the fields of Settings (config.py:395).
LEMMA SettingsFacts ==
    ASSUME NEW s \in Settings
    PROVE  /\ s.maxTotal \in 1..10 /\ s.maxTotal <= SingleLimit
           /\ s.maxCategories \in 1..3
           /\ s.rollout \in {"off", "partial", "full"}
           /\ s.keyed \in BOOLEAN /\ s.deterministic \in BOOLEAN
           /\ SingleLimit \in Nat \ {0}
BY ChatAssumption DEF SettingsRecord

\* Empty routing and evidence have their types.
LEMMA NothingYet ==
    /\ <<>> \in Seq(RoutedCategory) /\ <<>> \in Seq(1..10) /\ <<>> \in Seq(SUBSET Chunks)
    /\ DOMAIN <<>> \subseteq Chunks /\ <<>> \in [DOMAIN <<>> -> Provenance]
OBVIOUS

LEMMA InitInv == Init => IInv
<1> SUFFICES ASSUME Init PROVE IInv
  OBVIOUS
<1> USE DEF Init
<1>1. TypeOK
  <2>1. synthesis \in [answer : AnswerKinds, cited : SUBSET Chunks, forced : Forcings]
    BY DEF NoSynthesis, AnswerKinds, Forcings
  <2>2. reply \in [kind : {"none", "error", "refusal", "answer"}, evidence : SUBSET Chunks]
    BY DEF NoReply
  <2>3. stored \in Versions \cup {{}} /\ corpus \subseteq Chunks
    BY ChatAssumption
  <2>4. QED BY <2>1, <2>2, <2>3, NothingYet DEF TypeOK, Stages
<1>2. NotYet
  BY DEF NotYet, Early
<1>3. RoutedInv
  BY DEF RoutedInv, Distinct
<1>4. BudgetInv
  BY DEF BudgetInv, BudgetsWithinCap
<1>5. EvidenceInv
  BY DEF EvidenceInv
<1>6. CapInv
  BY DEF CapInv, PinnedSurvive, CoverageSurvives, Selected
<1>7. AnswerInv
  BY DEF AnswerInv, NoSynthesis, NoReply, CategoriesCited, Range
<1>8. QED BY <1>1, <1>2, <1>3, <1>4, <1>5, <1>6, <1>7 DEF IInv

LEMMA ReceiveInv == IInv /\ Receive => IInv'
<1> SUFFICES ASSUME IInv, Receive PROVE IInv'
  OBVIOUS
<1> USE DEF Receive, IInv
<1>1. TypeOK'
  <2>1. synthesis' \in [answer : AnswerKinds, cited : SUBSET Chunks, forced : Forcings]
    BY DEF NoSynthesis, AnswerKinds, Forcings
  <2>2. reply' \in [kind : {"none", "error", "refusal", "answer"}, evidence : SUBSET Chunks]
    BY DEF NoReply
  <2>3. multi' \in BOOLEAN
    OBVIOUS
  <2>4. stored' \in Versions \cup {{}} /\ corpus' \subseteq Chunks
    BY ChatAssumption DEF TypeOK
  <2>5. QED BY <2>1, <2>2, <2>3, <2>4, NothingYet DEF TypeOK, Stages
<1>2. NotYet'
  BY DEF NotYet, Early
<1>3. RoutedInv'
  BY DEF RoutedInv, Distinct
<1>4. BudgetInv'
  BY DEF BudgetInv, BudgetsWithinCap
<1>5. EvidenceInv'
  BY DEF EvidenceInv
<1>6. CapInv'
  BY DEF CapInv, PinnedSurvive, CoverageSurvives, Selected
<1>7. AnswerInv'
  BY DEF AnswerInv, NoSynthesis, NoReply, CategoriesCited, Range
<1>8. QED BY <1>1, <1>2, <1>3, <1>4, <1>5, <1>6, <1>7

\* A rebuild of the knowledge base leaves what was retrieved in the corpus.
LEMMA IngestInv == IInv /\ Ingest => IInv'
<1> SUFFICES ASSUME IInv, Ingest PROVE IInv'
  OBVIOUS
<1> USE DEF Ingest, IInv, routing, evidence, answer
<1>1. TypeOK'
  BY ChatAssumption DEF TypeOK, ChatAssumption
<1>2. NotYet'
  BY DEF NotYet, Early
<1>3. RoutedInv'
  BY DEF RoutedInv, Distinct
<1>4. BudgetInv'
  BY DEF BudgetInv, BudgetsWithinCap
<1>5. EvidenceInv'
  BY DEF EvidenceInv
<1>6. CapInv'
  BY DEF CapInv, PinnedSurvive, CoverageSurvives, Selected, CapHasRoom
<1>7. AnswerInv'
  BY DEF AnswerInv, CategoriesCited, CapHasRoom
<1>8. QED BY <1>1, <1>2, <1>3, <1>4, <1>5, <1>6, <1>7

LEMMA RewriteQuestionInv == IInv /\ RewriteQuestion => IInv'
<1> SUFFICES ASSUME IInv, RewriteQuestion PROVE IInv'
  OBVIOUS
<1> USE DEF RewriteQuestion, IInv, knowledge, routing, evidence, answer
<1>1. TypeOK'
  BY DEF TypeOK, Stages
<1>2. NotYet'
  BY DEF NotYet, Early
<1>3. RoutedInv'
  BY DEF RoutedInv, Distinct
<1>4. BudgetInv'
  BY DEF BudgetInv, BudgetsWithinCap
<1>5. EvidenceInv'
  BY DEF EvidenceInv, CategoriesOf
<1>6. CapInv'
  BY DEF CapInv, PinnedSurvive, CoverageSurvives, Selected
<1>7. AnswerInv'
  BY DEF AnswerInv, NotYet, NoReply, CategoriesCited
<1>8. QED BY <1>1, <1>2, <1>3, <1>4, <1>5, <1>6, <1>7

LEMMA RouteCategoriesInv == IInv /\ RouteCategories => IInv'
<1> SUFFICES ASSUME IInv, RouteCategories PROVE IInv'
  OBVIOUS
<1> USE DEF RouteCategories, IInv, knowledge, routing, evidence, answer
<1>1. TypeOK'
  BY ChatAssumption DEF TypeOK, Stages
<1>2. NotYet'
  BY DEF NotYet, Early
<1>3. RoutedInv'
  BY ChatAssumption DEF RoutedInv, Distinct
<1>4. BudgetInv'
  BY DEF BudgetInv, BudgetsWithinCap
<1>5. EvidenceInv'
  BY DEF EvidenceInv, CategoriesOf
<1>6. CapInv'
  BY DEF CapInv, PinnedSurvive, CoverageSurvives, Selected
<1>7. AnswerInv'
  BY DEF AnswerInv, NotYet, NoReply, CategoriesCited
<1>8. QED BY <1>1, <1>2, <1>3, <1>4, <1>5, <1>6, <1>7

LEMMA RoutingFallbackInv == IInv /\ RoutingFallback => IInv'
<1> SUFFICES ASSUME IInv, RoutingFallback PROVE IInv'
  OBVIOUS
<1> USE DEF RoutingFallback, IInv, knowledge, routing, evidence, answer
<1>1. TypeOK'
  <2>1. routed' \in Seq(RoutedCategory)
    BY DEF RoutedCategory, Confidence
  <2>2. QED BY <2>1 DEF TypeOK, Stages
<1>2. NotYet'
  BY DEF NotYet, Early
<1>3. RoutedInv'
  BY DEF RoutedInv, Distinct
<1>4. BudgetInv'
  BY DEF BudgetInv, BudgetsWithinCap
<1>5. EvidenceInv'
  BY DEF EvidenceInv, NotYet, Early, TypeOK
<1>6. CapInv'
  BY DEF CapInv, PinnedSurvive, CoverageSurvives, Selected
<1>7. AnswerInv'
  BY DEF AnswerInv, NotYet, NoReply, CategoriesCited
<1>8. QED BY <1>1, <1>2, <1>3, <1>4, <1>5, <1>6, <1>7

LEMMA RouteSingleCategoryInv == IInv /\ RouteSingleCategory => IInv'
<1> SUFFICES ASSUME IInv, RouteSingleCategory PROVE IInv'
  OBVIOUS
<1> USE DEF RouteSingleCategory, IInv, knowledge, routing, evidence, answer
<1>1. TypeOK'
  BY DEF TypeOK, Stages
<1>2. NotYet'
  BY DEF NotYet, Early
<1>3. RoutedInv'
  BY DEF RoutedInv, Distinct
<1>4. BudgetInv'
  BY DEF BudgetInv, BudgetsWithinCap
<1>5. EvidenceInv'
  BY DEF EvidenceInv, CategoriesOf
<1>6. CapInv'
  BY DEF CapInv, PinnedSurvive, CoverageSurvives, Selected
<1>7. AnswerInv'
  BY DEF AnswerInv, NotYet, NoReply, CategoriesCited
<1>8. QED BY <1>1, <1>2, <1>3, <1>4, <1>5, <1>6, <1>7

LEMMA AdmitCategoryInv == IInv /\ AdmitCategory => IInv'
<1> SUFFICES ASSUME IInv, AdmitCategory PROVE IInv'
  OBVIOUS
<1> USE DEF AdmitCategory, IInv, knowledge, routing, evidence, answer
<1>1. TypeOK'
  <2>1. raw' \in Seq(RoutedCategory) /\ routed' \in Seq(RoutedCategory)
    BY DEF TypeOK
  <2>2. QED BY <2>1 DEF TypeOK, Stages
<1>2. NotYet'
  BY DEF NotYet, Early
<1>3. RoutedInv'
  <2>1. Distinct(routed')
    <3>1. CASE Head(raw).category \in CategoriesOf(routed)
      BY <3>1 DEF RoutedInv
    <3>2. CASE Head(raw).category \notin CategoriesOf(routed)
      BY <3>2 DEF RoutedInv, Distinct, CategoriesOf, TypeOK
    <3>3. QED BY <3>1, <3>2
  <2>2. routed' # <<>>
    <3>1. CASE Head(raw).category \in CategoriesOf(routed)
      <4>1. PICK i \in DOMAIN routed : Head(raw).category = routed[i].category
        BY <3>1 DEF CategoriesOf
      <4>2. routed # <<>>
        BY <4>1
      <4>3. QED BY <3>1, <4>2
    <3>2. CASE Head(raw).category \notin CategoriesOf(routed)
      BY <3>2 DEF TypeOK
    <3>3. QED BY <3>1, <3>2
  <2>3. QED BY <2>1, <2>2 DEF RoutedInv
<1>4. BudgetInv'
  BY DEF BudgetInv, BudgetsWithinCap
<1>5. EvidenceInv'
  BY DEF EvidenceInv, NotYet, Early, TypeOK
<1>6. CapInv'
  BY DEF CapInv, PinnedSurvive, CoverageSurvives, Selected
<1>7. AnswerInv'
  BY DEF AnswerInv, NotYet, NoReply, CategoriesCited
<1>8. QED BY <1>1, <1>2, <1>3, <1>4, <1>5, <1>6, <1>7

LEMMA CategoriesAdmittedInv == IInv /\ CategoriesAdmitted => IInv'
<1> SUFFICES ASSUME IInv, CategoriesAdmitted PROVE IInv'
  OBVIOUS
<1> USE DEF CategoriesAdmitted, IInv, knowledge, routing, evidence, answer
<1>1. TypeOK'
  BY DEF TypeOK, Stages
<1>2. NotYet'
  BY DEF NotYet, Early
<1>3. RoutedInv'
  <2>1. routed # <<>>
    <3>1. CASE raw = <<>>
      BY <3>1 DEF RoutedInv
    <3>2. CASE Len(routed) = settings.maxCategories
      <4>1. settings.maxCategories \in 1..3
        BY SettingsFacts DEF TypeOK
      <4>2. QED BY <3>2, <4>1
    <3>3. QED BY <3>1, <3>2
  <2>2. QED BY <2>1 DEF RoutedInv, Distinct
<1>4. BudgetInv'
  BY DEF BudgetInv, BudgetsWithinCap
<1>5. EvidenceInv'
  BY DEF EvidenceInv, CategoriesOf
<1>6. CapInv'
  BY DEF CapInv, PinnedSurvive, CoverageSurvives, Selected
<1>7. AnswerInv'
  BY DEF AnswerInv, NotYet, NoReply, CategoriesCited
<1>8. QED BY <1>1, <1>2, <1>3, <1>4, <1>5, <1>6, <1>7

\* Budgets by position are a sequence of budgets.
LEMMA TuplesAreSequences ==
    \A n \in Nat : \A f \in [1..n -> 1..10] : f \in Seq(1..10) /\ Len(f) = n
OBVIOUS

LEMMA AllocateBudgetsInv == IInv /\ AllocateBudgets => IInv'
<1> SUFFICES ASSUME IInv, AllocateBudgets PROVE IInv'
  OBVIOUS
<1> USE DEF AllocateBudgets, IInv, knowledge, routing, evidence, answer
<1>0. budgets' \in Seq(1..10) /\ Len(budgets') = Len(routed)
  <2>1. routed \in Seq(RoutedCategory) /\ routed # <<>> /\ settings.maxTotal \in 1..10
    BY SettingsFacts DEF TypeOK, RoutedInv, NotYet
  <2>2. CASE settings.deterministic
    <3> DEFINE policy == DeterministicBudgets(routed, settings.maxTotal)
    <3>1. budgets' = [i \in DOMAIN policy |-> Larger(1, policy[i])]
      BY <2>2
    <3>2. CASE Len(routed) = 1
      <4> DEFINE all == Larger(1, settings.maxTotal)
      <4>1. policy = <<all>>
        BY <3>2 DEF DeterministicBudgets
      <4>2. all \in 1..10
        BY <2>1 DEF Larger
      <4> HIDE DEF policy, all
      <4>3. DOMAIN policy = 1..1 /\ policy[1] = all
        BY <4>1
      <4>4. budgets' \in [1..1 -> 1..10]
        BY <3>1, <4>2, <4>3 DEF Larger
      <4>5. 1 \in Nat
        OBVIOUS
      <4>6. QED BY <3>2, <4>4, <4>5, TuplesAreSequences, Zenon
    <3>3. CASE Len(routed) = 2
      <4> DEFINE rest == Larger(2, settings.maxTotal) - 3
                 share == IF rest = 0 THEN 1 ELSE rest
      <4>1. policy = <<3, share>> \/ policy = <<share, 3>>
        BY <3>3 DEF DeterministicBudgets
      <4>2. share \in Int /\ share <= 7
        BY <2>1 DEF Larger
      <4> HIDE DEF policy, share
      <4>3. DOMAIN policy = 1..2 /\ \A i \in 1..2 : policy[i] \in Int /\ policy[i] <= 7
        BY <4>1, <4>2
      <4>4. budgets' \in [1..2 -> 1..10]
        BY <3>1, <4>3 DEF Larger
      <4>5. 2 \in Nat
        OBVIOUS
      <4>6. QED BY <3>3, <4>4, <4>5, TuplesAreSequences, Zenon
    <3>4. CASE Len(routed) \notin {1, 2}
      <4>1. policy = [i \in DOMAIN routed |-> 2]
        BY <3>4 DEF DeterministicBudgets
      <4> HIDE DEF policy
      <4>2. QED BY <2>1, <3>1, <4>1 DEF Larger
    <3>5. QED BY <3>2, <3>3, <3>4
  <2>3. CASE ~ settings.deterministic
    BY <2>1, <2>3 DEF FirstTakesAll, Larger
  <2>4. QED BY <2>2, <2>3
<1>1. TypeOK'
  <2>1. budgets' \in Seq(1..10)
    BY <1>0
  <2>2. QED BY <2>1 DEF TypeOK, Stages
<1>2. NotYet'
  BY DEF NotYet, Early
<1>3. RoutedInv'
  BY DEF RoutedInv, Distinct
<1>4. BudgetInv'
  BY <1>0 DEF BudgetInv, BudgetsWithinCap
<1>5. EvidenceInv'
  BY DEF EvidenceInv, CategoriesOf
<1>6. CapInv'
  BY DEF CapInv, PinnedSurvive, CoverageSurvives, Selected
<1>7. AnswerInv'
  BY DEF AnswerInv, NotYet, NoReply, CategoriesCited
<1>8. QED BY <1>1, <1>2, <1>3, <1>4, <1>5, <1>6, <1>7

LEMMA ReduceBudgetInv == IInv /\ ReduceBudget => IInv'
<1> SUFFICES ASSUME IInv, ReduceBudget PROVE IInv'
  OBVIOUS
<1> USE DEF ReduceBudget, IInv, knowledge, routing, evidence, answer
<1>0. budgets' \in Seq(1..10) /\ Len(budgets') = Len(budgets)
  <2>1. /\ budgets \in Seq(1..10) /\ routed \in Seq(RoutedCategory) /\ Distinct(routed)
        /\ Len(budgets) = Len(routed)
    BY DEF TypeOK, RoutedInv, BudgetInv, NotYet
  <2>2. budgets \in Seq(Nat)
    BY <2>1
  <2>3. NextReduced(routed, budgets) \in Reducible(budgets)
    BY <2>1, <2>2, NextReducedExists
  <2>4. PICK i \in DOMAIN budgets : budgets[i] > 1 /\ budgets' = [budgets EXCEPT ![i] = @ - 1]
    BY <2>3 DEF Reducible
  <2>5. QED BY <2>1, <2>4
<1>1. TypeOK'
  BY <1>0 DEF TypeOK, Stages
<1>2. NotYet'
  BY DEF NotYet, Early
<1>3. RoutedInv'
  BY DEF RoutedInv, Distinct
<1>4. BudgetInv'
  BY <1>0 DEF BudgetInv, BudgetsWithinCap
<1>5. EvidenceInv'
  BY DEF EvidenceInv, CategoriesOf
<1>6. CapInv'
  BY DEF CapInv, PinnedSurvive, CoverageSurvives, Selected
<1>7. AnswerInv'
  BY DEF AnswerInv, NotYet, NoReply, CategoriesCited
<1>8. QED BY <1>1, <1>2, <1>3, <1>4, <1>5, <1>6, <1>7

LEMMA BudgetsClampedInv == IInv /\ BudgetsClamped => IInv'
<1> SUFFICES ASSUME IInv, BudgetsClamped PROVE IInv'
  OBVIOUS
<1> USE DEF BudgetsClamped, IInv, knowledge, routing, evidence, answer
<1>0. /\ budgets' \in Seq(1..10) /\ Len(budgets') = Len(routed)
      /\ \A i \in DOMAIN budgets' : budgets'[i] >= 1
      /\ Total(budgets') <= Larger(settings'.maxTotal, Len(routed'))
  <2>1. /\ budgets \in Seq(1..10) /\ Len(budgets) = Len(routed) /\ routed \in Seq(RoutedCategory)
        /\ routed # <<>> /\ settings.maxTotal \in 1..10
    BY SettingsFacts DEF TypeOK, RoutedInv, BudgetInv, NotYet
  <2>2. Total(budgets) \in Nat /\ Len(routed) \in Nat
    <3>1. 10 \in Nat
      OBVIOUS
    <3>2. Total(budgets) \in Nat
      BY <2>1, <3>1, TotalIsNatural, Zenon
    <3>3. QED BY <2>1, <3>2
  <2>3. CASE Total(budgets) <= settings.maxTotal
    BY <2>1, <2>2, <2>3 DEF Larger
  <2>4. CASE Total(budgets) > settings.maxTotal
    <3>1. Reducible(budgets) = {}
      BY <2>2, <2>4, <2>1
    <3>2. budgets \in Seq(Nat \ {0})
      BY <2>1
    <3>3. Total(budgets) = Len(budgets) /\ \A i \in DOMAIN budgets : budgets[i] = 1
      BY <3>1, <3>2, TotalOfOnes
    <3>4. HardTrim(budgets, settings.maxTotal) = budgets
      BY <2>1, <2>2, <2>4, <3>3 DEF HardTrim, Larger
    <3>5. budgets' = budgets
      BY <2>4, <3>4, <2>1, <2>2
    <3>6. QED BY <2>1, <2>2, <3>3, <3>5 DEF Larger
  <2>5. QED BY <2>1, <2>2, <2>3, <2>4
<1>1. TypeOK'
  BY <1>0 DEF TypeOK, Stages
<1>2. NotYet'
  BY DEF NotYet, Early
<1>3. RoutedInv'
  BY DEF RoutedInv, Distinct
<1>4. BudgetInv'
  BY <1>0 DEF BudgetInv, BudgetsWithinCap
<1>5. EvidenceInv'
  BY DEF EvidenceInv, CategoriesOf
<1>6. CapInv'
  BY DEF CapInv, PinnedSurvive, CoverageSurvives, Selected
<1>7. AnswerInv'
  BY DEF AnswerInv, NotYet, NoReply, CategoriesCited
<1>8. QED BY <1>1, <1>2, <1>3, <1>4, <1>5, <1>6, <1>7

LEMMA RetrieveInv == IInv /\ Retrieve => IInv'
<1> SUFFICES ASSUME IInv, Retrieve PROVE IInv'
  OBVIOUS
<1> USE DEF Retrieve, IInv, knowledge, routing, evidence, answer
<1>1. TypeOK'
  <2>1. chunks' \subseteq Chunks
    BY DEF TypeOK, Passes, EvidenceInv
  <2>2. DOMAIN prov' = chunks' /\ prov' \in [chunks' -> Provenance]
    BY DEF Provenance, Origin
  <2>3. QED BY <2>1, <2>2 DEF TypeOK, Stages
<1>2. NotYet'
  BY DEF NotYet, Early
<1>3. RoutedInv'
  BY DEF RoutedInv, Distinct
<1>4. BudgetInv'
  BY DEF BudgetInv, BudgetsWithinCap
<1>5. EvidenceInv'
  BY DEF EvidenceInv, NotYet, Early, Passes
<1>6. CapInv'
  BY DEF CapInv, PinnedSurvive, CoverageSurvives, Selected, Passes
<1>7. AnswerInv'
  BY DEF AnswerInv, NotYet, Early, NoReply, CategoriesCited, NoSynthesis, Range
<1>8. QED BY <1>1, <1>2, <1>3, <1>4, <1>5, <1>6, <1>7


LEMMA RetrieveForCategoryInv == IInv /\ RetrieveForCategory => IInv'
<1> SUFFICES ASSUME IInv, RetrieveForCategory PROVE IInv'
  OBVIOUS
<1> USE DEF RetrieveForCategory, IInv, knowledge, routing, evidence, answer
<1>1. TypeOK'
  <2>1. retrieved' \in Seq(SUBSET Chunks)
    BY DEF TypeOK, Passes, EvidenceInv
  <2>2. QED BY <2>1 DEF TypeOK, Stages
<1>2. NotYet'
  BY DEF NotYet, Early
<1>3. RoutedInv'
  BY DEF RoutedInv, Distinct
<1>4. BudgetInv'
  BY DEF BudgetInv, BudgetsWithinCap
<1>5. EvidenceInv'
  <2>1. PICK S \in SUBSET corpus : retrieved' = Append(retrieved, S)
    BY DEF Passes, EvidenceInv
  <2>2. /\ retrieved \in Seq(SUBSET Chunks) /\ routed \in Seq(RoutedCategory)
        /\ corpus \subseteq Chunks
    BY DEF TypeOK
  <2>3. Len(retrieved') <= Len(routed) /\ \A i \in DOMAIN retrieved' : retrieved'[i] \subseteq corpus
    BY <2>1, <2>2 DEF EvidenceInv
  <2>4. QED BY <2>3 DEF EvidenceInv
<1>6. CapInv'
  BY DEF CapInv, PinnedSurvive, CoverageSurvives, Selected
<1>7. AnswerInv'
  BY DEF AnswerInv, NotYet, NoReply, CategoriesCited
<1>8. QED BY <1>1, <1>2, <1>3, <1>4, <1>5, <1>6, <1>7


LEMMA MergeInv == IInv /\ Merge => IInv'
<1> SUFFICES ASSUME IInv, Merge PROVE IInv'
  OBVIOUS
<1> USE DEF Merge, IInv, knowledge, routing, evidence, answer
<1>0. /\ DOMAIN prov' = UNION Range(retrieved)
      /\ prov' \in [UNION Range(retrieved) -> Provenance]
      /\ UNION Range(retrieved) \subseteq corpus
      /\ \A c \in DOMAIN prov' : /\ prov'[c].origin \in prov'[c].origins
                                 /\ prov'[c].origin \in CategoriesOf(routed)
  <2>1. /\ routed \in Seq(RoutedCategory) /\ retrieved \in Seq(SUBSET Chunks)
        /\ Len(retrieved) <= Len(routed)
    BY DEF TypeOK, EvidenceInv
  <2>2. UNION Range(retrieved) \subseteq corpus
    BY DEF EvidenceInv, Range
  <2>3. QED BY <2>1, <2>2, MergeIsSound
<1>1. TypeOK'
  <2>1. DOMAIN prov' \subseteq Chunks /\ prov' \in [DOMAIN prov' -> Provenance]
    BY <1>0 DEF TypeOK
  <2>2. rules' \subseteq Nat \X Nat
    <3>1. \A i \in DOMAIN routed : routed[i].category \in Categories /\ i \in Nat
      <4>1. routed \in Seq(RoutedCategory)
        BY DEF TypeOK
      <4>2. \A i \in DOMAIN routed : routed[i] \in RoutedCategory /\ i \in Nat
        BY <4>1
      <4>3. QED BY <4>2 DEF RoutedCategory
    <3>2. \A k \in Categories : DOMAIN PinningRules[k] \subseteq Nat
      BY ChatAssumption
    <3>3. QED BY <3>1, <3>2
  <2>3. QED BY <2>1, <2>2 DEF TypeOK, Stages
<1>2. NotYet'
  BY DEF NotYet, Early
<1>3. RoutedInv'
  BY DEF RoutedInv, Distinct
<1>4. BudgetInv'
  BY DEF BudgetInv, BudgetsWithinCap
<1>5. EvidenceInv'
  <2>1. \A r \in rules' : r[1] \in DOMAIN routed
    OBVIOUS
  <2>2. DOMAIN prov' \subseteq corpus
    BY <1>0 DEF EvidenceInv
  <2>3. chunks' = {}
    BY DEF NotYet, Early
  <2>4. QED BY <1>0, <2>1, <2>2, <2>3 DEF EvidenceInv
<1>6. CapInv'
  BY DEF CapInv, PinnedSurvive, CoverageSurvives, Selected
<1>7. AnswerInv'
  BY DEF AnswerInv, NotYet, Early, NoReply, CategoriesCited
<1>8. QED BY <1>1, <1>2, <1>3, <1>4, <1>5, <1>6, <1>7

(***************************************************************************)
(* Pinning.                                                                *)
(***************************************************************************)

\* The rule applied next is one of those left.
LEMMA NextRuleExists ==
    ASSUME rules \subseteq Nat \X Nat, rules # {}
    PROVE  NextRule \in rules
<1> DEFINE Places == {r[1] : r \in rules}
<1>1. PICK i \in Places : \A n \in Places : i <= n
  <2>1. Places \subseteq Nat /\ Places # {}
    OBVIOUS
  <2> HIDE DEF Places
  <2>2. QED BY <2>1, SmallestExists
<1> DEFINE Orders == {r[2] : r \in {s \in rules : s[1] = i}}
<1>2. PICK j \in Orders : \A n \in Orders : j <= n
  <2>1. Orders \subseteq Nat /\ Orders # {}
    BY <1>1
  <2> HIDE DEF Orders
  <2>2. QED BY <2>1, SmallestExists
<1>3. PICK r \in rules : r[1] = i /\ r[2] = j
  BY <1>2
<1>4. \A s \in rules : r[1] < s[1] \/ (r[1] = s[1] /\ r[2] <= s[2])
  <2> SUFFICES ASSUME NEW s \in rules
               PROVE  r[1] < s[1] \/ (r[1] = s[1] /\ r[2] <= s[2])
    OBVIOUS
  <2>1. i <= s[1]
    BY <1>1
  <2>2. s[1] = i => j <= s[2]
    BY <1>2
  <2>3. QED BY <1>3, <2>1, <2>2
<1>5. QED BY <1>4 DEF NextRule

LEMMA SkipPinInv == IInv /\ SkipPin => IInv'
<1> SUFFICES ASSUME IInv, SkipPin PROVE IInv'
  OBVIOUS
<1> USE DEF SkipPin, IInv, knowledge, routing, evidence, answer
<1>1. TypeOK'
  BY DEF TypeOK, Stages
<1>2. NotYet'
  BY DEF NotYet, Early
<1>3. RoutedInv'
  BY DEF RoutedInv, Distinct
<1>4. BudgetInv'
  BY DEF BudgetInv, BudgetsWithinCap
<1>5. EvidenceInv'
  BY DEF EvidenceInv, CategoriesOf
<1>6. CapInv'
  BY DEF CapInv, PinnedSurvive, CoverageSurvives, Selected
<1>7. AnswerInv'
  BY DEF AnswerInv, NotYet, NoReply, CategoriesCited
<1>8. QED BY <1>1, <1>2, <1>3, <1>4, <1>5, <1>6, <1>7


LEMMA ApplyPinInv == IInv /\ ApplyPin => IInv'
<1> SUFFICES ASSUME IInv, ApplyPin PROVE IInv'
  OBVIOUS
<1> USE DEF ApplyPin, IInv, knowledge, routing, evidence, answer
<1>0. /\ rules' \subseteq rules /\ rules \subseteq Nat \X Nat
      /\ DOMAIN prov' \subseteq corpus /\ corpus \subseteq Chunks
      /\ DOMAIN prov \subseteq DOMAIN prov'
      /\ prov' \in [DOMAIN prov' -> Provenance]
      /\ \A c \in DOMAIN prov' : /\ prov'[c].origin \in prov'[c].origins
                                 /\ prov'[c].origin \in CategoriesOf(routed)
  <2>1. /\ rules \subseteq Nat \X Nat /\ corpus \subseteq Chunks /\ multi
        /\ routed \in Seq(RoutedCategory) /\ routed # <<>>
        /\ prov \in [DOMAIN prov -> Provenance] /\ DOMAIN prov \subseteq corpus
        /\ \A r \in rules : r[1] \in DOMAIN routed
    BY DEF TypeOK, NotYet, RoutedInv, EvidenceInv
  <2>2. \A c \in DOMAIN prov : /\ prov[c].origin \in prov[c].origins
                               /\ prov[c].origin \in CategoriesOf(routed)
    BY <2>1 DEF EvidenceInv
  <2>3. NextRule[1] \in DOMAIN routed
    BY <2>1, NextRuleExists
  <2> DEFINE primary  == routed[1].category
             category == routed[NextRule[1]].category
  <2>4. primary \in Categories /\ category \in Categories /\ primary \in CategoriesOf(routed)
    <3>1. 1 \in DOMAIN routed
      BY <2>1
    <3>2. \A i \in DOMAIN routed : routed[i] \in RoutedCategory
      BY <2>1
    <3>3. QED BY <2>3, <3>1, <3>2 DEF RoutedCategory, CategoriesOf
  <2>5. PICK d \in corpus : prov' = Pinned(prov, d, primary, category)
    BY DEF ChunksOfCard, EvidenceInv
  <2> DEFINE p == [origin |-> primary, origins |-> {primary, category}, pinned |-> TRUE]
  <2> HIDE DEF primary, category
  <2>6. p \in Provenance
    BY <2>4 DEF Provenance, Origin
  <2>7. prov' = [c \in DOMAIN prov \cup {d} |-> IF c = d THEN p ELSE prov[c]]
    BY <2>5 DEF Pinned
  <2>8. p.origin \in p.origins /\ p.origin \in CategoriesOf(routed)
    BY <2>4
  <2> HIDE DEF p
  <2>9. QED BY <2>1, <2>2, <2>6, <2>7, <2>8
<1>1. TypeOK'
  BY <1>0 DEF TypeOK, Stages
<1>2. NotYet'
  BY DEF NotYet, Early
<1>3. RoutedInv'
  BY DEF RoutedInv, Distinct
<1>4. BudgetInv'
  BY DEF BudgetInv, BudgetsWithinCap
<1>5. EvidenceInv'
  BY <1>0 DEF EvidenceInv, NotYet
<1>6. CapInv'
  BY DEF CapInv, PinnedSurvive, CoverageSurvives, Selected
<1>7. AnswerInv'
  BY DEF AnswerInv, NotYet, NoReply, CategoriesCited
<1>8. QED BY <1>1, <1>2, <1>3, <1>4, <1>5, <1>6, <1>7

(***************************************************************************)
(* The cap.                                                                *)
(***************************************************************************)

LEMMA PinningDoneInv == IInv /\ PinningDone => IInv'
<1> SUFFICES ASSUME IInv, PinningDone PROVE IInv'
  OBVIOUS
<1> USE DEF PinningDone, IInv, knowledge, routing, evidence, answer
<1>0. /\ DOMAIN prov' = DOMAIN prov /\ chunks' = DOMAIN prov /\ chunks' \subseteq Chunks
      /\ prov' \in [DOMAIN prov -> Provenance]
      /\ \A c \in DOMAIN prov : /\ prov'[c].origin = prov[c].origin
                                /\ prov[c].origins \subseteq prov'[c].origins
  <2>1. prov \in [DOMAIN prov -> Provenance] /\ DOMAIN prov \subseteq Chunks
    BY DEF TypeOK
  <2>2. CASE prov' = prov
    BY <2>1, <2>2
  <2>3. CASE prov' = ReDedup(prov)
    <3>1. \A p \in Provenance :
              LET q == [p EXCEPT !.origins = @ \cup {PinnedLabel}]
              IN  q \in Provenance /\ q.origin = p.origin /\ p.origins \subseteq q.origins
      BY DEF Provenance, Origin
    <3>2. QED BY <2>1, <2>3, <3>1 DEF ReDedup
  <2>4. QED BY <2>2, <2>3
<1>1. TypeOK'
  BY <1>0 DEF TypeOK, Stages
<1>2. NotYet'
  BY DEF NotYet, Early
<1>3. RoutedInv'
  BY DEF RoutedInv, Distinct
<1>4. BudgetInv'
  BY DEF BudgetInv, BudgetsWithinCap
<1>5. EvidenceInv'
  <2>1. multi
    BY DEF NotYet
  <2>2. \A c \in DOMAIN prov : prov[c].origin \in prov[c].origins
    BY <2>1 DEF EvidenceInv
  <2>3. QED BY <1>0, <2>2 DEF EvidenceInv
<1>6. CapInv'
  <2>1. PinnedChunks(prov') \subseteq chunks'
    BY <1>0 DEF PinnedChunks
  <2>2. Present(prov', routed') \subseteq OriginsOf(prov', chunks')
    BY <1>0 DEF Present
  <2>3. QED BY <2>1, <2>2 DEF CapInv, PinnedSurvive, CoverageSurvives, Selected
<1>7. AnswerInv'
  BY DEF AnswerInv, NotYet, Early, NoReply, CategoriesCited, NoSynthesis, Range
<1>8. QED BY <1>1, <1>2, <1>3, <1>4, <1>5, <1>6, <1>7


LEMMA EvictChunkInv == IInv /\ EvictChunk => IInv'
<1> SUFFICES ASSUME IInv, EvictChunk PROVE IInv'
  OBVIOUS
<1> USE DEF EvictChunk, IInv, knowledge, routing, evidence, answer
<1>0. /\ chunks' \subseteq chunks /\ chunks \subseteq DOMAIN prov /\ DOMAIN prov \subseteq Chunks
  BY DEF TypeOK, EvidenceInv
<1>v. Victim(prov, routed, chunks) \in Unpinned(prov, chunks)
  BY VictimExists DEF TypeOK
<1>1. TypeOK'
  BY <1>0 DEF TypeOK, Stages
<1>2. NotYet'
  BY DEF NotYet, Early
<1>3. RoutedInv'
  BY DEF RoutedInv, Distinct
<1>4. BudgetInv'
  BY DEF BudgetInv, BudgetsWithinCap
<1>5. EvidenceInv'
  BY <1>0 DEF EvidenceInv, CategoriesOf
<1>6. CapInv'
  <2>1. PinnedChunks(prov') \subseteq chunks'
    BY <1>0, <1>v DEF CapInv, PinnedChunks, Unpinned
  <2>2. ASSUME CapHasRoom
        PROVE  Present(prov, routed) \subseteq OriginsOf(prov, chunks')
    <3> DEFINE P == PinnedChunks(prov)
    <3>1. chunks \ Unpinned(prov, chunks) \subseteq P /\ P \in SUBSET Chunks
      BY <1>0 DEF Unpinned, PinnedChunks
    <3>2. settings.maxTotal \in Nat /\ routed \in Seq(RoutedCategory) /\ chunks \in SUBSET Chunks
      <4>1. settings.maxTotal \in 1..10
        BY SettingsFacts DEF TypeOK
      <4>2. QED BY <4>1 DEF TypeOK
    <3>3. Cardinality(chunks) > settings.maxTotal /\ Cardinality(P) + Len(routed) <= settings.maxTotal
      BY <2>2 DEF CapHasRoom
    <3> HIDE DEF P
    <3>4. ~ SoleCover(prov, routed, chunks, Victim(prov, routed, chunks))
      BY <3>1, <3>2, <3>3, VictimIsRedundant
    <3>5. Victim(prov, routed, chunks) \in chunks
      BY <1>v DEF Unpinned
    <3>6. Present(prov, routed) \subseteq OriginsOf(prov, chunks)
      BY <2>2 DEF CapInv
    <3>7. QED BY <3>4, <3>5, <3>6, CoverageKept
  <2>3. CapHasRoom' <=> CapHasRoom
    BY DEF CapHasRoom
  <2>4. QED BY <2>1, <2>2, <2>3 DEF CapInv, PinnedSurvive, CoverageSurvives, Selected
<1>7. AnswerInv'
  BY DEF AnswerInv, NotYet, Early, NoReply, CategoriesCited, NoSynthesis, Range
<1>8. QED BY <1>1, <1>2, <1>3, <1>4, <1>5, <1>6, <1>7


LEMMA CapDoneInv == IInv /\ CapDone => IInv'
<1> SUFFICES ASSUME IInv, CapDone PROVE IInv'
  OBVIOUS
<1> USE DEF CapDone, IInv, knowledge, routing, evidence, answer
<1>0. /\ chunks' \subseteq chunks /\ chunks \subseteq DOMAIN prov /\ DOMAIN prov \subseteq Chunks
      /\ settings.maxTotal \in Nat
      /\ Cardinality(chunks') <= settings.maxTotal
  <2>1. /\ chunks \subseteq DOMAIN prov /\ DOMAIN prov \subseteq Chunks /\ chunks \in SUBSET Chunks
        /\ settings.maxTotal \in Nat
    <3>1. settings.maxTotal \in 1..10
      BY SettingsFacts DEF TypeOK
    <3>2. QED BY <3>1 DEF TypeOK, EvidenceInv
  <2>2. QED BY <2>1, TopIsBounded
<1>k. ASSUME Cardinality(PinnedChunks(prov)) <= settings.maxTotal
      PROVE  chunks' = chunks
  <2>1. CASE Cardinality(chunks) <= settings.maxTotal
    BY <1>0, <2>1, TopKeepsAll
  <2>2. CASE Unpinned(prov, chunks) = {}
    <3>1. chunks = PinnedChunks(prov)
      BY <1>0, <2>2 DEF CapInv, Unpinned, PinnedChunks
    <3>2. Cardinality(chunks) <= settings.maxTotal
      BY <1>k, <3>1
    <3>3. QED BY <1>0, <3>2, TopKeepsAll
  <2>3. QED BY <2>1, <2>2
<1>1. TypeOK'
  BY <1>0 DEF TypeOK, Stages
<1>2. NotYet'
  BY DEF NotYet, Early
<1>3. RoutedInv'
  BY DEF RoutedInv, Distinct
<1>4. BudgetInv'
  BY DEF BudgetInv, BudgetsWithinCap
<1>5. EvidenceInv'
  BY <1>0 DEF EvidenceInv, CategoriesOf
<1>6. CapInv'
  <2>1. PinnedSurvive'
    BY <1>0, <1>k DEF PinnedSurvive, CapInv
  <2>2. ASSUME CapHasRoom'
        PROVE  Present(prov, routed) \subseteq OriginsOf(prov, chunks')
    <3>1. CapHasRoom
      BY <2>2 DEF CapHasRoom
    <3>2. Cardinality(PinnedChunks(prov)) \in Nat /\ Len(routed) \in Nat
      <4>1. IsFiniteSet(PinnedChunks(prov))
        BY <1>0, EvidenceAssumption, FS_Subset DEF PinnedChunks
      <4>2. QED BY <4>1, FS_CardinalityType DEF TypeOK
    <3>3. Cardinality(PinnedChunks(prov)) <= settings.maxTotal
      BY <1>0, <3>1, <3>2 DEF CapHasRoom
    <3>4. QED BY <1>k, <3>1, <3>3 DEF CapInv
  <2>3. multi'
    BY DEF NotYet
  <2>4. QED BY <2>1, <2>2, <2>3 DEF CapInv, CoverageSurvives, Selected
<1>7. AnswerInv'
  BY DEF AnswerInv, NotYet, Early, NoReply, CategoriesCited, NoSynthesis, Range
<1>8. QED BY <1>1, <1>2, <1>3, <1>4, <1>5, <1>6, <1>7

(***************************************************************************)
(* Synthesis and the response.                                             *)
(***************************************************************************)

\* Whatever the model writes, an answer cites chunks it was given and a
\* refusal cites none (llm.py:530: invalid indices are dropped, none left
\* means all).
LEMMA SynthesesAreGrounded ==
    ASSUME chunks \subseteq Chunks, NEW s \in Syntheses
    PROVE  /\ s \in [answer : AnswerKinds, cited : SUBSET Chunks, forced : Forcings]
           /\ s.cited \subseteq chunks
           /\ s.answer = "refusal" <=> s.cited = {}
           /\ Range(s.forced) = {}
<1>0. <<>> \in Forcings /\ Range(<<>>) = {}
  BY DEF Forcings, Range
<1>1. CASE s = NoSynthesis
  BY <1>0, <1>1 DEF NoSynthesis, AnswerKinds
<1>2. CASE chunks # {} /\ s \in [answer : {"short", "full"},
                                 cited : (SUBSET chunks) \ {{}}, forced : {<<>>}]
  <2>1. s.cited \subseteq chunks /\ s.cited # {} /\ s.answer \in {"short", "full"} /\ s.forced = <<>>
    BY <1>2
  <2>2. s = [answer |-> s.answer, cited |-> s.cited, forced |-> s.forced]
    BY <1>2
  <2>3. s \in [answer : AnswerKinds, cited : SUBSET Chunks, forced : Forcings]
    BY <1>0, <2>1, <2>2 DEF AnswerKinds
  <2>4. s.answer # "refusal"
    BY <2>1
  <2>5. QED BY <1>0, <2>1, <2>3, <2>4
<1>3. CASE chunks # {} /\ s \in FallbackSyntheses
  <2> DEFINE n == Cardinality(chunks)
  <2>1. n \in Nat \ {0}
    <3>1. IsFiniteSet(chunks)
      BY FS_Subset, EvidenceAssumption
    <3>2. QED BY <1>3, <3>1, FS_CardinalityType, FS_EmptySet
  <2>2. PICK k \in Smaller(5, n)..Smaller(10, n) : s.cited \in FirstChunks(k)
    BY <1>3 DEF FallbackSyntheses
  <2>3. s = [answer |-> s.answer, cited |-> s.cited, forced |-> <<>>]
        /\ s.answer \in {"short", "full"}
    BY <1>3 DEF FallbackSyntheses
  <2> HIDE DEF n
  <2>4. k \in Nat \ {0}
    BY <2>1, <2>2 DEF Smaller
  <2>5. s.cited \subseteq chunks /\ s.cited # {}
    <3>1. CASE multi
      <4>1. s.cited = Top(chunks, k)
        BY <2>2, <3>1 DEF FirstChunks
      <4>2. QED BY <1>3, <2>4, <4>1, TopIsBounded, TopIsNonempty
    <3>2. CASE ~multi
      <4>1. s.cited \subseteq chunks /\ Cardinality(s.cited) = k
        BY <2>2, <3>2 DEF FirstChunks
      <4>2. QED BY <2>4, <4>1, FS_EmptySet
    <3>3. QED BY <3>1, <3>2
  <2>6. s \in [answer : AnswerKinds, cited : SUBSET Chunks, forced : Forcings]
    BY <1>0, <2>3, <2>5 DEF AnswerKinds
  <2>7. s.answer # "refusal" /\ Range(s.forced) = {}
    BY <1>0, <2>3
  <2>8. QED BY <2>5, <2>6, <2>7
<1>4. QED BY <1>1, <1>2, <1>3 DEF Syntheses

LEMMA SynthesizeInv == IInv /\ Synthesize => IInv'
<1> SUFFICES ASSUME IInv, Synthesize PROVE IInv'
  OBVIOUS
<1> USE DEF Synthesize, IInv, knowledge, routing, evidence, answer
<1>0. /\ synthesis' \in [answer : AnswerKinds, cited : SUBSET Chunks, forced : Forcings]
      /\ synthesis'.cited \subseteq chunks
      /\ synthesis'.answer = "refusal" <=> synthesis'.cited = {}
      /\ Range(synthesis'.forced) = {}
  BY SynthesesAreGrounded DEF TypeOK
<1>1. TypeOK'
  BY <1>0 DEF TypeOK, Stages
<1>2. NotYet'
  BY DEF NotYet, Early
<1>3. RoutedInv'
  BY DEF RoutedInv, Distinct
<1>4. BudgetInv'
  BY DEF BudgetInv, BudgetsWithinCap
<1>5. EvidenceInv'
  BY DEF EvidenceInv, CategoriesOf
<1>6. CapInv'
  BY DEF CapInv, PinnedSurvive, CoverageSurvives, CapHasRoom, Selected
<1>7. AnswerInv'
  BY <1>0 DEF AnswerInv, NotYet, NoReply, CategoriesCited
<1>8. QED BY <1>1, <1>2, <1>3, <1>4, <1>5, <1>6, <1>7


LEMMA RetrySynthesisInv == IInv /\ RetrySynthesis => IInv'
<1> SUFFICES ASSUME IInv, RetrySynthesis PROVE IInv'
  OBVIOUS
<1> USE DEF RetrySynthesis, IInv, knowledge, routing, evidence, answer
<1>0. /\ synthesis' \in [answer : AnswerKinds, cited : SUBSET Chunks, forced : Forcings]
      /\ synthesis'.cited \subseteq chunks
      /\ synthesis'.answer = "refusal" <=> synthesis'.cited = {}
      /\ Range(synthesis'.forced) = {}
  BY SynthesesAreGrounded DEF TypeOK
<1>1. TypeOK'
  BY <1>0 DEF TypeOK, Stages
<1>2. NotYet'
  BY DEF NotYet, Early
<1>3. RoutedInv'
  BY DEF RoutedInv, Distinct
<1>4. BudgetInv'
  BY DEF BudgetInv, BudgetsWithinCap
<1>5. EvidenceInv'
  BY DEF EvidenceInv, CategoriesOf
<1>6. CapInv'
  BY DEF CapInv, PinnedSurvive, CoverageSurvives, CapHasRoom, Selected
<1>7. AnswerInv'
  BY <1>0 DEF AnswerInv, NotYet, NoReply, CategoriesCited
<1>8. QED BY <1>1, <1>2, <1>3, <1>4, <1>5, <1>6, <1>7


LEMMA QualityGateInv == IInv /\ QualityGate => IInv'
<1> SUFFICES ASSUME IInv, QualityGate PROVE IInv'
  OBVIOUS
<1> USE DEF QualityGate, IInv, knowledge, routing, evidence, answer
<1>1. TypeOK'
  BY DEF TypeOK, Stages
<1>2. NotYet'
  BY DEF NotYet, Early
<1>3. RoutedInv'
  BY DEF RoutedInv, Distinct
<1>4. BudgetInv'
  BY DEF BudgetInv, BudgetsWithinCap
<1>5. EvidenceInv'
  BY DEF EvidenceInv, CategoriesOf
<1>6. CapInv'
  BY DEF CapInv, PinnedSurvive, CoverageSurvives, CapHasRoom, Selected
<1>7. AnswerInv'
  BY DEF AnswerInv, NotYet, NoReply, CategoriesCited
<1>8. QED BY <1>1, <1>2, <1>3, <1>4, <1>5, <1>6, <1>7


\* The post-condition appends, for a category no citation covers, a chunk of
\* the evidence set retrieved for it and not cited yet.
LEMMA ForcedCoverageIsSound ==
    ASSUME NEW W \in SUBSET Chunks, NEW p, NEW r \in Seq(RoutedCategory), NEW cited
    PROVE  /\ ForcedCoverage(p, r, W, cited) \in Forcings
           /\ Range(ForcedCoverage(p, r, W, cited)) \subseteq W \ cited
           /\ CategoriesOf(r) \cap OriginsOf(p, W)
                  \subseteq OriginsOf(p, cited \cup Range(ForcedCoverage(p, r, W, cited)))
<1> DEFINE missing == CategoriesOf(r) \ OriginsOf(p, cited)
           cover(m) == {c \in W \ cited : m \in p[c].origins}
           D == {m \in missing : cover(m) # {}}
           f == ForcedCoverage(p, r, W, cited)
<1>1. f = [m \in D |-> First(cover(m))]
  BY DEF ForcedCoverage
<1>2. \A m \in D : First(cover(m)) \in cover(m)
  <2> SUFFICES ASSUME NEW m \in D PROVE First(cover(m)) \in cover(m)
    OBVIOUS
  <2>1. cover(m) \in SUBSET Chunks /\ cover(m) # {}
    OBVIOUS
  <2> HIDE DEF cover
  <2>2. QED BY <2>1, FirstExists
<1>3. D \subseteq Categories
  <2>1. \A i \in DOMAIN r : r[i] \in RoutedCategory
    OBVIOUS
  <2>2. QED BY <2>1 DEF CategoriesOf, RoutedCategory
<1>4. DOMAIN f = D /\ \A m \in D : f[m] \in cover(m)
  <2> HIDE DEF f, D, cover
  <2>1. QED BY <1>1, <1>2
<1>5. Range(f) \subseteq W \ cited
  <2> HIDE DEF f, D
  <2>1. QED BY <1>4 DEF Range
<1>6. f \in Forcings
  <2>1. f \in [D -> Chunks]
    <3> HIDE DEF f, D
    <3>1. \A m \in D : f[m] \in Chunks
      BY <1>4
    <3>2. QED BY <1>1, <3>1, <1>4
  <2> HIDE DEF f, D
  <2>2. QED BY <1>3, <2>1 DEF Forcings
<1>7. ASSUME NEW o \in CategoriesOf(r), NEW c \in W, o \in p[c].origins
      PROVE  o \in OriginsOf(p, cited \cup Range(f))
  <2>1. CASE o \in OriginsOf(p, cited)
    BY <2>1 DEF OriginsOf
  <2>2. CASE o \notin OriginsOf(p, cited)
    <3>1. c \notin cited
      BY <1>7, <2>2 DEF OriginsOf
    <3>2. o \in D
      BY <1>7, <2>2, <3>1
    <3> HIDE DEF f, D
    <3>3. f[o] \in Range(f) /\ o \in p[f[o]].origins
      BY <1>4, <3>2 DEF Range
    <3>4. QED BY <3>3 DEF OriginsOf
  <2>3. QED BY <2>1, <2>2
<1> HIDE DEF f
<1>8. CategoriesOf(r) \cap OriginsOf(p, W) \subseteq OriginsOf(p, cited \cup Range(f))
  BY <1>7 DEF OriginsOf
<1>9. QED BY <1>5, <1>6, <1>8 DEF f

LEMMA EnforceCoverageInv == IInv /\ EnforceCoverage => IInv'
<1> SUFFICES ASSUME IInv, EnforceCoverage PROVE IInv'
  OBVIOUS
<1> USE DEF EnforceCoverage, IInv, knowledge, routing, evidence, answer
<1>0. /\ synthesis' \in [answer : AnswerKinds, cited : SUBSET Chunks, forced : Forcings]
      /\ synthesis'.cited = synthesis.cited /\ synthesis'.answer = synthesis.answer
      /\ Range(synthesis'.forced) \subseteq chunks \ synthesis.cited
      /\ synthesis.cited = {} => synthesis' = synthesis
      /\ CapHasRoom /\ synthesis.cited # {} => Present(prov, routed)
             \subseteq OriginsOf(prov, synthesis.cited \cup Range(synthesis'.forced))
  <2>1. /\ synthesis \in [answer : AnswerKinds, cited : SUBSET Chunks, forced : Forcings]
        /\ chunks \in SUBSET Chunks /\ routed \in Seq(RoutedCategory) /\ routed # <<>> /\ multi
        /\ synthesis.cited \subseteq chunks /\ chunks \subseteq DOMAIN prov
        /\ Range(synthesis.forced) \subseteq chunks \ synthesis.cited
    BY DEF TypeOK, RoutedInv, NotYet, EvidenceInv, AnswerInv
  <2>2. CASE Len(routed) > 1 /\ synthesis.cited # {}
    <3> DEFINE f == ForcedCoverage(prov, routed, chunks, synthesis.cited)
    <3>1. /\ f \in Forcings /\ Range(f) \subseteq chunks \ synthesis.cited
          /\ CategoriesOf(routed) \cap OriginsOf(prov, chunks)
                 \subseteq OriginsOf(prov, synthesis.cited \cup Range(f))
      BY <2>1, ForcedCoverageIsSound
    <3>2. synthesis' = [synthesis EXCEPT !.forced = f]
      BY <2>2
    <3>3. CapHasRoom => Present(prov, routed) \subseteq CategoriesOf(routed) \cap OriginsOf(prov, chunks)
      BY <2>1 DEF CapInv, CoverageSurvives, Selected, Present
    <3> HIDE DEF f
    <3>4. QED BY <2>1, <2>2, <3>1, <3>2, <3>3
  <2>3. CASE Len(routed) <= 1 /\ synthesis.cited # {}
    <3>1. synthesis' = synthesis
      BY <2>1, <2>3
    <3>2. PICK c \in synthesis.cited : TRUE
      BY <2>3
    <3>3. prov[c].origin \in prov[c].origins /\ prov[c].origin \in CategoriesOf(routed)
      BY <2>1, <3>2 DEF EvidenceInv
    <3>4. CategoriesOf(routed) = {prov[c].origin}
      <4>1. DOMAIN routed = {1}
        <5>1. Len(routed) \in Nat /\ DOMAIN routed = 1..Len(routed)
          BY <2>1
        <5>2. Len(routed) # 0
          BY <2>1
        <5>3. QED BY <2>3, <5>1, <5>2
      <4>2. QED BY <3>3, <4>1 DEF CategoriesOf
    <3>5. CategoriesOf(routed) \subseteq OriginsOf(prov, synthesis.cited \cup Range(synthesis.forced))
      BY <3>2, <3>3, <3>4 DEF OriginsOf
    <3>6. QED BY <2>1, <2>3, <3>1, <3>5 DEF Present
  <2>4. CASE synthesis.cited = {}
    BY <2>1, <2>4
  <2>5. QED
    <3>1. Len(routed) \in Nat
      BY <2>1
    <3>2. QED BY <2>2, <2>3, <2>4, <3>1
<1>1. TypeOK'
  BY <1>0 DEF TypeOK, Stages
<1>2. NotYet'
  BY DEF NotYet, Early
<1>3. RoutedInv'
  BY DEF RoutedInv, Distinct
<1>4. BudgetInv'
  BY DEF BudgetInv, BudgetsWithinCap
<1>5. EvidenceInv'
  BY DEF EvidenceInv, CategoriesOf
<1>6. CapInv'
  BY DEF CapInv, PinnedSurvive, CoverageSurvives, CapHasRoom, Selected
<1>7. AnswerInv'
  <2>1. Range(synthesis'.forced) \subseteq chunks \ synthesis.cited
    BY <1>0
  <2>2. synthesis.cited = {} => Range(synthesis'.forced) = {}
    BY <1>0 DEF AnswerInv
  <2>3. ASSUME CapHasRoom, synthesis.cited # {}
        PROVE  Present(prov, routed)
                   \subseteq OriginsOf(prov, synthesis.cited \cup Range(synthesis'.forced))
    BY <1>0, <2>3
  <2>4. CapHasRoom' <=> CapHasRoom
    BY DEF CapHasRoom
  <2>5. CategoriesCited'
    BY DEF NotYet, NoReply, CategoriesCited
  <2>6. QED BY <1>0, <2>1, <2>2, <2>3, <2>4, <2>5 DEF AnswerInv
<1>8. QED BY <1>1, <1>2, <1>3, <1>4, <1>5, <1>6, <1>7


LEMMA RespondInv == IInv /\ Respond => IInv'
<1> SUFFICES ASSUME IInv, Respond PROVE IInv'
  OBVIOUS
<1> USE DEF Respond, IInv, knowledge, routing, evidence, answer
<1>1. TypeOK'
  <2>1. synthesis.cited \subseteq Chunks /\ Range(synthesis.forced) \subseteq Chunks
    BY DEF AnswerInv, TypeOK
  <2>2. QED BY <2>1 DEF TypeOK, Stages
<1>2. NotYet'
  BY DEF NotYet, Early
<1>3. RoutedInv'
  BY DEF RoutedInv, Distinct
<1>4. BudgetInv'
  BY DEF BudgetInv, BudgetsWithinCap
<1>5. EvidenceInv'
  BY DEF EvidenceInv, CategoriesOf
<1>6. CapInv'
  BY DEF CapInv, PinnedSurvive, CoverageSurvives, Selected
<1>7. AnswerInv'
  <2>1. CapHasRoom' <=> CapHasRoom
    BY DEF CapHasRoom
  <2>2. CategoriesCited'
    BY <2>1 DEF AnswerInv, CategoriesCited
  <2>3. QED BY <2>2 DEF AnswerInv
<1>8. QED BY <1>1, <1>2, <1>3, <1>4, <1>5, <1>6, <1>7


LEMMA RequestFailsInv == IInv /\ RequestFails => IInv'
<1> SUFFICES ASSUME IInv, RequestFails PROVE IInv'
  OBVIOUS
<1> USE DEF RequestFails, IInv, knowledge, routing, evidence, answer
<1>1. TypeOK'
  BY DEF TypeOK, Stages
<1>2. NotYet'
  BY DEF NotYet, Early
<1>3. RoutedInv'
  BY DEF RoutedInv, Distinct
<1>4. BudgetInv'
  BY DEF BudgetInv, BudgetsWithinCap
<1>5. EvidenceInv'
  BY DEF EvidenceInv, CategoriesOf
<1>6. CapInv'
  BY DEF CapInv, PinnedSurvive, CoverageSurvives, Selected
<1>7. AnswerInv'
  BY DEF AnswerInv, CategoriesCited
<1>8. QED BY <1>1, <1>2, <1>3, <1>4, <1>5, <1>6, <1>7

(***************************************************************************)
(* Theorems.                                                               *)
(***************************************************************************)

\* Every step of the handler preserves the invariant.
LEMMA StepInv == IInv /\ [Next]_vars => IInv'
<1> SUFFICES ASSUME IInv, [Next]_vars PROVE IInv'
  OBVIOUS
<1>1. CASE Next
  BY <1>1, ReceiveInv, IngestInv, RewriteQuestionInv, RouteCategoriesInv, RoutingFallbackInv,
     RouteSingleCategoryInv, AdmitCategoryInv, CategoriesAdmittedInv,
     AllocateBudgetsInv, ReduceBudgetInv, BudgetsClampedInv, RetrieveInv,
     RetrieveForCategoryInv, MergeInv, SkipPinInv, ApplyPinInv,
     PinningDoneInv, EvictChunkInv, CapDoneInv, SynthesizeInv, QualityGateInv,
     RetrySynthesisInv, EnforceCoverageInv, RespondInv, RequestFailsInv
     DEF Next, Progress
<1>2. CASE UNCHANGED vars
  <2> USE <1>2 DEF vars, knowledge, routing, evidence, answer, IInv
  <2>1. TypeOK' /\ NotYet' /\ RoutedInv' /\ BudgetInv'
    BY DEF TypeOK, NotYet, RoutedInv, BudgetInv, BudgetsWithinCap
  <2>2. EvidenceInv' /\ CapInv'
    BY DEF EvidenceInv, CapInv, PinnedSurvive, CoverageSurvives, CapHasRoom, Selected
  <2>3. AnswerInv'
    BY DEF AnswerInv, CategoriesCited, CapHasRoom
  <2>4. QED BY <2>1, <2>2, <2>3
<1>3. QED BY <1>1, <1>2

\* The invariant the pipeline's theorems rest on holds in every state: it
\* says, per stage, what the stages before have established.
THEOREM Invariance == Spec => []IInv
BY InitInv, StepInv, PTL DEF Spec

\* Every variable holds a value of its kind, whatever the router and the model
\* answer and however a request ends.
THEOREM TypeCorrect == Spec => []TypeOK
<1>1. IInv => TypeOK
  BY DEF IInv
<1>2. QED BY <1>1, Invariance, PTL

\* _clamp_budgets (main.py:460) leaves every routed category at least one
\* chunk and all of them together no more than the cap, for every confidence,
\* policy and cap, as long as the cap can give each category its one.
THEOREM ClampIsSound == Spec => []BudgetsWithinCap
<1>1. IInv => BudgetsWithinCap
  BY DEF IInv, BudgetInv
<1>2. QED BY <1>1, Invariance, PTL

\* cap_chunks_with_coverage (retrieval.py:847) hands synthesis at most
\* max_total_chunks chunks, none of them invented, and drops no pinned chunk
\* that fits.
THEOREM PinsSurviveTheCap == Spec => []PinnedSurvive
<1>1. IInv => PinnedSurvive
  BY DEF IInv, CapInv
<1>2. QED BY <1>1, Invariance, PTL

\* With room for the pinned chunks and one chunk per routed category, eviction
\* never reaches its last resort (retrieval.py:917): no category that retrieved
\* something loses its last chunk.
THEOREM CoverageSurvivesTheCap == Spec => []CoverageSurvives
<1>1. IInv => CoverageSurvives
  BY DEF IInv, CapInv
<1>2. QED BY <1>1, Invariance, PTL

\* With the same room, whatever the model cites and however often it is asked,
\* an answer shows evidence for every routed category that retrieved any.
THEOREM AnswersCoverCategories == Spec => []CategoriesCited
<1>1. IInv => CategoriesCited
  BY DEF IInv, AnswerInv
<1>2. QED BY <1>1, Invariance, PTL

-------------------------------------------------------------------------------
(***************************************************************************)
(* Confidence and forced evidence: invariants relative to the first one.   *)
(***************************************************************************)

\* Of two categories, at most one is without a citation.
ForcedInv == Len(routed) <= 2 => \A m, n \in DOMAIN synthesis.forced : m = n

\* What ConfidenceRespected says of given budgets.
OrderKept(b) ==
    \A i, j \in DOMAIN routed :
        ConfidenceRank(routed[i].confidence) > ConfidenceRank(routed[j].confidence) => b[i] >= b[j]

\* The order of confidence holds from the allocation on, through the clamp.
ConfidenceInv ==
    stage \in {"clamp", "retrieve"} /\ multi /\ settings.deterministic /\ settings.maxTotal <= 6
        => OrderKept(budgets)

\* With two categories and something cited, one of them is covered.
LEMMA ForcedCoverageIsOne ==
    ASSUME IInv, multi, stage = "enforce", synthesis.cited # {}, Len(routed) <= 2
    PROVE  \A m, n \in DOMAIN ForcedCoverage(prov, routed, chunks, synthesis.cited) : m = n
<1> DEFINE f == ForcedCoverage(prov, routed, chunks, synthesis.cited)
           missing == CategoriesOf(routed) \ OriginsOf(prov, synthesis.cited)
<1>1. DOMAIN f \subseteq missing
  BY DEF ForcedCoverage
<1>2. PICK c \in synthesis.cited : c \in DOMAIN prov
  BY DEF IInv, AnswerInv, EvidenceInv
<1>3. prov[c].origin \in OriginsOf(prov, synthesis.cited) /\ prov[c].origin \in CategoriesOf(routed)
  BY <1>2 DEF IInv, EvidenceInv, OriginsOf
<1>4. PICK k \in DOMAIN routed : routed[k].category = prov[c].origin
  BY <1>3 DEF CategoriesOf
<1>5. DOMAIN routed \subseteq 1..2
  BY DEF IInv, TypeOK
<1>6. ASSUME NEW m \in missing, NEW n \in missing PROVE m = n
  <2>1. PICK i \in DOMAIN routed : routed[i].category = m
    BY DEF CategoriesOf
  <2>2. PICK j \in DOMAIN routed : routed[j].category = n
    BY DEF CategoriesOf
  <2>3. i # k /\ j # k
    BY <1>3, <1>4, <2>1, <2>2
  <2>4. i = j
    BY <1>4, <1>5, <2>1, <2>2, <2>3
  <2>5. QED BY <2>1, <2>2, <2>4
<1>7. QED BY <1>1, <1>6

\* Only the post-condition forces chunks in; the routing is settled long before.
LEMMA ForcedStep == IInv /\ ForcedInv /\ [Next]_vars => ForcedInv'
<1> SUFFICES ASSUME IInv, ForcedInv, [Next]_vars PROVE ForcedInv'
  OBVIOUS
<1>1. CASE synthesis' = NoSynthesis
  BY <1>1 DEF ForcedInv, NoSynthesis
<1>2. CASE UNCHANGED <<synthesis, routed>>
  BY <1>2 DEF ForcedInv
<1>3. CASE RoutingFallback \/ AdmitCategory
  <2>1. synthesis' = NoSynthesis
    BY <1>3 DEF RoutingFallback, AdmitCategory, IInv, NotYet, Early, answer
  <2>2. QED BY <1>1, <2>1
<1>4. CASE Synthesize \/ RetrySynthesis
  <2>1. synthesis'.forced = <<>>
    BY <1>4 DEF Synthesize, RetrySynthesis, Syntheses, FallbackSyntheses, NoSynthesis
  <2>2. QED BY <2>1 DEF ForcedInv
<1>5. CASE EnforceCoverage
  <2>1. multi /\ stage = "enforce" /\ routed' = routed
    BY <1>5 DEF EnforceCoverage, IInv, NotYet, routing
  <2>2. CASE Len(routed) > 1 /\ synthesis.cited # {}
    <3> DEFINE f == ForcedCoverage(prov, routed, chunks, synthesis.cited)
    <3>1. synthesis' = [synthesis EXCEPT !.forced = f]
      BY <1>5, <2>2 DEF EnforceCoverage
    <3>2. synthesis'.forced = f
      <4> HIDE DEF f
      <4>1. QED BY <3>1 DEF IInv, TypeOK
    <3>3. QED BY <2>1, <2>2, <3>2, ForcedCoverageIsOne DEF ForcedInv
  <2>3. CASE ~(Len(routed) > 1 /\ synthesis.cited # {})
    <3>1. synthesis' = synthesis
      BY <1>5, <2>3 DEF EnforceCoverage
    <3>2. QED BY <1>2, <2>1, <3>1
  <2>4. QED BY <2>2, <2>3
<1>6. QED
  BY <1>1, <1>2, <1>3, <1>4, <1>5 DEF Next, Progress, vars, Receive, Ingest, RewriteQuestion,
     RouteCategories, RouteSingleCategory, CategoriesAdmitted, AllocateBudgets, ReduceBudget,
     BudgetsClamped, Retrieve, RetrieveForCategory, Merge, SkipPin, ApplyPin, PinningDone,
     EvictChunk, CapDone, QualityGate, Respond, RequestFails, routing, answer

\* The fixed share of three goes to the more confident of two categories, and
\* up to a cap of six the rest is no larger (main.py:428).
LEMMA AllocationKeepsOrder ==
    IInv /\ AllocateBudgets /\ settings.deterministic /\ settings.maxTotal <= 6 => OrderKept(budgets')
<1> SUFFICES ASSUME IInv, AllocateBudgets, settings.deterministic, settings.maxTotal <= 6
             PROVE  OrderKept(budgets')
  OBVIOUS
<1> DEFINE policy == DeterministicBudgets(routed, settings.maxTotal)
           rank(i) == ConfidenceRank(routed[i].confidence)
<1>1. budgets' = [i \in DOMAIN policy |-> Larger(1, policy[i])]
  BY DEF AllocateBudgets
<1>2. routed \in Seq(RoutedCategory) /\ settings.maxTotal \in 1..10
  BY SettingsFacts DEF IInv, TypeOK
<1>3. \A i \in DOMAIN routed : rank(i) \in Nat
  BY <1>2, RoutedHaveRanks
<1>4. CASE Len(routed) = 1
  <2>1. DOMAIN routed = {1}
    BY <1>2, <1>4
  <2>2. QED BY <1>3, <2>1 DEF OrderKept
<1>5. CASE Len(routed) = 2
  <2> DEFINE rest == Larger(2, settings.maxTotal) - 3
             share == IF rest = 0 THEN 1 ELSE rest
  <2>1. /\ LeftLeads(routed[1], routed[2]) => policy = <<3, share>>
        /\ ~LeftLeads(routed[1], routed[2]) => policy = <<share, 3>>
    BY <1>5 DEF DeterministicBudgets
  <2>2. share \in Int /\ share <= 3
    BY <1>2 DEF Larger
  <2>3. DOMAIN routed = 1..2
    BY <1>2, <1>5
  <2>4. /\ rank(1) > rank(2) => LeftLeads(routed[1], routed[2])
        /\ rank(2) > rank(1) => ~LeftLeads(routed[1], routed[2])
    BY <1>3, <2>3 DEF LeftLeads
  <2> HIDE DEF policy, share, rank
  <2>5. rank(1) > rank(2) => budgets'[1] >= budgets'[2]
    BY <1>1, <2>1, <2>2, <2>4 DEF Larger
  <2>6. rank(2) > rank(1) => budgets'[2] >= budgets'[1]
    BY <1>1, <2>1, <2>2, <2>4 DEF Larger
  <2>7. \A i, j \in 1..2 : rank(i) > rank(j) => budgets'[i] >= budgets'[j]
    <3>1. \A i \in 1..2 : i = 1 \/ i = 2
      OBVIOUS
    <3>2. ~(rank(1) > rank(1)) /\ ~(rank(2) > rank(2))
      <4>1. rank(1) \in Nat /\ rank(2) \in Nat
        BY <1>3, <2>3
      <4>2. QED BY <4>1
    <3>3. QED BY <2>5, <2>6, <3>1, <3>2
  <2>8. QED BY <2>3, <2>7 DEF OrderKept, rank
<1>6. CASE Len(routed) \notin {1, 2}
  <2>1. policy = [i \in DOMAIN routed |-> 2]
    BY <1>6 DEF DeterministicBudgets
  <2> HIDE DEF policy
  <2>2. \A i \in DOMAIN routed : budgets'[i] = 2
    BY <1>1, <2>1 DEF Larger
  <2>3. QED BY <2>2 DEF OrderKept
<1>7. QED BY <1>4, <1>5, <1>6

\* Lowering a budget keeps the order: the category it comes off is the least
\* confident that has more than one.
LEMMA ReductionKeepsOrder == IInv /\ OrderKept(budgets) /\ ReduceBudget => OrderKept(budgets')
<1> SUFFICES ASSUME IInv, OrderKept(budgets), ReduceBudget PROVE OrderKept(budgets')
  OBVIOUS
<1> DEFINE rank(i) == ConfidenceRank(routed[i].confidence)
<1>1. /\ budgets \in Seq(1..10) /\ routed \in Seq(RoutedCategory) /\ Distinct(routed)
      /\ Len(budgets) = Len(routed) /\ Reducible(budgets) # {}
  BY DEF ReduceBudget, IInv, TypeOK, RoutedInv, BudgetInv, NotYet
<1>2. budgets \in Seq(Nat) /\ DOMAIN budgets = DOMAIN routed
      /\ \A i \in DOMAIN routed : budgets[i] \in 1..10
  BY <1>1
<1>3. PICK k \in Reducible(budgets) :
          /\ budgets' = [budgets EXCEPT ![k] = @ - 1]
          /\ \A j \in Reducible(budgets) \ {k} : ReducedBefore(routed, budgets, k, j)
  BY <1>1, <1>2, NextReducedExists DEF ReduceBudget
<1>4. k \in DOMAIN routed /\ budgets[k] > 1
  BY <1>2, <1>3 DEF Reducible
<1>5. \A i \in DOMAIN routed : rank(i) \in Nat
  BY <1>1, RoutedHaveRanks
<1>6. ASSUME NEW i \in DOMAIN routed, NEW j \in DOMAIN routed, rank(i) > rank(j)
      PROVE  budgets'[i] >= budgets'[j]
  <2>1. budgets[i] >= budgets[j]
    BY <1>6 DEF OrderKept
  <2>2. i # j
    BY <1>5, <1>6
  <2>3. CASE i = k
    <3>1. ~ReducedBefore(routed, budgets, k, j)
      BY <1>5, <1>6, <2>3 DEF ReducedBefore
    <3>2. j \notin Reducible(budgets)
      BY <1>3, <2>2, <2>3, <3>1
    <3>3. budgets[j] = 1
      BY <1>2, <3>2 DEF Reducible
    <3>4. QED BY <1>2, <1>3, <1>4, <2>2, <2>3, <3>3
  <2>4. CASE i # k
    <3>1. budgets'[i] = budgets[i]
      BY <1>2, <1>3, <2>4
    <3>2. budgets'[j] = budgets[j] \/ budgets'[j] = budgets[j] - 1
      BY <1>2, <1>3
    <3>3. QED BY <1>2, <2>1, <3>1, <3>2
  <2>5. QED BY <2>3, <2>4
<1>7. QED BY <1>6 DEF OrderKept, ReduceBudget

\* The closing trim finds only budgets of one, and leaves them.
LEMMA TrimKeepsOrder == IInv /\ OrderKept(budgets) /\ BudgetsClamped => OrderKept(budgets')
<1> SUFFICES ASSUME IInv, OrderKept(budgets), BudgetsClamped PROVE OrderKept(budgets')
  OBVIOUS
<1>1. /\ budgets \in Seq(1..10) /\ Len(budgets) = Len(routed) /\ routed \in Seq(RoutedCategory)
      /\ routed # <<>> /\ settings.maxTotal \in 1..10
  BY SettingsFacts DEF BudgetsClamped, IInv, TypeOK, RoutedInv, BudgetInv, NotYet
<1>2. Total(budgets) \in Nat /\ Len(routed) \in Nat
  <2>1. 10 \in Nat
    OBVIOUS
  <2>2. Total(budgets) \in Nat
    BY <1>1, <2>1, TotalIsNatural, Zenon
  <2>3. QED BY <1>1, <2>2
<1>3. CASE ~(Total(budgets) > settings.maxTotal)
  BY <1>3 DEF BudgetsClamped, OrderKept
<1>4. CASE Total(budgets) > settings.maxTotal
  <2>1. Reducible(budgets) = {}
    BY <1>1, <1>2, <1>4 DEF BudgetsClamped
  <2>2. budgets \in Seq(Nat \ {0})
    BY <1>1
  <2>3. Total(budgets) = Len(budgets) /\ \A i \in DOMAIN budgets : budgets[i] = 1
    BY <2>1, <2>2, TotalOfOnes
  <2>4. HardTrim(budgets, settings.maxTotal) = budgets
    BY <1>1, <1>2, <1>4, <2>3 DEF HardTrim, Larger
  <2>5. QED BY <1>4, <2>4 DEF BudgetsClamped, OrderKept
<1>5. QED BY <1>3, <1>4

LEMMA ConfidenceStep == IInv /\ ConfidenceInv /\ [Next]_vars => ConfidenceInv'
<1> SUFFICES ASSUME IInv, ConfidenceInv, [Next]_vars,
                    stage' \in {"clamp", "retrieve"}, multi', settings'.deterministic,
                    settings'.maxTotal <= 6
             PROVE  OrderKept(budgets)'
  BY DEF ConfidenceInv
<1>1. CASE AllocateBudgets
  <2>1. settings' = settings /\ routed' = routed
    BY <1>1 DEF AllocateBudgets
  <2>2. OrderKept(budgets')
    BY <1>1, <2>1, AllocationKeepsOrder
  <2>3. QED BY <2>1, <2>2 DEF OrderKept
<1>2. CASE ReduceBudget \/ BudgetsClamped
  <2>1. /\ settings' = settings /\ routed' = routed /\ multi' = multi /\ stage = "clamp"
    BY <1>2 DEF ReduceBudget, BudgetsClamped
  <2>2. OrderKept(budgets)
    BY <2>1 DEF ConfidenceInv
  <2>3. OrderKept(budgets')
    BY <1>2, <2>2, ReductionKeepsOrder, TrimKeepsOrder
  <2>4. QED BY <2>1, <2>3 DEF OrderKept
<1>3. CASE UNCHANGED <<settings, routed, budgets, multi>> /\ stage \in {"clamp", "retrieve"}
  BY <1>3 DEF ConfidenceInv, OrderKept
<1>4. QED
  BY <1>1, <1>2, <1>3 DEF Next, Progress, vars, Receive, Ingest, RewriteQuestion,
     RouteCategories, RoutingFallback, RouteSingleCategory, AdmitCategory, CategoriesAdmitted,
     Retrieve, RetrieveForCategory, Merge, SkipPin, ApplyPin, PinningDone,
     EvictChunk, CapDone, Synthesize, QualityGate, RetrySynthesis, EnforceCoverage, Respond,
     RequestFails, routing

LEMMA InitialOrders == Init => ForcedInv /\ ConfidenceInv
BY DEF Init, ForcedInv, ConfidenceInv, NoSynthesis

\* Chunks appended for coverage are not cited already, and with at most two
\* routed categories none is listed twice (main.py:947, :970).
THEOREM ForcedEvidenceIsDistinct == Spec => []ForcedEvidenceDistinct
<1>1. IInv /\ ForcedInv => ForcedEvidenceDistinct
  BY DEF IInv, AnswerInv, ForcedInv, ForcedEvidenceDistinct, IsInjective
<1>2. QED BY Invariance, InitialOrders, ForcedStep, <1>1, PTL DEF Spec

\* Up to a cap of six the deterministic policy never gives the more confident
\* category the smaller budget, whatever the clamp takes away (main.py:428, :465).
THEOREM ConfidenceIsRespected == Spec => []ConfidenceRespected
<1>1. ConfidenceInv => ConfidenceRespected
  BY DEF ConfidenceInv, ConfidenceRespected, OrderKept
<1>2. QED BY Invariance, InitialOrders, ConfidenceStep, <1>1, PTL DEF Spec

-------------------------------------------------------------------------------
(***************************************************************************)
(* What eviction gives up when there is no room.                           *)
(***************************************************************************)

\* What CoverageYieldsLast says of evidence W.
YieldedLast(p, r, W) ==
    ~(Present(p, r) \subseteq OriginsOf(p, W)) => \A c \in Unpinned(p, W) : SoleCover(p, r, W, c)

\* It holds from the first eviction on.
LossInv == multi /\ (stage = "cap" \/ Selected) => YieldedLast(prov, routed, chunks)

\* One turn of the eviction loop: a chunk that was the last cover of a category
\* goes only when every unpinned chunk was, and those that stay still are.
LEMMA EvictionYieldsLast ==
    ASSUME NEW W \in SUBSET Chunks, NEW p, NEW r, Unpinned(p, W) # {}, YieldedLast(p, r, W)
    PROVE  YieldedLast(p, r, W \ {Victim(p, r, W)})
<1> DEFINE v == Victim(p, r, W)
<1>1. v \in EvictionCandidates(p, r, W) /\ v \in Unpinned(p, W)
  BY VictimExists
<1>2. v \in W
  BY <1>1 DEF Unpinned
<1> SUFFICES YieldedLast(p, r, W \ {v})
  OBVIOUS
<1> HIDE DEF v
<1>3. ASSUME \A c \in Unpinned(p, W) : SoleCover(p, r, W, c)
      PROVE  \A c \in Unpinned(p, W \ {v}) : SoleCover(p, r, W \ {v}, c)
  BY <1>3 DEF Unpinned, SoleCover
<1>4. CASE ~(Present(p, r) \subseteq OriginsOf(p, W))
  BY <1>3, <1>4 DEF YieldedLast
<1>5. CASE Present(p, r) \subseteq OriginsOf(p, W) /\ SoleCover(p, r, W, v)
  <2>1. \A c \in Unpinned(p, W) : SoleCover(p, r, W, c)
    BY <1>1, <1>5 DEF EvictionCandidates
  <2>2. QED BY <1>3, <2>1 DEF YieldedLast
<1>6. CASE Present(p, r) \subseteq OriginsOf(p, W) /\ ~SoleCover(p, r, W, v)
  BY <1>2, <1>6, CoverageKept DEF YieldedLast
<1>7. QED BY <1>4, <1>5, <1>6

LEMMA LossStep == IInv /\ LossInv /\ [Next]_vars => LossInv'
<1> SUFFICES ASSUME IInv, LossInv, [Next]_vars, multi', stage' = "cap" \/ Selected'
             PROVE  YieldedLast(prov', routed', chunks')
  BY DEF LossInv
<1>1. CASE UNCHANGED <<prov, routed, chunks, multi>> /\ (stage = "cap" \/ Selected)
  BY <1>1 DEF LossInv
<1>2. CASE PinningDone
  <2>1. DOMAIN prov' = chunks'
    BY <1>2 DEF PinningDone, ReDedup
  <2>2. QED BY <2>1 DEF YieldedLast, Present
<1>3. CASE EvictChunk
  <2>1. /\ multi /\ stage = "cap" /\ chunks \in SUBSET Chunks /\ Unpinned(prov, chunks) # {}
        /\ prov' = prov /\ routed' = routed /\ chunks' = chunks \ {Victim(prov, routed, chunks)}
    BY <1>3 DEF EvictChunk, routing, IInv, TypeOK, NotYet
  <2>2. QED BY <2>1, EvictionYieldsLast DEF LossInv
<1>4. CASE CapDone
  <2>1. /\ multi /\ stage = "cap" /\ chunks \in SUBSET Chunks
        /\ prov' = prov /\ routed' = routed /\ chunks' = Top(chunks, settings.maxTotal)
        /\ Cardinality(chunks) <= settings.maxTotal \/ Unpinned(prov, chunks) = {}
    BY <1>4 DEF CapDone, routing, IInv, TypeOK, NotYet
  <2>2. settings.maxTotal \in Nat
    <3>1. settings.maxTotal \in 1..10
      BY SettingsFacts DEF IInv, TypeOK
    <3>2. QED BY <3>1
  <2>3. CASE Cardinality(chunks) <= settings.maxTotal
    <3>1. chunks' = chunks
      BY <2>1, <2>2, <2>3, TopKeepsAll
    <3>2. QED BY <2>1, <3>1 DEF LossInv
  <2>4. CASE Unpinned(prov, chunks) = {}
    <3>1. chunks' \subseteq chunks
      BY <2>1 DEF Top
    <3>2. Unpinned(prov', chunks') = {}
      BY <2>1, <2>4, <3>1 DEF Unpinned
    <3>3. QED BY <3>2 DEF YieldedLast
  <2>5. QED BY <2>1, <2>3, <2>4
<1>5. CASE Retrieve
  BY <1>5 DEF Retrieve
<1>6. CASE Synthesize \/ QualityGate \/ RetrySynthesis \/ EnforceCoverage
  BY <1>1, <1>6 DEF Synthesize, QualityGate, RetrySynthesis, EnforceCoverage, Selected, routing,
     evidence
<1>7. CASE UNCHANGED vars \/ Ingest
  <2>1. UNCHANGED <<prov, routed, chunks, multi, stage>>
    BY <1>7 DEF vars, Ingest, routing, evidence
  <2>2. QED BY <1>1, <2>1 DEF Selected
<1>8. ASSUME \/ Receive \/ RewriteQuestion \/ RouteCategories \/ RoutingFallback
             \/ RouteSingleCategory \/ AdmitCategory \/ CategoriesAdmitted \/ AllocateBudgets
             \/ ReduceBudget \/ BudgetsClamped \/ RetrieveForCategory \/ Merge \/ SkipPin
             \/ ApplyPin \/ Respond \/ RequestFails
      PROVE  FALSE
  BY <1>8 DEF Receive, RewriteQuestion, RouteCategories, RoutingFallback, RouteSingleCategory,
     AdmitCategory, CategoriesAdmitted, AllocateBudgets, ReduceBudget, BudgetsClamped,
     RetrieveForCategory, Merge, SkipPin, ApplyPin, Respond, RequestFails, Selected
<1>9. QED
  BY <1>2, <1>3, <1>4, <1>5, <1>6, <1>7, <1>8 DEF Next, Progress

\* Whatever the room, a covered category is the last thing eviction gives up
\* (retrieval.py:917): when one is lost, every unpinned chunk left is the only
\* one of some category.
THEOREM CoverageIsGivenUpLast == Spec => []CoverageYieldsLast
<1>1. Init => LossInv
  BY DEF Init, LossInv, Selected
<1>2. LossInv => CoverageYieldsLast
  BY DEF LossInv, CoverageYieldsLast, YieldedLast
<1>3. QED BY Invariance, <1>1, LossStep, <1>2, PTL DEF Spec

-------------------------------------------------------------------------------
(***************************************************************************)
(* What RequestEnds rests on, short of fairness: a request under way only  *)
(* runs down, through its stages and through the turns of their loops.     *)
(***************************************************************************)

\* Stages in the order a request passes them, the last one lowest.
StageRank(s) ==
    CASE s = "rewrite" -> 13 [] s = "route" -> 12 [] s = "admit" -> 11 [] s = "budget" -> 10
      [] s = "clamp" -> 9 [] s = "retrieve" -> 8 [] s = "pin" -> 7 [] s = "cap" -> 6
      [] s = "synthesize" -> 5 [] s = "gate" -> 4 [] s = "retry" -> 3 [] s = "enforce" -> 2
      [] s = "respond" -> 1 [] OTHER -> 0

\* A bound on the turns the loop of the present stage has left.
Turns ==
    CASE stage = "admit"    -> Len(raw)
      [] stage = "clamp"    -> Total(budgets)
      [] stage = "retrieve" -> Len(routed) - Len(retrieved)
      [] stage = "pin"      -> Cardinality(rules)
      [] stage = "cap"      -> Cardinality(chunks)
      [] OTHER              -> 0

Descends ==
    \/ StageRank(stage') < StageRank(stage)
    \/ stage' = stage /\ Turns \in Nat /\ Turns' \in Nat /\ Turns' < Turns

\* Every step of the handler, and whatever else changes where a request under
\* way is, brings it closer to its end.
RunsDown == Progress \/ (stage # "idle" /\ <<stage, Turns>>' # <<stage, Turns>>) => Descends

FiniteRules == IsFiniteSet(rules)

\* The rules of the routed categories are finitely many, and none is added.
LEMMA FiniteRulesStep == IInv /\ FiniteRules /\ [Next]_vars => FiniteRules'
<1> SUFFICES ASSUME IInv, FiniteRules, [Next]_vars PROVE FiniteRules'
  OBVIOUS
<1>1. CASE Merge
  <2> DEFINE D == DOMAIN routed
             row == [i \in D |-> {i} \X DOMAIN PinningRules[routed[i].category]]
  <2>1. routed \in Seq(RoutedCategory)
    BY DEF IInv, TypeOK
  <2>2. IsFiniteSet(D)
    <3>1. Len(routed) \in Nat /\ D = 1..Len(routed)
      BY <2>1
    <3>2. QED BY <3>1, FS_Interval
  <2>3. \A i \in D : IsFiniteSet(row[i])
    <3> SUFFICES ASSUME NEW i \in D PROVE IsFiniteSet(row[i])
      OBVIOUS
    <3>1. routed[i].category \in Categories
      <4>1. i \in 1..Len(routed)
        BY <2>1
      <4>2. routed[i] \in RoutedCategory
        BY <2>1, <4>1
      <4>3. QED BY <4>2 DEF RoutedCategory
    <3>2. PinningRules[routed[i].category] \in Seq(Cards)
      BY <3>1, ChatAssumption
    <3>3. IsFiniteSet(DOMAIN PinningRules[routed[i].category])
      <4> DEFINE n == Len(PinningRules[routed[i].category])
      <4>1. n \in Nat /\ DOMAIN PinningRules[routed[i].category] = 1..n
        BY <3>2
      <4> HIDE DEF n
      <4>2. QED BY <4>1, FS_Interval
    <3>4. IsFiniteSet({i})
      BY FS_Singleton, Zenon
    <3>5. QED BY <3>3, <3>4, FS_Product
  <2> DEFINE T == {row[i] : i \in D}
  <2>4. IsFiniteSet(T)
    <3>1. row \in Surjection(D, T)
      BY DEF Surjection
    <3> HIDE DEF T, row, D
    <3>2. QED BY <2>2, <3>1, FS_Surjection
  <2>5. \A R \in T : IsFiniteSet(R)
    BY <2>3
  <2>6. rules' = UNION T
    <3>1. \A i \in D : row[i] = {<<i, j>> : j \in DOMAIN PinningRules[routed[i].category]}
      OBVIOUS
    <3>2. rules' = UNION {{<<i, j>> : j \in DOMAIN PinningRules[routed[i].category]} : i \in D}
      BY <1>1 DEF Merge
    <3> HIDE DEF row
    <3>3. QED BY <3>1, <3>2
  <2> HIDE DEF T
  <2>7. IsFiniteSet(UNION T)
    BY <2>4, <2>5, FS_UNION
  <2>8. QED BY <2>6, <2>7 DEF FiniteRules
<1>2. CASE SkipPin \/ ApplyPin
  BY <1>2, FS_RemoveElement DEF SkipPin, ApplyPin, FiniteRules
<1>3. CASE Receive
  BY <1>3, FS_EmptySet DEF Receive, FiniteRules
<1>4. CASE UNCHANGED rules
  BY <1>4 DEF FiniteRules
<1>5. [Next]_vars => Merge \/ SkipPin \/ ApplyPin \/ Receive \/ UNCHANGED rules
  BY DEF Next, Progress, vars, evidence, Ingest, RewriteQuestion, RouteCategories, RoutingFallback,
     RouteSingleCategory, AdmitCategory, CategoriesAdmitted, AllocateBudgets, ReduceBudget,
     BudgetsClamped, Retrieve, RetrieveForCategory, PinningDone, EvictChunk, CapDone, Synthesize,
     QualityGate, RetrySynthesis, EnforceCoverage, Respond, RequestFails
<1>6. QED BY <1>1, <1>2, <1>3, <1>4, <1>5

\* Where the handler leaves a stage it goes to a later one, or answers.
LEMMA StagesDescend ==
    ASSUME stage \in Stages, Progress
    PROVE  StageRank(stage') < StageRank(stage)
               \/ AdmitCategory \/ ReduceBudget \/ RetrieveForCategory \/ SkipPin \/ ApplyPin \/ EvictChunk
BY DEF StageRank, Stages, Progress, RewriteQuestion, RouteCategories, RoutingFallback,
   RouteSingleCategory, CategoriesAdmitted, AllocateBudgets, BudgetsClamped, Retrieve, Merge,
   PinningDone, CapDone, Synthesize, QualityGate, RetrySynthesis, EnforceCoverage, Respond,
   RequestFails, CanRaise

\* A turn of the admission loop takes an item of the router's reply, one of the
\* clamp a chunk of the budgets, one of retrieval a category, one of pinning a
\* rule and one of the cap a chunk.
LEMMA TurnsDescend ==
    ASSUME IInv, FiniteRules,
           AdmitCategory \/ ReduceBudget \/ RetrieveForCategory \/ SkipPin \/ ApplyPin \/ EvictChunk
    PROVE  stage' = stage /\ Turns \in Nat /\ Turns' \in Nat /\ Turns' < Turns
<1>1. CASE AdmitCategory
  <2>1. raw \in Seq(RoutedCategory) /\ raw # <<>> /\ raw' = Tail(raw)
    BY <1>1 DEF AdmitCategory, IInv, TypeOK
  <2>2. Len(raw) \in Nat /\ Len(raw') \in Nat /\ Len(raw') < Len(raw)
    BY <2>1
  <2>3. QED BY <1>1, <2>2 DEF AdmitCategory, Turns
<1>2. CASE ReduceBudget
  <2>1. /\ budgets \in Seq(1..10) /\ routed \in Seq(RoutedCategory) /\ Distinct(routed)
        /\ Len(budgets) = Len(routed)
    BY <1>2 DEF ReduceBudget, IInv, TypeOK, RoutedInv, BudgetInv, NotYet
  <2>2. budgets \in Seq(Nat) /\ 10 \in Nat
    BY <2>1
  <2>3. NextReduced(routed, budgets) \in Reducible(budgets)
    BY <1>2, <2>1, <2>2, NextReducedExists DEF ReduceBudget
  <2>4. PICK i \in Reducible(budgets) : budgets' = [budgets EXCEPT ![i] = @ - 1]
    BY <1>2, <2>3 DEF ReduceBudget
  <2>5. Total(budgets') = Total(budgets) - 1
    BY <2>1, <2>2, <2>4, TotalIsLowered
  <2>6. budgets' \in Seq(1..10)
    BY <2>1, <2>4 DEF Reducible
  <2>7. Total(budgets) \in Nat /\ Total(budgets') \in Nat
    BY <2>1, <2>2, <2>6, TotalIsNatural
  <2>8. QED BY <1>2, <2>5, <2>7 DEF ReduceBudget, Turns
<1>3. CASE RetrieveForCategory
  <2>1. /\ retrieved \in Seq(SUBSET Chunks) /\ routed \in Seq(RoutedCategory)
        /\ Len(retrieved) < Len(routed)
    BY <1>3 DEF RetrieveForCategory, IInv, TypeOK
  <2>2. PICK S : retrieved' = Append(retrieved, S)
    BY <1>3 DEF RetrieveForCategory
  <2>3. Len(retrieved') = Len(retrieved) + 1 /\ Len(retrieved) \in Nat /\ Len(routed) \in Nat
    BY <2>1, <2>2
  <2>4. QED BY <1>3, <2>1, <2>3 DEF RetrieveForCategory, Turns, routing
<1>4. CASE SkipPin \/ ApplyPin
  <2>1. NextRule \in rules
    BY <1>4, NextRuleExists DEF SkipPin, ApplyPin, IInv, TypeOK
  <2>2. /\ Cardinality(rules) \in Nat /\ Cardinality(rules \ {NextRule}) \in Nat
        /\ Cardinality(rules \ {NextRule}) = Cardinality(rules) - 1
    BY <2>1, FS_RemoveElement, FS_CardinalityType DEF FiniteRules
  <2>3. rules' = rules \ {NextRule} /\ stage = "pin" /\ stage' = stage
    BY <1>4 DEF SkipPin, ApplyPin
  <2>4. Turns = Cardinality(rules) /\ Turns' = Cardinality(rules \ {NextRule})
    BY <2>3 DEF Turns
  <2>5. QED BY <2>2, <2>3, <2>4
<1>5. CASE EvictChunk
  <2>1. chunks \in SUBSET Chunks /\ IsFiniteSet(chunks)
    BY FS_Subset, EvidenceAssumption DEF IInv, TypeOK
  <2>2. Victim(prov, routed, chunks) \in chunks
    BY <1>5, <2>1, VictimExists DEF EvictChunk, Unpinned
  <2>3. /\ Cardinality(chunks) \in Nat /\ Cardinality(chunks') \in Nat
        /\ Cardinality(chunks') = Cardinality(chunks) - 1
    BY <1>5, <2>1, <2>2, FS_RemoveElement, FS_CardinalityType DEF EvictChunk
  <2>4. QED BY <1>5, <2>3 DEF EvictChunk, Turns
<1>6. QED BY <1>1, <1>2, <1>3, <1>4, <1>5

LEMMA RunsDownStep == IInv /\ FiniteRules /\ [Next]_vars => RunsDown
<1> SUFFICES ASSUME IInv, FiniteRules, [Next]_vars,
                    Progress \/ (stage # "idle" /\ <<stage, Turns>>' # <<stage, Turns>>)
             PROVE  Descends
  BY DEF RunsDown
<1>1. CASE Progress
  BY <1>1, StagesDescend, TurnsDescend DEF Descends, IInv, TypeOK
<1>2. CASE stage # "idle" /\ <<stage, Turns>>' # <<stage, Turns>>
  <2>1. ~Receive
    BY <1>2 DEF Receive
  <2>2. ASSUME Ingest \/ UNCHANGED vars PROVE FALSE
    BY <1>2, <2>2 DEF Ingest, vars, Turns, routing, evidence
  <2>3. QED BY <1>1, <2>1, <2>2 DEF Next
<1>3. QED BY <1>1, <1>2

\* No step of chat() goes back, but within a loop, and there it takes one of
\* finitely many turns away: a request whose calls return comes to its reply,
\* however its tables, the router and the model look, and whatever ingestion
\* does to the knowledge base meanwhile.
THEOREM RequestsRunDown == Spec => [][RunsDown]_vars
<1>1. Init => FiniteRules
  BY FS_EmptySet DEF Init, FiniteRules
<1>2. Spec => []FiniteRules
  BY <1>1, Invariance, FiniteRulesStep, PTL DEF Spec
<1>3. IInv /\ FiniteRules /\ [Next]_vars => [RunsDown]_vars
  BY RunsDownStep
<1>4. QED BY <1>2, <1>3, Invariance, PTL DEF Spec

-------------------------------------------------------------------------------

\* Only the last step of a request touches what its caller sees.
LEMMA InnerStepsAreSilent ==
    ASSUME Progress, ~ Respond, ~ RequestFails
    PROVE  stage # "idle" /\ stage' # "idle" /\ UNCHANGED <<corpus, reply>>
BY DEF Progress, RewriteQuestion, RouteCategories, RoutingFallback, RouteSingleCategory,
       AdmitCategory, CategoriesAdmitted, AllocateBudgets, ReduceBudget,
       BudgetsClamped, Retrieve, RetrieveForCategory, Merge, SkipPin,
       ApplyPin, PinningDone, EvictChunk, CapDone, Synthesize, QualityGate,
       RetrySynthesis, EnforceCoverage, knowledge

\* An answer's evidence is bounded by what one retrieval may return.
LEMMA EvidenceIsBounded ==
    ASSUME IInv, stage = "respond"
    PROVE  LET E == synthesis.cited \cup Range(synthesis.forced)
           IN  E \subseteq corpus /\ Cardinality(E) <= SingleLimit
<1> DEFINE E == synthesis.cited \cup Range(synthesis.forced)
<1>1. E \subseteq chunks /\ chunks \subseteq corpus /\ corpus \subseteq Chunks
  BY DEF IInv, AnswerInv, EvidenceInv, TypeOK
<1> HIDE DEF E
<1>2. IsFiniteSet(chunks)
  BY <1>1, FS_Subset, EvidenceAssumption
<1>3. Cardinality(chunks) \in Nat /\ Cardinality(E) \in Nat /\ Cardinality(E) <= Cardinality(chunks)
  BY <1>1, <1>2, FS_Subset, FS_CardinalityType
<1>4. Cardinality(chunks) <= SingleLimit
  <2>1. settings.maxTotal \in 1..10 /\ settings.maxTotal <= SingleLimit /\ SingleLimit \in Nat
    BY SettingsFacts DEF IInv, TypeOK
  <2>2. CASE multi
    <3>1. Cardinality(chunks) <= settings.maxTotal
      BY <2>2 DEF IInv, CapInv, PinnedSurvive, Selected
    <3>2. QED BY <1>3, <2>1, <3>1
  <2>3. CASE ~multi
    BY <2>3 DEF IInv, CapInv, Selected
  <2>4. QED BY <2>2, <2>3
<1>5. SingleLimit \in Nat
  BY ChatAssumption
<1>6. E \subseteq corpus /\ Cardinality(E) <= SingleLimit
  BY <1>1, <1>3, <1>4, <1>5
<1>7. QED BY <1>6 DEF E

\* The instance counts as this module does.
LEMMA SameCardinality == \A S : Promise!Cardinality(S) = Cardinality(S)
BY Zenon DEF Promise!Cardinality, Cardinality

\* The reply a finished request gives is one GroundedAnswer allows.
LEMMA RepliesAreGrounded == IInv /\ Respond => reply' \in Promise!Replies(corpus)
<1> SUFFICES ASSUME IInv, Respond PROVE reply' \in Promise!Replies(corpus)
  OBVIOUS
<1> DEFINE E == synthesis.cited \cup Range(synthesis.forced)
<1>1. E \subseteq corpus /\ Cardinality(E) <= SingleLimit
  BY EvidenceIsBounded DEF Respond
<1>2. CASE synthesis.answer = "refusal"
  <2>1. E = {}
    BY <1>2 DEF IInv, AnswerInv
  <2>2. reply' = [kind |-> "refusal", evidence |-> {}]
    BY <1>2, <2>1 DEF Respond
  <2>3. QED BY <2>2 DEF Promise!Replies
<1>3. CASE synthesis.answer # "refusal"
  <2>1. E # {}
    BY <1>3 DEF IInv, AnswerInv
  <2>2. reply' = [kind |-> "answer", evidence |-> E]
    BY <1>3 DEF Respond
  <2> HIDE DEF E
  <2>3. E \in {F \in SUBSET corpus : F # {} /\ Cardinality(F) <= SingleLimit}
    BY <1>1, <2>1, Zenon
  <2>4. reply' \in Promise!Grounded(corpus)
    BY <2>2, <2>3, SameCardinality, SMT DEF Promise!Grounded
  <2>5. QED BY <2>4 DEF Promise!Replies
<1>4. QED BY <1>2, <1>3

\* Every step of the pipeline is a step of the promise or invisible to it.
LEMMA StepsAreAllowed == IInv /\ [Next]_vars => [Promise!Next]_(Promise!vars)
<1> SUFFICES ASSUME IInv, [Next]_vars PROVE [Promise!Next]_(Promise!vars)
  OBVIOUS
<1> USE DEF Promise!vars
<1>1. CASE Receive
  <2>1. corpus' \in SUBSET Chunks
    BY <1>1, ChatAssumption DEF Receive, IInv, TypeOK
  <2>2. Promise!Accept
    BY <1>1, <2>1 DEF Receive, Promise!Accept, NoReply, Promise!NoReply
  <2>3. QED BY <2>2 DEF Promise!Next
<1>2. CASE Respond
  <2>1. Promise!Finish
    BY <1>2, RepliesAreGrounded DEF Respond, Promise!Finish, knowledge
  <2>2. QED BY <2>1 DEF Promise!Next
<1>3. CASE RequestFails
  <2>1. stage # "idle"
    BY <1>3 DEF RequestFails, CanRaise
  <2>2. Promise!Finish
    BY <1>3, <2>1 DEF RequestFails, Promise!Finish, Promise!Replies, knowledge
  <2>3. QED BY <2>2 DEF Promise!Next
<1>4. CASE Ingest
  <2>1. corpus' \in SUBSET Chunks /\ corpus \subseteq corpus'
    BY <1>4, ChatAssumption DEF Ingest, IInv, TypeOK
  <2>2. Promise!Rebuild
    BY <1>4, <2>1 DEF Ingest, Promise!Rebuild
  <2>3. QED BY <2>2 DEF Promise!Next
<1>5. CASE Progress /\ ~ Respond /\ ~ RequestFails
  BY <1>5, InnerStepsAreSilent
<1>6. CASE UNCHANGED vars
  BY <1>6 DEF vars, knowledge
<1>7. QED BY <1>1, <1>2, <1>3, <1>4, <1>5, <1>6 DEF Next

\* The pipeline, with every loop, retry and failure, implements the promise: a
\* request ends in an error, a refusal without evidence, or an answer that
\* cites between one and SingleLimit stored chunks.
THEOREM PipelineIsGrounded == Spec => GroundedPromise
<1>1. Init => Promise!Init
  BY ChatAssumption DEF Init, Promise!Init, NoReply, Promise!NoReply
<1>2. QED BY <1>1, StepsAreAllowed, Invariance, PTL DEF Spec, GroundedPromise, Promise!Spec

===============================================================================
