----------------------------- MODULE ChatPipeline -----------------------------
(***************************************************************************)
(* The synchronous part of POST /chat (backend/app/main.py, chat()), one   *)
(* action per stage, with every call that leaves the process (router,      *)
(* retrieval, synthesis) free to answer anything its caller accepts or to  *)
(* raise.  Requests do not share pipeline state, so one at a time is       *)
(* served; what they share (caches, log flags) has modules of its own.     *)
(***************************************************************************)
EXTENDS Evidence, RetrievalContract

CONSTANTS
    PinningRules,   \* card ids to pin, per routing category
    RouterReplies,  \* category lists the router may answer with
    Settings,       \* configurations the process may run under
    SingleLimit,    \* chunks a single-category retrieval returns at most
    Versions        \* contents ingestion gives the knowledge base

SettingsRecord ==
    [rollout : {"off", "partial", "full"}, keyed : BOOLEAN, deterministic : BOOLEAN,
     maxTotal : 1..10, maxCategories : 1..3]

ASSUME ChatAssumption ==
    /\ PinningRules \in [Categories -> Seq(Cards)]
    /\ \A r \in RouterReplies : r \in Seq(RoutedCategory) /\ r # <<>>
    /\ Settings \subseteq SettingsRecord
    /\ SingleLimit \in Nat \ {0}
    /\ Versions \subseteq SUBSET Chunks
    /\ \A s \in Settings : s.maxTotal <= SingleLimit

VARIABLES
    settings,   \* configuration, fixed for the life of the process
    stage,      \* where the request is
    stored,     \* chunks in the knowledge base
    corpus,     \* chunks in it at some time since the request came (history)
    multi,      \* this request takes the multi-category path
    raw,        \* router items not yet admitted
    routed,     \* admitted categories, in order
    budgets,    \* chunks each may retrieve
    retrieved,  \* chunks each retrieval pass returned
    prov,       \* provenance of the merged chunks
    rules,      \* pinning rules still to apply: <<routed index, rule index>>
    chunks,     \* the evidence set handed to synthesis
    synthesis,  \* answer kind, cited chunks, chunks forced in afterwards
    retried,    \* the quality gate asked for a second synthesis
    reply       \* what the caller got

knowledge == <<stored, corpus>>
routing == <<raw, routed, budgets>>
evidence == <<retrieved, prov, rules, chunks>>
answer == <<synthesis, retried>>
vars == <<settings, stage, knowledge, multi, routing, evidence, answer, reply>>

Stages == {"idle", "rewrite", "route", "admit", "budget", "clamp", "retrieve",
           "pin", "cap", "synthesize", "gate", "retry", "enforce", "respond"}

AnswerKinds == {"refusal", "short", "full"}

\* The chunk forced in for each category no cited chunk covered.
Forcings == UNION {[D -> Chunks] : D \in SUBSET Categories}

NoSynthesis == [answer |-> "refusal", cited |-> {}, forced |-> <<>>]
NoReply == [kind |-> "none", evidence |-> {}]

-------------------------------------------------------------------------------
(***************************************************************************)
(* Accepting, rewriting and routing.                                       *)
(***************************************************************************)

Init ==
    /\ settings \in Settings
    /\ stage = "idle"
    /\ stored \in Versions \cup {{}} /\ corpus = stored
    /\ multi = FALSE
    /\ raw = <<>> /\ routed = <<>> /\ budgets = <<>>
    /\ retrieved = <<>> /\ prov = <<>> /\ rules = {} /\ chunks = {}
    /\ synthesis = NoSynthesis /\ retried = FALSE
    /\ reply = NoReply

\* A partial rollout decides per request id.
Receive ==
    /\ stage = "idle"
    /\ stage' = "rewrite"
    /\ multi' \in CASE settings.rollout = "off"  -> {FALSE}
                    [] settings.rollout = "full" -> {TRUE}
                    [] OTHER                     -> BOOLEAN
    /\ corpus' = stored
    /\ raw' = <<>> /\ routed' = <<>> /\ budgets' = <<>>
    /\ retrieved' = <<>> /\ prov' = <<>> /\ rules' = {} /\ chunks' = {}
    /\ synthesis' = NoSynthesis /\ retried' = FALSE
    /\ reply' = NoReply
    /\ UNCHANGED <<settings, stored>>

\* Another container's start-up rebuilds the table in one transaction, while
\* this request is served or not.
Ingest ==
    /\ stored' \in Versions
    /\ corpus' = corpus \cup stored'
    /\ UNCHANGED <<settings, stage, multi, routing, evidence, answer, reply>>

\* Every way rewrite_question returns: the text itself is not modelled.
RewriteQuestion ==
    /\ stage = "rewrite"
    /\ stage' = "route"
    /\ UNCHANGED <<settings, knowledge, multi, routing, evidence, answer, reply>>

RouteCategories ==
    /\ stage = "route" /\ multi /\ settings.keyed
    /\ raw' \in RouterReplies
    /\ stage' = "admit"
    /\ UNCHANGED <<settings, knowledge, multi, routed, budgets, evidence, answer, reply>>

\* No key, or the call or its parsing raised: the heuristic classifier, with
\* medium confidence, on the question as asked.
RoutingFallback ==
    /\ stage = "route" /\ multi
    /\ \E c \in Categories : routed' = <<[category |-> c, confidence |-> "Medium"]>>
    /\ stage' = "budget"
    /\ UNCHANGED <<settings, knowledge, multi, raw, budgets, evidence, answer, reply>>

\* route_category, or the classifier when it raises.  The category shapes the
\* wording only.
RouteSingleCategory ==
    /\ stage = "route" /\ ~multi
    /\ stage' = "retrieve"
    /\ UNCHANGED <<settings, knowledge, multi, routing, evidence, answer, reply>>

\* The deduplication loop keeps first occurrences up to max_categories.
AdmitCategory ==
    /\ stage = "admit"
    /\ raw # <<>> /\ Len(routed) < settings.maxCategories
    /\ raw' = Tail(raw)
    /\ routed' = IF Head(raw).category \in CategoriesOf(routed)
                   THEN routed ELSE Append(routed, Head(raw))
    /\ UNCHANGED <<settings, stage, knowledge, multi, budgets, evidence, answer, reply>>

CategoriesAdmitted ==
    /\ stage = "admit"
    /\ raw = <<>> \/ Len(routed) = settings.maxCategories
    /\ raw' = <<>>
    /\ stage' = "budget"
    /\ UNCHANGED <<settings, knowledge, multi, routed, budgets, evidence, answer, reply>>

-------------------------------------------------------------------------------
(***************************************************************************)
(* Budgets.                                                                *)
(***************************************************************************)

\* Mutant: budgets below one are not raised.
AllocateBudgets_Unraised ==
    /\ stage = "budget"
    /\ budgets' = IF settings.deterministic
                    THEN DeterministicBudgets(routed, settings.maxTotal)
                    ELSE FirstTakesAll(routed, settings.maxTotal)
    /\ stage' = "clamp"
    /\ UNCHANGED <<settings, knowledge, multi, raw, routed, evidence, answer, reply>>

AllocateBudgets ==
    /\ stage = "budget"
    /\ LET policy == IF settings.deterministic
                       THEN DeterministicBudgets(routed, settings.maxTotal)
                       ELSE FirstTakesAll(routed, settings.maxTotal)
       IN  budgets' = [i \in DOMAIN policy |-> Larger(1, policy[i])]
    /\ stage' = "clamp"
    /\ UNCHANGED <<settings, knowledge, multi, raw, routed, evidence, answer, reply>>

ReduceBudget ==
    /\ stage = "clamp"
    /\ Total(budgets) > settings.maxTotal
    /\ Reducible(budgets) # {}
    /\ budgets' = [budgets EXCEPT ![NextReduced(routed, budgets)] = @ - 1]
    /\ UNCHANGED <<settings, stage, knowledge, multi, raw, routed, evidence, answer, reply>>

BudgetsClamped ==
    /\ stage = "clamp"
    /\ Total(budgets) <= settings.maxTotal \/ Reducible(budgets) = {}
    /\ budgets' = IF Total(budgets) > settings.maxTotal
                    THEN HardTrim(budgets, settings.maxTotal) ELSE budgets
    /\ stage' = "retrieve"
    /\ UNCHANGED <<settings, knowledge, multi, raw, routed, evidence, answer, reply>>

-------------------------------------------------------------------------------
(***************************************************************************)
(* Retrieval, merge, pinning and cap.                                      *)
(***************************************************************************)

\* retrieve(): its chunks carry no routing provenance.  Every pass opens a
\* connection of its own and sees what is stored then.
Retrieve ==
    /\ stage = "retrieve" /\ ~multi
    /\ chunks' \in Passes(stored, SingleLimit)
    /\ prov' = [c \in chunks' |-> [origin |-> PinnedLabel, origins |-> {}, pinned |-> FALSE]]
    /\ stage' = "synthesize"
    /\ UNCHANGED <<settings, knowledge, multi, routing, retrieved, rules, answer, reply>>

RetrieveForCategory ==
    /\ stage = "retrieve" /\ multi
    /\ Len(retrieved) < Len(routed)
    /\ \E S \in Passes(stored, budgets[Len(retrieved) + 1]) : retrieved' = Append(retrieved, S)
    /\ UNCHANGED <<settings, stage, knowledge, multi, routing, prov, rules, chunks, answer, reply>>

Merge ==
    /\ stage = "retrieve" /\ multi
    /\ Len(retrieved) = Len(routed)
    /\ prov' = MergeDedup(routed, retrieved)
    /\ rules' = UNION {{<<i, j>> : j \in DOMAIN PinningRules[routed[i].category]} :
                         i \in DOMAIN routed}
    /\ stage' = "pin"
    /\ UNCHANGED <<settings, knowledge, multi, routing, retrieved, chunks, answer, reply>>

\* Rules run in routing order, and in the order a category lists its cards.
NextRule ==
    CHOOSE r \in rules : \A s \in rules : r[1] < s[1] \/ (r[1] = s[1] /\ r[2] <= s[2])

CardOfRule(r) == PinningRules[routed[r[1]].category][r[2]]

CardsIn(S) == {CardOf[c] : c \in S}

ChunksOfCard(card) == {c \in stored : CardOf[c] = card}

\* A card that already has a chunk among the results, or that has none to
\* retrieve, is passed over.
SkipPin ==
    /\ stage = "pin" /\ rules # {}
    /\ \/ CardOfRule(NextRule) \in CardsIn(DOMAIN prov)
       \/ ChunksOfCard(CardOfRule(NextRule)) = {}
    /\ rules' = rules \ {NextRule}
    /\ UNCHANGED <<settings, stage, knowledge, multi, routing, retrieved, prov, chunks, answer, reply>>

ApplyPin ==
    /\ stage = "pin" /\ rules # {}
    /\ CardOfRule(NextRule) \notin CardsIn(DOMAIN prov)
    /\ \E c \in ChunksOfCard(CardOfRule(NextRule)) :
           prov' = Pinned(prov, c, routed[1].category, routed[NextRule[1]].category)
    /\ rules' = rules \ {NextRule}
    /\ UNCHANGED <<settings, stage, knowledge, multi, routing, retrieved, chunks, answer, reply>>

PinningDone ==
    /\ stage = "pin" /\ rules = {}
    /\ prov' = IF PinnedChunks(prov) # {} THEN ReDedup(prov) ELSE prov
    /\ chunks' = DOMAIN prov
    /\ stage' = "cap"
    /\ UNCHANGED <<settings, knowledge, multi, routing, retrieved, rules, answer, reply>>

\* One turn of the eviction loop.
EvictChunk ==
    /\ stage = "cap"
    /\ Cardinality(chunks) > settings.maxTotal
    /\ Unpinned(prov, chunks) # {}
    /\ chunks' = chunks \ {Victim(prov, routed, chunks)}
    /\ UNCHANGED <<settings, stage, knowledge, multi, routing, retrieved, prov, rules, answer, reply>>

\* The loop ends under the cap, or with nothing but pinned chunks left; the
\* closing slice then cuts what is still over.
CapDone ==
    /\ stage = "cap"
    /\ Cardinality(chunks) <= settings.maxTotal \/ Unpinned(prov, chunks) = {}
    /\ chunks' = Top(chunks, settings.maxTotal)
    /\ stage' = "synthesize"
    /\ UNCHANGED <<settings, knowledge, multi, routing, retrieved, prov, rules, answer, reply>>

-------------------------------------------------------------------------------
(***************************************************************************)
(* Synthesis, quality gate, coverage post-condition, response.             *)
(***************************************************************************)

Smaller(a, b) == IF a <= b THEN a ELSE b

\* The first k chunks: a plain pass returns them as it selected them, the
\* multi-category path sorts them.
FirstChunks(k) == IF multi THEN {Top(chunks, k)} ELSE {S \in SUBSET chunks : Cardinality(S) = k}

\* The deterministic fallback quotes one or two sentences per chunk, in order,
\* until it has ten.
FallbackSyntheses ==
    LET n == Cardinality(chunks)
    IN  [answer : {"short", "full"},
         cited  : UNION {FirstChunks(k) : k \in Smaller(5, n)..Smaller(10, n)},
         forced : {<<>>}]

\* Mutant: no indices stays no indices.
Syntheses_Uncited ==
    IF chunks = {} THEN {NoSynthesis}
    ELSE FallbackSyntheses \cup
         (IF settings.keyed
            THEN {NoSynthesis} \cup
                 [answer : {"short", "full"}, cited : SUBSET chunks, forced : {<<>>}]
            ELSE {})

\* What synthesize_answer returns.  The model's indices are filtered to real
\* chunks, and none left means all of them; a refusal cites nothing; an empty
\* or laconic answer, or no key, takes the fallback.
Syntheses ==
    IF chunks = {} THEN {NoSynthesis}
    ELSE FallbackSyntheses \cup
         (IF settings.keyed
            THEN {NoSynthesis} \cup
                 [answer : {"short", "full"}, cited : (SUBSET chunks) \ {{}}, forced : {<<>>}]
            ELSE {})

Synthesize ==
    /\ stage = "synthesize"
    /\ synthesis' \in Syntheses
    /\ stage' = IF multi THEN "gate" ELSE "respond"
    /\ UNCHANGED <<settings, knowledge, multi, routing, evidence, retried, reply>>

FailureReasons ==
    {r \in {"missing_used_chunk_indices", "answer_too_short", "missing_category_coverage"} :
        /\ synthesis.answer # "refusal"
        /\ CASE r = "missing_used_chunk_indices" -> synthesis.cited = {}
             [] r = "answer_too_short" -> synthesis.answer = "short"
             [] OTHER -> /\ Len(routed) = 2
                         /\ synthesis.cited # {}
                         /\ ~ (CategoriesOf(routed) \subseteq OriginsOf(prov, synthesis.cited))}

QualityGate ==
    /\ stage = "gate"
    /\ retried' = (FailureReasons # {})
    /\ stage' = IF FailureReasons # {} THEN "retry" ELSE "enforce"
    /\ UNCHANGED <<settings, knowledge, multi, routing, evidence, synthesis, reply>>

\* Mutant: the retry goes through the gate once more.
RetrySynthesis_Regated ==
    /\ stage = "retry"
    /\ synthesis' \in Syntheses
    /\ stage' = "gate"
    /\ UNCHANGED <<settings, knowledge, multi, routing, evidence, retried, reply>>

\* The second answer replaces the first and is not judged again.
RetrySynthesis ==
    /\ stage = "retry"
    /\ synthesis' \in Syntheses
    /\ stage' = "enforce"
    /\ UNCHANGED <<settings, knowledge, multi, routing, evidence, retried, reply>>

\* Mutant: coverage is enforced for exactly two categories, like the gate.
EnforceCoverage_TwoOnly ==
    /\ stage = "enforce"
    /\ synthesis' = IF Len(routed) = 2 /\ synthesis.cited # {}
                      THEN [synthesis EXCEPT
                               !.forced = ForcedCoverage(prov, routed, chunks, synthesis.cited)]
                      ELSE synthesis
    /\ stage' = "respond"
    /\ UNCHANGED <<settings, knowledge, multi, routing, evidence, retried, reply>>

EnforceCoverage ==
    /\ stage = "enforce"
    /\ synthesis' = IF Len(routed) > 1 /\ synthesis.cited # {}
                      THEN [synthesis EXCEPT
                               !.forced = ForcedCoverage(prov, routed, chunks, synthesis.cited)]
                      ELSE synthesis
    /\ stage' = "respond"
    /\ UNCHANGED <<settings, knowledge, multi, routing, evidence, retried, reply>>

Respond ==
    /\ stage = "respond"
    /\ reply' = [kind |-> IF synthesis.answer = "refusal" THEN "refusal" ELSE "answer",
                  evidence |-> synthesis.cited \cup Range(synthesis.forced)]
    /\ stage' = "idle"
    /\ UNCHANGED <<settings, knowledge, multi, routing, evidence, answer>>

\* Stages whose calls may raise past chat(): rewriting and synthesis need the
\* API, retrieval the database and the embedding provider, pinning only when
\* a card has to be fetched.  Routing errors are caught and never get here.
CanRaise ==
    \/ stage = "rewrite" /\ settings.keyed
    \/ stage = "retrieve" /\ (multi => Len(retrieved) < Len(routed))
    \/ stage = "pin" /\ rules # {} /\ CardOfRule(NextRule) \notin CardsIn(DOMAIN prov)
    \/ stage \in {"synthesize", "retry"} /\ settings.keyed /\ chunks # {}

\* An exception handler answers 401, 429, 503 or 500, whatever was computed.
RequestFails ==
    /\ CanRaise
    /\ reply' = [kind |-> "error", evidence |-> {}]
    /\ stage' = "idle"
    /\ UNCHANGED <<settings, knowledge, multi, routing, evidence, answer>>

-------------------------------------------------------------------------------

Progress ==
    \/ RewriteQuestion \/ RouteCategories \/ RoutingFallback \/ RouteSingleCategory
    \/ AdmitCategory \/ CategoriesAdmitted
    \/ AllocateBudgets \/ ReduceBudget \/ BudgetsClamped
    \/ Retrieve \/ RetrieveForCategory \/ Merge
    \/ SkipPin \/ ApplyPin \/ PinningDone \/ EvictChunk \/ CapDone
    \/ Synthesize \/ QualityGate \/ RetrySynthesis \/ EnforceCoverage
    \/ Respond \/ RequestFails

Next == Receive \/ Ingest \/ Progress

Spec == Init /\ [][Next]_vars

\* A worker thread runs the handler to its end: API calls carry a timeout and
\* everything else is local or a bounded query.  Nobody has to ask.
FairSpec == Spec /\ WF_vars(Progress)

-------------------------------------------------------------------------------
(***************************************************************************)
(* Properties.                                                             *)
(***************************************************************************)

\* Every variable holds a value of its kind.
TypeOK ==
    /\ settings \in Settings
    /\ stage \in Stages
    /\ stored \in Versions \cup {{}} /\ corpus \subseteq Chunks
    /\ multi \in BOOLEAN
    /\ raw \in Seq(RoutedCategory)
    /\ routed \in Seq(RoutedCategory)
    /\ budgets \in Seq(1..10)
    /\ retrieved \in Seq(SUBSET Chunks)
    /\ DOMAIN prov \subseteq Chunks /\ prov \in [DOMAIN prov -> Provenance]
    /\ rules \subseteq (Nat \X Nat)
    /\ chunks \subseteq Chunks
    /\ synthesis \in [answer : AnswerKinds, cited : SUBSET Chunks, forced : Forcings]
    /\ retried \in BOOLEAN
    /\ reply \in [kind : {"none", "error", "refusal", "answer"}, evidence : SUBSET Chunks]

Selected == stage \in {"synthesize", "gate", "retry", "enforce", "respond"}

\* Once the clamp is done every routed category may retrieve something, and
\* together they may retrieve no more than the cap, or one chunk each when
\* there are more categories than the cap allows (_clamp_budgets).
BudgetsWithinCap ==
    stage = "retrieve" /\ multi =>
        /\ Len(budgets) = Len(routed)
        /\ \A i \in DOMAIN budgets : budgets[i] >= 1
        /\ Total(budgets) <= Larger(settings.maxTotal, Len(routed))

\* Under the deterministic policy and a cap of at most six, a category the
\* router is more confident in never gets the smaller budget, whatever the
\* clamp takes away (main.py:428, :465).  Above six the fixed share of three
\* goes to the more confident category and the larger rest to the other.
ConfidenceRespected ==
    stage = "retrieve" /\ multi /\ settings.deterministic /\ settings.maxTotal <= 6 =>
        \A i, j \in DOMAIN routed :
            ConfidenceRank(routed[i].confidence) > ConfidenceRank(routed[j].confidence)
                => budgets[i] >= budgets[j]

\* The evidence handed to synthesis is within the cap, comes from the merged
\* chunks, and keeps every pinned chunk as long as the pinned ones alone fit
\* ("Never evict pinned chunks", retrieval.py:856).
PinnedSurvive ==
    Selected /\ multi =>
        /\ chunks \subseteq DOMAIN prov
        /\ Cardinality(chunks) <= settings.maxTotal
        /\ Cardinality(PinnedChunks(prov)) <= settings.maxTotal
               => PinnedChunks(prov) \subseteq chunks

\* Room for every pinned chunk and one chunk per routed category.
CapHasRoom == Cardinality(PinnedChunks(prov)) + Len(routed) <= settings.maxTotal

\* With that room, eviction never uncovers a routed category some retrieval
\* pass had found a chunk for: the last resort of retrieval.py:917 is not
\* reached.
CoverageSurvives ==
    Selected /\ multi /\ CapHasRoom
        => Present(prov, routed) \subseteq OriginsOf(prov, chunks)

\* Without that room, or with anything else in the way, coverage is what
\* eviction gives up last: when a category that some pass found a chunk for is
\* not covered any more, no unpinned chunk is left that could have gone
\* instead, however many evictions ago the category was lost.
CoverageYieldsLast ==
    Selected /\ multi /\ ~(Present(prov, routed) \subseteq OriginsOf(prov, chunks))
        => \A c \in Unpinned(prov, chunks) : SoleCover(prov, routed, chunks, c)

\* End to end: an answer on the multi-category path shows evidence for every
\* routed category that retrieved anything, through merge, pinning, cap,
\* the model's own choice of citations, and the retry (main.py:947).
CategoriesCited ==
    reply.kind = "answer" /\ multi /\ CapHasRoom
        => Present(prov, routed) \subseteq OriginsOf(prov, reply.evidence)

\* Chunks forced in for coverage are not cited already, and with at most two
\* routed categories no chunk is listed twice.  With three, one chunk that
\* covers both missing categories is appended once for each (main.py:970).
ForcedEvidenceDistinct ==
    /\ Range(synthesis.forced) \cap synthesis.cited = {}
    /\ Len(routed) <= 2 => IsInjective(synthesis.forced)

\* chat() implements the promise of GroundedAnswer: whatever the model, the
\* router and the retrieval passes return, a reply is an error, a refusal
\* without evidence, or an answer citing chunks that were stored while the
\* request was served, though the knowledge base changes under its passes.
Promise == INSTANCE GroundedAnswer
    WITH Limit <- SingleLimit, busy <- (stage # "idle")
GroundedPromise == Promise!Spec

\* Every accepted request is answered or failed: the admission, clamp, pinning
\* and eviction loops and the single retry all come to an end.
RequestEnds == stage # "idle" ~> stage = "idle"

\* What config.py:229 says of pinning: the cards pinned for a routed category
\* are always included, when they are stored and fit under the cap together.
\* It is about a knowledge base that stays as it is while the request is
\* served: of a card that arrives after pinning it says nothing.
RequiredCards ==
    {card \in Cards :
        /\ ChunksOfCard(card) # {}
        /\ \E i \in DOMAIN routed : card \in Range(PinningRules[routed[i].category])}

PinnedCardsIncluded ==
    Selected /\ multi /\ Cardinality(RequiredCards) <= settings.maxTotal
        => RequiredCards \subseteq CardsIn(chunks)

===============================================================================
