---------------------------- MODULE GroundedAnswer ----------------------------
(***************************************************************************)
(* What POST /chat promises its caller, whatever the language model does   *)
(* (docs/RAG_PIPELINE.md, "Grounding rules" and "Guardrails"): a request   *)
(* ends in an error, in the refusal with no evidence, or in an answer that *)
(* cites at least one and at most Limit chunks, all of them in the         *)
(* knowledge base at some time since the request was accepted.             *)
(***************************************************************************)
EXTENDS Naturals, FiniteSets

CONSTANTS Chunks, Limit

VARIABLES
    busy,       \* a request is being served
    corpus,     \* the chunks stored at some time since it was accepted
    reply       \* the last reply: its kind and the set of chunks it cites

vars == <<busy, corpus, reply>>

NoReply == [kind |-> "none", evidence |-> {}]

Grounded(base) ==
    {[kind |-> "answer", evidence |-> E] :
        E \in {E \in SUBSET base : E # {} /\ Cardinality(E) <= Limit}}

Replies(base) ==
    {[kind |-> "error", evidence |-> {}], [kind |-> "refusal", evidence |-> {}]}
        \cup Grounded(base)

Init ==
    /\ busy = FALSE
    /\ corpus \in SUBSET Chunks
    /\ reply = NoReply

Accept ==
    /\ ~busy
    /\ busy' = TRUE
    /\ corpus' \in SUBSET Chunks
    /\ reply' = NoReply

Finish ==
    /\ busy
    /\ busy' = FALSE
    /\ reply' \in Replies(corpus)
    /\ UNCHANGED corpus

\* The knowledge base is rebuilt; what was stored may still be cited.
Rebuild ==
    /\ corpus' \in SUBSET Chunks
    /\ corpus \subseteq corpus'
    /\ UNCHANGED <<busy, reply>>

Next == Accept \/ Finish \/ Rebuild

Spec == Init /\ [][Next]_vars

===============================================================================
