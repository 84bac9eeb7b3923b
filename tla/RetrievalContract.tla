-------------------------- MODULE RetrievalContract ---------------------------
(***************************************************************************)
(* What a retrieval pass promises the pipeline, whatever the distances,    *)
(* cutoffs and section weights: some of the stored chunks, no more than    *)
(* it was asked for.                                                       *)
(***************************************************************************)
EXTENDS Naturals, FiniteSets

Passes(stored, limit) == {S \in SUBSET stored : Cardinality(S) <= limit}

===============================================================================
