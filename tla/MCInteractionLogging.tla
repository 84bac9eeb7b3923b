------------------------- MODULE MCInteractionLogging -------------------------
(***************************************************************************)
(* Two worker processes, the first with two background writers.            *)
(***************************************************************************)
EXTENDS InteractionLogging, TLC

MCProcessOf == "w1" :> "p1" @@ "w2" :> "p1" @@ "w3" :> "p2"

===============================================================================
