---------------------------- MODULE MCChatPipeline ----------------------------
(***************************************************************************)
(* Small instances of ChatPipeline: three routing categories, five chunks  *)
(* of three cards (two of them at the same distance), router replies of    *)
(* one, two and three categories with repeats, caps below, at and above    *)
(* the number of categories.                                               *)
(***************************************************************************)
EXTENDS ChatPipeline

MCCategories == 1..3
MCChunks == 1..5
MCCardOf == <<"projects", "projects", "projects", "research", "education-facts">>
MCDist == <<1, 2, 2, 3, 4>>
MCPinningRules == <<<<"education-facts">>, <<>>, <<"education-facts", "research">>>>

Item(category, confidence) == [category |-> category, confidence |-> confidence]

MCRouterReplies ==
    {<<Item(2, "High")>>,
     <<Item(3, "High"), Item(1, "Low")>>,
     <<Item(2, "Low"), Item(1, "High")>>,
     <<Item(2, "Medium"), Item(2, "High"), Item(1, "Medium")>>,
     <<Item(1, "Low"), Item(2, "High"), Item(3, "Medium")>>}

Setting(rollout, keyed, deterministic, maxTotal, maxCategories) ==
    [rollout |-> rollout, keyed |-> keyed, deterministic |-> deterministic,
     maxTotal |-> maxTotal, maxCategories |-> maxCategories]

MCSettings ==
    {Setting("partial", TRUE, TRUE, 2, 2), Setting("full", TRUE, TRUE, 4, 3),
     Setting("full", TRUE, TRUE, 3, 2),
     Setting("full", FALSE, TRUE, 1, 2), Setting("full", TRUE, FALSE, 2, 3)}

\* The cards, and the cards after one was taken away and one shortened.
MCVersions == {MCChunks, {1, 2, 4}}

\* The pinning run: routed requests under a cap of two, on a knowledge base
\* that was ingested before they came and stays as it is.
PinSettings == {Setting("full", TRUE, TRUE, 2, 2)}
OneVersion == {MCChunks}
SettledSpec == Init /\ stored = MCChunks /\ [][Receive \/ Progress]_vars

\* Total is the sum of the budgets.
ASSUME UnitsAreTheSum ==
    \A n \in 0..3 : \A b \in [1..n -> 1..4] : Total(b) = SumFunction(b)

===============================================================================
