----------------------------- MODULE MCRetrieval ------------------------------
(***************************************************************************)
(* Six chunks of three cards: one with a title, a long and a short         *)
(* section, one with a tech stack and a medium section, one with a         *)
(* category only.  Distances make every chunk near, close enough for a     *)
(* penalty to decide, or far; the cap is one or two; one configuration     *)
(* cuts everything off, one nothing.                                       *)
(***************************************************************************)
EXTENDS Retrieval

MCChunks == 1..6
MCCardOf == <<"a", "a", "a", "b", "b", "c">>
MCSectionOf == <<"title", "long", "short", "tech_stack", "medium", "category">>

\* The title and the sections that compete with it vary.
MCDistances ==
    {<<t, l, 30, 30, m, c>> : t \in {10, 30}, l \in {10, 30, 60}, m \in {10, 30, 60}, c \in {30, 60}}

Weights(short, title) ==
    [s \in Sections |-> CASE s = "short" -> short [] s = "title" -> title [] OTHER -> 0]

MCRequests ==
    [kind : {"plain", "category"}, card : {"a"}, limit : {2, 4}, weights : {Weights(40, -5)}]
    \cup [kind : {"card"}, card : {"a"}, limit : {1}, weights : {Weights(40, -5), Weights(0, 0)}]

MCSettings ==
    {[maxDistance |-> {90}, delta |-> {25}, perCardCap |-> 1],
     [maxDistance |-> {}, delta |-> {}, perCardCap |-> 2],
     [maxDistance |-> {5}, delta |-> {}, perCardCap |-> 1]}

===============================================================================
