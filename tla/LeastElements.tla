----------------------------- MODULE LeastElements -----------------------------
(***************************************************************************)
(* Least elements: what the CHOOSE expressions of the components rest on.  *)
(***************************************************************************)
EXTENDS Integers, FiniteSets, FiniteSetTheorems, WellFoundedInduction, TLAPS

\* A finite set that a relation orders totally has a first element.  The set
\* of predecessors that is smallest by inclusion belongs to it.
LEMMA LeastElement ==
    ASSUME NEW S, IsFiniteSet(S), S # {}, NEW R,
           \A a, b \in S : a # b => <<a, b>> \in R \/ <<b, a>> \in R,
           \A a \in S : <<a, a>> \notin R,
           \A a, b, c \in S : <<a, b>> \in R /\ <<b, c>> \in R => <<a, c>> \in R
    PROVE  \E a \in S : \A b \in S \ {a} : <<a, b>> \in R
<1> DEFINE Before(a) == {b \in S : <<b, a>> \in R}
           T == {Before(a) : a \in S}
<1>1. T \subseteq FiniteSubsetsOf(S) /\ T # {}
  <2>1. FiniteSubsetsOf(S) = SUBSET S
    BY FS_FiniteSubsetsOfFinite
  <2>2. T \subseteq SUBSET S
    OBVIOUS
  <2>3. PICK a : a \in S
    OBVIOUS
  <2>4. Before(a) \in T
    BY <2>3
  <2>5. QED BY <2>1, <2>2, <2>4
<1>2. PICK X \in T : \A Y \in T : <<Y, X>> \notin StrictSubsetOrdering(S)
  <2> HIDE DEF T
  <2>1. QED BY <1>1, FS_StrictSubsetOrderingWellFounded, WFMin
<1>3. PICK a \in S : X = Before(a)
  OBVIOUS
<1>4. ASSUME NEW b \in S \ {a}
      PROVE  <<a, b>> \in R
  <2>1. SUFFICES ASSUME <<b, a>> \in R PROVE FALSE
    OBVIOUS
  <2>2. Before(b) \subseteq Before(a) /\ b \in Before(a) /\ b \notin Before(b)
    BY <2>1
  <2>3. <<Before(b), Before(a)>> \in StrictSubsetOrdering(S)
    BY <2>2 DEF StrictSubsetOrdering
  <2>4. QED BY <2>3, <1>2, <1>3
<1>5. QED BY <1>4

\* A nonempty set of naturals has a smallest one.
LEMMA SmallestExists ==
    ASSUME NEW S \in SUBSET Nat, S # {}
    PROVE  \E m \in S : \A n \in S : m <= n
<1>1. PICK b \in S : TRUE
  OBVIOUS
<1> DEFINE T == {n \in S : n <= b}
           R == {p \in T \X T : p[1] < p[2]}
<1>2. T \subseteq 0..b /\ IsFiniteSet(0..b)
  <2>1. 0 \in Int /\ b \in Int
    BY <1>1
  <2>2. IsFiniteSet(0..b)
    BY <2>1, FS_Interval
  <2>3. T \subseteq 0..b
    <3>1. \A n \in T : n \in Nat /\ n <= b
      OBVIOUS
    <3> HIDE DEF T
    <3>2. QED BY <3>1, <2>1
  <2>4. QED BY <2>2, <2>3
<1>3. IsFiniteSet(T) /\ T # {}
  BY <1>1, <1>2, FS_Subset
<1>4. /\ \A m, n \in T : m # n => <<m, n>> \in R \/ <<n, m>> \in R
      /\ \A m \in T : <<m, m>> \notin R
      /\ \A m, n, k \in T : <<m, n>> \in R /\ <<n, k>> \in R => <<m, k>> \in R
  OBVIOUS
<1> HIDE DEF R
<1>5. PICK m \in T : \A n \in T \ {m} : <<m, n>> \in R
  <2> HIDE DEF T
  <2>1. QED BY <1>3, <1>4, LeastElement
<1>6. \A n \in S : m <= n
  <2> SUFFICES ASSUME NEW n \in S PROVE m <= n
    OBVIOUS
  <2>1. CASE n \in T /\ n # m
    <3>1. <<m, n>> \in R
      BY <1>5, <2>1
    <3>2. QED BY <3>1 DEF R
  <2>2. CASE n \notin T
    BY <1>1, <2>2
  <2>3. QED BY <2>1, <2>2
<1>7. QED BY <1>6

===============================================================================
