------------------------------- MODULE Extremes -------------------------------
(***************************************************************************)
(* The modules name the first, latest or newest of a set of numbers by a   *)
(* CHOOSE (ORDER BY .. LIMIT 1 in the code). That it is a member of the    *)
(* set, and before or after all others, is what these lemmas are for.      *)
(***************************************************************************)
EXTENDS Integers, WellFoundedInduction, TLAPS

LEMMA HasLeast ==
    ASSUME NEW S, S \subseteq Nat, S # {}
    PROVE  \E m \in S : \A n \in S : m <= n
<1>1. \E m \in S : \A n \in S : <<n, m>> \notin OpToRel(<, Nat)
  BY NatLessThanWellFounded, WFMin, Zenon
<1>2. \A m, n \in S : n < m => <<n, m>> \in OpToRel(<, Nat)
  <2> TAKE m, n \in S
  <2> HAVE n < m
  <2>1. <<n, m>> \in Nat \X Nat
    OBVIOUS
  <2>2. <<n, m>>[1] < <<n, m>>[2]
    OBVIOUS
  <2> QED
    BY <2>1, <2>2, Zenon DEF OpToRel
<1>3. \E m \in S : \A n \in S : ~(n < m)
  BY <1>1, <1>2, Zenon
<1> QED
  BY <1>3

\* In a bounded set the greatest is the least distance from the bound.
LEMMA HasGreatest ==
    ASSUME NEW top \in Nat, NEW S, S \subseteq 0..top, S # {}
    PROVE  \E m \in S : \A n \in S : n <= m
<1> DEFINE Mirror == {top - n : n \in S}
<1>1. Mirror \subseteq Nat /\ Mirror # {}
  <2>1. \A n \in S : top - n \in Nat
    OBVIOUS
  <2> QED
    BY <2>1
<1>2. \E k \in Mirror : \A n \in Mirror : k <= n
  <2> HIDE DEF Mirror
  <2> QED
    BY <1>1, HasLeast
<1>3. PICK k \in Mirror : \A n \in Mirror : k <= n
  BY <1>2
<1>4. PICK m \in S : k = top - m
  OBVIOUS
<1>5. ASSUME NEW n \in S PROVE n <= m
  <2>1. top - n \in Mirror
    OBVIOUS
  <2>2. top - m <= top - n
    BY <1>3, <1>4, <2>1
  <2> QED
    BY <2>2
<1> QED
  BY <1>5
=============================================================================
