----------------------------- MODULE StreamLemmas -----------------------------
(***************************************************************************)
(* Positions in a stream of units of the same length: what the proofs      *)
(* about Uplink and Downlink need to know of products, quotients and       *)
(* remainders.                                                             *)
(***************************************************************************)
EXTENDS Integers, TLAPS

(* A position is a number of whole units and less than one more.           *)
LEMMA DivMod ==
  ASSUME NEW n \in Nat, NEW L \in Nat \ {0}
  PROVE  /\ n \div L \in Nat
         /\ n % L \in 0 .. L - 1
         /\ n = (n \div L) * L + (n % L)
  OBVIOUS

(* More units are not shorter. *)
LEMMA TimesMonotone ==
  ASSUME NEW a \in Nat, NEW b \in Nat, NEW L \in Nat, a <= b
  PROVE  a * L <= b * L
  OBVIOUS

(* One unit more fits below any larger number of units. *)
LEMMA TimesNext ==
  ASSUME NEW a \in Nat, NEW b \in Nat, NEW L \in Nat, a < b
  PROVE  a * L + L <= b * L
  OBVIOUS

LEMMA TimesLess ==
  ASSUME NEW a \in Nat, NEW b \in Nat, NEW L \in Nat, a * L < b * L
  PROVE  a < b
<1>1. b <= a => b * L <= a * L
  BY TimesMonotone
<1>2. a * L \in Nat /\ b * L \in Nat
  OBVIOUS
<1>. QED BY <1>1, <1>2

(* Whole units and a part of one give back their number and the part. *)
LEMMA QuotientOf ==
  ASSUME NEW m \in Nat, NEW L \in Nat \ {0}, NEW r \in 0 .. L - 1
  PROVE  /\ m * L + r \in Nat
         /\ (m * L + r) \div L = m
         /\ (m * L + r) % L = r
  OBVIOUS

LEMMA QuotientOfWhole ==
  ASSUME NEW m \in Nat, NEW L \in Nat \ {0}
  PROVE  m * L \in Nat /\ (m * L) \div L = m /\ (m * L) % L = 0
<1>1. m * L \in Nat /\ m * L + 0 = m * L
  OBVIOUS
<1>. QED BY <1>1, QuotientOf

(* There are no more whole units before a position than in what contains it. *)
LEMMA QuotientBound ==
  ASSUME NEW n \in Nat, NEW k \in Nat, NEW L \in Nat \ {0}
  PROVE  /\ n <= k * L => n \div L \in 0 .. k
         /\ n < k * L => n \div L < k
<1>. DEFINE q == n \div L
<1>1. q \in Nat /\ n = q * L + (n % L) /\ n % L \in Nat
  BY DivMod
<1>. HIDE DEF q
<1>2. q * L \in Nat /\ k * L \in Nat
  BY <1>1
<1>3. k < q => k * L + L <= q * L
  BY <1>1, TimesNext
<1>4. k <= q => k * L <= q * L
  BY <1>1, TimesMonotone
<1>5. n <= k * L => q \in 0 .. k
  BY <1>1, <1>2, <1>3
<1>6. n < k * L => q < k
  BY <1>1, <1>2, <1>4
<1>. QED BY <1>5, <1>6 DEF q

(* What is left of a unit at the end of a whole number of them. *)
LEMMA NextUnit ==
  ASSUME NEW m \in Nat, NEW L \in Nat
  PROVE  (m + 1) * L = m * L + L
  OBVIOUS

=============================================================================
