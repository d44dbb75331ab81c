-------------------------- MODULE WireFormatProofs --------------------------
(***************************************************************************)
(* Theorems about the fields of fixed length, and their proofs: for every  *)
(* size of a byte, of a number and of a name.                              *)
(***************************************************************************)
EXTENDS WireFormat, StreamLemmas, SequenceTheorems, WellFoundedInduction

-----------------------------------------------------------------------------
(* Natural numbers. *)

(* A set of natural numbers that is not empty has a least one.             *)
LEMMA LeastExists ==
  ASSUME NEW P, P \subseteq Nat, P # {}
  PROVE  \E i \in P : \A k \in P : i <= k
<1>. DEFINE Below == {ij \in Nat \X Nat : ij[1] < ij[2]}
<1>1. IsWellFoundedOn(Below, Nat)
  BY NatLessThanWellFounded DEF OpToRel
<1>2. PICK i \in P : \A k \in P : ~ (<<k, i>> \in Below)
  <2>. HIDE DEF Below
  <2>. QED BY <1>1, WFMin
<1>3. ASSUME NEW k \in P PROVE i <= k
  <2>1. k \in Nat /\ i \in Nat
    OBVIOUS
  <2>2. k < i => <<k, i>> \in Below
    BY <2>1
  <2>. QED BY <1>2, <2>1, <2>2
<1>. QED BY <1>3

(* Induction, about a set: what holds of 0, and of n + 1 when it holds of  *)
(* n, holds of every natural number.                                       *)
LEMMA SetInduction ==
  ASSUME NEW S, 0 \in S, \A n \in Nat : n \in S => n + 1 \in S
  PROVE  \A n \in Nat : n \in S
<1>. SUFFICES ASSUME Nat \ S # {} PROVE FALSE
  OBVIOUS
<1>1. PICK m \in Nat \ S : \A k \in Nat \ S : m <= k
  <2>1. Nat \ S \subseteq Nat
    OBVIOUS
  <2>. QED BY <2>1, LeastExists
<1>2. m - 1 \in Nat /\ ~ (m <= m - 1) /\ (m - 1) + 1 = m
  BY <1>1
<1>3. m - 1 \in S
  BY <1>1, <1>2
<1>. QED BY <1>1, <1>2, <1>3

(* A function on 0 .. n may be defined step by step. *)
Solvable(n, S) ==
  \A base \in S : \A step \in [1 .. n -> [S -> S]] :
    \E f \in [0 .. n -> S] :
      /\ f[0] = base
      /\ \A k \in 1 .. n : f[k] = step[k][f[k - 1]]

LEMMA Recursion ==
  ASSUME NEW n \in Nat, NEW S
  PROVE  Solvable(n, S)
<1>. SUFFICES ASSUME NEW base \in S, NEW step \in [1 .. n -> [S -> S]]
              PROVE  \E f \in [0 .. n -> S] :
                       /\ f[0] = base
                       /\ \A k \in 1 .. n : f[k] = step[k][f[k - 1]]
  BY DEF Solvable
<1>. DEFINE IsUpTo(m, f) == /\ f \in [0 .. m -> S]
                            /\ f[0] = base
                            /\ \A k \in 1 .. m : f[k] = step[k][f[k - 1]]
            Defined == {m \in Nat : m <= n => \E f : IsUpTo(m, f)}
<1>1. 0 \in Defined
  <2>1. IsUpTo(0, [k \in 0 .. 0 |-> base])
    OBVIOUS
  <2>. QED BY <2>1
<1>2. ASSUME NEW m \in Nat, m \in Defined PROVE m + 1 \in Defined
  <2>. SUFFICES ASSUME m + 1 <= n PROVE \E g : IsUpTo(m + 1, g)
    OBVIOUS
  <2>1. PICK f : IsUpTo(m, f)
    BY <1>2
  <2>2. f[m] \in S /\ m + 1 \in 1 .. n
    BY <2>1
  <2>3. step[m + 1][f[m]] \in S
    BY <2>2
  <2>. DEFINE g == [k \in 0 .. m + 1 |-> IF k = m + 1 THEN step[m + 1][f[m]] ELSE f[k]]
  <2>4. g \in [0 .. m + 1 -> S]
    BY <2>1, <2>3
  <2>5. g[0] = base
    BY <2>1
  <2>6. ASSUME NEW k \in 1 .. m + 1 PROVE g[k] = step[k][g[k - 1]]
    <3>1. k - 1 \in 0 .. m /\ k \in 0 .. m + 1
      OBVIOUS
    <3>2. g[k - 1] = f[k - 1]
      BY <3>1
    <3>3. CASE k = m + 1
      <4>1. g[k] = step[m + 1][f[m]] /\ k - 1 = m
        BY <3>3
      <4>. HIDE DEF g
      <4>. QED BY <3>2, <3>3, <4>1
    <3>4. CASE k # m + 1
      <4>1. k \in 1 .. m
        BY <3>4
      <4>2. f[k] = step[k][f[k - 1]]
        BY <2>1, <4>1
      <4>3. g[k] = f[k]
        BY <3>1, <3>4
      <4>. HIDE DEF g
      <4>. QED BY <3>2, <4>2, <4>3
    <3>. QED BY <3>3, <3>4
  <2>7. IsUpTo(m + 1, g)
    <3>. HIDE DEF g
    <3>. QED BY <2>4, <2>5, <2>6
  <2>. QED BY <2>7
<1>3. n \in Defined
  <2>. HIDE DEF Defined
  <2>. QED BY <1>1, <1>2, SetInduction
<1>4. n <= n
  OBVIOUS
<1>. QED BY <1>3, <1>4

(* A function on 0 .. n has its values in S when the first value is in S   *)
(* and no step leaves S.                                                   *)
IsOn(n, u) == u = [k \in 0 .. n |-> u[k]]

Keeps(n, S, u) == u[0] \in S /\ \A k \in 1 .. n : u[k - 1] \in S => u[k] \in S

LEMMA StaysIn ==
  ASSUME NEW n \in Nat, NEW S, NEW u, IsOn(n, u), Keeps(n, S, u)
  PROVE  u \in [0 .. n -> S]
<1>. DEFINE In == {k \in Nat : k \in 0 .. n => u[k] \in S}
<1>1. 0 \in In
  BY DEF Keeps
<1>2. ASSUME NEW k \in Nat, k \in In PROVE k + 1 \in In
  <2>. SUFFICES ASSUME k + 1 \in 0 .. n PROVE u[k + 1] \in S
    OBVIOUS
  <2>1. k \in 0 .. n /\ k + 1 \in 1 .. n /\ (k + 1) - 1 = k
    OBVIOUS
  <2>. QED BY <1>2, <2>1 DEF Keeps
<1>. HIDE DEF In
<1>3. \A k \in Nat : k \in In
  BY <1>1, <1>2, SetInduction
<1>4. \A k \in 0 .. n : k \in Nat
  OBVIOUS
<1>5. \A k \in 0 .. n : u[k] \in S
  BY <1>3, <1>4 DEF In
<1>. QED BY <1>5 DEF IsOn

-----------------------------------------------------------------------------
(* Numbers of several bytes. *)

LEMMA ByteNext ==
  ASSUME NEW a \in Nat, NEW b \in Nat
  PROVE  a * Base + b \in Nat
<1>1. Base \in Nat
  BY WireAssumption
<1>2. a * Base \in Nat
  BY <1>1
<1>. QED BY <1>2

(* Number reads a byte after the other, each time Base times what it had. *)
LEMMA NumberSteps ==
  ASSUME NEW bytes \in Seq(Nat)
  PROVE  \E u \in [0 .. Len(bytes) -> Nat] :
           /\ u[0] = 0
           /\ \A k \in 1 .. Len(bytes) : u[k] = u[k - 1] * Base + bytes[k]
           /\ Number(bytes) = u[Len(bytes)]
<1>. DEFINE n == Len(bytes)
            next(v, k) == v * Base + bytes[k]
            step == [k \in 1 .. n |-> [v \in Nat |-> next(v, k)]]
            IsNumber(g) == g = [k \in 0 .. n |-> IF k = 0 THEN 0 ELSE g[k - 1] * Base + bytes[k]]
            u == CHOOSE g : IsNumber(g)
<1>1. n \in Nat /\ \A k \in 1 .. n : bytes[k] \in Nat
  BY LenProperties
<1>2. \A v \in Nat, k \in 1 .. n : next(v, k) \in Nat
  BY <1>1, ByteNext
<1>3. step \in [1 .. n -> [Nat -> Nat]] /\ \A v \in Nat, k \in 1 .. n : step[k][v] = next(v, k)
  <2>. HIDE DEF next, n
  <2>. QED BY <1>2
<1>4. \E f \in [0 .. n -> Nat] : f[0] = 0 /\ \A k \in 1 .. n : f[k] = step[k][f[k - 1]]
  <2>1. n \in Nat /\ 0 \in Nat /\ step \in [1 .. n -> [Nat -> Nat]]
    BY <1>1, <1>3
  <2>2. Solvable(n, Nat)
    BY <1>1, Recursion
  <2>. HIDE DEF step, n
  <2>. QED BY ONLY <2>1, <2>2 DEF Solvable
<1>5. PICK f \in [0 .. n -> Nat] : f[0] = 0 /\ \A k \in 1 .. n : f[k] = step[k][f[k - 1]]
  BY <1>4
<1>6. ASSUME NEW k \in 0 .. n, k # 0 PROVE f[k] = f[k - 1] * Base + bytes[k]
  <2>1. k \in 1 .. n /\ k - 1 \in 0 .. n
    BY <1>1, <1>6
  <2>2. f[k - 1] \in Nat
    BY <1>5, <2>1
  <2>. HIDE DEF step
  <2>3. f[k] = next(f[k - 1], k)
    BY <1>3, <1>5, <2>1, <2>2
  <2>. QED BY <2>3
<1>7. IsNumber(f)
  BY <1>5, <1>6
<1>8. IsNumber(u)
  <2>. HIDE DEF IsNumber
  <2>. QED BY <1>7
<1>9. Number(bytes) = u[n]
  BY DEF Number
<1>. HIDE DEF u
<1>10. u[0] = 0 /\ \A k \in 1 .. n : u[k] = u[k - 1] * Base + bytes[k]
  <2>1. \A k \in 0 .. n : u[k] = IF k = 0 THEN 0 ELSE u[k - 1] * Base + bytes[k]
    BY <1>8
  <2>2. 0 \in 0 .. n /\ \A k \in 1 .. n : k \in 0 .. n /\ k # 0
    BY <1>1
  <2>. HIDE DEF IsNumber
  <2>. QED BY <2>1, <2>2
<1>11. u \in [0 .. n -> Nat]
  <2>1. IsOn(n, u)
    BY <1>8 DEF IsOn
  <2>. HIDE DEF IsNumber, n
  <2>2. ASSUME NEW k \in 1 .. n, u[k - 1] \in Nat PROVE u[k] \in Nat
    BY <1>1, <1>10, <2>2, ByteNext
  <2>3. Keeps(n, Nat, u)
    BY <1>10, <2>2 DEF Keeps
  <2>. QED BY <1>1, <2>1, <2>3, StaysIn
<1>. QED BY <1>9, <1>10, <1>11

LEMMA Factor ==
  ASSUME NEW a \in Nat, NEW B \in Nat, NEW b \in Nat, NEW P \in Nat, NEW v \in Nat
  PROVE  (a * B + b) * P + v = a * (B * P) + (v + b * P)
<1>1. (a * B + b) * P = (a * B) * P + b * P
  OBVIOUS
<1>2. (a * B) * P = a * (B * P)
  OBVIOUS
<1>3. (a * B) * P \in Nat /\ b * P \in Nat
  OBVIOUS
<1>. QED BY <1>1, <1>2, <1>3

(* Power multiplies by its base in each step. *)
LEMMA PowerSteps ==
  ASSUME NEW b \in Nat \ {0}, NEW n \in Nat
  PROVE  \E u \in [0 .. n -> Nat \ {0}] :
           /\ u[0] = 1
           /\ \A k \in 1 .. n : u[k] = b * u[k - 1]
           /\ Power(b, n) = u[n]
<1>. DEFINE S == Nat \ {0}
            next(v) == b * v
            step == [k \in 1 .. n |-> [v \in S |-> next(v)]]
            IsPower(g) == g = [k \in 0 .. n |-> IF k = 0 THEN 1 ELSE b * g[k - 1]]
            u == CHOOSE g : IsPower(g)
<1>1. \A v \in S : next(v) \in S
  OBVIOUS
<1>2. step \in [1 .. n -> [S -> S]] /\ \A v \in S, k \in 1 .. n : step[k][v] = next(v)
  <2>. HIDE DEF next, S
  <2>. QED BY <1>1
<1>3. \E f \in [0 .. n -> S] : f[0] = 1 /\ \A k \in 1 .. n : f[k] = step[k][f[k - 1]]
  <2>1. Solvable(n, S) /\ 1 \in S
    BY Recursion
  <2>. HIDE DEF step, S
  <2>. QED BY ONLY <1>2, <2>1 DEF Solvable
<1>4. PICK f \in [0 .. n -> S] : f[0] = 1 /\ \A k \in 1 .. n : f[k] = step[k][f[k - 1]]
  BY <1>3
<1>5. ASSUME NEW k \in 0 .. n, k # 0 PROVE f[k] = b * f[k - 1]
  <2>1. k \in 1 .. n /\ k - 1 \in 0 .. n
    BY <1>5
  <2>2. f[k - 1] \in S
    BY <1>4, <2>1
  <2>. HIDE DEF step, S
  <2>3. f[k] = next(f[k - 1])
    BY <1>2, <1>4, <2>1, <2>2
  <2>. QED BY <2>3
<1>6. IsPower(f)
  BY <1>4, <1>5
<1>7. IsPower(u)
  <2>. HIDE DEF IsPower
  <2>. QED BY <1>6
<1>8. Power(b, n) = u[n]
  BY DEF Power
<1>. HIDE DEF u
<1>9. u[0] = 1 /\ \A k \in 1 .. n : u[k] = b * u[k - 1]
  <2>1. \A k \in 0 .. n : u[k] = IF k = 0 THEN 1 ELSE b * u[k - 1]
    BY <1>7
  <2>2. 0 \in 0 .. n /\ \A k \in 1 .. n : k \in 0 .. n /\ k # 0
    OBVIOUS
  <2>. HIDE DEF IsPower
  <2>. QED BY <2>1, <2>2
<1>10. u \in [0 .. n -> S]
  <2>1. IsOn(n, u)
    BY <1>7 DEF IsOn
  <2>. HIDE DEF IsPower
  <2>2. ASSUME NEW k \in 1 .. n, u[k - 1] \in S PROVE u[k] \in S
    BY <1>1, <1>9, <2>2
  <2>3. Keeps(n, S, u)
    BY <1>9, <2>2 DEF Keeps
  <2>. QED BY <2>1, <2>3, StaysIn
<1>. QED BY <1>8, <1>9, <1>10

LEMMA PowerNext ==
  ASSUME NEW b \in Nat \ {0}, NEW n \in Nat
  PROVE  /\ Power(b, n) \in Nat \ {0}
         /\ Power(b, 0) = 1
         /\ Power(b, n + 1) = b * Power(b, n)
<1>. DEFINE S == Nat \ {0}
<1>1. PICK u \in [0 .. n -> S] :
        u[0] = 1 /\ (\A k \in 1 .. n : u[k] = b * u[k - 1]) /\ Power(b, n) = u[n]
  BY PowerSteps
<1>2. PICK w \in [0 .. n + 1 -> S] :
        w[0] = 1 /\ (\A k \in 1 .. n + 1 : w[k] = b * w[k - 1]) /\ Power(b, n + 1) = w[n + 1]
  <2>1. n + 1 \in Nat
    OBVIOUS
  <2>. QED BY <2>1, PowerSteps
<1>3. PICK z \in [0 .. 0 -> S] : z[0] = 1 /\ Power(b, 0) = z[0]
  <2>1. 0 \in Nat
    OBVIOUS
  <2>. QED BY <2>1, PowerSteps
<1>4. \A k \in Nat : k \in 0 .. n => u[k] = w[k]
  <2>. DEFINE Same == {k \in Nat : k \in 0 .. n => u[k] = w[k]}
  <2>1. 0 \in Same
    BY <1>1, <1>2
  <2>2. ASSUME NEW k \in Nat, k \in Same PROVE k + 1 \in Same
    <3>. SUFFICES ASSUME k + 1 \in 0 .. n PROVE u[k + 1] = w[k + 1]
      OBVIOUS
    <3>1. k \in 0 .. n /\ k + 1 \in 1 .. n /\ k + 1 \in 1 .. n + 1 /\ (k + 1) - 1 = k
      OBVIOUS
    <3>2. u[k + 1] = b * u[k] /\ w[k + 1] = b * w[k]
      BY <1>1, <1>2, <3>1
    <3>. QED BY <2>2, <3>1, <3>2
  <2>. HIDE DEF Same
  <2>3. \A k \in Nat : k \in Same
    BY <2>1, <2>2, SetInduction
  <2>. QED BY <2>3 DEF Same
<1>5. n \in 0 .. n /\ n + 1 \in 1 .. n + 1 /\ (n + 1) - 1 = n
  OBVIOUS
<1>6. w[n + 1] = b * w[n] /\ u[n] = w[n] /\ u[n] \in S
  BY <1>1, <1>2, <1>4, <1>5
<1>. QED BY <1>1, <1>2, <1>3, <1>6

(* Meant adds the worth of one byte more in each step, from the last one on. *)
LEMMA MeantSteps ==
  ASSUME NEW p, NEW first \in Nat, NEW len \in Nat,
         \A i \in first .. first + len - 1 : p[i] \in Nat
  PROVE  \E v \in [0 .. len -> Nat] :
           /\ v[0] = 0
           /\ \A k \in 1 .. len : v[k] = v[k - 1] + p[first + len - k] * Power(Base, k - 1)
           /\ Meant(p, first, len) = v[len]
<1>. DEFINE worth(k) == p[first + len - k] * Power(Base, k - 1)
            next(x, k) == x + worth(k)
            step == [k \in 1 .. len |-> [x \in Nat |-> next(x, k)]]
            IsMeant(g) == g = [k \in 0 .. len |->
              IF k = 0 THEN 0 ELSE g[k - 1] + p[first + len - k] * Power(Base, k - 1)]
            w == CHOOSE g : IsMeant(g)
<1>1. ASSUME NEW k \in 1 .. len PROVE worth(k) \in Nat
  <2>1. first + len - k \in first .. first + len - 1 /\ k - 1 \in Nat
    OBVIOUS
  <2>2. p[first + len - k] \in Nat
    BY <2>1
  <2>3. Power(Base, k - 1) \in Nat
    BY <2>1, PowerNext, WireAssumption
  <2>. QED BY <2>2, <2>3
<1>2. \A x \in Nat, k \in 1 .. len : next(x, k) \in Nat
  <2>. HIDE DEF worth
  <2>. QED BY <1>1
<1>3. step \in [1 .. len -> [Nat -> Nat]] /\ \A x \in Nat, k \in 1 .. len : step[k][x] = next(x, k)
  <2>. HIDE DEF next
  <2>. QED BY <1>2
<1>4. \E f \in [0 .. len -> Nat] : f[0] = 0 /\ \A k \in 1 .. len : f[k] = step[k][f[k - 1]]
  <2>1. Solvable(len, Nat) /\ 0 \in Nat
    BY Recursion
  <2>. HIDE DEF step
  <2>. QED BY ONLY <1>3, <2>1 DEF Solvable
<1>5. PICK f \in [0 .. len -> Nat] : f[0] = 0 /\ \A k \in 1 .. len : f[k] = step[k][f[k - 1]]
  BY <1>4
<1>6. ASSUME NEW k \in 0 .. len, k # 0
      PROVE  f[k] = f[k - 1] + p[first + len - k] * Power(Base, k - 1)
  <2>1. k \in 1 .. len /\ k - 1 \in 0 .. len
    BY <1>6
  <2>2. f[k - 1] \in Nat
    BY <1>5, <2>1
  <2>. HIDE DEF step
  <2>3. f[k] = next(f[k - 1], k)
    BY <1>3, <1>5, <2>1, <2>2
  <2>. QED BY <2>3
<1>7. IsMeant(f)
  BY <1>5, <1>6
<1>8. IsMeant(w)
  <2>. HIDE DEF IsMeant
  <2>. QED BY <1>7
<1>9. Meant(p, first, len) = w[len]
  BY DEF Meant
<1>. HIDE DEF w
<1>10. w[0] = 0 /\ \A k \in 1 .. len : w[k] = next(w[k - 1], k)
  <2>1. \A k \in 0 .. len :
          w[k] = IF k = 0 THEN 0 ELSE w[k - 1] + p[first + len - k] * Power(Base, k - 1)
    BY <1>8
  <2>2. 0 \in 0 .. len /\ \A k \in 1 .. len : k \in 0 .. len /\ k # 0
    OBVIOUS
  <2>. HIDE DEF IsMeant
  <2>. QED BY <2>1, <2>2
<1>11. w \in [0 .. len -> Nat]
  <2>1. IsOn(len, w)
    BY <1>8 DEF IsOn
  <2>. HIDE DEF IsMeant, next
  <2>2. ASSUME NEW k \in 1 .. len, w[k - 1] \in Nat PROVE w[k] \in Nat
    BY <1>2, <1>10, <2>2
  <2>3. Keeps(len, Nat, w)
    BY <1>10, <2>2 DEF Keeps
  <2>. QED BY <2>1, <2>3, StaysIn
<1>12. /\ w[0] = 0
       /\ \A k \in 1 .. len : w[k] = w[k - 1] + p[first + len - k] * Power(Base, k - 1)
       /\ Meant(p, first, len) = w[len]
  BY <1>9, <1>10
<1>. QED BY ONLY <1>11, <1>12

(* ntohl() gives the number that is meant: what has been read of the first *)
(* bytes is worth Power(Base, j) when j bytes are left, and those left     *)
(* make up the rest.                                                       *)
LEMMA NumberIsMeant ==
  ASSUME NEW p \in Seq(Nat), NEW first \in Nat \ {0}, NEW len \in Nat,
         first + len - 1 <= Len(p)
  PROVE  /\ Number(SubSeq(p, first, first + len - 1)) \in Nat
         /\ Number(SubSeq(p, first, first + len - 1)) = Meant(p, first, len)
<1>. DEFINE bytes == SubSeq(p, first, first + len - 1)
<1>1. /\ bytes \in Seq(Nat)
      /\ Len(bytes) = len
      /\ \A k \in 1 .. len : bytes[k] = p[first + k - 1]
      /\ \A i \in first .. first + len - 1 : p[i] \in Nat
  <2>1. Len(p) \in Nat /\ \A i \in 1 .. Len(p) : p[i] \in Nat
    BY LenProperties
  <2>2. first .. first + len - 1 \subseteq 1 .. Len(p)
    BY <2>1
  <2>. QED BY <2>1, <2>2
<1>. HIDE DEF bytes
<1>2. PICK u \in [0 .. len -> Nat] :
        /\ u[0] = 0
        /\ \A k \in 1 .. len : u[k] = u[k - 1] * Base + bytes[k]
        /\ Number(bytes) = u[len]
  BY <1>1, NumberSteps
<1>3. PICK v \in [0 .. len -> Nat] :
        /\ v[0] = 0
        /\ \A k \in 1 .. len : v[k] = v[k - 1] + p[first + len - k] * Power(Base, k - 1)
        /\ Meant(p, first, len) = v[len]
  <2>1. first \in Nat /\ \A i \in first .. first + len - 1 : p[i] \in Nat
    BY <1>1
  <2>. QED BY ONLY len \in Nat, <2>1, MeantSteps, Zenon
<1>. DEFINE Good == {j \in Nat : j \in 0 .. len => u[len] = u[len - j] * Power(Base, j) + v[j]}
<1>4. 0 \in Good
  <2>1. len - 0 = len /\ u[len] \in Nat /\ Power(Base, 0) = 1
    BY PowerNext, WireAssumption
  <2>. QED BY <1>3, <2>1
<1>5. ASSUME NEW j \in Nat, j \in Good PROVE j + 1 \in Good
  <2>. SUFFICES ASSUME j + 1 \in 0 .. len
                PROVE  u[len] = u[len - (j + 1)] * Power(Base, j + 1) + v[j + 1]
    OBVIOUS
  <2>. DEFINE a == u[len - (j + 1)]
              b == p[first + len - (j + 1)]
              P == Power(Base, j)
              x == v[j]
  <2>1. /\ j \in 0 .. len /\ j + 1 \in 1 .. len /\ (j + 1) - 1 = j
        /\ len - j \in 1 .. len /\ (len - j) - 1 = len - (j + 1)
        /\ len - (j + 1) \in 0 .. len
        /\ first + (len - j) - 1 = first + len - (j + 1)
        /\ first + len - (j + 1) \in first .. first + len - 1
    OBVIOUS
  <2>2. a \in Nat /\ x \in Nat
    BY <2>1
  <2>3. b \in Nat
    BY <1>1, <2>1
  <2>4. P \in Nat /\ Power(Base, j + 1) = Base * P /\ Base \in Nat
    BY PowerNext, WireAssumption
  <2>5. bytes[len - j] = b
    BY <1>1, <2>1
  <2>6. u[len - j] = a * Base + b
    BY <1>2, <2>1, <2>5
  <2>7. v[j + 1] = x + b * P
    BY <1>3, <2>1
  <2>8. u[len] = u[len - j] * P + x
    BY <1>5, <2>1
  <2>. HIDE DEF a, b, P, x
  <2>9. (a * Base + b) * P + x = a * (Base * P) + (x + b * P)
    <3>. DEFINE Factored(aa, BB, bb, PP, xx) ==
                  (aa * BB + bb) * PP + xx = aa * (BB * PP) + (xx + bb * PP)
    <3>1. \A aa, BB, bb, PP, xx \in Nat : Factored(aa, BB, bb, PP, xx)
      BY Factor
    <3>2. a \in Nat /\ Base \in Nat /\ b \in Nat /\ P \in Nat /\ x \in Nat
      BY ONLY <2>2, <2>3, <2>4
    <3>3. Factored(a, Base, b, P, x)
      <4>. HIDE DEF Factored
      <4>. QED BY ONLY <3>1, <3>2
    <3>. QED BY <3>3
  <2>10. u[len] = a * Power(Base, j + 1) + v[j + 1]
    BY <2>4, <2>6, <2>7, <2>8, <2>9
  <2>. QED BY <2>10 DEF a
<1>6. len \in Good
  <2>. HIDE DEF Good
  <2>. QED BY <1>4, <1>5, SetInduction
<1>7. len \in 0 .. len /\ len - len = 0
  OBVIOUS
<1>8. u[len] = 0 * Power(Base, len) + v[len]
  BY <1>2, <1>6, <1>7
<1>9. Power(Base, len) \in Nat /\ v[len] \in Nat
  BY <1>7, PowerNext, WireAssumption
<1>10. u[len] = v[len]
  BY <1>8, <1>9
<1>. QED BY <1>2, <1>3, <1>9, <1>10 DEF bytes

(* The nearest of two decimals is not further off than half a unit. *)
LEMMA RoundedIsNearest ==
  ASSUME NEW n \in Nat, NEW d \in Nat
  PROVE  /\ Rounded(n, d) # {}
         /\ \A q \in Rounded(n, d) : q \in Nat /\ IsNearest(q, n, d)
<1>. DEFINE X == Power(10, d)
            Q == n \div X
            r == n % X
<1>1. X \in Nat \ {0}
  BY PowerNext
<1>. HIDE DEF X
<1>2. Q \in Nat /\ r \in 0 .. X - 1 /\ n = Q * X + r
  BY <1>1, DivMod
<1>3. Rounded(n, d) = (IF 2 * r <= X THEN {Q} ELSE {}) \union (IF 2 * r >= X THEN {Q + 1} ELSE {})
  BY DEF Rounded, X
<1>. HIDE DEF Q, r
<1>4. Q * X \in Nat /\ (Q + 1) * X = Q * X + X
  BY <1>1, <1>2, NextUnit
<1>5. 2 * r <= X \/ 2 * r >= X
  BY <1>1, <1>2
<1>6. ASSUME NEW q \in Rounded(n, d)
      PROVE  q \in Nat /\ 2 * (q * X - n) <= X /\ -2 * (q * X - n) <= X
  <2>1. (q = Q /\ 2 * r <= X) \/ (q = Q + 1 /\ 2 * r >= X)
    BY <1>3
  <2>. DEFINE Y == Q * X
  <2>2. Y \in Nat /\ n = Y + r
    BY <1>2, <1>4
  <2>3. CASE q = Q /\ 2 * r <= X
    <3>1. q * X = Y
      BY <2>3
    <3>. HIDE DEF Y
    <3>2. 2 * (Y - n) <= X /\ -2 * (Y - n) <= X
      BY <1>1, <1>2, <2>2, <2>3
    <3>. QED BY <1>2, <2>3, <3>1, <3>2
  <2>4. CASE q = Q + 1 /\ 2 * r >= X
    <3>1. q * X = Y + X
      BY <1>4, <2>4
    <3>. HIDE DEF Y
    <3>2. 2 * ((Y + X) - n) <= X /\ -2 * ((Y + X) - n) <= X
      BY <1>1, <1>2, <2>2, <2>4
    <3>3. q \in Nat
      BY <1>2, <2>4
    <3>. QED BY ONLY <3>1, <3>2, <3>3, Zenon
  <2>. QED BY <2>1, <2>3, <2>4
<1>7. Rounded(n, d) # {}
  BY <1>3, <1>5
<1>8. ASSUME NEW q \in Rounded(n, d) PROVE IsNearest(q, n, d)
  BY <1>6, Zenon DEF IsNearest, X
<1>. QED BY <1>6, <1>7, <1>8

-----------------------------------------------------------------------------
(* Names in fields of TOPIC_SIZE bytes. *)

LEMMA NameIs ==
  ASSUME NEW name \in Names
  PROVE  /\ name \in Seq(Nat)
         /\ Len(name) \in 1 .. TOPIC_SIZE
         /\ \A i \in 1 .. Len(name) : name[i] \in Nat /\ name[i] # 0
<1>1. PICK n \in 1 .. TOPIC_SIZE : name \in [1 .. n -> NameBytes]
  BY DEF Names
<1>2. n \in Nat /\ TOPIC_SIZE \in Nat
  BY WireAssumption
<1>3. \A b \in NameBytes : b \in Nat /\ b # 0
  BY WireAssumption
<1>4. name \in [1 .. n -> Nat]
  BY <1>1, <1>3
<1>5. name \in Seq(Nat) /\ Len(name) = n
  BY <1>2, <1>4
<1>. QED BY <1>1, <1>3, <1>5

(* Memory that begins with the field of a name. *)
Holds(memory, name) ==
  /\ memory \in Seq(Nat)
  /\ Len(memory) >= TOPIC_SIZE
  /\ \A i \in 1 .. TOPIC_SIZE : memory[i] = IF i <= Len(name) THEN name[i] ELSE 0

LEMMA FieldHolds ==
  ASSUME NEW name \in Names, NEW rest \in Seq(Nat)
  PROVE  Holds(Field(name) \o rest, name)
<1>1. TOPIC_SIZE \in Nat
  BY WireAssumption
<1>2. Field(name) \in [1 .. TOPIC_SIZE -> Nat]
  BY <1>1, NameIs DEF Field
<1>3. Field(name) \in Seq(Nat) /\ Len(Field(name)) = TOPIC_SIZE
  BY <1>1, <1>2
<1>4. \A i \in 1 .. TOPIC_SIZE : Field(name)[i] = IF i <= Len(name) THEN name[i] ELSE 0
  BY DEF Field
<1>. DEFINE memory == Field(name) \o rest
<1>5. /\ memory \in Seq(Nat)
      /\ Len(memory) = TOPIC_SIZE + Len(rest)
      /\ \A i \in 1 .. TOPIC_SIZE : memory[i] = Field(name)[i]
  <2>. DEFINE field == Field(name)
  <2>1. field \in Seq(Nat) /\ Len(field) = TOPIC_SIZE
    BY <1>3
  <2>2. Len(rest) \in Nat
    BY LenProperties
  <2>. HIDE DEF field
  <2>3. /\ field \o rest \in Seq(Nat)
        /\ Len(field \o rest) = Len(field) + Len(rest)
        /\ \A i \in 1 .. Len(field) + Len(rest) :
             (field \o rest)[i] = IF i <= Len(field) THEN field[i] ELSE rest[i - Len(field)]
    BY <2>1, ConcatProperties
  <2>4. \A i \in 1 .. TOPIC_SIZE : i \in 1 .. TOPIC_SIZE + Len(rest) /\ i <= TOPIC_SIZE
    BY <1>1, <2>2
  <2>5. \A i \in 1 .. TOPIC_SIZE : (field \o rest)[i] = field[i]
    BY <2>1, <2>3, <2>4
  <2>. QED BY <2>1, <2>3, <2>5 DEF field
<1>6. Len(rest) \in Nat
  BY LenProperties
<1>. HIDE DEF memory
<1>7. Holds(memory, name)
  BY <1>1, <1>4, <1>5, <1>6 DEF Holds
<1>. QED BY <1>7 DEF memory

(* The string of a memory ends before the first zero, or with the memory. *)
LEMMA StringEnds ==
  ASSUME NEW memory \in Seq(Nat)
  PROVE  LET zeros == {i \in DOMAIN memory : memory[i] = 0} IN
         /\ CString(memory) \in Seq(Nat)
         /\ zeros = {} => CString(memory) = memory
         /\ zeros # {} =>
              \E z \in zeros : (\A k \in zeros : z <= k) /\ CString(memory) = SubSeq(memory, 1, z - 1)
<1>. DEFINE zeros == {i \in DOMAIN memory : memory[i] = 0}
            z == CHOOSE i \in zeros : \A k \in zeros : i <= k
<1>1. CString(memory) = IF zeros = {} THEN memory ELSE SubSeq(memory, 1, z - 1)
  BY DEF CString
<1>2. Len(memory) \in Nat /\ DOMAIN memory = 1 .. Len(memory)
  BY LenProperties
<1>3. ASSUME zeros # {} PROVE z \in zeros /\ \A k \in zeros : z <= k
  <2>1. zeros \subseteq Nat
    BY <1>2
  <2>. HIDE DEF zeros
  <2>2. \E i \in zeros : \A k \in zeros : i <= k
    BY <1>3, <2>1, LeastExists
  <2>. QED BY <2>2
<1>4. zeros # {} => SubSeq(memory, 1, z - 1) \in Seq(Nat)
  <2>1. zeros # {} => z \in 1 .. Len(memory)
    BY <1>2, <1>3
  <2>. HIDE DEF z
  <2>2. z \in 1 .. Len(memory) => \A i \in 1 .. z - 1 : i \in 1 .. Len(memory)
    BY <1>2
  <2>. QED BY <1>2, <2>1, <2>2, SubSeqProperties
<1>. HIDE DEF z, zeros
<1>5. zeros # {} =>
        \E i \in zeros : (\A k \in zeros : i <= k) /\ CString(memory) = SubSeq(memory, 1, i - 1)
  BY <1>1, <1>3
<1>6. CString(memory) \in Seq(Nat) /\ (zeros = {} => CString(memory) = memory)
  BY <1>1, <1>4
<1>. QED BY <1>5, <1>6 DEF zeros

(* The string that begins with a field begins with the name, and is the    *)
(* name when the field has room for a terminator.                          *)
LEMMA FieldString ==
  ASSUME NEW name \in Names, NEW memory, Holds(memory, name)
  PROVE  /\ CString(memory) \in Seq(Nat)
         /\ Len(CString(memory)) >= Len(name)
         /\ \A i \in 1 .. Len(name) : CString(memory)[i] = name[i]
         /\ Len(name) < TOPIC_SIZE => CString(memory) = name
<1>. DEFINE zeros == {i \in DOMAIN memory : memory[i] = 0}
            c == CString(memory)
<1>1. /\ memory \in Seq(Nat) /\ Len(memory) \in Nat /\ Len(memory) >= TOPIC_SIZE
      /\ DOMAIN memory = 1 .. Len(memory) /\ TOPIC_SIZE \in Nat
      /\ \A i \in 1 .. TOPIC_SIZE : memory[i] = IF i <= Len(name) THEN name[i] ELSE 0
  BY LenProperties, WireAssumption DEF Holds
<1>2. /\ name \in Seq(Nat) /\ Len(name) \in 1 .. TOPIC_SIZE
      /\ \A i \in 1 .. Len(name) : name[i] # 0 /\ memory[i] = name[i]
  BY <1>1, NameIs
<1>3. \A i \in zeros : i \in 1 .. Len(memory) /\ i > Len(name)
  BY <1>1, <1>2
<1>4. Len(name) < TOPIC_SIZE => Len(name) + 1 \in zeros
  BY <1>1, <1>2
<1>5. /\ c \in Seq(Nat)
      /\ zeros = {} => c = memory
      /\ zeros # {} => \E z \in zeros : (\A k \in zeros : z <= k) /\ c = SubSeq(memory, 1, z - 1)
  BY <1>1, StringEnds
<1>. HIDE DEF zeros, c
<1>6. CASE zeros = {}
  BY <1>1, <1>2, <1>4, <1>5, <1>6 DEF c
<1>7. CASE zeros # {}
  <2>1. PICK z \in zeros : (\A k \in zeros : z <= k) /\ c = SubSeq(memory, 1, z - 1)
    BY <1>5, <1>7
  <2>2. z \in 1 .. Len(memory) /\ z - 1 >= Len(name) /\ z - 1 \in 0 .. Len(memory)
    BY <1>1, <1>2, <1>3
  <2>3. Len(c) = z - 1 /\ \A i \in 1 .. z - 1 : c[i] = memory[i]
    BY <1>1, <2>1, <2>2, SubSeqProperties
  <2>4. \A i \in 1 .. Len(name) : c[i] = name[i]
    BY <1>2, <2>2, <2>3
  <2>5. Len(name) < TOPIC_SIZE => Len(c) = Len(name)
    BY <1>2, <1>4, <2>1, <2>2, <2>3
  <2>6. Len(name) < TOPIC_SIZE => c = name
    BY <1>2, <1>5, <2>4, <2>5, SeqEqual
  <2>. QED BY <1>5, <2>2, <2>3, <2>4, <2>6 DEF c
<1>. QED BY <1>6, <1>7

-----------------------------------------------------------------------------
(* Payloads and what becomes of them. *)

Datagrams == [topic : Names, type : INT .. STR + 1, payload : Payloads]

LEMMA PayloadIs ==
  ASSUME NEW p \in Payloads
  PROVE  /\ p \in Seq(Nat)
         /\ Len(p) = NumLen + 2
         /\ \A i \in 1 .. NumLen + 2 : p[i] \in 0 .. Base - 1
<1>1. NumLen + 2 \in Nat
  BY WireAssumption
<1>2. \A x \in SignBytes \union NumBytes \union Exponents : x \in Nat /\ x \in 0 .. Base - 1
  BY WireAssumption
<1>3. p \in [1 .. NumLen + 2 -> SignBytes \union NumBytes \union Exponents]
  BY DEF Payloads
<1>4. p \in [1 .. NumLen + 2 -> Nat]
  BY <1>2, <1>3
<1>5. p \in Seq(Nat) /\ Len(p) = NumLen + 2
  BY <1>1, <1>4
<1>. QED BY <1>2, <1>3, <1>5

(* A byte that is negative as a char, and the two that are signs. *)
LEMMA CharIs ==
  ASSUME NEW b \in 0 .. Base - 1
  PROVE  /\ Char(b) > 1 <=> b \notin {0, 1} /\ ~ (b > CharMax)
         /\ Char(b) \in {0, 1} <=> b \in {0, 1}
  BY WireAssumption DEF Char

(* The number that stands behind the sign, and the one of a SHORT_REAL. *)
LEMMA NumbersOf ==
  ASSUME NEW p \in Payloads
  PROVE  /\ Number(SubSeq(p, 2, NumLen + 1)) \in Nat
         /\ Number(SubSeq(p, 2, NumLen + 1)) = Meant(p, 2, NumLen)
         /\ Number(SubSeq(p, 1, 2)) \in Nat
         /\ Number(SubSeq(p, 1, 2)) = Meant(p, 1, 2)
<1>1. p \in Seq(Nat) /\ Len(p) = NumLen + 2 /\ NumLen \in Nat \ {0}
  BY PayloadIs, WireAssumption
<1>2. /\ 2 + NumLen - 1 = NumLen + 1 /\ 2 + NumLen - 1 <= Len(p)
      /\ 1 + 2 - 1 = 2 /\ 1 + 2 - 1 <= Len(p)
  BY <1>1
<1>3. /\ Number(SubSeq(p, 2, 2 + NumLen - 1)) \in Nat
      /\ Number(SubSeq(p, 2, 2 + NumLen - 1)) = Meant(p, 2, NumLen)
  <2>1. 2 \in Nat \ {0} /\ NumLen \in Nat
    BY <1>1
  <2>. QED BY ONLY <1>1, <1>2, <2>1, NumberIsMeant
<1>4. /\ Number(SubSeq(p, 1, 1 + 2 - 1)) \in Nat
      /\ Number(SubSeq(p, 1, 1 + 2 - 1)) = Meant(p, 1, 2)
  <2>1. 1 \in Nat \ {0} /\ 2 \in Nat
    OBVIOUS
  <2>. QED BY ONLY <1>1, <1>2, <2>1, NumberIsMeant
<1>. QED BY <1>2, <1>3, <1>4

LEMMA ConvertedIs ==
  ASSUME NEW p
  PROVE  /\ Converted(INT, p) = convert_to_int(p)
         /\ Converted(SHORT_REAL, p) = convert_to_short_real(p)
         /\ Converted(FLOAT, p) = convert_to_float(p)
         /\ Converted(STR, p) = convert_to_string(p)
         /\ Converted(STR + 1, p) = {}
  BY DEF Converted, INT, SHORT_REAL, FLOAT, STR

(* A payload becomes nothing when it is malformed, except for an INT whose *)
(* sign byte is negative as a char.                                        *)
LEMMA RefusedIs ==
  ASSUME NEW d \in Datagrams
  PROVE  UDP_to_TCP(d) = {} <=> ~ WellFormed(d) /\ ~ (d.type = INT /\ d.payload[1] > CharMax)
<1>. DEFINE p == d.payload
            b == d.payload[1]
            None == Converted(d.type, d.payload) = {}
<1>1. p \in Payloads /\ d.type \in {INT, SHORT_REAL, FLOAT, STR, STR + 1}
  BY DEF Datagrams, INT, SHORT_REAL, FLOAT, STR
<1>2. UDP_to_TCP(d) = {} <=> None
  BY DEF UDP_to_TCP
<1>3. b \in 0 .. Base - 1
  <2>1. 1 \in 1 .. NumLen + 2
    BY WireAssumption
  <2>. QED BY <1>1, <2>1, PayloadIs
<1>4. WellFormed(d) <=> d.type \in INT .. STR /\ (d.type \in {INT, FLOAT} => b \in {0, 1})
  BY DEF WellFormed
<1>5. b > CharMax => b \notin {0, 1}
  BY <1>3, WireAssumption
<1>. HIDE DEF b, p
<1>6. CASE d.type = INT
  <2>1. None <=> Char(b) > 1
    BY <1>6, ConvertedIs DEF convert_to_int, b
  <2>2. WellFormed(d) <=> b \in {0, 1}
    BY <1>4, <1>6 DEF INT, STR
  <2>. HIDE DEF None
  <2>. QED BY <1>2, <1>3, <1>5, <1>6, <2>1, <2>2, CharIs DEF b
<1>7. CASE d.type = SHORT_REAL
  <2>1. ~ None
    BY <1>7, ConvertedIs DEF convert_to_short_real
  <2>2. WellFormed(d)
    BY <1>4, <1>7 DEF INT, SHORT_REAL, FLOAT, STR
  <2>. HIDE DEF None
  <2>. QED BY <1>2, <2>1, <2>2
<1>8. CASE d.type = FLOAT
  <2>1. b \notin {0, 1} => None
    BY <1>3, <1>8, ConvertedIs, CharIs DEF convert_to_float, FloatSignOK, b
  <2>2. b \in {0, 1} => ~ None
    <3>1. SUFFICES ASSUME b \in {0, 1} PROVE Converted(FLOAT, d.payload) # {}
      BY <1>8
    <3>2. FloatSignOK(d.payload[1])
      BY <1>3, <3>1, CharIs DEF FloatSignOK, b
    <3>. DEFINE e == d.payload[NumLen + 2]
                n == Number(SubSeq(d.payload, 2, NumLen + 1))
    <3>3. e \in Nat /\ n \in Nat
      <4>1. NumLen + 2 \in 1 .. NumLen + 2
        BY WireAssumption
      <4>. QED BY <1>1, <4>1, PayloadIs, NumbersOf DEF p
    <3>4. convert_to_float(d.payload) =
            IF e <= Decimals THEN {NumberText(d.payload[1] = 1, n, e)}
            ELSE {NumberText(d.payload[1] = 1, u, Decimals) : u \in Rounded(n, e - Decimals)}
      BY <3>2 DEF convert_to_float
    <3>. HIDE DEF e, n
    <3>5. ~ (e <= Decimals) => Rounded(n, e - Decimals) # {}
      <4>1. ~ (e <= Decimals) => e - Decimals \in Nat
        BY <3>3 DEF Decimals
      <4>. QED BY <3>3, <4>1, RoundedIsNearest
    <3>6. convert_to_float(d.payload) # {}
      BY <3>4, <3>5
    <3>. QED BY <3>6, ConvertedIs
  <2>3. WellFormed(d) <=> b \in {0, 1}
    BY <1>4, <1>8 DEF INT, FLOAT, STR
  <2>4. d.type # INT
    BY <1>8 DEF INT, FLOAT
  <2>. HIDE DEF None
  <2>. QED BY <1>2, <2>1, <2>2, <2>3, <2>4
<1>9. CASE d.type = STR
  <2>1. ~ None
    BY <1>9, ConvertedIs DEF convert_to_string
  <2>2. WellFormed(d)
    BY <1>4, <1>9 DEF INT, FLOAT, STR
  <2>. HIDE DEF None
  <2>. QED BY <1>2, <2>1, <2>2
<1>10. CASE d.type = STR + 1
  <2>1. None
    BY <1>10, ConvertedIs
  <2>2. ~ WellFormed(d) /\ d.type # INT
    BY <1>4, <1>10 DEF INT, STR
  <2>. HIDE DEF None
  <2>. QED BY <1>2, <2>1, <2>2
<1>. QED BY <1>1, <1>6, <1>7, <1>8, <1>9, <1>10

(* What may be said of a message that a datagram has become. *)
IsText(d, m) ==
  /\ m.topic = d.topic /\ m.type = d.type
  /\ m.units \in Nat /\ m.scale \in 0 .. Decimals
  /\ m.text \in Seq(Nat)

LEMMA ConvertedText ==
  ASSUME NEW type \in INT .. STR + 1, NEW p \in Payloads, NEW c \in Converted(type, p)
  PROVE  c.units \in Nat /\ c.scale \in 0 .. Decimals /\ c.text \in Seq(Nat)
<1>1. type \in {INT, SHORT_REAL, FLOAT, STR, STR + 1}
  BY DEF INT, SHORT_REAL, FLOAT, STR
<1>2. Digits \in Seq(Nat) /\ {0, 2, Decimals} \subseteq 0 .. Decimals
  BY DEF Digits, Decimals
<1>3. \A minus, units, scale :
        /\ NumberText(minus, units, scale).units = units
        /\ NumberText(minus, units, scale).scale = scale
        /\ NumberText(minus, units, scale).text = Digits
  BY DEF NumberText
<1>4. CASE type = INT
  <2>1. c.units = Number(SubSeq(p, 2, NumLen + 1)) /\ c.scale = 0 /\ c.text = Digits
    BY <1>4, ConvertedIs DEF convert_to_int, NumberText
  <2>. QED BY <1>2, <2>1, NumbersOf
<1>5. CASE type = SHORT_REAL
  <2>1. c.units = Number(SubSeq(p, 1, 2)) /\ c.scale = 2 /\ c.text = Digits
    BY <1>5, ConvertedIs DEF convert_to_short_real, NumberText
  <2>. QED BY <1>2, <2>1, NumbersOf
<1>6. CASE type = FLOAT
  <2>. DEFINE e == p[NumLen + 2]
              n == Number(SubSeq(p, 2, NumLen + 1))
  <2>1. e \in Nat /\ n \in Nat
    <3>1. NumLen + 2 \in 1 .. NumLen + 2
      BY WireAssumption
    <3>. QED BY <3>1, PayloadIs, NumbersOf
  <2>2. c \in IF e <= Decimals THEN {NumberText(p[1] = 1, n, e)}
             ELSE {NumberText(p[1] = 1, u, Decimals) : u \in Rounded(n, e - Decimals)}
    BY <1>6, ConvertedIs DEF convert_to_float
  <2>. HIDE DEF e, n
  <2>3. CASE e <= Decimals
    <3>1. c = NumberText(p[1] = 1, n, e)
      BY <2>2, <2>3
    <3>2. e \in 0 .. Decimals
      BY <2>1, <2>3 DEF Decimals
    <3>. QED BY <1>2, <1>3, <2>1, <3>1, <3>2
  <2>4. CASE ~ (e <= Decimals)
    <3>1. PICK u \in Rounded(n, e - Decimals) : c = NumberText(p[1] = 1, u, Decimals)
      BY <2>2, <2>4
    <3>2. e - Decimals \in Nat
      BY <2>1, <2>4 DEF Decimals
    <3>3. u \in Nat
      BY <2>1, <3>2, RoundedIsNearest
    <3>. QED BY <1>2, <1>3, <3>1, <3>3
  <2>. QED BY <2>3, <2>4
<1>7. CASE type = STR
  <2>1. c.units = 0 /\ c.scale = 0 /\ c.text = CString(p)
    BY <1>7, ConvertedIs DEF convert_to_string
  <2>2. CString(p) \in Seq(Nat)
    BY PayloadIs, StringEnds
  <2>3. 0 \in 0 .. Decimals
    BY <1>2
  <2>. QED BY <2>1, <2>2, <2>3
<1>8. CASE type = STR + 1
  BY <1>8, ConvertedIs
<1>. QED BY <1>1, <1>4, <1>5, <1>6, <1>7, <1>8

LEMMA MessageText ==
  ASSUME NEW d \in Datagrams, NEW m \in UDP_to_TCP(d)
  PROVE  IsText(d, m)
<1>1. d.type \in INT .. STR + 1 /\ d.payload \in Payloads
  BY DEF Datagrams
<1>2. PICK c \in Converted(d.type, d.payload) :
        m = [topic |-> d.topic, type |-> d.type, minus |-> c.minus, units |-> c.units,
             scale |-> c.scale, text |-> c.text]
  BY DEF UDP_to_TCP
<1>3. m.topic = d.topic /\ m.type = d.type /\ m.units = c.units /\ m.scale = c.scale /\ m.text = c.text
  BY <1>2
<1>4. c.units \in Nat /\ c.scale \in 0 .. Decimals /\ c.text \in Seq(Nat)
  BY <1>1, ConvertedText
<1>. QED BY <1>3, <1>4 DEF IsText

(* What is shown of a well-formed datagram is what is meant. *)
LEMMA MessageShown ==
  ASSUME NEW d \in Datagrams, WellFormed(d), NEW m \in UDP_to_TCP(d)
  PROVE  ShowsMeant(d, m)
<1>. DEFINE p == d.payload
            n == Meant(p, 2, NumLen)
            e == p[NumLen + 2]
<1>1. p \in Payloads /\ d.type \in {INT, SHORT_REAL, FLOAT, STR}
  BY DEF Datagrams, WellFormed, INT, SHORT_REAL, FLOAT, STR
<1>2. PICK c \in Converted(d.type, p) :
        m = [topic |-> d.topic, type |-> d.type, minus |-> c.minus, units |-> c.units,
             scale |-> c.scale, text |-> c.text]
  BY DEF UDP_to_TCP
<1>3. /\ m.type = d.type /\ m.minus = c.minus /\ m.units = c.units
      /\ m.scale = c.scale /\ m.text = c.text
  BY <1>2
<1>4. /\ Number(SubSeq(p, 2, NumLen + 1)) = n /\ n \in Nat
      /\ Number(SubSeq(p, 1, 2)) = Meant(p, 1, 2)
  BY <1>1, NumbersOf
<1>5. e \in Nat
  <2>1. NumLen + 2 \in 1 .. NumLen + 2
    BY WireAssumption
  <2>. QED BY <1>1, <2>1, PayloadIs
<1>6. d.type \in {INT, FLOAT} => p[1] \in {0, 1}
  BY DEF WellFormed
<1>. HIDE DEF p, n, e
<1>7. CASE d.type = INT
  <2>1. c = NumberText(p[1] # 0 /\ n # 0, n, 0)
    BY <1>4, <1>7, ConvertedIs DEF convert_to_int, n
  <2>2. c.units = n /\ c.scale = 0 /\ c.minus = (p[1] # 0 /\ n # 0)
    BY <2>1 DEF NumberText
  <2>3. (p[1] # 0 /\ n # 0) <=> p[1] = 1 /\ n > 0
    BY <1>4, <1>6, <1>7
  <2>4. m.minus <=> p[1] = 1 /\ n > 0
    BY <1>3, <2>2, <2>3, Zenon
  <2>5. m.type = INT /\ m.type # SHORT_REAL /\ m.type # FLOAT
    BY <1>3, <1>7 DEF INT, SHORT_REAL, FLOAT
  <2>. QED BY <1>3, <2>2, <2>4, <2>5 DEF ShowsMeant, p, n
<1>8. CASE d.type = SHORT_REAL
  <2>1. c = NumberText(FALSE, Meant(p, 1, 2), 2)
    BY <1>4, <1>8, ConvertedIs DEF convert_to_short_real
  <2>2. c.units = Meant(p, 1, 2) /\ c.scale = 2 /\ c.minus = FALSE
    BY <2>1 DEF NumberText
  <2>3. ~ m.minus
    BY <1>3, <2>2, Zenon
  <2>. QED BY <1>3, <1>8, <2>2, <2>3 DEF ShowsMeant, p, INT, SHORT_REAL, FLOAT
<1>9. CASE d.type = FLOAT
  <2>1. c \in IF e <= Decimals THEN {NumberText(p[1] = 1, n, e)}
             ELSE {NumberText(p[1] = 1, u, Decimals) : u \in Rounded(n, e - Decimals)}
    BY <1>4, <1>9, ConvertedIs DEF convert_to_float, n, e
  <2>2. c.minus = (p[1] = 1)
    <3>1. \E u, s : c = NumberText(p[1] = 1, u, s)
      BY <2>1
    <3>. QED BY <3>1 DEF NumberText
  <2>3. m.minus <=> p[1] = 1
    BY <1>3, <2>2, Zenon
  <2>4. e <= Decimals => m.units = n /\ m.scale = e
    <3>1. e <= Decimals => c = NumberText(p[1] = 1, n, e)
      BY <2>1
    <3>2. e <= Decimals => c.units = n /\ c.scale = e
      BY <3>1 DEF NumberText
    <3>. QED BY <1>3, <3>2
  <2>5. e > Decimals => IsNearest(m.units, n, e - Decimals)
    <3>. SUFFICES ASSUME e > Decimals PROVE IsNearest(m.units, n, e - Decimals)
      OBVIOUS
    <3>1. ~ (e <= Decimals) /\ e - Decimals \in Nat
      BY <1>5 DEF Decimals
    <3>2. PICK u \in Rounded(n, e - Decimals) : c = NumberText(p[1] = 1, u, Decimals)
      BY <2>1, <3>1
    <3>3. m.units = u
      BY <1>3, <3>2 DEF NumberText
    <3>4. IsNearest(u, n, e - Decimals)
      BY <1>4, <3>1, RoundedIsNearest
    <3>. QED BY <3>3, <3>4
  <2>6. m.type = FLOAT /\ m.type # INT /\ m.type # SHORT_REAL
    BY <1>3, <1>9 DEF INT, SHORT_REAL, FLOAT
  <2>. QED BY <2>3, <2>4, <2>5, <2>6 DEF ShowsMeant, p, n, e
<1>10. CASE d.type = STR
  <2>1. c.text = CString(p)
    BY <1>10, ConvertedIs DEF convert_to_string
  <2>2. m.text = CString(p) /\ m.type \notin {INT, SHORT_REAL, FLOAT}
    BY <1>3, <1>10, <2>1 DEF INT, SHORT_REAL, FLOAT, STR
  <2>. QED BY <2>2 DEF ShowsMeant, p
<1>. QED BY <1>1, <1>7, <1>8, <1>9, <1>10

-----------------------------------------------------------------------------
(* The inductive invariant. *)

TopicsFor(name, number) ==
  IF SfIsValid(SfByte(number))
  THEN <<[name |-> name, sf |-> SfByte(number), subscribed |-> 1]>>
  ELSE <<>>

(* What was typed is what the topic was made of. *)
SubscribedInv ==
  \/ asked = <<>> /\ topic = <<>>
  \/ \E name \in Names, number \in SfNumbers :
       asked = <<[name |-> name, sf |-> number]>> /\ topic = TopicsFor(name, number)

(* The message is what the datagram was converted to, and the server has   *)
(* died when there is none.                                                *)
PublishedInv ==
  \/ datagram = <<>> /\ message = <<>> /\ died = FALSE
  \/ \E d \in Datagrams :
       /\ datagram = <<d>>
       /\ \/ \E m \in UDP_to_TCP(d) : message = <<m>> /\ died = FALSE
          \/ UDP_to_TCP(d) = {} /\ message = <<>> /\ died = TRUE

FormatInv == SubscribedInv /\ PublishedInv

LEMMA FormatInvInit == Init => FormatInv
  BY DEF Init, FormatInv, SubscribedInv, PublishedInv

LEMMA FormatInvStep == FormatInv /\ [Next]_vars => FormatInv'
<1>. SUFFICES ASSUME FormatInv, [Next]_vars PROVE FormatInv'
  OBVIOUS
<1>1. ASSUME NEW name \in Names, NEW number \in SfNumbers, Subscribe(name, number)
      PROVE  FormatInv'
  <2>1. SubscribedInv'
    BY <1>1 DEF Subscribe, SubscribedInv, TopicsFor
  <2>2. PublishedInv'
    BY <1>1 DEF Subscribe, FormatInv, PublishedInv
  <2>. QED BY <2>1, <2>2 DEF FormatInv
<1>2. ASSUME NEW name \in Names, NEW type \in INT .. STR + 1, NEW p \in Payloads,
             Publish([topic |-> name, type |-> type, payload |-> p])
      PROVE  FormatInv'
  <2>. DEFINE d == [topic |-> name, type |-> type, payload |-> p]
  <2>1. d \in Datagrams
    BY DEF Datagrams
  <2>. HIDE DEF d
  <2>2. Publish(d)
    BY <1>2 DEF d
  <2>3. message = <<>> /\ died = FALSE
    <3>1. datagram = <<>>
      BY <2>2 DEF Publish
    <3>2. \A x : <<x>> # <<>>
      OBVIOUS
    <3>. QED BY <3>1, <3>2, Zenon DEF FormatInv, PublishedInv
  <2>4. PublishedInv'
    BY <2>1, <2>2, <2>3, Zenon DEF Publish, PublishedInv
  <2>5. SubscribedInv'
    BY <2>2 DEF Publish, FormatInv, SubscribedInv
  <2>. QED BY <2>4, <2>5 DEF FormatInv
<1>3. CASE UNCHANGED vars
  BY <1>3 DEF vars, FormatInv, SubscribedInv, PublishedInv
<1>. QED BY <1>1, <1>2, <1>3 DEF Next

LEMMA FormatInvAlways == Spec => []FormatInv
<1>. QED BY FormatInvInit, FormatInvStep, PTL DEF Spec

-----------------------------------------------------------------------------
(* The theorems. *)

(* A topic and a message are of their types: the number of a message is    *)
(* natural, it has no more decimals than are printed, and SF is 0 or 1.    *)
THEOREM FormatTypeCorrect == Spec => []TypeOK
<1>1. FormatInv => TypeOK
  <2>. SUFFICES ASSUME FormatInv PROVE TypeOK
    OBVIOUS
  <2>1. /\ \A i \in DOMAIN asked : asked[i] \in [name : Names, sf : SfNumbers]
        /\ \A i \in DOMAIN topic : topic[i] \in [name : Names, sf : {0, 1}, subscribed : {1}]
        /\ Len(topic) <= Len(asked)
    BY DEF FormatInv, SubscribedInv, TopicsFor, SfIsValid
  <2>2. /\ \A i \in DOMAIN message : message[i].units \in Nat /\ message[i].scale \in 0 .. Decimals
        /\ Len(message) <= Len(datagram)
        /\ died \in BOOLEAN
    <3>1. \/ message = <<>> /\ (datagram = <<>> \/ \E d : datagram = <<d>>)
          \/ \E d \in Datagrams : \E m \in UDP_to_TCP(d) : datagram = <<d>> /\ message = <<m>>
      BY Zenon DEF FormatInv, PublishedInv
    <3>2. \A d \in Datagrams : \A m \in UDP_to_TCP(d) : m.units \in Nat /\ m.scale \in 0 .. Decimals
      BY MessageText DEF IsText
    <3>3. died \in BOOLEAN
      BY Zenon DEF FormatInv, PublishedInv
    <3>. QED BY <3>1, <3>2, <3>3
  <2>. QED BY <2>1, <2>2 DEF TypeOK
<1>. QED BY <1>1, FormatInvAlways, PTL

(* Whatever the bytes of a well-formed payload are, the number shown is    *)
(* the one that was meant: ntohl() and ntohs() give it, the sign byte is   *)
(* its sign, and printf() rounds a FLOAT of many decimals to the nearest   *)
(* (utils.c:265-320).                                                      *)
THEOREM NumbersShownAsMeant == Spec => []ShownIsMeant
<1>1. FormatInv => ShownIsMeant
  <2>. SUFFICES ASSUME FormatInv, message # <<>>, WellFormed(datagram[1])
                PROVE  ShowsMeant(datagram[1], message[1])
    BY DEF ShownIsMeant
  <2>1. PICK d \in Datagrams : \E x \in UDP_to_TCP(d) : datagram = <<d>> /\ message = <<x>>
    BY DEF FormatInv, PublishedInv
  <2>. PICK m \in UDP_to_TCP(d) : datagram = <<d>> /\ message = <<m>>
    BY <2>1
  <2>2. datagram[1] = d /\ message[1] = m
    OBVIOUS
  <2>. QED BY <2>2, MessageShown
<1>. QED BY <1>1, FormatInvAlways, PTL

(* The server stops at a malformed datagram and at no other, but for an    *)
(* INT whose sign byte is negative as a char (utils.c:268 and :302).       *)
THEOREM MalformedRefused == Spec => []MalformedIsRefused
<1>1. FormatInv => MalformedIsRefused
  <2>. SUFFICES ASSUME FormatInv, datagram # <<>>
                PROVE  died <=> /\ ~WellFormed(datagram[1])
                                /\ ~(datagram[1].type = INT /\ datagram[1].payload[1] > CharMax)
    BY DEF MalformedIsRefused
  <2>1. PICK d \in Datagrams :
          /\ datagram = <<d>>
          /\ \/ \E m \in UDP_to_TCP(d) : message = <<m>> /\ died = FALSE
             \/ UDP_to_TCP(d) = {} /\ message = <<>> /\ died = TRUE
    BY Zenon DEF FormatInv, PublishedInv
  <2>2. died <=> UDP_to_TCP(d) = {}
    BY <2>1, Zenon
  <2>3. datagram[1] = d
    BY <2>1
  <2>. QED BY <2>2, <2>3, RefusedIs, Zenon
<1>. QED BY <1>1, FormatInvAlways, PTL

(* strcmp() never takes one name for another, even when a name fills its   *)
(* field and the comparison runs into what lies behind it; and it finds    *)
(* the same name in both when there is room for a terminator.              *)
THEOREM NamesMatchAsMeant == Spec => []MatchIsMeant
<1>1. FormatInv => MatchIsMeant
  <2>. SUFFICES ASSUME FormatInv, topic # <<>>, message # <<>>
                PROVE  /\ Matches(topic[1], message[1]) => topic[1].name = message[1].topic
                       /\ topic[1].name = message[1].topic /\ Len(topic[1].name) < TOPIC_SIZE
                            => Matches(topic[1], message[1])
    BY DEF MatchIsMeant
  <2>. DEFINE a == topic[1].name
              b == message[1].topic
              c == TopicName(topic[1])
              e == MessageTopic(message[1])
  <2>1. a \in Names /\ topic[1].sf \in Nat /\ topic[1].subscribed = 1
    BY DEF FormatInv, SubscribedInv, TopicsFor, SfIsValid
  <2>2. b \in Names /\ message[1].type \in Nat /\ message[1].text \in Seq(Nat)
    <3>1. PICK d \in Datagrams : \E x \in UDP_to_TCP(d) : message = <<x>>
      BY DEF FormatInv, PublishedInv
    <3>. PICK m \in UDP_to_TCP(d) : message = <<m>>
      BY <3>1
    <3>2. message[1] = m /\ IsText(d, m)
      BY MessageText
    <3>. QED BY <3>2 DEF IsText, Datagrams, INT, STR
  <2>3. \E memory : Holds(memory, a) /\ c = CString(memory)
    <3>1. <<topic[1].sf, topic[1].subscribed, 0>> \in Seq(Nat)
      BY <2>1
    <3>. QED BY <2>1, <3>1, FieldHolds DEF TopicName
  <2>4. \E memory : Holds(memory, b) /\ e = CString(memory)
    <3>1. <<message[1].type>> \in Seq(Nat) /\ Field(b) \in Seq(Nat)
      <4>1. Field(b) \in [1 .. TOPIC_SIZE -> Nat]
        BY <2>2, NameIs DEF Field
      <4>2. TOPIC_SIZE \in Nat
        BY WireAssumption
      <4>. QED BY <2>2, <4>1, <4>2
    <3>2. <<message[1].type>> \o message[1].text \in Seq(Nat)
      BY <2>2, <3>1, ConcatProperties
    <3>3. (Field(b) \o <<message[1].type>>) \o message[1].text
            = Field(b) \o (<<message[1].type>> \o message[1].text)
      <4>. DEFINE f == Field(b)
                  t == <<message[1].type>>
                  x == message[1].text
      <4>1. f \in Seq(Nat) /\ t \in Seq(Nat) /\ x \in Seq(Nat)
        BY <2>2, <3>1
      <4>. HIDE DEF f, t, x
      <4>2. (f \o t) \o x = f \o (t \o x)
        BY <4>1, ConcatAssociative
      <4>. QED BY <4>2 DEF f, t, x
    <3>4. Holds(Field(b) \o (<<message[1].type>> \o message[1].text), b)
      BY <2>2, <3>2, FieldHolds
    <3>. QED BY <3>3, <3>4 DEF MessageTopic
  <2>5. Matches(topic[1], message[1]) <=> c = e
    BY DEF Matches
  <2>. HIDE DEF a, b, c, e
  <2>6. /\ Len(c) >= Len(a) /\ (\A i \in 1 .. Len(a) : c[i] = a[i])
        /\ Len(a) < TOPIC_SIZE => c = a
    BY <2>1, <2>3, FieldString
  <2>7. /\ Len(e) >= Len(b) /\ (\A i \in 1 .. Len(b) : e[i] = b[i])
        /\ Len(b) < TOPIC_SIZE => e = b
    BY <2>2, <2>4, FieldString
  <2>8. /\ a \in Seq(Nat) /\ Len(a) \in 1 .. TOPIC_SIZE
        /\ b \in Seq(Nat) /\ Len(b) \in 1 .. TOPIC_SIZE /\ TOPIC_SIZE \in Nat
    BY <2>1, <2>2, NameIs, WireAssumption
  <2>9. ASSUME c = e PROVE a = b
    <3>1. Len(a) = Len(b)
      BY <2>6, <2>7, <2>8, <2>9
    <3>2. \A i \in 1 .. Len(a) : a[i] = b[i]
      BY <2>6, <2>7, <2>9, <3>1
    <3>. QED BY <2>8, <3>1, <3>2, SeqEqual
  <2>10. a = b /\ Len(a) < TOPIC_SIZE => c = e
    BY <2>6, <2>7
  <2>. QED BY <2>5, <2>9, <2>10 DEF a, b
<1>. QED BY <1>1, FormatInvAlways, PTL

=============================================================================
