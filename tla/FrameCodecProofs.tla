--------------------------- MODULE FrameCodecProofs ---------------------------
(***************************************************************************)
(* Proofs about FrameCodec, for every number of values of a byte, width of  *)
(* the integer fields, limit on a frame, and stream a peer may send.        *)
(* Induction over numbers is by least counterexample: the theorems of the   *)
(* library that take a predicate are not used.                              *)
(***************************************************************************)
EXTENDS FrameCodec, SequenceFacts, NaturalsInduction, WellFoundedInduction, TLAPS

-----------------------------------------------------------------------------
(* Induction and recursion over the naturals.                              *)

LEMMA LeastNat ==
  ASSUME NEW S \in SUBSET Nat, S # {}
  PROVE  \E x \in S : \A y \in S : x <= y
  <1> DEFINE R == {ss \in Nat \X Nat : ss[1] < ss[2]}
  <1>1. IsWellFoundedOn(R, Nat)
    BY NatLessThanWellFounded DEF OpToRel
  <1>2. \A a, b \in Nat : a < b => <<a, b>> \in R
    OBVIOUS
  <1> HIDE DEF R
  <1>3. PICK x \in S : \A y \in S : ~ (<<y, x>> \in R)
    BY <1>1, WFMin
  <1>4. \A y \in S : ~ (y < x)
    BY <1>2, <1>3
  <1> QED
    BY <1>4

\* Induction over a set of numbers that holds 0 and every successor.
LEMMA Induction ==
  ASSUME NEW S \in SUBSET Nat, 0 \in S, \A n \in S : n + 1 \in S
  PROVE  S = Nat
  <1> SUFFICES ASSUME Nat \ S # {} PROVE FALSE
    OBVIOUS
  <1>1. PICK x \in Nat \ S : \A y \in Nat \ S : x <= y
    BY LeastNat
  <1>2. x # 0 /\ x - 1 \in Nat
    BY <1>1
  <1>3. x - 1 \in S
    BY <1>1, <1>2
  <1> QED
    BY <1>1, <1>2, <1>3

\* f starts at init and follows step up to n.
Follows(f, init, step, n) ==
  /\ f[0] = init
  /\ \A k \in 1 .. n : f[k] = step[<<k, f[k - 1]>>]

LEMMA FollowsOnce ==
  ASSUME NEW S, NEW init \in S, NEW step \in [Nat \X S -> S], NEW n \in Nat
  PROVE  \E f \in [0 .. n -> S] : Follows(f, init, step, n)
  <1> DEFINE T == {m \in Nat : \E f \in [0 .. m -> S] : Follows(f, init, step, m)}
  <1>1. 0 \in T
    <2> DEFINE f == [k \in 0 .. 0 |-> init]
    <2>1. f \in [0 .. 0 -> S] /\ f[0] = init
      OBVIOUS
    <2> HIDE DEF f
    <2>2. Follows(f, init, step, 0)
      BY <2>1 DEF Follows
    <2> QED
      BY <2>1, <2>2
  <1>2. ASSUME NEW m \in T PROVE m + 1 \in T
    <2>1. PICK f \in [0 .. m -> S] : Follows(f, init, step, m)
      OBVIOUS
    <2> DEFINE g == [k \in 0 .. m + 1 |-> IF k = m + 1 THEN step[<<m + 1, f[m]>>] ELSE f[k]]
    <2>2. f[m] \in S /\ step[<<m + 1, f[m]>>] \in S
      BY <2>1
    <2>3. g \in [0 .. m + 1 -> S]
      BY <2>2
    <2>4. g[m + 1] = step[<<m + 1, f[m]>>] /\ \A k \in 0 .. m : g[k] = f[k]
      OBVIOUS
    <2> HIDE DEF g
    <2>5. g[0] = init
      BY <2>1, <2>4 DEF Follows
    <2>6. ASSUME NEW k \in 1 .. m + 1 PROVE g[k] = step[<<k, g[k - 1]>>]
      <3>1. CASE k = m + 1
        BY <2>4, <3>1
      <3>2. CASE k # m + 1
        <4>1. k \in 1 .. m /\ k \in 0 .. m /\ k - 1 \in 0 .. m
          BY <3>2
        <4>2. f[k] = step[<<k, f[k - 1]>>]
          BY <2>1, <4>1 DEF Follows
        <4> QED
          BY <2>4, <4>1, <4>2
      <3> QED
        BY <3>1, <3>2
    <2>7. Follows(g, init, step, m + 1)
      BY <2>5, <2>6 DEF Follows
    <2> QED
      BY <2>3, <2>7
  <1> HIDE DEF T
  <1>3. T = Nat
    <2>1. T \in SUBSET Nat
      BY DEF T
    <2> QED
      BY <1>1, <1>2, <2>1, Induction
  <1> QED
    BY <1>3 DEF T

LEMMA FollowsUnique ==
  ASSUME NEW init, NEW step, NEW n \in Nat, NEW f, NEW m \in Nat, NEW g,
         Follows(f, init, step, n), Follows(g, init, step, m), n <= m,
         NEW k \in 0 .. n
  PROVE  f[k] = g[k]
  <1> DEFINE T == {j \in Nat : j <= n => f[j] = g[j]}
  <1>1. 0 \in T
    BY DEF Follows
  <1>2. ASSUME NEW j \in T PROVE j + 1 \in T
    <2>1. CASE j + 1 <= n
      <3>1. j + 1 \in 1 .. n /\ j + 1 \in 1 .. m /\ (j + 1) - 1 = j /\ f[j] = g[j]
        BY <2>1
      <3>2. f[j + 1] = step[<<j + 1, f[(j + 1) - 1]>>]
        BY <3>1 DEF Follows
      <3>3. g[j + 1] = step[<<j + 1, g[(j + 1) - 1]>>]
        BY <3>1 DEF Follows
      <3> QED
        BY <3>1, <3>2, <3>3
    <2> QED
      BY <2>1
  <1> HIDE DEF T
  <1>3. T = Nat
    <2>1. T \in SUBSET Nat
      BY DEF T
    <2> QED
      BY <1>1, <1>2, <2>1, Induction
  <1> QED
    BY <1>3 DEF T

LEMMA FollowsForever ==
  ASSUME NEW S, NEW init \in S, NEW step \in [Nat \X S -> S]
  PROVE  \E f \in [Nat -> S] : \A n \in Nat : Follows(f, init, step, n)
  <1> DEFINE Part(n) == CHOOSE f \in [0 .. n -> S] : Follows(f, init, step, n)
  <1>1. \A n \in Nat : Part(n) \in [0 .. n -> S] /\ Follows(Part(n), init, step, n)
    BY FollowsOnce
  <1> HIDE DEF Part
  <1> DEFINE f == [n \in Nat |-> Part(n)[n]]
  <1>2. f \in [Nat -> S]
    BY <1>1
  <1>3. f[0] = init
    BY <1>1 DEF Follows
  <1>4. ASSUME NEW k \in Nat, k >= 1 PROVE f[k] = step[<<k, f[k - 1]>>]
    <2>1. /\ k - 1 \in Nat /\ k - 1 <= k /\ k - 1 \in 0 .. k - 1 /\ k \in 1 .. k
          /\ Follows(Part(k), init, step, k) /\ Follows(Part(k - 1), init, step, k - 1)
      BY <1>1, <1>4
    <2>2. Part(k - 1)[k - 1] = Part(k)[k - 1]
      BY <2>1, FollowsUnique
    <2>3. Part(k)[k] = step[<<k, Part(k)[k - 1]>>]
      BY <2>1 DEF Follows
    <2> QED
      BY <2>1, <2>2, <2>3
  <1> HIDE DEF f
  <1>5. \A n \in Nat : Follows(f, init, step, n)
    BY <1>3, <1>4 DEF Follows
  <1> QED
    BY <1>2, <1>5

-----------------------------------------------------------------------------
(* Numbers in bytes.                                                       *)

Byte == 0 .. Base - 1

LEMMA BaseFacts == Base \in Nat /\ Base >= 16
  BY CodecAssumption

LEMMA PowerFacts ==
  /\ Power[0] = 1
  /\ \A n \in Nat : Power[n] \in Nat /\ Power[n] >= 1 /\ Power[n + 1] = Base * Power[n]
  <1> DEFINE step == [p \in Nat \X Nat |-> Base * p[2]]
             Def(f) == f = [n \in Nat |-> IF n = 0 THEN 1 ELSE Base * f[n - 1]]
  <1>1. step \in [Nat \X Nat -> Nat]
    BY BaseFacts
  <1>2. PICK f \in [Nat -> Nat] : \A n \in Nat : Follows(f, 1, step, n)
    BY <1>1, FollowsForever
  <1>3. ASSUME NEW n \in Nat PROVE f[n] = IF n = 0 THEN 1 ELSE Base * f[n - 1]
    <2>1. CASE n = 0
      BY <1>2, <2>1 DEF Follows
    <2>2. CASE n # 0
      <3>1. n \in 1 .. n /\ n - 1 \in Nat /\ f[n - 1] \in Nat
        BY <2>2
      <3>2. f[n] = step[<<n, f[n - 1]>>]
        BY <1>2, <3>1 DEF Follows
      <3> QED
        BY <2>2, <3>1, <3>2
    <2> QED
      BY <2>1, <2>2
  <1>4. Def(f)
    BY <1>2, <1>3
  <1> HIDE DEF step
  <1>5. Def(Power)
    <2>1. Power = CHOOSE g : Def(g)
      BY DEF Power
    <2> HIDE DEF Def
    <2> QED
      BY <1>4, <2>1
  <1>6. Power[0] = 1 /\ \A n \in Nat : Power[n + 1] = Base * Power[n]
    <2>1. \A n \in Nat : Power[n] = IF n = 0 THEN 1 ELSE Base * Power[n - 1]
      BY <1>5
    <2> HIDE DEF Def
    <2>2. ASSUME NEW n \in Nat PROVE Power[n + 1] = Base * Power[n]
      <3>1. n + 1 \in Nat /\ n + 1 # 0 /\ (n + 1) - 1 = n
        OBVIOUS
      <3>2. Power[n + 1] = Base * Power[(n + 1) - 1]
        BY <2>1, <3>1
      <3> QED
        BY <3>1, <3>2
    <2> QED
      BY <2>1, <2>2
  <1> HIDE DEF Def
  <1> DEFINE T == {n \in Nat : Power[n] \in Nat /\ Power[n] >= 1}
  <1>7. 0 \in T /\ \A n \in T : n + 1 \in T
    BY <1>6, BaseFacts
  <1>8. T = Nat
    <2>1. T \in SUBSET Nat
      OBVIOUS
    <2> HIDE DEF T
    <2> QED
      BY <1>7, <2>1, Induction
  <1>9. \A n \in Nat : n \in T
    BY <1>8
  <1> QED
    BY <1>6, <1>9

LEMMA NextPower ==
  ASSUME NEW n \in Nat
  PROVE  Power[n] \in Nat /\ Power[n] >= 1 /\ Power[n + 1] = Base * Power[n]
  BY PowerFacts

LEMMA Product ==
  \A x, y \in Nat : x * y \in Nat
  OBVIOUS

LEMMA ByteFacts ==
  /\ \A x \in Byte : x \in Nat /\ x < Base
  /\ \A x \in Nat : x < Base => x \in Byte
  BY BaseFacts DEF Byte

LEMMA ElementFacts ==
  ASSUME NEW s \in Seq(Byte), NEW i \in 1 .. Len(s)
  PROVE  Len(s) \in Nat /\ s[i] \in Byte /\ s[i] \in Nat /\ s[i] < Base
  <1>1. Len(s) \in Nat /\ s[i] \in Byte
    OBVIOUS
  <1> QED
    BY <1>1, ByteFacts

\* The value of the first n bytes, for every n.
LEMMA GetFacts ==
  ASSUME NEW s \in Seq(Byte)
  PROVE  \E v \in [0 .. Len(s) -> Nat] :
           /\ v[0] = 0 /\ \A n \in 1 .. Len(s) : v[n] = v[n - 1] * Base + s[n]
           /\ Get(s) = v[Len(s)]
  <1> DEFINE digit == [n \in Nat |-> IF n \in 1 .. Len(s) THEN s[n] ELSE 0]
             step == [p \in Nat \X Nat |-> p[2] * Base + digit[p[1]]]
             Def(f) == f = [n \in 0 .. Len(s) |-> IF n = 0 THEN 0 ELSE f[n - 1] * Base + s[n]]
  <1>0. Len(s) \in Nat /\ digit \in [Nat -> Nat] /\ \A n \in 1 .. Len(s) : digit[n] = s[n]
    BY BaseFacts DEF Byte
  <1> HIDE DEF digit
  <1>1. step \in [Nat \X Nat -> Nat]
    <2>1. ASSUME NEW p \in Nat \X Nat PROVE p[2] * Base + digit[p[1]] \in Nat
      <3>1. p[2] \in Nat /\ digit[p[1]] \in Nat
        BY <1>0
      <3>2. p[2] * Base \in Nat
        BY <3>1, BaseFacts, Product
      <3> QED
        BY <3>1, <3>2
    <2> QED
      BY <2>1
  <1>2. PICK f \in [0 .. Len(s) -> Nat] : Follows(f, 0, step, Len(s))
    <2> HIDE DEF step
    <2> QED
      BY <1>0, <1>1, FollowsOnce
  <1>3. f[0] = 0
    BY <1>2 DEF Follows
  <1>4. ASSUME NEW n \in 1 .. Len(s) PROVE f[n] = f[n - 1] * Base + s[n]
    <2>0. n \in Nat /\ n - 1 \in 0 .. Len(s)
      BY <1>0
    <2>1. f[n - 1] \in Nat
      BY <2>0
    <2>2. f[n] = step[<<n, f[n - 1]>>]
      BY <1>2 DEF Follows
    <2> QED
      BY <1>0, <2>0, <2>1, <2>2
  <1>5. Def(f)
    <2>1. \A n \in 0 .. Len(s) : f[n] = IF n = 0 THEN 0 ELSE f[n - 1] * Base + s[n]
      BY <1>0, <1>3, <1>4
    <2> QED
      BY <2>1
  <1>6. PICK v : Def(v) /\ Get(s) = v[Len(s)]
    <2>1. Get(s) = (CHOOSE g : Def(g))[Len(s)]
      BY DEF Get
    <2> HIDE DEF Def
    <2> QED
      BY <1>5, <2>1
  <1>7. DOMAIN v = 0 .. Len(s) /\ v[0] = 0
    BY <1>0, <1>6
  <1>8. ASSUME NEW n \in 1 .. Len(s) PROVE v[n] = v[n - 1] * Base + s[n]
    <2>1. n \in 0 .. Len(s) /\ n # 0
      BY <1>0
    <2>2. v[n] = IF n = 0 THEN 0 ELSE v[n - 1] * Base + s[n]
      BY <1>6, <2>1
    <2> QED
      BY <2>1, <2>2
  <1>9. v = [n \in 0 .. Len(s) |-> v[n]]
    BY <1>6
  <1>10. Get(s) = v[Len(s)]
    BY <1>6
  <1> HIDE DEF Def, step
  <1> DEFINE T == {n \in Nat : n <= Len(s) => v[n] \in Nat}
  <1>11. 0 \in T
    BY <1>7
  <1>12. ASSUME NEW n \in T PROVE n + 1 \in T
    <2>1. CASE n + 1 <= Len(s)
      <3>1. n + 1 \in 1 .. Len(s) /\ (n + 1) - 1 = n /\ v[n] \in Nat
        BY <1>0, <2>1
      <3>2. v[n + 1] = v[(n + 1) - 1] * Base + s[n + 1]
        BY <1>8, <3>1
      <3>3. s[n + 1] \in Nat /\ v[n] * Base \in Nat
        BY <3>1, BaseFacts, Product, ElementFacts
      <3> QED
        BY <3>1, <3>2, <3>3
    <2> QED
      BY <2>1
  <1>13. T = Nat
    <2>1. T \in SUBSET Nat
      OBVIOUS
    <2> HIDE DEF T
    <2> QED
      BY <1>11, <1>12, <2>1, Induction
  <1>14. \A n \in 0 .. Len(s) : v[n] \in Nat
    <2>1. \A n \in Nat : n \in T
      BY <1>13
    <2> QED
      BY <1>0, <2>1
  <1>15. v \in [0 .. Len(s) -> Nat]
    BY <1>9, <1>14
  <1> QED
    BY <1>7, <1>8, <1>10, <1>15

\* A number of Len(s) bytes has one of Power[Len(s)] values.
LEMMA GetBound ==
  ASSUME NEW s \in Seq(Byte)
  PROVE  Get(s) \in Nat /\ Get(s) < Power[Len(s)]
  <1>1. PICK v \in [0 .. Len(s) -> Nat] :
           /\ v[0] = 0 /\ \A n \in 1 .. Len(s) : v[n] = v[n - 1] * Base + s[n]
           /\ Get(s) = v[Len(s)]
    BY GetFacts
  <1>2. Len(s) \in Nat
    OBVIOUS
  <1> DEFINE T == {n \in Nat : n <= Len(s) => v[n] < Power[n]}
  <1>3. 0 \in T
    BY <1>1, PowerFacts
  <1>4. ASSUME NEW n \in T PROVE n + 1 \in T
    <2>1. CASE n + 1 <= Len(s)
      <3>1. /\ n + 1 \in 1 .. Len(s) /\ (n + 1) - 1 = n /\ n \in 0 .. Len(s)
            /\ v[n] < Power[n] /\ v[n] \in Nat /\ s[n + 1] \in Byte
        BY <1>2, <2>1
      <3>2. v[n + 1] = v[(n + 1) - 1] * Base + s[n + 1]
        BY <1>1, <3>1
      <3>3. Power[n] \in Nat /\ Power[n + 1] = Base * Power[n]
        BY NextPower
      <3>4. \A x, y \in Nat : x < y => x * Base + Base <= Base * y
        BY BaseFacts
      <3>5. v[n] * Base + Base <= Base * Power[n]
        BY <3>1, <3>3, <3>4
      <3>6. s[n + 1] \in Nat /\ s[n + 1] < Base /\ v[n] * Base \in Nat /\ Base * Power[n] \in Nat
        BY <3>1, <3>3, BaseFacts, Product, ElementFacts
      <3>7. v[n] * Base + s[n + 1] < Base * Power[n]
        BY <3>5, <3>6, BaseFacts
      <3> QED
        BY <3>1, <3>2, <3>3, <3>7
    <2> QED
      BY <2>1
  <1>5. T = Nat
    <2>1. T \in SUBSET Nat
      OBVIOUS
    <2> HIDE DEF T
    <2> QED
      BY <1>3, <1>4, <2>1, Induction
  <1>6. Len(s) \in T
    BY <1>2, <1>5
  <1> QED
    BY <1>1, <1>2, <1>6

LEMMA Division ==
  ASSUME NEW x \in Nat, NEW p \in Nat, p >= 1
  PROVE  /\ x \div p \in Nat /\ (x \div p) % Base \in Byte
         /\ x \div (Base * p) = (x \div p) \div Base
         /\ (x \div Base) * Base + (x % Base) = x
  <1> DEFINE b == Base
  <1>1. b \in Nat /\ b >= 16
    BY BaseFacts
  <1> HIDE DEF b
  <1>2. x \div p \in Nat
    OBVIOUS
  <1>3. \A y \in Nat : y % b \in 0 .. b - 1
    BY <1>1
  <1>4. x \div (b * p) = (x \div p) \div b
    <2>1. x \div (p * b) = (x \div p) \div b
      BY <1>1
    <2>2. p * b = b * p
      BY <1>1
    <2> QED
      BY <2>1, <2>2
  <1>5. x % b = x - b * (x \div b)
    BY <1>1
  <1>6. x \div b \in Nat
    BY <1>1
  <1>7. b * (x \div b) = (x \div b) * b /\ (x \div b) * b \in Nat
    BY <1>1, <1>6
  <1>8. (x \div b) * b + (x % b) = x
    BY <1>5, <1>7
  <1> QED
    BY <1>2, <1>3, <1>4, <1>8 DEF b, Byte

LEMMA Digit ==
  ASSUME NEW q \in Nat, NEW r \in Byte
  PROVE  (q * Base + r) \div Base = q /\ (q * Base + r) % Base = r
  <1> DEFINE b == Base
  <1>1. b \in Nat /\ b >= 16 /\ r \in 0 .. b - 1
    BY BaseFacts DEF Byte
  <1> HIDE DEF b
  <1>2. (b * q + r) \div b = q /\ (b * q + r) % b = r
    BY <1>1
  <1>3. b * q = q * b
    BY <1>1
  <1> QED
    BY <1>2, <1>3 DEF b

LEMMA PutFacts ==
  ASSUME NEW n \in Nat, NEW w \in Nat
  PROVE  /\ Put(n, w) \in Seq(Byte) /\ Len(Put(n, w)) = w
         /\ \A i \in 1 .. w : Put(n, w)[i] = (n \div Power[w - i]) % Base
  <1>1. ASSUME NEW i \in 1 .. w PROVE (n \div Power[w - i]) % Base \in Byte
    <2>1. w - i \in Nat
      OBVIOUS
    <2>2. Power[w - i] \in Nat /\ Power[w - i] >= 1
      BY <2>1, NextPower
    <2> QED
      BY <2>2, Division
  <1>2. Put(n, w) \in [1 .. w -> Byte]
    BY <1>1 DEF Put
  <1>3. \A i \in 1 .. w : Put(n, w)[i] = (n \div Power[w - i]) % Base
    BY DEF Put
  <1>4. \A t \in [1 .. w -> Byte] : t \in Seq(Byte) /\ Len(t) = w
    OBVIOUS
  <1> QED
    BY <1>2, <1>3, <1>4

\* A number that fits in a field comes back from it.
LEMMA GetPut ==
  ASSUME NEW n \in Nat, NEW w \in Nat, n < Power[w]
  PROVE  Get(Put(n, w)) = n
  <1>0. PICK s : s = Put(n, w)
    OBVIOUS
  <1>1. s \in Seq(Byte) /\ Len(s) = w /\ \A i \in 1 .. w : s[i] = (n \div Power[w - i]) % Base
    BY <1>0, PutFacts
  <1>2. PICK v \in [0 .. Len(s) -> Nat] :
           /\ v[0] = 0 /\ \A k \in 1 .. Len(s) : v[k] = v[k - 1] * Base + s[k]
           /\ Get(s) = v[Len(s)]
    BY <1>1, GetFacts
  <1> DEFINE T == {k \in Nat : k <= w => v[k] = n \div Power[w - k]}
  <1>3. 0 \in T
    <2>1. Power[w] \in Nat /\ Power[w] >= 1 /\ w - 0 = w
      BY NextPower
    <2>2. \A p \in Nat : n < p => n \div p = 0
      OBVIOUS
    <2> QED
      BY <1>2, <2>1, <2>2
  <1>4. ASSUME NEW k \in T PROVE k + 1 \in T
    <2>1. CASE k + 1 <= w
      <3>1. /\ k \in Nat /\ w - (k + 1) \in Nat /\ (w - (k + 1)) + 1 = w - k /\ (k + 1) - 1 = k
            /\ k + 1 \in 1 .. w /\ v[k] = n \div Power[w - k]
        BY <2>1
      <3> DEFINE p == Power[w - (k + 1)]
                 m == n \div p
      <3>2. p \in Nat /\ p >= 1 /\ Power[w - k] = Base * p
        BY <3>1, NextPower
      <3>3. s[k + 1] = m % Base /\ v[k + 1] = v[(k + 1) - 1] * Base + s[k + 1]
        BY <1>1, <1>2, <3>1
      <3> HIDE DEF p
      <3>4. m \in Nat /\ n \div (Base * p) = m \div Base
        BY <3>2, Division
      <3>5. v[k] = m \div Base
        BY <3>1, <3>2, <3>4
      <3> HIDE DEF m
      <3>6. (m \div Base) * Base + (m % Base) = m
        BY <3>2, <3>4, Division
      <3>7. v[k + 1] = m
        BY <3>1, <3>3, <3>5, <3>6
      <3> QED
        BY <3>7, <3>1 DEF m, p
    <2> QED
      BY <2>1
  <1>5. T = Nat
    <2>1. T \in SUBSET Nat
      OBVIOUS
    <2> HIDE DEF T
    <2> QED
      BY <1>3, <1>4, <2>1, Induction
  <1>6. w \in T
    BY <1>5
  <1>7. v[w] = n \div Power[w - w] /\ w - w = 0
    BY <1>6
  <1>8. n \div 1 = n
    OBVIOUS
  <1> QED
    BY <1>0, <1>1, <1>2, <1>7, <1>8, PowerFacts

\* Bytes read as a number are what that number is written as.
LEMMA PutGet ==
  ASSUME NEW s \in Seq(Byte)
  PROVE  Put(Get(s), Len(s)) = s
  <1> DEFINE w == Len(s)
             n == Get(s)
             t == Put(n, w)
  <1>1. w \in Nat /\ n \in Nat
    BY GetBound
  <1>2. PICK v \in [0 .. w -> Nat] :
           /\ v[0] = 0 /\ \A k \in 1 .. w : v[k] = v[k - 1] * Base + s[k]
           /\ n = v[w]
    BY GetFacts
  <1>3. /\ t \in Seq(Byte) /\ Len(t) = w
        /\ \A i \in 1 .. w : t[i] = (n \div Power[w - i]) % Base
    BY <1>1, PutFacts
  <1>w. \A i \in 1 .. w : s[i] \in Byte
    OBVIOUS
  <1> HIDE DEF w, n, t
  <1> DEFINE T == {j \in Nat : j <= w => n \div Power[j] = v[w - j]}
  <1>4. 0 \in T
    <2>1. n \div 1 = n /\ w - 0 = w
      BY <1>1
    <2> QED
      BY <1>2, <2>1, PowerFacts
  <1>5. ASSUME NEW j \in T PROVE j + 1 \in T
    <2>1. CASE j + 1 <= w
      <3>1. /\ j \in Nat /\ w - j \in 1 .. w /\ (w - j) - 1 = w - (j + 1)
            /\ w - (j + 1) \in 0 .. w
            /\ n \div Power[j] = v[w - j]
        BY <1>1, <2>1
      <3>2. Power[j] \in Nat /\ Power[j] >= 1 /\ Power[j + 1] = Base * Power[j]
        BY <3>1, NextPower
      <3>3. n \div Power[j + 1] = v[w - j] \div Base
        <4>1. n \div (Base * Power[j]) = (n \div Power[j]) \div Base
          BY <1>1, <3>2, Division
        <4> QED
          BY <3>1, <3>2, <4>1
      <3>4. v[w - j] = v[w - (j + 1)] * Base + s[w - j]
        BY <1>2, <3>1
      <3>5. v[w - (j + 1)] \in Nat /\ s[w - j] \in Byte
        BY <1>2, <1>w, <3>1
      <3>6. v[w - j] \div Base = v[w - (j + 1)]
        BY <3>4, <3>5, Digit
      <3> QED
        BY <3>3, <3>6, <3>1
    <2> QED
      BY <2>1
  <1>6. T = Nat
    <2>1. T \in SUBSET Nat
      OBVIOUS
    <2> HIDE DEF T
    <2> QED
      BY <1>4, <1>5, <2>1, Induction
  <1>7. ASSUME NEW i \in 1 .. w PROVE t[i] = s[i]
    <2>0. w - i \in Nat /\ w - (w - i) = i /\ w - i <= w /\ i - 1 \in 0 .. w
      BY <1>1
    <2>1. w - i \in T
      BY <1>6, <2>0
    <2>2. n \div Power[w - i] = v[i]
      BY <2>0, <2>1
    <2>3. v[i] = v[i - 1] * Base + s[i] /\ v[i - 1] \in Nat /\ s[i] \in Byte
      BY <1>2, <1>w, <2>0
    <2>4. v[i] % Base = s[i]
      BY <2>3, Digit
    <2> QED
      BY <1>3, <2>2, <2>4
  <1>8. Len(s) = w
    BY DEF w
  <1>9. t = s
    BY <1>3, <1>7, <1>8
  <1> QED
    BY <1>9 DEF t, n, w

-----------------------------------------------------------------------------
(* Parts of byte strings.                                                  *)

LEMMA SameBytes ==
  ASSUME NEW S, NEW s \in Seq(S), NEW t \in Seq(S), Len(s) = Len(t),
         \A i \in 1 .. Len(s) : s[i] = t[i]
  PROVE  s = t
  OBVIOUS

LEMMA SliceFacts ==
  ASSUME NEW S, NEW s \in Seq(S), NEW a \in 0 .. Len(s), NEW b \in a .. Len(s)
  PROVE  /\ SubSeq(s, a + 1, b) \in Seq(S)
         /\ Len(SubSeq(s, a + 1, b)) = b - a
         /\ \A i \in 1 .. b - a : SubSeq(s, a + 1, b)[i] = s[a + i]
  OBVIOUS

LEMMA EmptySlice ==
  ASSUME NEW S, NEW s \in Seq(S), NEW a \in 0 .. Len(s)
  PROVE  SubSeq(s, a + 1, a) = <<>>
  OBVIOUS

LEMMA ConcatAssoc ==
  ASSUME NEW S, NEW u \in Seq(S), NEW v \in Seq(S), NEW w \in Seq(S)
  PROVE  /\ (u \o v) \o w = u \o (v \o w)
         /\ (u \o v) \o w \in Seq(S) /\ u \o v \in Seq(S) /\ v \o w \in Seq(S)
         /\ Len(u \o v) = Len(u) + Len(v) /\ Len(v \o w) = Len(v) + Len(w)
         /\ Len((u \o v) \o w) = Len(u) + Len(v) + Len(w)
  OBVIOUS

LEMMA ConcatEmpty ==
  ASSUME NEW S, NEW u \in Seq(S)
  PROVE  u \o <<>> = u /\ <<>> \o u = u /\ <<>> \in Seq(S) /\ Len(<<>>) = 0
  OBVIOUS

LEMMA Singleton ==
  ASSUME NEW S, NEW x \in S
  PROVE  <<x>> \in Seq(S) /\ Len(<<x>>) = 1 /\ <<x>>[1] = x
  OBVIOUS

\* The part of u \o v \o w that is v.
LEMMA MiddlePart ==
  ASSUME NEW S, NEW u \in Seq(S), NEW v \in Seq(S), NEW w \in Seq(S)
  PROVE  SubSeq((u \o v) \o w, Len(u) + 1, Len(u) + Len(v)) = v
  <1>1. PICK p : p = u \o v
    OBVIOUS
  <1>2. /\ p \in Seq(S) /\ Len(p) = Len(u) + Len(v)
        /\ \A i \in 1 .. Len(v) : p[Len(u) + i] = v[i]
    BY <1>1, ConcatFacts
  <1>3. PICK s : s = p \o w
    OBVIOUS
  <1>4. /\ s \in Seq(S) /\ Len(s) = Len(p) + Len(w)
        /\ \A i \in 1 .. Len(p) : s[i] = p[i]
    <2>1. p \in Seq(S)
      BY <1>2
    <2> QED
      BY <1>3, <2>1, ConcatFacts
  <1>5. Len(u) \in Nat /\ Len(v) \in Nat /\ Len(w) \in Nat
    OBVIOUS
  <1>6. Len(u) \in 0 .. Len(s) /\ Len(u) + Len(v) \in Len(u) .. Len(s)
    BY <1>2, <1>4, <1>5
  <1>7. PICK r : r = SubSeq(s, Len(u) + 1, Len(u) + Len(v))
    OBVIOUS
  <1>8. /\ r \in Seq(S) /\ Len(r) = Len(u) + Len(v) - Len(u)
        /\ \A i \in 1 .. Len(u) + Len(v) - Len(u) : r[i] = s[Len(u) + i]
    BY <1>4, <1>6, <1>7, SliceFacts
  <1>9. Len(r) = Len(v)
    BY <1>5, <1>8
  <1>10. ASSUME NEW i \in 1 .. Len(v) PROVE r[i] = v[i]
    <2>1. i \in 1 .. Len(u) + Len(v) - Len(u) /\ Len(u) + i \in 1 .. Len(p)
      BY <1>2, <1>5
    <2> QED
      BY <1>2, <1>4, <1>8, <2>1
  <1>11. r = v
    BY <1>8, <1>9, <1>10
  <1> QED
    BY <1>1, <1>3, <1>7, <1>11

LEMMA FirstPart ==
  ASSUME NEW S, NEW u \in Seq(S), NEW v \in Seq(S)
  PROVE  Take(u \o v, Len(u)) = u /\ Drop(u \o v, Len(u)) = v
  <1>1. /\ SubSeq((<<>> \o u) \o v, Len(<<>>) + 1, Len(<<>>) + Len(u)) = u
        /\ SubSeq((u \o v) \o <<>>, Len(u) + 1, Len(u) + Len(v)) = v
    BY MiddlePart, ConcatEmpty
  <1>2. <<>> \o u = u /\ (u \o v) \o <<>> = u \o v /\ Len(<<>>) = 0
    BY ConcatFacts, ConcatEmpty
  <1>3. Len(u \o v) = Len(u) + Len(v) /\ Len(u) \in Nat
    BY ConcatFacts
  <1>4. Len(<<>>) + 1 = 1 /\ Len(<<>>) + Len(u) = Len(u)
    BY <1>2, <1>3
  <1> QED
    BY <1>1, <1>2, <1>3, <1>4 DEF Take, Drop

\* A byte string cut in three.
LEMMA ThreeParts ==
  ASSUME NEW S, NEW s \in Seq(S), NEW a \in 0 .. Len(s), NEW b \in a .. Len(s)
  PROVE  (SubSeq(s, 1, a) \o SubSeq(s, a + 1, b)) \o SubSeq(s, b + 1, Len(s)) = s
  <1>1. Len(s) \in Nat /\ b \in 0 .. Len(s)
    OBVIOUS
  <1>2. PICK p : p = SubSeq(s, 1, b)
    OBVIOUS
  <1>3. p \in Seq(S) /\ Len(p) = b /\ \A i \in 1 .. b : p[i] = s[i]
    BY <1>1, <1>2, PartFacts
  <1>4. s = p \o SubSeq(s, b + 1, Len(s))
    BY <1>1, <1>2, SplitFacts
  <1>5. a \in 0 .. Len(p) /\ b \in a .. Len(p)
    BY <1>1, <1>3
  <1>6. p = SubSeq(p, 1, a) \o SubSeq(p, a + 1, Len(p))
    BY <1>3, <1>5, SplitFacts
  <1>7. SubSeq(p, 1, a) = SubSeq(s, 1, a)
    <2>1. /\ SubSeq(p, 1, a) \in Seq(S) /\ Len(SubSeq(p, 1, a)) = a
          /\ \A i \in 1 .. a : SubSeq(p, 1, a)[i] = p[i]
      BY <1>3, <1>5, PartFacts
    <2>2. /\ SubSeq(s, 1, a) \in Seq(S) /\ Len(SubSeq(s, 1, a)) = a
          /\ \A i \in 1 .. a : SubSeq(s, 1, a)[i] = s[i]
      BY PartFacts
    <2>3. \A i \in 1 .. a : i \in 1 .. b
      BY <1>1
    <2> QED
      BY <1>3, <2>1, <2>2, <2>3
  <1>8. SubSeq(p, a + 1, Len(p)) = SubSeq(s, a + 1, b)
    <2>1. PICK x, y : x = SubSeq(p, a + 1, b) /\ y = SubSeq(s, a + 1, b)
      OBVIOUS
    <2>2. x \in Seq(S) /\ Len(x) = b - a /\ \A i \in 1 .. b - a : x[i] = p[a + i]
      BY <1>3, <1>5, <2>1, SliceFacts
    <2>3. y \in Seq(S) /\ Len(y) = b - a /\ \A i \in 1 .. b - a : y[i] = s[a + i]
      BY <2>1, SliceFacts
    <2>4. \A i \in 1 .. b - a : a + i \in 1 .. b
      BY <1>1
    <2>5. \A i \in 1 .. b - a : x[i] = y[i]
      BY <1>3, <2>2, <2>3, <2>4
    <2>6. x = y
      BY <2>2, <2>3, <2>5, SameBytes
    <2> QED
      BY <1>3, <2>1, <2>6
  <1> QED
    BY <1>4, <1>6, <1>7, <1>8

LEMMA FirstByte ==
  ASSUME NEW S, NEW s \in Seq(S), Len(s) >= 1
  PROVE  SubSeq(s, 1, 1) = <<s[1]>> /\ s[1] \in S
  <1>1. s[1] \in S /\ 1 \in 0 .. Len(s)
    OBVIOUS
  <1>2. PICK r : r = SubSeq(s, 1, 1)
    OBVIOUS
  <1>3. r \in Seq(S) /\ Len(r) = 1 /\ r[1] = s[1]
    BY <1>1, <1>2, PartFacts
  <1>4. PICK t : t = <<s[1]>>
    OBVIOUS
  <1>5. t \in Seq(S) /\ Len(t) = 1 /\ t[1] = s[1]
    BY <1>1, <1>4, Singleton
  <1>6. \A i \in 1 .. 1 : r[i] = t[i]
    BY <1>3, <1>5
  <1>7. r = t
    BY <1>3, <1>5, <1>6, SameBytes
  <1> QED
    BY <1>1, <1>2, <1>4, <1>7

-----------------------------------------------------------------------------
(* The same of strings of bytes.                                           *)

Strings == Seq(Byte)

LEMMA Lengths == \A u \in Strings : Len(u) \in Nat
  BY DEF Strings

LEMMA Join == \A u, v \in Strings : u \o v \in Strings /\ Len(u \o v) = Len(u) + Len(v)
  BY DEF Strings

LEMMA JoinAssoc == \A u, v, w \in Strings : (u \o v) \o w = u \o (v \o w)
  BY ConcatAssoc DEF Strings

LEMMA JoinEmpty == <<>> \in Strings /\ \A u \in Strings : u \o <<>> = u /\ <<>> \o u = u
  BY DEF Strings

LEMMA Ends ==
  \A u, v \in Strings : Take(u \o v, Len(u)) = u /\ Drop(u \o v, Len(u)) = v
  BY FirstPart DEF Strings

LEMMA Middle ==
  \A u, v, w \in Strings : SubSeq((u \o v) \o w, Len(u) + 1, Len(u) + Len(v)) = v
  BY MiddlePart DEF Strings

LEMMA Slices ==
  ASSUME NEW s \in Strings, NEW a \in Nat, NEW b \in Nat, a <= b, b <= Len(s)
  PROVE  /\ SubSeq(s, a + 1, b) \in Strings /\ Len(SubSeq(s, a + 1, b)) = b - a
         /\ Take(s, a) \in Strings /\ Len(Take(s, a)) = a
         /\ Drop(s, b) \in Strings /\ Len(Drop(s, b)) = Len(s) - b
         /\ (Take(s, a) \o SubSeq(s, a + 1, b)) \o Drop(s, b) = s
         /\ Take(s, a) \o Drop(s, a) = s
  <1>1. s \in Seq(Byte) /\ Len(s) \in Nat
    BY DEF Strings
  <1>2. a \in 0 .. Len(s) /\ b \in a .. Len(s) /\ b \in 0 .. Len(s) /\ Len(s) \in b .. Len(s)
    BY <1>1
  <1>3. SubSeq(s, a + 1, b) \in Seq(Byte) /\ Len(SubSeq(s, a + 1, b)) = b - a
    BY <1>1, <1>2, SliceFacts
  <1>4. SubSeq(s, 1, a) \in Seq(Byte) /\ Len(SubSeq(s, 1, a)) = a
    BY <1>1, <1>2, PartFacts
  <1>5. SubSeq(s, b + 1, Len(s)) \in Seq(Byte) /\ Len(SubSeq(s, b + 1, Len(s))) = Len(s) - b
    BY <1>1, <1>2, SliceFacts
  <1>6. (SubSeq(s, 1, a) \o SubSeq(s, a + 1, b)) \o SubSeq(s, b + 1, Len(s)) = s
    BY <1>1, <1>2, ThreeParts
  <1>7. SubSeq(s, 1, a) \o SubSeq(s, a + 1, Len(s)) = s
    BY <1>1, <1>2, SplitFacts
  <1> QED
    BY <1>3, <1>4, <1>5, <1>6, <1>7 DEF Strings, Take, Drop

LEMMA OneByte ==
  ASSUME NEW b \in Byte, NEW s \in Strings
  PROVE  <<b>> \in Strings /\ Len(<<b>>) = 1 /\ (<<b>> \o s)[1] = b
  BY DEF Strings

LEMMA HeadByte ==
  ASSUME NEW s \in Strings, Len(s) >= 1
  PROVE  s[1] \in Byte /\ <<s[1]>> \in Strings /\ Len(<<s[1]>>) = 1 /\ Take(s, 1) = <<s[1]>>
  BY FirstByte, Singleton DEF Strings, Take

LEMMA GetString ==
  ASSUME NEW s \in Strings
  PROVE  Get(s) \in Nat /\ Get(s) < Power[Len(s)] /\ Put(Get(s), Len(s)) = s
  BY GetBound, PutGet DEF Strings

LEMMA PutString ==
  ASSUME NEW n \in Nat, NEW w \in Nat
  PROVE  /\ Put(n, w) \in Strings /\ Len(Put(n, w)) = w
         /\ n < Power[w] => Get(Put(n, w)) = n
  BY PutFacts, GetPut DEF Strings

-----------------------------------------------------------------------------
(* Frames.                                                                 *)

LEMMA Widths ==
  /\ U16 \in Nat /\ U16 >= 1 /\ U32 \in Nat /\ U32 >= 1 /\ U64 \in Nat /\ U64 >= 1
  /\ MAX_FRAME_SIZE \in Nat /\ MAX_FRAME_SIZE >= 1 + U64 /\ MAX_FRAME_SIZE < Power[U32]
  <1>1. U16 \in Nat /\ U16 >= 1 /\ U32 \in Nat /\ U32 >= 1 /\ U64 \in Nat /\ U64 >= 1
    BY CodecAssumption
  <1>2. Power[U32] \in Nat
    BY <1>1, NextPower
  <1>3. MAX_FRAME_SIZE \in 1 + U64 .. Power[U32] - 1
    BY CodecAssumption
  <1> QED
    BY <1>1, <1>2, <1>3

LEMMA TypeBytes ==
  /\ \A t \in FrameTypes : t \in Byte
  /\ FrameTypes = 1 .. 10
  BY BaseFacts DEF FrameTypes, HELLO, DELIVER, Byte

\* The frames a peer may send: their id and their length fit the fields.
Sendable ==
  {f \in [msg_type : FrameTypes, correlation_id : Nat, payload : Strings] :
     f.correlation_id < Power[U64] /\ 1 + U64 + Len(f.payload) <= MAX_FRAME_SIZE}

LEMMA BodyFacts ==
  ASSUME NEW b \in Byte, NEW id \in Strings, Len(id) = U64, NEW payload \in Strings
  PROVE  /\ <<b>> \o id \o payload \in Strings
         /\ Len(<<b>> \o id \o payload) = 1 + U64 + Len(payload)
         /\ (<<b>> \o id \o payload)[1] = b
         /\ SubSeq(<<b>> \o id \o payload, 2, 1 + U64) = id
         /\ Drop(<<b>> \o id \o payload, 1 + U64) = payload
  <1>1. PICK u : u = <<b>>
    OBVIOUS
  <1>2. u \in Strings /\ Len(u) = 1
    BY <1>1, OneByte
  <1>3. PICK p : p = u \o id
    OBVIOUS
  <1>4. p \in Strings /\ Len(p) = 1 + U64
    BY <1>2, <1>3, Join
  <1>5. p \o payload \in Strings /\ Len(p \o payload) = 1 + U64 + Len(payload)
    BY <1>4, Join
  <1>6. SubSeq(p \o payload, Len(u) + 1, Len(u) + Len(id)) = id
    BY <1>2, <1>3, Middle
  <1>7. SubSeq(p \o payload, 2, 1 + U64) = id
    <2>1. Len(u) + 1 = 2
      BY <1>2
    <2> QED
      BY <1>2, <1>6, <2>1
  <1>8. Drop(p \o payload, 1 + U64) = payload
    BY <1>4, Ends
  <1>9. (p \o payload)[1] = b
    <2>1. p \o payload = u \o (id \o payload) /\ id \o payload \in Strings
      BY <1>2, <1>3, Join, JoinAssoc
    <2> QED
      BY <1>1, <2>1, OneByte
  <1> QED
    BY <1>1, <1>3, <1>5, <1>7, <1>8, <1>9

\* What the encoder makes of such a frame.
LEMMA EncodedFrame ==
  ASSUME NEW f \in Sendable
  PROVE  \E body \in Strings :
           /\ encode_frame(f) = Some(Put(Len(body), U32) \o body)
           /\ encode_frame(f)[1] = Put(Len(body), U32) \o body
           /\ encode_frame(f)[1] \in Strings
           /\ Len(body) = 1 + U64 + Len(f.payload)
           /\ body[1] = f.msg_type /\ body[1] \in FrameTypes
           /\ Get(SubSeq(body, 2, 1 + U64)) = f.correlation_id
           /\ Drop(body, 1 + U64) = f.payload
  <1>1. /\ f.msg_type \in FrameTypes /\ f.correlation_id \in Nat /\ f.payload \in Strings
        /\ f.correlation_id < Power[U64] /\ 1 + U64 + Len(f.payload) <= MAX_FRAME_SIZE
    BY DEF Sendable
  <1>2. f.msg_type \in Byte
    BY <1>1, TypeBytes
  <1>3. PICK id : id = Put(f.correlation_id, U64)
    OBVIOUS
  <1>4. id \in Strings /\ Len(id) = U64 /\ Get(id) = f.correlation_id
    BY <1>1, <1>3, PutString, Widths
  <1>5. PICK body : body = <<f.msg_type>> \o id \o f.payload
    OBVIOUS
  <1>6. /\ body \in Strings /\ Len(body) = 1 + U64 + Len(f.payload) /\ body[1] = f.msg_type
        /\ SubSeq(body, 2, 1 + U64) = id /\ Drop(body, 1 + U64) = f.payload
    <2>1. PICK t, q : t = f.msg_type /\ q = f.payload
      OBVIOUS
    <2>2. t \in Byte /\ q \in Strings /\ body = <<t>> \o id \o q
      BY <1>1, <1>2, <1>5, <2>1
    <2>3. /\ body \in Strings /\ Len(body) = 1 + U64 + Len(q) /\ body[1] = t
          /\ SubSeq(body, 2, 1 + U64) = id /\ Drop(body, 1 + U64) = q
      BY <1>4, <2>2, BodyFacts
    <2> QED
      BY <2>1, <2>3
  <1>7. ~(Len(body) > MAX_FRAME_SIZE) /\ Len(body) \in Nat
    <2>1. Len(body) \in Nat
      BY <1>6, Lengths
    <2>2. Len(body) <= MAX_FRAME_SIZE
      BY <1>1, <1>6
    <2> QED
      BY <2>1, <2>2, Widths
  <1>8. encode_frame(f) = Some(Put(Len(body), U32) \o body)
    BY <1>3, <1>5, <1>7 DEF encode_frame, Framed
  <1>9. Put(Len(body), U32) \in Strings
    BY <1>7, PutString, Widths
  <1>10. Put(Len(body), U32) \o body \in Strings
    BY <1>6, <1>9, Join
  <1>11. encode_frame(f)[1] = Put(Len(body), U32) \o body
    BY <1>8 DEF Some
  <1> QED
    BY <1>1, <1>4, <1>6, <1>8, <1>10, <1>11

\* A record is its fields.
LEMMA FrameFields ==
  ASSUME NEW f \in Sendable
  PROVE  f = Frame(f.msg_type, f.correlation_id, f.payload)
  BY DEF Sendable, Frame

\* What is behind an encoded frame does not matter to its decoder.
LEMMA DecodeEncoded ==
  ASSUME NEW f \in Sendable, NEW rest \in Strings
  PROVE  try_decode_frame(encode_frame(f)[1] \o rest) = Result(Some(f), rest)
  <1>1. PICK body \in Strings :
           /\ encode_frame(f)[1] = Put(Len(body), U32) \o body
           /\ Len(body) = 1 + U64 + Len(f.payload)
           /\ body[1] = f.msg_type /\ body[1] \in FrameTypes
           /\ Get(SubSeq(body, 2, 1 + U64)) = f.correlation_id
           /\ Drop(body, 1 + U64) = f.payload
    BY EncodedFrame
  <1>2. /\ Len(body) \in Nat /\ Len(body) >= 1 + U64 /\ Len(body) <= MAX_FRAME_SIZE
        /\ Len(rest) \in Nat
    <2>1. f.payload \in Strings /\ 1 + U64 + Len(f.payload) <= MAX_FRAME_SIZE
      BY DEF Sendable
    <2>2. Len(f.payload) \in Nat /\ Len(rest) \in Nat
      BY <2>1, Lengths
    <2> QED
      BY <1>1, <2>1, <2>2, Widths
  <1>3. PICK len : len = Put(Len(body), U32)
    OBVIOUS
  <1>4. len \in Strings /\ Len(len) = U32
    BY <1>2, <1>3, PutString, Widths
  <1>5. Get(len) = Len(body)
    <2>1. Len(body) < Power[U32] /\ U32 \in Nat
      <3>1. Power[U32] \in Nat
        BY Widths, NextPower
      <3> QED
        BY <1>2, <3>1, Widths
    <2> QED
      BY <1>2, <1>3, <2>1, PutString
  <1>6. PICK src : src = (len \o body) \o rest
    OBVIOUS
  <1>7. /\ src = len \o (body \o rest) /\ body \o rest \in Strings /\ len \o body \in Strings
        /\ Len(len \o body) = U32 + Len(body)
        /\ Len(src) = U32 + Len(body) + Len(rest)
    <2>1. len \o body \in Strings /\ Len(len \o body) = U32 + Len(body) /\ body \o rest \in Strings
      BY <1>4, Join
    <2>2. Len(src) = U32 + Len(body) + Len(rest)
      BY <1>6, <2>1, Join
    <2> QED
      BY <1>4, <1>6, <2>1, <2>2, JoinAssoc
  <1>8. Take(src, U32) = len
    BY <1>4, <1>7, Ends
  <1>9. SubSeq(src, U32 + 1, U32 + Len(body)) = body
    BY <1>4, <1>6, Middle
  <1>10. Drop(src, U32 + Len(body)) = rest
    BY <1>6, <1>7, Ends
  <1>11. ~(Len(src) < U32) /\ ~(Len(src) < U32 + Len(body))
    BY <1>2, <1>7, Widths
  <1>12. Frame(body[1], Get(SubSeq(body, 2, 1 + U64)), Drop(body, 1 + U64)) = f
    BY <1>1, FrameFields
  <1>13. ~(Len(body) > MAX_FRAME_SIZE) /\ ~(Len(body) < 1 + U64)
    BY <1>2, Widths
  <1>14. try_decode_frame(src) = Result(Some(f), rest)
    BY <1>1, <1>5, <1>8, <1>9, <1>10, <1>11, <1>12, <1>13 DEF try_decode_frame
  <1> QED
    BY <1>1, <1>3, <1>6, <1>14

\* What the decoder takes from the front of its bytes is a frame in the form
\* the encoder writes it; it waits only while a frame is not all there.
LEMMA HeaderParts ==
  ASSUME NEW body \in Strings, 1 + U64 <= Len(body)
  PROVE  /\ SubSeq(body, 2, 1 + U64) \in Strings /\ Len(SubSeq(body, 2, 1 + U64)) = U64
         /\ Drop(body, 1 + U64) \in Strings /\ Len(Drop(body, 1 + U64)) = Len(body) - (1 + U64)
         /\ (Take(body, 1) \o SubSeq(body, 2, 1 + U64)) \o Drop(body, 1 + U64) = body
  <1>1. PICK one, n : one = 1 /\ n = 1 + U64
    OBVIOUS
  <1>2. one \in Nat /\ n \in Nat /\ one <= n /\ n <= Len(body)
    BY <1>1, Widths
  <1>3. /\ SubSeq(body, one + 1, n) \in Strings /\ Len(SubSeq(body, one + 1, n)) = n - one
        /\ Drop(body, n) \in Strings /\ Len(Drop(body, n)) = Len(body) - n
        /\ (Take(body, one) \o SubSeq(body, one + 1, n)) \o Drop(body, n) = body
    BY <1>2, Slices
  <1>4. one + 1 = 2 /\ n - one = U64
    BY <1>1, Widths
  <1> QED
    BY <1>1, <1>3, <1>4

LEMMA DecodeStep ==
  ASSUME NEW src \in Strings, try_decode_frame(src) # None
  PROVE  \/ /\ try_decode_frame(src) = Result(None, src)
            /\ Len(src) >= U32 => Len(src) < U32 + Get(Take(src, U32))
         \/ \E f \in Sendable, rest \in Strings :
              /\ try_decode_frame(src) = Result(Some(f), rest)
              /\ encode_frame(f)[1] \o rest = src
  <1> DEFINE frame_len == Get(Take(src, U32))
             body == SubSeq(src, U32 + 1, U32 + frame_len)
             rest == Drop(src, U32 + frame_len)
             id == SubSeq(body, 2, 1 + U64)
             f == Frame(body[1], Get(id), Drop(body, 1 + U64))
  <1>0. Len(src) \in Nat
    BY Lengths
  <1>1. CASE Len(src) < U32
    <2>1. try_decode_frame(src) = Result(None, src)
      BY <1>1 DEF try_decode_frame
    <2> QED
      BY <1>0, <1>1, <2>1, Widths
  <1>2. CASE ~(Len(src) < U32) /\ Len(src) < U32 + frame_len
    <2>1. ~(frame_len > MAX_FRAME_SIZE \/ frame_len < 1 + U64)
      BY <1>2 DEF try_decode_frame
    <2>2. try_decode_frame(src) = Result(None, src)
      BY <1>2, <2>1 DEF try_decode_frame
    <2> QED
      BY <1>2, <2>2
  <1>3. CASE ~(Len(src) < U32) /\ ~(Len(src) < U32 + frame_len)
    <2>1. ~(frame_len > MAX_FRAME_SIZE \/ frame_len < 1 + U64)
      BY <1>3 DEF try_decode_frame
    <2>2. body[1] \in FrameTypes
      BY <1>3, <2>1 DEF try_decode_frame
    <2>3. try_decode_frame(src) = Result(Some(f), rest)
      BY <1>3, <2>1, <2>2 DEF try_decode_frame
    <2>4. Len(Take(src, U32)) = U32 /\ Take(src, U32) \in Strings
      BY <1>0, <1>3, Slices, Widths
    <2>5. frame_len \in Nat /\ Put(frame_len, U32) = Take(src, U32)
      BY <2>4, GetString
    <2> HIDE DEF frame_len
    <2>6. /\ U32 + frame_len \in Nat /\ U32 <= U32 + frame_len /\ U32 + frame_len <= Len(src)
          /\ frame_len >= 1 + U64 /\ frame_len <= MAX_FRAME_SIZE
          /\ (U32 + frame_len) - U32 = frame_len
      BY <1>0, <1>3, <2>1, <2>5, Widths
    <2>7. /\ body \in Strings /\ Len(body) = (U32 + frame_len) - U32
          /\ rest \in Strings
          /\ (Take(src, U32) \o body) \o rest = src
      BY <2>6, Slices, Widths
    <2>8. Len(body) = frame_len
      BY <2>6, <2>7
    <2> HIDE DEF body, rest
    <2>9. /\ 1 \in Nat /\ 1 + U64 \in Nat /\ 1 <= 1 + U64 /\ 1 + U64 <= Len(body) /\ Len(body) >= 1
          /\ (1 + U64) - 1 = U64 /\ 1 + 1 = 2
      BY <2>6, <2>8, Widths
    <2>10. /\ id \in Strings /\ Len(id) = U64
           /\ Drop(body, 1 + U64) \in Strings /\ Len(Drop(body, 1 + U64)) = Len(body) - (1 + U64)
           /\ (Take(body, 1) \o id) \o Drop(body, 1 + U64) = body
      BY <2>7, <2>9, HeaderParts
    <2>11. Take(body, 1) = <<body[1]>>
      BY <2>7, <2>9, HeadByte
    <2> HIDE DEF id
    <2>12. Get(id) \in Nat /\ Get(id) < Power[U64] /\ Put(Get(id), U64) = id
      BY <2>10, GetString
    <2>13. f \in Sendable
      <3>1. f \in [msg_type : FrameTypes, correlation_id : Nat, payload : Strings]
        BY <2>2, <2>10, <2>12 DEF Frame
      <3>2. f.correlation_id = Get(id) /\ f.payload = Drop(body, 1 + U64)
        BY DEF Frame
      <3>3. 1 + U64 + (Len(body) - (1 + U64)) <= MAX_FRAME_SIZE
        BY <2>6, <2>8, Widths
      <3> HIDE DEF f
      <3> QED
        BY <2>10, <2>12, <3>1, <3>2, <3>3 DEF Sendable
    <2>14. f.msg_type = body[1] /\ f.correlation_id = Get(id) /\ f.payload = Drop(body, 1 + U64)
      BY DEF Frame
    <2> HIDE DEF f
    <2>15. encode_frame(f) = Framed(body)
      BY <2>10, <2>11, <2>12, <2>14 DEF encode_frame
    <2>16. Framed(body) = Some(Put(frame_len, U32) \o body)
      BY <2>6, <2>8, Widths DEF Framed
    <2>17. encode_frame(f)[1] = Take(src, U32) \o body
      BY <2>5, <2>15, <2>16 DEF Some
    <2>18. encode_frame(f)[1] \o rest = src
      BY <2>7, <2>17
    <2> QED
      BY <2>3, <2>7, <2>13, <2>18
  <1> QED
    BY <1>1, <1>2, <1>3

-----------------------------------------------------------------------------
(* The bytes of some frames.                                               *)

LEMMA SendableBytes ==
  ASSUME NEW f \in Sendable
  PROVE  encode_frame(f)[1] \in Strings
  BY EncodedFrame

\* The bytes of the first n frames, for every n.
LEMMA JoinedFacts ==
  ASSUME NEW fs \in Seq(Sendable)
  PROVE  \E b : /\ b[0] = <<>> /\ \A n \in 1 .. Len(fs) : b[n] = b[n - 1] \o encode_frame(fs[n])[1]
                /\ \A n \in 0 .. Len(fs) : b[n] \in Strings
                /\ Joined(fs) = b[Len(fs)]
  <1> DEFINE bytes == [n \in Nat |-> IF n \in 1 .. Len(fs) THEN encode_frame(fs[n])[1] ELSE <<>>]
             step == [p \in Nat \X Strings |-> p[2] \o bytes[p[1]]]
             Def(b) == b = [n \in 0 .. Len(fs) |->
                              IF n = 0 THEN <<>> ELSE b[n - 1] \o encode_frame(fs[n])[1]]
  <1>0. Len(fs) \in Nat
    OBVIOUS
  <1>1. ASSUME NEW n \in Nat
        PROVE  bytes[n] \in Strings /\ (n \in 1 .. Len(fs) => bytes[n] = encode_frame(fs[n])[1])
    <2>1. CASE n \in 1 .. Len(fs)
      <3>1. fs[n] \in Sendable
        BY <2>1
      <3> QED
        BY <2>1, <3>1, SendableBytes
    <2>2. CASE n \notin 1 .. Len(fs)
      BY <2>2, JoinEmpty
    <2> QED
      BY <2>1, <2>2
  <1> HIDE DEF bytes
  <1>2. step \in [Nat \X Strings -> Strings]
    <2>1. ASSUME NEW p \in Nat \X Strings PROVE p[2] \o bytes[p[1]] \in Strings
      <3>1. p[2] \in Strings /\ p[1] \in Nat
        OBVIOUS
      <3> QED
        BY <1>1, <3>1, Join
    <2> QED
      BY <2>1
  <1>3. PICK b \in [0 .. Len(fs) -> Strings] : Follows(b, <<>>, step, Len(fs))
    <2> HIDE DEF step
    <2> QED
      BY <1>0, <1>2, FollowsOnce, JoinEmpty
  <1>4. b[0] = <<>>
    BY <1>3 DEF Follows
  <1>5. ASSUME NEW n \in 1 .. Len(fs) PROVE b[n] = b[n - 1] \o encode_frame(fs[n])[1]
    <2>1. n \in Nat /\ n - 1 \in 0 .. Len(fs)
      BY <1>0
    <2>2. b[n - 1] \in Strings
      BY <2>1
    <2>3. b[n] = step[<<n, b[n - 1]>>]
      BY <1>3 DEF Follows
    <2>4. step[<<n, b[n - 1]>>] = b[n - 1] \o bytes[n]
      BY <2>1, <2>2
    <2> QED
      BY <1>1, <2>1, <2>3, <2>4
  <1> HIDE DEF step
  <1>6. Def(b)
    <2>1. \A n \in 0 .. Len(fs) :
             b[n] = IF n = 0 THEN <<>> ELSE b[n - 1] \o encode_frame(fs[n])[1]
      BY <1>0, <1>4, <1>5
    <2> QED
      BY <2>1
  <1>7. PICK c : Def(c) /\ Joined(fs) = c[Len(fs)]
    <2>1. Joined(fs) = (CHOOSE c : Def(c))[Len(fs)]
      BY DEF Joined
    <2> HIDE DEF Def
    <2> QED
      BY <1>6, <2>1
  <1>8. c[0] = <<>>
    BY <1>0, <1>7
  <1>9. ASSUME NEW n \in 1 .. Len(fs) PROVE c[n] = c[n - 1] \o encode_frame(fs[n])[1]
    <2>1. n \in 0 .. Len(fs) /\ n # 0
      BY <1>0
    <2>2. c[n] = IF n = 0 THEN <<>> ELSE c[n - 1] \o encode_frame(fs[n])[1]
      BY <1>7, <2>1
    <2> QED
      BY <2>1, <2>2
  <1>10. Joined(fs) = c[Len(fs)]
    BY <1>7
  <1> HIDE DEF Def
  <1> DEFINE T == {n \in Nat : n <= Len(fs) => c[n] \in Strings}
  <1>11. 0 \in T
    BY <1>8, JoinEmpty
  <1>12. ASSUME NEW n \in T PROVE n + 1 \in T
    <2>1. CASE n + 1 <= Len(fs)
      <3>1. n + 1 \in 1 .. Len(fs) /\ (n + 1) - 1 = n /\ c[n] \in Strings
        BY <1>0, <2>1
      <3>2. c[n + 1] = c[(n + 1) - 1] \o encode_frame(fs[n + 1])[1]
        BY <1>9, <3>1
      <3>3. fs[n + 1] \in Sendable
        BY <3>1
      <3>4. c[n + 1] \in Strings
        BY <3>1, <3>2, <3>3, SendableBytes, Join
      <3> QED
        BY <3>4
    <2> QED
      BY <2>1
  <1>13. T = Nat
    <2>1. T \in SUBSET Nat
      OBVIOUS
    <2> HIDE DEF T
    <2> QED
      BY <1>11, <1>12, <2>1, Induction
  <1>14. \A n \in 0 .. Len(fs) : c[n] \in Strings
    <2>1. \A n \in Nat : n \in T
      BY <1>13
    <2> QED
      BY <1>0, <2>1
  <1> QED
    BY <1>8, <1>9, <1>10, <1>14

LEMMA JoinedNone == Joined(<<>>) = <<>>
  <1>1. <<>> \in Seq(Sendable) /\ Len(<<>>) = 0
    OBVIOUS
  <1> QED
    BY <1>1, JoinedFacts

LEMMA JoinedMore ==
  ASSUME NEW fs \in Seq(Sendable), NEW f \in Sendable
  PROVE  Joined(Append(fs, f)) = Joined(fs) \o encode_frame(f)[1]
  <1>1. PICK gs : gs = Append(fs, f)
    OBVIOUS
  <1>2. /\ gs \in Seq(Sendable) /\ Len(gs) = Len(fs) + 1 /\ gs[Len(fs) + 1] = f
        /\ Len(fs) \in Nat
        /\ \A i \in 1 .. Len(fs) : gs[i] = fs[i]
    BY <1>1, AppendFacts
  <1>3. PICK b : /\ b[0] = <<>>
                 /\ \A n \in 1 .. Len(fs) : b[n] = b[n - 1] \o encode_frame(fs[n])[1]
                 /\ Joined(fs) = b[Len(fs)]
    BY JoinedFacts
  <1>4. PICK c : /\ c[0] = <<>>
                 /\ \A n \in 1 .. Len(gs) : c[n] = c[n - 1] \o encode_frame(gs[n])[1]
                 /\ Joined(gs) = c[Len(gs)]
    BY <1>2, JoinedFacts
  <1> DEFINE T == {n \in Nat : n <= Len(fs) => b[n] = c[n]}
  <1>5. 0 \in T
    BY <1>3, <1>4
  <1>6. ASSUME NEW n \in T PROVE n + 1 \in T
    <2>1. CASE n + 1 <= Len(fs)
      <3>1. /\ n + 1 \in 1 .. Len(fs) /\ n + 1 \in 1 .. Len(gs) /\ (n + 1) - 1 = n
            /\ b[n] = c[n]
        BY <1>2, <2>1
      <3>2. b[n + 1] = b[(n + 1) - 1] \o encode_frame(fs[n + 1])[1]
        BY <1>3, <3>1
      <3>3. c[n + 1] = c[(n + 1) - 1] \o encode_frame(gs[n + 1])[1]
        BY <1>4, <3>1
      <3>4. gs[n + 1] = fs[n + 1]
        BY <1>2, <3>1
      <3>5. b[n + 1] = c[n + 1]
        BY <3>1, <3>2, <3>3, <3>4
      <3> QED
        BY <3>5
    <2> QED
      BY <2>1
  <1>7. T = Nat
    <2>1. T \in SUBSET Nat
      OBVIOUS
    <2> HIDE DEF T
    <2> QED
      BY <1>5, <1>6, <2>1, Induction
  <1>8. Len(fs) \in T
    BY <1>2, <1>7
  <1>9. b[Len(fs)] = c[Len(fs)]
    BY <1>2, <1>8
  <1>10. Len(fs) + 1 \in 1 .. Len(gs) /\ (Len(fs) + 1) - 1 = Len(fs)
    BY <1>2
  <1>11. c[Len(fs) + 1] = c[(Len(fs) + 1) - 1] \o encode_frame(gs[Len(fs) + 1])[1]
    BY <1>4, <1>10
  <1> QED
    BY <1>1, <1>2, <1>3, <1>4, <1>9, <1>10, <1>11

-----------------------------------------------------------------------------
(* The reader.                                                             *)

\* Every frame taken out is one a peer may send.
Types ==
  /\ input \in Strings /\ network \in Strings /\ read_buf \in Strings
  /\ frames \in Seq(Sendable)

CodecInv == Types /\ Reassembly

LEMMA JoinedStrings ==
  ASSUME NEW fs \in Seq(Sendable)
  PROVE  Joined(fs) \in Strings
  <1>1. Len(fs) \in 0 .. Len(fs)
    OBVIOUS
  <1> QED
    BY <1>1, JoinedFacts

LEMMA RegroupLeft ==
  ASSUME NEW a \in Strings, NEW b \in Strings, NEW c \in Strings, NEW d \in Strings
  PROVE  ((a \o b) \o c) \o d = (a \o (b \o c)) \o d
  BY JoinAssoc

LEMMA CodecInit == Init => CodecInv
  <1> SUFFICES ASSUME Init PROVE CodecInv
    OBVIOUS
  <1>1. input \in Strings /\ network = input /\ read_buf = <<>> /\ frames = <<>>
    BY CodecAssumption DEF Init, Strings, Byte
  <1>2. Types
    BY <1>1, JoinEmpty DEF Types
  <1>3. Joined(frames) \o read_buf \o network = input
    BY <1>1, JoinedNone, JoinEmpty
  <1>4. Len(read_buf) < U32
    <2>1. Len(read_buf) = 0
      BY <1>1
    <2> QED
      BY <2>1, Widths
  <1>5. Len(read_buf) \in Nat
    BY <1>1
  <1> QED
    BY <1>2, <1>3, <1>4, <1>5, Widths DEF CodecInv, Reassembly

LEMMA ReadStep ==
  ASSUME CodecInv, read
  PROVE  CodecInv'
  <1>1. /\ input \in Strings /\ network \in Strings /\ read_buf \in Strings
        /\ frames \in Seq(Sendable) /\ Joined(frames) \o read_buf \o network = input
    BY DEF CodecInv, Types, Reassembly
  <1>2. CASE network = <<>>
    <2>1. pc' = "closed" /\ UNCHANGED <<input, network, read_buf, frames>>
      BY <1>2 DEF read
    <2> QED
      BY <1>1, <2>1 DEF CodecInv, Types, Reassembly
  <1>3. CASE network # <<>>
    <2>1. PICK n \in 1 .. Len(network) :
             /\ read_buf' = read_buf \o Take(network, n)
             /\ network' = Drop(network, n)
             /\ pc' = "decode" /\ UNCHANGED <<input, frames>>
      BY <1>3 DEF read
    <2>2. n \in Nat /\ n <= n /\ n <= Len(network)
      BY <1>1, Lengths
    <2>3. PICK t, d : t = Take(network, n) /\ d = Drop(network, n)
      OBVIOUS
    <2>4. t \in Strings /\ d \in Strings /\ t \o d = network
      BY <1>1, <2>2, <2>3, Slices
    <2>5. read_buf' \in Strings /\ network' \in Strings
      BY <1>1, <2>1, <2>3, <2>4, Join
    <2>6. Types'
      BY <1>1, <2>1, <2>5 DEF Types
    <2>7. PICK j : j = Joined(frames) /\ j \in Strings
      BY <1>1, JoinedStrings
    <2>8. (j \o (read_buf \o t)) \o d = (j \o read_buf) \o (t \o d)
      <3>1. j \in Strings /\ read_buf \in Strings /\ t \in Strings /\ d \in Strings
        BY <1>1, <2>4, <2>7
      <3>2. j \o read_buf \in Strings
        BY <3>1, Join
      <3>3. (j \o read_buf) \o t = j \o (read_buf \o t)
        BY <3>1, JoinAssoc
      <3>4. ((j \o read_buf) \o t) \o d = (j \o read_buf) \o (t \o d)
        BY <3>1, <3>2, JoinAssoc
      <3> QED
        BY <3>3, <3>4
    <2>9. Joined(frames') \o read_buf' \o network' = input'
      BY <1>1, <2>1, <2>3, <2>4, <2>7, <2>8
    <2> QED
      BY <2>1, <2>6, <2>9 DEF CodecInv, Reassembly
  <1> QED
    BY <1>2, <1>3

LEMMA DecodeNextStep ==
  ASSUME CodecInv, decode_next
  PROVE  CodecInv'
  <1>1. /\ input \in Strings /\ network \in Strings /\ read_buf \in Strings
        /\ frames \in Seq(Sendable) /\ Joined(frames) \o read_buf \o network = input
    BY DEF CodecInv, Types, Reassembly
  <1>2. UNCHANGED <<input, network>>
    BY DEF decode_next
  <1>3. CASE try_decode_frame(read_buf) = None
    <2>1. pc' = "closed" /\ UNCHANGED <<read_buf, frames>>
      BY <1>3 DEF decode_next
    <2> QED
      BY <1>1, <1>2, <2>1 DEF CodecInv, Types, Reassembly
  <1>4. CASE /\ try_decode_frame(read_buf) # None
             /\ try_decode_frame(read_buf) = Result(None, read_buf)
             /\ Len(read_buf) >= U32 => Len(read_buf) < U32 + Get(Take(read_buf, U32))
    <2>1. PICK r : r = try_decode_frame(read_buf)
      OBVIOUS
    <2>2. r # None /\ r[1].frame = None /\ r[1].rest = read_buf
      BY <1>4, <2>1 DEF Result, Some
    <2>3. pc' = "read" /\ read_buf' = read_buf /\ frames' = frames \o None
      BY <2>1, <2>2 DEF decode_next
    <2>4. frames \o None = frames
      BY <1>1, ConcatEmpty DEF None
    <2> QED
      BY <1>1, <1>2, <1>4, <2>3, <2>4 DEF CodecInv, Types, Reassembly
  <1>5. ASSUME try_decode_frame(read_buf) # None,
               NEW f \in Sendable, NEW rest \in Strings,
               try_decode_frame(read_buf) = Result(Some(f), rest),
               encode_frame(f)[1] \o rest = read_buf
        PROVE  CodecInv'
    <2>1. PICK r : r = try_decode_frame(read_buf)
      OBVIOUS
    <2>2. r # None /\ r[1].frame = Some(f) /\ r[1].rest = rest /\ Some(f) # None
      BY <1>5, <2>1 DEF Result, Some, None
    <2>3. pc' = "decode" /\ read_buf' = rest /\ frames' = frames \o Some(f)
      BY <2>1, <2>2 DEF decode_next
    <2>4. frames \o Some(f) = Append(frames, f)
      BY <1>1 DEF Some
    <2>5. Append(frames, f) \in Seq(Sendable)
      BY <1>1
    <2>6. Types'
      BY <1>1, <1>2, <2>3, <2>4, <2>5 DEF Types
    <2>7. PICK j, e : j = Joined(frames) /\ e = encode_frame(f)[1]
      OBVIOUS
    <2>8. j \in Strings /\ e \in Strings /\ Joined(Append(frames, f)) = j \o e
      BY <1>1, <2>7, JoinedStrings, JoinedMore, SendableBytes
    <2>9. ((j \o e) \o rest) \o network = (j \o (e \o rest)) \o network
      <3>1. j \in Strings /\ e \in Strings /\ rest \in Strings /\ network \in Strings
        BY <1>1, <2>8
      <3> QED
        BY <3>1, RegroupLeft
    <2>10. Joined(frames') \o read_buf' \o network' = input'
      BY <1>1, <1>2, <1>5, <2>3, <2>4, <2>7, <2>8, <2>9
    <2> QED
      BY <2>3, <2>6, <2>10 DEF CodecInv, Reassembly
  <1> QED
    BY <1>1, <1>3, <1>4, <1>5, DecodeStep

LEMMA CodecAlways == Spec => []CodecInv
  <1>1. CodecInv /\ [Next]_vars => CodecInv'
    <2> SUFFICES ASSUME CodecInv, [Next]_vars PROVE CodecInv'
      OBVIOUS
    <2>1. CASE Next
      BY <2>1, ReadStep, DecodeNextStep DEF Next
    <2>2. CASE UNCHANGED vars
      BY <2>2 DEF CodecInv, Types, Reassembly, vars
    <2> QED
      BY <2>1, <2>2
  <1> QED
    BY <1>1, CodecInit, PTL DEF Spec

\* However the reads cut the stream, the frames taken out and the bytes left
\* are the stream, and no whole frame waits in the buffer for another read: for
\* every stream, width of the fields and frame limit.
THEOREM StreamComesThrough == Spec => []Reassembly
  <1>1. CodecInv => Reassembly
    BY DEF CodecInv
  <1> QED
    BY <1>1, CodecAlways, PTL

-----------------------------------------------------------------------------
(* Fields of a payload.                                                    *)

\* v stands in q behind its first n bytes.
At(q, n, v) ==
  n \in Nat /\ n + Len(v) <= Len(q) /\ SubSeq(q, n + 1, n + Len(v)) = v

\* u \o v, for steps that need no more of it than the lemmas below.
Cat(u, v) == u \o v

LEMMA CatJoin == \A u, v \in Strings : Cat(u, v) \in Strings /\ Len(Cat(u, v)) = Len(u) + Len(v)
  BY Join DEF Cat

LEMMA CatAssoc == \A u, v, w \in Strings : Cat(Cat(u, v), w) = Cat(u, Cat(v, w))
  BY JoinAssoc DEF Cat

LEMMA CatEmpty == <<>> \in Strings /\ Len(<<>>) = 0 /\ \A u \in Strings : Cat(u, <<>>) = u /\ Cat(<<>>, u) = u
  BY JoinEmpty DEF Cat

LEMMA CatMiddle ==
  ASSUME NEW u \in Strings, NEW v \in Strings, NEW w \in Strings
  PROVE  At(Cat(Cat(u, v), w), Len(u), v)
  <1>1. Cat(u, v) \in Strings /\ Len(Cat(u, v)) = Len(u) + Len(v)
    BY CatJoin
  <1>2. Len(Cat(Cat(u, v), w)) = Len(u) + Len(v) + Len(w)
    BY <1>1, CatJoin
  <1>3. Len(u) \in Nat /\ Len(v) \in Nat /\ Len(w) \in Nat
    BY Lengths
  <1>4. Len(u) + Len(v) <= Len(Cat(Cat(u, v), w))
    BY <1>2, <1>3
  <1>5. SubSeq(Cat(Cat(u, v), w), Len(u) + 1, Len(u) + Len(v)) = v
    BY Middle DEF Cat
  <1> QED
    BY <1>3, <1>4, <1>5 DEF At

LEMMA CatEnds ==
  ASSUME NEW u \in Strings, NEW v \in Strings
  PROVE  Drop(Cat(u, v), Len(u)) = v
  BY Ends DEF Cat

LEMMA CatSlices ==
  ASSUME NEW s \in Strings, NEW a \in Nat, NEW b \in Nat, a <= b, b <= Len(s)
  PROVE  Cat(Cat(Take(s, a), SubSeq(s, a + 1, b)), Drop(s, b)) = s
  BY Slices DEF Cat

LEMMA AtParts ==
  ASSUME NEW a \in Strings, NEW b \in Strings, NEW c \in Strings, NEW d \in Strings,
         NEW e \in Strings, NEW q, q = Cat(Cat(Cat(Cat(a, b), c), d), e)
  PROVE  /\ q \in Strings /\ Len(q) = Len(a) + Len(b) + Len(c) + Len(d) + Len(e)
         /\ At(q, 0, a) /\ At(q, Len(a), b) /\ At(q, Len(a) + Len(b), c)
         /\ At(q, Len(a) + Len(b) + Len(c), d)
         /\ Drop(q, Len(a) + Len(b) + Len(c) + Len(d)) = e
  <1>1. PICK x, y, z : x = Cat(a, b) /\ y = Cat(x, c) /\ z = Cat(y, d)
    OBVIOUS
  <1>2. x \in Strings /\ Len(x) = Len(a) + Len(b)
    BY <1>1, CatJoin
  <1>3. y \in Strings /\ Len(y) = Len(a) + Len(b) + Len(c)
    BY <1>1, <1>2, CatJoin
  <1>4. z \in Strings /\ Len(z) = Len(a) + Len(b) + Len(c) + Len(d)
    BY <1>1, <1>3, CatJoin
  <1>5. q = Cat(z, e)
    BY <1>1
  <1>6. q \in Strings /\ Len(q) = Len(a) + Len(b) + Len(c) + Len(d) + Len(e)
    BY <1>4, <1>5, CatJoin
  <1>7. Drop(q, Len(a) + Len(b) + Len(c) + Len(d)) = e
    BY <1>4, <1>5, CatEnds
  <1>8. PICK de : de = Cat(d, e) /\ de \in Strings
    BY CatJoin
  <1>9. PICK cde : cde = Cat(c, de) /\ cde \in Strings
    BY <1>8, CatJoin
  <1>10. PICK bcde : bcde = Cat(b, cde) /\ bcde \in Strings
    BY <1>9, CatJoin
  <1>11. q = Cat(y, de)
    BY <1>1, <1>3, <1>5, <1>8, CatAssoc
  <1>12. q = Cat(x, cde)
    BY <1>1, <1>2, <1>8, <1>9, <1>11, CatAssoc
  <1>13. q = Cat(a, bcde)
    BY <1>1, <1>9, <1>10, <1>12, CatAssoc
  <1>14. At(q, Len(a) + Len(b) + Len(c), d)
    <2>1. At(Cat(Cat(y, d), e), Len(y), d)
      BY <1>3, CatMiddle
    <2> QED
      BY <1>1, <1>3, <1>5, <2>1
  <1>15. At(q, Len(a) + Len(b), c)
    <2>1. At(Cat(Cat(x, c), de), Len(x), c)
      BY <1>2, <1>8, CatMiddle
    <2> QED
      BY <1>1, <1>2, <1>11, <2>1
  <1>16. At(q, Len(a), b)
    <2>1. At(Cat(Cat(a, b), cde), Len(a), b)
      BY <1>9, CatMiddle
    <2> QED
      BY <1>1, <1>12, <2>1
  <1>17. At(q, 0, a)
    <2>1. At(Cat(Cat(<<>>, a), bcde), Len(<<>>), a)
      BY <1>10, CatEmpty, CatMiddle
    <2>2. Cat(<<>>, a) = a /\ Len(<<>>) = 0
      BY CatEmpty
    <2> QED
      BY <1>13, <2>1, <2>2
  <1> QED
    BY <1>6, <1>7, <1>14, <1>15, <1>16, <1>17

LEMMA PrefixedFacts ==
  ASSUME NEW s \in Strings
  PROVE  Prefixed(s) \in Strings /\ Len(Prefixed(s)) = U16 + Len(s)
  <1>1. Put(Len(s), U16) \in Strings /\ Len(Put(Len(s), U16)) = U16
    BY Lengths, PutString, Widths
  <1> QED
    BY <1>1, Join DEF Prefixed

\* A part of a part.
LEMMA AtInner ==
  ASSUME NEW q \in Strings, NEW n, NEW u \in Strings, NEW v \in Strings, At(q, n, Cat(u, v))
  PROVE  At(q, n, u) /\ At(q, n + Len(u), v)
  <1>1. /\ n \in Nat /\ Len(u) \in Nat /\ Len(v) \in Nat /\ Len(q) \in Nat
        /\ Cat(u, v) \in Strings /\ Len(Cat(u, v)) = Len(u) + Len(v)
    BY Lengths, CatJoin DEF At
  <1>2. PICK m \in Nat : m = n + Len(Cat(u, v))
    BY <1>1
  <1>3. n <= m /\ m <= Len(q) /\ SubSeq(q, n + 1, m) = Cat(u, v)
    BY <1>1, <1>2 DEF At
  <1>4. PICK x, y : x = Take(q, n) /\ y = Drop(q, m)
    OBVIOUS
  <1>5. x \in Strings /\ Len(x) = n /\ y \in Strings
    BY <1>1, <1>3, <1>4, Slices
  <1>6. Cat(Cat(x, Cat(u, v)), y) = q
    <2>1. n \in Nat /\ n <= m /\ m <= Len(q)
      BY <1>1, <1>3
    <2>2. Cat(Cat(Take(q, n), SubSeq(q, n + 1, m)), Drop(q, m)) = q
      BY <2>1, CatSlices
    <2> QED
      BY <1>3, <1>4, <2>2
  <1>7. PICK xu : xu = Cat(x, u) /\ xu \in Strings /\ Len(xu) = n + Len(u)
    BY <1>5, CatJoin
  <1>8. Cat(xu, v) = Cat(x, Cat(u, v))
    BY <1>5, <1>7, CatAssoc
  <1>9. At(q, Len(xu), v)
    BY <1>5, <1>6, <1>7, <1>8, CatMiddle
  <1>10. PICK vy : vy = Cat(v, y) /\ vy \in Strings
    BY <1>5, CatJoin
  <1>11. Cat(xu, vy) = q
    BY <1>5, <1>6, <1>7, <1>8, <1>10, CatAssoc
  <1>12. At(q, Len(x), u)
    BY <1>5, <1>7, <1>10, <1>11, CatMiddle
  <1> QED
    BY <1>5, <1>7, <1>9, <1>12

LEMMA AtPrefixed ==
  ASSUME NEW q \in Strings, NEW n, NEW s \in Strings, FitsU16(s), At(q, n, Prefixed(s))
  PROVE  /\ n \in Nat /\ n + U16 + Len(s) <= Len(q)
         /\ Get(SubSeq(q, n + 1, n + U16)) = Len(s)
         /\ SubSeq(q, n + U16 + 1, n + U16 + Len(s)) = s
  <1>1. PICK l : l = Put(Len(s), U16)
    OBVIOUS
  <1>2. l \in Strings /\ Len(l) = U16 /\ Get(l) = Len(s) /\ Len(s) \in Nat
    BY <1>1, Lengths, PutString, Widths DEF FitsU16
  <1>3. At(q, n, Cat(l, s))
    BY <1>1 DEF Prefixed, Cat
  <1>4. At(q, n, l) /\ At(q, n + Len(l), s)
    BY <1>2, <1>3, AtInner
  <1> QED
    BY <1>2, <1>4 DEF At

LEMMA AtByte ==
  ASSUME NEW q \in Strings, NEW b \in Byte, NEW n, At(q, n, <<b>>)
  PROVE  n \in Nat /\ n + 1 <= Len(q) /\ q[n + 1] = b
  <1>1. Len(<<b>>) = 1 /\ <<b>>[1] = b
    OBVIOUS
  <1>2. n \in Nat /\ n + 1 <= Len(q) /\ SubSeq(q, n + 1, n + 1) = <<b>> /\ Len(q) \in Nat
    BY <1>1, Lengths DEF At
  <1>3. n \in 0 .. Len(q) /\ n + 1 \in n .. Len(q) /\ (n + 1) - n = 1 /\ 1 \in 1 .. 1
    BY <1>2
  <1>4. PICK r : r = SubSeq(q, n + 1, n + 1)
    OBVIOUS
  <1>5. q \in Seq(Byte)
    BY DEF Strings
  <1>6. \A i \in 1 .. (n + 1) - n : r[i] = q[n + i]
    BY <1>3, <1>4, <1>5, SliceFacts
  <1>7. r[1] = q[n + 1]
    BY <1>3, <1>6
  <1> QED
    BY <1>1, <1>2, <1>4, <1>7

-----------------------------------------------------------------------------
(* Payloads whose encoding is the bytes they were decoded from.            *)

LEMMA HelloAgain ==
  ASSUME NEW p \in Strings, decode_hello(p) # None
  PROVE  encode_hello(decode_hello(p)[1]) = Some(p)
  <1>1. Len(p) = U16
    BY DEF decode_hello
  <1>2. decode_hello(p) = Some([protocol_version |-> Get(p)])
    BY <1>1 DEF decode_hello
  <1>3. decode_hello(p)[1].protocol_version = Get(p)
    BY <1>2 DEF Some
  <1> QED
    BY <1>1, <1>3, GetString DEF encode_hello

LEMMA IdAgain ==
  ASSUME NEW p \in Strings, decode_id(p) # None
  PROVE  encode_id(decode_id(p)[1]) = Some(p)
  <1>1. Len(p) = U64
    BY DEF decode_id
  <1>2. decode_id(p) = Some([subscription_id |-> Get(p)])
    BY <1>1 DEF decode_id
  <1>3. decode_id(p)[1].subscription_id = Get(p)
    BY <1>2 DEF Some
  <1> QED
    BY <1>1, <1>3, GetString DEF encode_id

LEMMA AuthAgain ==
  ASSUME NEW p \in Strings, decode_auth(p) # None
  PROVE  encode_auth(decode_auth(p)[1]) = Some(p)
  <1>1. PICK key, l : key = Drop(p, U16) /\ l = Take(p, U16)
    OBVIOUS
  <1>2. ~(Len(p) < U16) /\ Len(key) = Get(l) /\ decode_auth(p) = Some([api_key |-> key])
    BY <1>1 DEF decode_auth
  <1>3. U16 <= Len(p) /\ U16 <= U16 /\ U16 \in Nat
    BY <1>2, Lengths, Widths
  <1>4. l \in Strings /\ Len(l) = U16 /\ l \o key = p
    BY <1>1, <1>3, Slices
  <1>5. Get(l) < Power[U16] /\ Put(Get(l), U16) = l
    BY <1>4, GetString
  <1>6. decode_auth(p)[1].api_key = key
    BY <1>2 DEF Some
  <1>7. FitsU16(key)
    BY <1>2, <1>5 DEF FitsU16
  <1>8. Prefixed(key) = p
    BY <1>2, <1>4, <1>5 DEF Prefixed
  <1> QED
    BY <1>6, <1>7, <1>8 DEF encode_auth

LEMMA NackAgain ==
  ASSUME NEW p \in Strings, decode_nack(p) # None
  PROVE  encode_nack(decode_nack(p)[1]) = Some(p)
  <1>1. PICK message, l, c :
          message = Drop(p, 2 * U16) /\ l = SubSeq(p, U16 + 1, 2 * U16) /\ c = Take(p, U16)
    OBVIOUS
  <1>2. /\ ~(Len(p) < 2 * U16) /\ Len(message) = Get(l)
        /\ decode_nack(p) = Some([code |-> Get(c), message |-> message])
    BY <1>1 DEF decode_nack
  <1>3. U16 \in Nat /\ 2 * U16 \in Nat /\ U16 <= 2 * U16 /\ 2 * U16 <= Len(p) /\ 2 * U16 - U16 = U16
    BY <1>2, Lengths, Widths
  <1>4. /\ c \in Strings /\ Len(c) = U16 /\ l \in Strings /\ Len(l) = U16
        /\ message \in Strings
    BY <1>1, <1>3, Slices
  <1>5. Cat(Cat(c, l), message) = p
    BY <1>1, <1>3, CatSlices
  <1>6. Get(l) < Power[U16] /\ Put(Get(l), U16) = l /\ Put(Get(c), U16) = c
    BY <1>4, GetString
  <1>7. decode_nack(p)[1].code = Get(c) /\ decode_nack(p)[1].message = message
    BY <1>2 DEF Some
  <1>8. FitsU16(message)
    BY <1>2, <1>6 DEF FitsU16
  <1>9. Prefixed(message) = Cat(l, message)
    BY <1>2, <1>6 DEF Prefixed, Cat
  <1>10. Cat(c, Cat(l, message)) = p
    BY <1>4, <1>5, CatAssoc
  <1>11. c \o Prefixed(message) = p
    BY <1>9, <1>10 DEF Cat
  <1> QED
    BY <1>6, <1>7, <1>8, <1>11 DEF encode_nack

-----------------------------------------------------------------------------
(* The flags of a qos byte.                                                *)

\* A byte is sixteen times a unit: the flags are eight and four of them.
LEMMA Units ==
  \E u \in Nat : u >= 1 /\ Base = 16 * u /\ HIGH_FLAG = 8 * u /\ LOW_FLAG = 4 * u
  <1>1. Base \in Nat /\ Base % 16 = 0 /\ Base >= 16
    BY CodecAssumption
  <1>2. PICK u : u = Base \div 16
    OBVIOUS
  <1>3. u \in Nat /\ u >= 1 /\ Base = 16 * u
    BY <1>1, <1>2
  <1>4. Base \div 2 = 8 * u /\ Base \div 4 = 4 * u
    BY <1>3
  <1> QED
    BY <1>3, <1>4 DEF HIGH_FLAG, LOW_FLAG

LEMMA DivMod ==
  ASSUME NEW d \in Nat, d >= 1, NEW k \in Nat, NEW r \in Nat, r < d
  PROVE  (d * k + r) \div d = k /\ (d * k + r) % d = r
  <1>1. r \in 0 .. d - 1
    OBVIOUS
  <1> QED
    BY <1>1

LEMMA FlagBits ==
  ASSUME NEW qos \in 0 .. 3, NEW h \in {0, 1}, NEW l \in {0, 1}, NEW byte,
         byte = qos + (IF h = 1 THEN HIGH_FLAG ELSE 0) + (IF l = 1 THEN LOW_FLAG ELSE 0)
  PROVE  /\ byte \in Byte /\ QosOf(byte) = qos
         /\ Flagged(byte, HIGH_FLAG) <=> h = 1
         /\ Flagged(byte, LOW_FLAG) <=> l = 1
  <1>1. PICK u \in Nat : u >= 1 /\ Base = 16 * u /\ HIGH_FLAG = 8 * u /\ LOW_FLAG = 4 * u
    BY Units
  <1>2. byte = qos + 8 * u * h + 4 * u * l
    BY <1>1
  <1>3. byte \in Byte
    BY <1>1, <1>2 DEF Byte
  <1>4. byte \div (8 * u) = h
    <2>1. /\ 8 * u \in Nat /\ 8 * u >= 1 /\ h \in Nat /\ qos + 4 * u * l \in Nat /\ qos + 4 * u * l < 8 * u
          /\ byte = (8 * u) * h + (qos + 4 * u * l)
      BY <1>1, <1>2
    <2> QED
      BY <2>1, DivMod
  <1>5. byte \div (4 * u) = 2 * h + l
    <2>1. /\ 4 * u \in Nat /\ 4 * u >= 1 /\ 2 * h + l \in Nat /\ qos \in Nat /\ qos < 4 * u
          /\ byte = (4 * u) * (2 * h + l) + qos
      BY <1>1, <1>2
    <2> QED
      BY <2>1, DivMod
  <1>6. byte % 4 = qos
    <2>1. /\ 4 \in Nat /\ 4 >= 1 /\ 2 * u * h + u * l \in Nat /\ qos \in Nat /\ qos < 4
          /\ byte = 4 * (2 * u * h + u * l) + qos
      BY <1>1, <1>2
    <2> QED
      BY <2>1, DivMod
  <1>7. h % 2 = h /\ (2 * h + l) % 2 = l
    OBVIOUS
  <1> QED
    BY <1>1, <1>3, <1>4, <1>5, <1>6, <1>7 DEF Flagged, QosOf

LEMMA QosFacts ==
  ASSUME NEW b \in Byte
  PROVE  QosOf(b) \in 0 .. 3 /\ QosOf(QosOf(b)) = QosOf(b)
  <1>1. b \in Nat
    BY ByteFacts
  <1> QED
    BY <1>1 DEF QosOf

-----------------------------------------------------------------------------
(* DELIVER.                                                                *)

LEMMA AtFour ==
  ASSUME NEW a \in Strings, NEW b \in Strings, NEW c \in Strings, NEW d \in Strings,
         NEW q, q = Cat(Cat(Cat(a, b), c), d)
  PROVE  /\ q \in Strings /\ Len(q) = Len(a) + Len(b) + Len(c) + Len(d)
         /\ At(q, 0, a) /\ At(q, Len(a), b) /\ At(q, Len(a) + Len(b), c)
         /\ Drop(q, Len(a) + Len(b) + Len(c)) = d
  <1>1. PICK z : z \in Strings /\ Len(z) = 0 /\ Cat(z, a) = a
    BY CatEmpty
  <1>2. q = Cat(Cat(Cat(Cat(z, a), b), c), d)
    BY <1>1
  <1>3. z \in Strings
    BY <1>1
  <1>4. /\ q \in Strings /\ Len(q) = Len(z) + Len(a) + Len(b) + Len(c) + Len(d)
        /\ At(q, Len(z), a) /\ At(q, Len(z) + Len(a), b) /\ At(q, Len(z) + Len(a) + Len(b), c)
        /\ Drop(q, Len(z) + Len(a) + Len(b) + Len(c)) = d
    BY <1>2, <1>3, AtParts
  <1>5. /\ Len(z) = 0 /\ Len(z) + Len(a) = Len(a)
        /\ Len(a) \in Nat /\ Len(b) \in Nat /\ Len(c) \in Nat /\ Len(d) \in Nat
    BY <1>1, Lengths
  <1> QED
    BY <1>4, <1>5

Delivery(qos, tag, topic, message) ==
  [qos |-> qos, delivery_tag |-> tag, topic |-> topic, message |-> message]

LEMMA DeliverEncoded ==
  ASSUME NEW qos \in Byte, NEW tag \in Nat, tag < Power[U64],
         NEW topic \in Strings, FitsU16(topic), NEW message \in Strings,
         NEW r, r = Delivery(qos, tag, topic, message)
  PROVE  \E q \in Strings :
           /\ encode_deliver(r) = Some(q)
           /\ Len(q) = 1 + U64 + U16 + Len(topic) + Len(message)
           /\ Utf8(topic) => decode_deliver(q) = Some(r)
  <1>1. PICK b, t, k : b = <<qos>> /\ t = Put(tag, U64) /\ k = Prefixed(topic)
    OBVIOUS
  <1>2. b \in Strings /\ Len(b) = 1
    BY <1>1, OneByte
  <1>3. t \in Strings /\ Len(t) = U64 /\ Get(t) = tag
    BY <1>1, PutString, Widths
  <1>4. k \in Strings /\ Len(k) = U16 + Len(topic)
    BY <1>1, PrefixedFacts
  <1>5. PICK q : q = Cat(Cat(Cat(b, t), k), message)
    OBVIOUS
  <1>6. /\ q \in Strings /\ Len(q) = 1 + U64 + Len(k) + Len(message)
        /\ At(q, 0, b) /\ At(q, 1, t) /\ At(q, 1 + U64, k)
        /\ Drop(q, 1 + U64 + Len(k)) = message
    <2>1. b \in Strings /\ t \in Strings /\ k \in Strings
      BY <1>2, <1>3, <1>4
    <2>2. /\ q \in Strings /\ Len(q) = Len(b) + Len(t) + Len(k) + Len(message)
          /\ At(q, 0, b) /\ At(q, Len(b), t) /\ At(q, Len(b) + Len(t), k)
          /\ Drop(q, Len(b) + Len(t) + Len(k)) = message
      BY <1>5, <2>1, AtFour
    <2> QED
      BY <1>2, <1>3, <2>2
  <1>7. q = <<qos>> \o Put(tag, U64) \o Prefixed(topic) \o message
    BY <1>1, <1>5 DEF Cat
  <1>8. encode_deliver(r) = Some(q)
    <2>1. r.qos = qos /\ r.delivery_tag = tag /\ r.topic = topic /\ r.message = message
      BY DEF Delivery
    <2> QED
      BY <1>7, <2>1 DEF encode_deliver
  <1>9. Len(topic) \in Nat /\ Len(message) \in Nat
    BY Lengths
  <1>10. Len(q) = 1 + U64 + U16 + Len(topic) + Len(message)
    BY <1>4, <1>6, <1>9, Widths
  <1>11. ASSUME Utf8(topic) PROVE decode_deliver(q) = Some(r)
    <2> DEFINE at_topic == 1 + U64 + U16
               at_message == at_topic + Get(SubSeq(q, 2 + U64, at_topic))
    <2>1. q[1] = qos
      BY <1>1, <1>6, AtByte
    <2>2. Get(SubSeq(q, 2, 1 + U64)) = tag
      <3>1. SubSeq(q, 1 + 1, 1 + Len(t)) = t
        BY <1>6 DEF At
      <3>2. 1 + 1 = 2
        OBVIOUS
      <3> QED
        BY <1>3, <3>1, <3>2
    <2>3. /\ Get(SubSeq(q, (1 + U64) + 1, (1 + U64) + U16)) = Len(topic)
          /\ SubSeq(q, (1 + U64) + U16 + 1, (1 + U64) + U16 + Len(topic)) = topic
      BY <1>1, <1>6, AtPrefixed
    <2>4. (1 + U64) + 1 = 2 + U64
      BY Widths
    <2>5. at_message = at_topic + Len(topic)
      BY <2>3, <2>4
    <2>6. SubSeq(q, at_topic + 1, at_message) = topic
      BY <2>3, <2>5
    <2>7. 1 + U64 + Len(k) = at_topic + Len(topic)
      BY <1>4, <1>9, Widths
    <2>8. Drop(q, at_message) = message
      BY <1>6, <2>5, <2>7
    <2>9. ~(Len(q) < at_topic) /\ ~(Len(q) < at_message)
      BY <1>9, <1>10, <2>5, Widths
    <2> QED
      BY <1>11, <2>1, <2>2, <2>6, <2>8, <2>9 DEF decode_deliver, Delivery
  <1> QED
    BY <1>6, <1>8, <1>10, <1>11

LEMMA DeliverDecoded ==
  ASSUME NEW p \in Strings, decode_deliver(p) # None
  PROVE  \E qos \in Byte, tag \in Nat, topic \in Strings, message \in Strings :
           /\ tag < Power[U64] /\ FitsU16(topic) /\ Utf8(topic)
           /\ decode_deliver(p) = Some(Delivery(qos, tag, topic, message))
           /\ Len(p) = 1 + U64 + U16 + Len(topic) + Len(message)
  <1> DEFINE at_topic == 1 + U64 + U16
             l == SubSeq(p, 2 + U64, at_topic)
             t == SubSeq(p, 2, 1 + U64)
             at_message == at_topic + Get(l)
             topic == SubSeq(p, at_topic + 1, at_message)
             message == Drop(p, at_message)
  <1>1. /\ ~(Len(p) < at_topic) /\ ~(Len(p) < at_message) /\ Utf8(topic)
        /\ decode_deliver(p) = Some(Delivery(p[1], Get(t), topic, message))
    BY DEF decode_deliver, Delivery
  <1>2. Len(p) \in Nat /\ at_topic \in Nat /\ at_topic <= Len(p) /\ 1 <= Len(p)
    BY <1>1, Lengths, Widths
  <1>3. t \in Strings /\ Len(t) = U64
    <2>1. 1 \in Nat /\ 1 + U64 \in Nat /\ 1 <= 1 + U64 /\ 1 + U64 <= Len(p) /\ (1 + U64) - 1 = U64
      BY <1>2, Widths
    <2>2. SubSeq(p, 1 + 1, 1 + U64) \in Strings /\ Len(SubSeq(p, 1 + 1, 1 + U64)) = (1 + U64) - 1
      BY <2>1, Slices
    <2>3. 1 + 1 = 2
      OBVIOUS
    <2> QED
      BY <2>1, <2>2, <2>3
  <1>4. l \in Strings /\ Len(l) = U16
    <2>1. /\ 1 + U64 \in Nat /\ 1 + U64 <= at_topic /\ at_topic - (1 + U64) = U16
          /\ (1 + U64) + 1 = 2 + U64
      BY <1>2, Widths
    <2>2. /\ SubSeq(p, (1 + U64) + 1, at_topic) \in Strings
          /\ Len(SubSeq(p, (1 + U64) + 1, at_topic)) = at_topic - (1 + U64)
      BY <1>2, <2>1, Slices
    <2> QED
      BY <2>1, <2>2
  <1>5. Get(t) \in Nat /\ Get(t) < Power[U64] /\ Get(l) \in Nat /\ Get(l) < Power[U16]
    BY <1>3, <1>4, GetString
  <1> HIDE DEF t, l
  <1>6. /\ at_message \in Nat /\ at_topic <= at_message /\ at_message <= Len(p)
        /\ at_message - at_topic = Get(l)
    <2>1. ~(Len(p) < at_message)
      BY <1>1
    <2> HIDE DEF at_topic
    <2> QED
      BY <1>2, <1>5, <2>1
  <1>7. /\ topic \in Strings /\ Len(topic) = at_message - at_topic
        /\ message \in Strings /\ Len(message) = Len(p) - at_message
    BY <1>2, <1>6, Slices
  <1>8. p[1] \in Byte
    BY <1>2, HeadByte
  <1> HIDE DEF topic, message
  <1>9. FitsU16(topic)
    BY <1>5, <1>6, <1>7 DEF FitsU16
  <1>10. Len(p) = at_topic + Len(topic) + Len(message)
    <2> HIDE DEF at_topic, at_message
    <2> QED
      BY <1>2, <1>6, <1>7
  <1> QED
    BY <1>1, <1>5, <1>7, <1>8, <1>9, <1>10

LEMMA DeliverAgain ==
  ASSUME NEW p \in Strings, decode_deliver(p) # None
  PROVE  \E q \in Strings : /\ encode_deliver(decode_deliver(p)[1]) = Some(q) /\ Len(q) <= Len(p)
                            /\ decode_deliver(q) = decode_deliver(p)
  <1>1. PICK qos \in Byte, tag \in Nat, topic \in Strings, message \in Strings :
           /\ tag < Power[U64] /\ FitsU16(topic) /\ Utf8(topic)
           /\ decode_deliver(p) = Some(Delivery(qos, tag, topic, message))
           /\ Len(p) = 1 + U64 + U16 + Len(topic) + Len(message)
    BY DeliverDecoded
  <1>2. PICK r : r = Delivery(qos, tag, topic, message)
    OBVIOUS
  <1>3. decode_deliver(p) = Some(r) /\ decode_deliver(p)[1] = r
    BY <1>1, <1>2 DEF Some
  <1>4. PICK q \in Strings :
           /\ encode_deliver(r) = Some(q)
           /\ Len(q) = 1 + U64 + U16 + Len(topic) + Len(message)
           /\ Utf8(topic) => decode_deliver(q) = Some(r)
    <2>1. tag < Power[U64] /\ FitsU16(topic)
      BY <1>1
    <2> QED
      BY <1>2, <2>1, DeliverEncoded
  <1>5. Len(q) <= Len(p)
    BY <1>1, <1>4, Lengths
  <1> QED
    BY <1>1, <1>3, <1>4, <1>5

-----------------------------------------------------------------------------
(* Optional fields, and the byte that says which are there.                *)

OptNumber(o, w) == o = None \/ \E n \in Nat : n < Power[w] /\ o = Some(n)
OptString(o) == o = None \/ \E s \in Strings : FitsU16(s) /\ o = Some(s)

NumberBytes(o, w) == IF o = None THEN <<>> ELSE Put(o[1], w)
StringBytes(o) == IF o = None THEN <<>> ELSE Prefixed(o[1])

LEMMA QosByteFacts ==
  ASSUME NEW qos \in 0 .. 3, NEW high, NEW low, NEW byte, byte = QosByte(qos, high, low)
  PROVE  /\ byte \in Byte /\ QosOf(byte) = qos
         /\ Flagged(byte, HIGH_FLAG) <=> high # None
         /\ Flagged(byte, LOW_FLAG) <=> low # None
  <1>1. PICK h \in {0, 1} : h = 1 <=> high # None
    <2>1. CASE high # None
      BY <2>1
    <2>2. CASE high = None
      BY <2>2
    <2> QED
      BY <2>1, <2>2
  <1>2. PICK l \in {0, 1} : l = 1 <=> low # None
    <2>1. CASE low # None
      BY <2>1
    <2>2. CASE low = None
      BY <2>2
    <2> QED
      BY <2>1, <2>2
  <1>3. QosOf(qos) = qos
    BY DEF QosOf
  <1>4. byte = qos + (IF h = 1 THEN HIGH_FLAG ELSE 0) + (IF l = 1 THEN LOW_FLAG ELSE 0)
    BY <1>1, <1>2, <1>3 DEF QosByte
  <1> QED
    BY <1>1, <1>2, <1>4, FlagBits

LEMMA NumberField ==
  ASSUME NEW o, NEW w \in Nat, OptNumber(o, w), NEW b, b = NumberBytes(o, w)
  PROVE  /\ b \in Strings
         /\ o = None => Len(b) = 0
         /\ o # None => Len(b) = w /\ Some(Get(b)) = o
  <1>1. CASE o = None
    BY <1>1, CatEmpty DEF NumberBytes
  <1>2. CASE o # None
    <2>1. PICK n \in Nat : n < Power[w] /\ o = Some(n)
      BY <1>2 DEF OptNumber
    <2>2. o[1] = n
      BY <2>1 DEF Some
    <2>3. b = Put(n, w)
      BY <1>2, <2>2 DEF NumberBytes
    <2>4. b \in Strings /\ Len(b) = w /\ Get(b) = n
      BY <2>1, <2>3, PutString
    <2> QED
      BY <1>2, <2>1, <2>4
  <1> QED
    BY <1>1, <1>2

LEMMA StringField ==
  ASSUME NEW o, OptString(o), NEW b, b = StringBytes(o)
  PROVE  /\ b \in Strings
         /\ o = None => Len(b) = 0
         /\ o # None => \E s \in Strings : /\ FitsU16(s) /\ o = Some(s) /\ b = Prefixed(s)
                                           /\ Len(b) = U16 + Len(s)
  <1>1. CASE o = None
    BY <1>1, CatEmpty DEF StringBytes
  <1>2. CASE o # None
    <2>1. PICK s \in Strings : FitsU16(s) /\ o = Some(s)
      BY <1>2 DEF OptString
    <2>2. o[1] = s
      BY <2>1 DEF Some
    <2>3. b = Prefixed(s)
      BY <1>2, <2>2 DEF StringBytes
    <2> QED
      BY <1>2, <2>1, <2>3, PrefixedFacts
  <1> QED
    BY <1>1, <1>2

-----------------------------------------------------------------------------
(* PUBLISH.                                                                *)

Publication(qos, topic, message, ttl_ms, partition_key) ==
  [qos |-> qos, topic |-> topic, message |-> message, ttl_ms |-> ttl_ms,
   partition_key |-> partition_key]

LEMMA PublishEncoded ==
  ASSUME NEW qos \in 0 .. 3, NEW topic \in Strings, FitsU16(topic), Utf8(topic),
         NEW message \in Strings, NEW ttl, OptNumber(ttl, U32), NEW key, OptString(key),
         NEW r, r = Publication(qos, topic, message, ttl, key)
  PROVE  \E q \in Strings :
           /\ encode_publish(r) = Some(q)
           /\ Len(q) = 1 + Len(NumberBytes(ttl, U32)) + Len(StringBytes(key))
                         + U16 + Len(topic) + Len(message)
           /\ decode_publish(q) = Some(r)
  <1>1. PICK byte : byte = QosByte(qos, ttl, key)
    OBVIOUS
  <1>2. /\ byte \in Byte /\ QosOf(byte) = qos
        /\ Flagged(byte, HIGH_FLAG) <=> ttl # None
        /\ Flagged(byte, LOW_FLAG) <=> key # None
    BY <1>1, QosByteFacts
  <1>3. PICK b, t, k, tp : /\ b = <<byte>> /\ t = NumberBytes(ttl, U32) /\ k = StringBytes(key)
                           /\ tp = Prefixed(topic)
    OBVIOUS
  <1>4. b \in Strings /\ Len(b) = 1
    BY <1>2, <1>3, OneByte
  <1>5. /\ t \in Strings /\ Len(t) \in Nat
        /\ ttl = None => Len(t) = 0
        /\ ttl # None => Len(t) = U32 /\ Some(Get(t)) = ttl
    BY <1>3, NumberField, Widths, Lengths
  <1>6. /\ k \in Strings /\ Len(k) \in Nat
        /\ key = None => Len(k) = 0
        /\ key # None => \E s \in Strings : /\ FitsU16(s) /\ key = Some(s) /\ k = Prefixed(s)
                                            /\ Len(k) = U16 + Len(s)
    BY <1>3, StringField, Lengths
  <1>7. tp \in Strings /\ Len(tp) = U16 + Len(topic)
    BY <1>3, PrefixedFacts
  <1>8. Len(topic) \in Nat /\ Len(message) \in Nat
    BY Lengths
  <1>9. PICK q : q = Cat(Cat(Cat(Cat(b, t), k), tp), message)
    OBVIOUS
  <1>10. /\ q \in Strings /\ Len(q) = 1 + Len(t) + Len(k) + (U16 + Len(topic)) + Len(message)
         /\ At(q, 0, b) /\ At(q, 1, t) /\ At(q, 1 + Len(t), k) /\ At(q, 1 + Len(t) + Len(k), tp)
         /\ Drop(q, 1 + Len(t) + Len(k) + (U16 + Len(topic))) = message
    <2>1. b \in Strings /\ t \in Strings /\ k \in Strings /\ tp \in Strings
      BY <1>4, <1>5, <1>6, <1>7
    <2>2. /\ q \in Strings /\ Len(q) = Len(b) + Len(t) + Len(k) + Len(tp) + Len(message)
          /\ At(q, 0, b) /\ At(q, Len(b), t) /\ At(q, Len(b) + Len(t), k)
          /\ At(q, Len(b) + Len(t) + Len(k), tp)
          /\ Drop(q, Len(b) + Len(t) + Len(k) + Len(tp)) = message
      BY <1>9, <2>1, AtParts
    <2> QED
      BY <1>4, <1>7, <2>2
  <1>11. encode_publish(r) = Some(q)
    <2>1. /\ r.qos = qos /\ r.topic = topic /\ r.message = message /\ r.ttl_ms = ttl
          /\ r.partition_key = key
      BY DEF Publication
    <2>2. \A i \in DOMAIN key : FitsU16(key[i])
      <3>1. CASE key = None
        BY <3>1 DEF None
      <3>2. CASE key # None
        <4>1. PICK s \in Strings : FitsU16(s) /\ key = Some(s)
          BY <1>6, <3>2
        <4>2. DOMAIN key = {1} /\ key[1] = s
          BY <4>1 DEF Some
        <4> QED
          BY <4>1, <4>2
      <3> QED
        BY <3>1, <3>2
    <2>3. t = IF ttl = None THEN <<>> ELSE Put(ttl[1], U32)
      BY <1>3 DEF NumberBytes
    <2>4. k = IF key = None THEN <<>> ELSE Prefixed(key[1])
      BY <1>3 DEF StringBytes
    <2>5. encode_publish(r) = Some(b \o t \o k \o tp \o message)
      BY <1>1, <1>3, <2>1, <2>2, <2>3, <2>4 DEF encode_publish
    <2> QED
      BY <1>9, <2>5 DEF Cat
  <1> DEFINE has_ttl == Flagged(q[1], HIGH_FLAG)
             has_key == Flagged(q[1], LOW_FLAG)
             at_key == 1 + IF has_ttl THEN U32 ELSE 0
             at_topic == at_key + IF has_key THEN U16 + Get(SubSeq(q, at_key + 1, at_key + U16))
                                  ELSE 0
             at_text == at_topic + U16
             at_message == at_text + Get(SubSeq(q, at_topic + 1, at_text))
  <1>12. q[1] = byte /\ (has_ttl <=> ttl # None) /\ (has_key <=> key # None)
    <2>1. q[0 + 1] = byte
      BY <1>2, <1>3, <1>10, AtByte
    <2>2. 0 + 1 = 1
      OBVIOUS
    <2>3. q[1] = byte
      BY <2>1, <2>2
    <2> QED
      BY <1>2, <2>3
  <1> HIDE DEF has_ttl, has_key
  <1>13. at_key = 1 + Len(t)
    BY <1>5, <1>12
  <1>14. (IF has_ttl THEN Some(Get(SubSeq(q, 2, at_key))) ELSE None) = ttl
    <2>1. SubSeq(q, 1 + 1, 1 + Len(t)) = t
      BY <1>10 DEF At
    <2>2. 1 + 1 = 2
      OBVIOUS
    <2>3. SubSeq(q, 2, at_key) = t
      BY <1>13, <2>1, <2>2
    <2> QED
      BY <1>5, <1>12, <2>3
  <1> HIDE DEF at_key
  <1>15. /\ at_topic = at_key + Len(k)
         /\ (IF has_key THEN Some(SubSeq(q, at_key + U16 + 1, at_topic)) ELSE None) = key
         /\ has_key => at_key + U16 <= at_topic
    <2>1. CASE key = None
      <3>1. at_topic = at_key + 0
        BY <1>12, <2>1
      <3> QED
        BY <1>6, <1>12, <2>1, <3>1
    <2>2. CASE key # None
      <3>1. PICK s \in Strings : FitsU16(s) /\ key = Some(s) /\ k = Prefixed(s) /\ Len(k) = U16 + Len(s)
        BY <1>6, <2>2
      <3>2. FitsU16(s) /\ At(q, at_key, Prefixed(s))
        BY <1>10, <1>13, <3>1
      <3>3. /\ Get(SubSeq(q, at_key + 1, at_key + U16)) = Len(s)
            /\ SubSeq(q, at_key + U16 + 1, at_key + U16 + Len(s)) = s
        BY <1>10, <3>2, AtPrefixed
      <3>4. at_topic = at_key + (U16 + Len(s))
        BY <1>12, <2>2, <3>3
      <3>5. Len(s) \in Nat /\ at_key \in Nat
        BY <1>5, <1>13, Lengths
      <3>6. at_key + (U16 + Len(s)) = at_key + U16 + Len(s) /\ at_key + U16 <= at_key + (U16 + Len(s))
        BY <3>5, Widths
      <3> QED
        BY <1>12, <2>2, <3>1, <3>3, <3>4, <3>6
    <2> QED
      BY <2>1, <2>2
  <1> HIDE DEF at_topic
  <1>16. at_topic \in Nat /\ at_key \in Nat /\ at_key <= at_topic /\ at_topic = 1 + Len(t) + Len(k)
    BY <1>5, <1>6, <1>13, <1>15
  <1>17. at_message = at_text + Len(topic) /\ SubSeq(q, at_text + 1, at_message) = topic
    <2>1. At(q, at_topic, Prefixed(topic))
      BY <1>3, <1>10, <1>16
    <2>2. /\ Get(SubSeq(q, at_topic + 1, at_topic + U16)) = Len(topic)
          /\ SubSeq(q, at_topic + U16 + 1, at_topic + U16 + Len(topic)) = topic
      BY <1>10, <2>1, AtPrefixed
    <2> QED
      BY <2>2
  <1> HIDE DEF at_message
  <1>18. /\ at_text \in Nat /\ at_message \in Nat /\ at_topic <= at_text /\ at_text <= at_message
         /\ at_message = 1 + Len(t) + Len(k) + (U16 + Len(topic))
         /\ Len(q) = at_message + Len(message)
    BY <1>5, <1>6, <1>8, <1>10, <1>16, <1>17, Widths
  <1>19. Drop(q, at_message) = message
    BY <1>10, <1>18
  <1>20. Len(q) \in Nat /\ Len(q) >= at_message /\ at_key >= 1
    BY <1>5, <1>8, <1>13, <1>18
  <1>21. /\ ~(Len(q) < 1 + U16) /\ ~(Len(q) < at_key) /\ ~(Len(q) < at_topic)
         /\ has_key => ~(Len(q) < at_key + U16)
         /\ ~(Len(q) < at_text) /\ ~(Len(q) < at_message)
    BY <1>15, <1>16, <1>18, <1>20, Widths
  <1>22. decode_publish(q) = Some(r)
    BY <1>2, <1>12, <1>14, <1>15, <1>17, <1>19, <1>21
       DEF decode_publish, Publication, has_ttl, has_key, at_key, at_topic, at_message
  <1>23. Len(q) = 1 + Len(t) + Len(k) + U16 + Len(topic) + Len(message)
    BY <1>5, <1>6, <1>8, <1>10, Widths
  <1> QED
    BY <1>3, <1>10, <1>11, <1>22, <1>23

\* The part of p from one position to another.
LEMMA SliceAt ==
  ASSUME NEW p \in Strings, NEW a \in Nat, NEW b \in Nat, a <= b, b <= Len(p),
         NEW w \in Nat, b = a + w
  PROVE  SubSeq(p, a + 1, b) \in Strings /\ Len(SubSeq(p, a + 1, b)) = w
  <1>1. b - a = w
    OBVIOUS
  <1> QED
    BY <1>1, Slices

LEMMA NumberAt ==
  ASSUME NEW p \in Strings, NEW a \in Nat, NEW w \in Nat, a + w <= Len(p)
  PROVE  /\ Get(SubSeq(p, a + 1, a + w)) \in Nat
         /\ Get(SubSeq(p, a + 1, a + w)) < Power[w]
  <1>1. a + w \in Nat /\ a <= a + w
    OBVIOUS
  <1>2. SubSeq(p, a + 1, a + w) \in Strings /\ Len(SubSeq(p, a + 1, a + w)) = w
    BY <1>1, SliceAt
  <1> QED
    BY <1>2, GetString

LEMMA PublishDecoded ==
  ASSUME NEW p \in Strings, decode_publish(p) # None
  PROVE  \E qos \in 0 .. 3, topic \in Strings, message \in Strings : \E ttl, key :
           /\ FitsU16(topic) /\ Utf8(topic) /\ OptNumber(ttl, U32) /\ OptString(key)
           /\ decode_publish(p) = Some(Publication(qos, topic, message, ttl, key))
           /\ Len(p) = 1 + Len(NumberBytes(ttl, U32)) + Len(StringBytes(key))
                         + U16 + Len(topic) + Len(message)
  <1> DEFINE has_ttl == Flagged(p[1], HIGH_FLAG)
             has_key == Flagged(p[1], LOW_FLAG)
             at_key == 1 + IF has_ttl THEN U32 ELSE 0
             at_topic == at_key + IF has_key THEN U16 + Get(SubSeq(p, at_key + 1, at_key + U16))
                                  ELSE 0
             at_text == at_topic + U16
             at_message == at_text + Get(SubSeq(p, at_topic + 1, at_text))
             topic == SubSeq(p, at_text + 1, at_message)
             message == Drop(p, at_message)
             ttl == IF has_ttl THEN Some(Get(SubSeq(p, 2, at_key))) ELSE None
             key == IF has_key THEN Some(SubSeq(p, at_key + U16 + 1, at_topic)) ELSE None
  <1>1. /\ ~(Len(p) < 1 + U16) /\ ~(Len(p) < at_key)
        /\ has_key => ~(Len(p) < at_key + U16) /\ ~(Len(p) < at_topic)
        /\ ~(Len(p) < at_text) /\ ~(Len(p) < at_message) /\ Utf8(topic)
    BY DEF decode_publish
  <1>2. decode_publish(p) = Some(Publication(QosOf(p[1]), topic, message, ttl, key))
    BY DEF decode_publish, Publication
  <1>3. Len(p) \in Nat /\ Len(p) >= 1
    BY <1>1, Lengths, Widths
  <1>4. QosOf(p[1]) \in 0 .. 3
    BY <1>3, HeadByte, QosFacts
  <1> HIDE DEF has_ttl, has_key
  <1>5. at_key \in Nat /\ at_key >= 1 /\ at_key <= Len(p)
    BY <1>1, <1>3, Widths
  <1>6. OptNumber(ttl, U32) /\ Len(NumberBytes(ttl, U32)) = at_key - 1
    <2>1. CASE has_ttl
      <3>1. at_key = 1 + U32 /\ 1 + U32 <= Len(p) /\ 1 \in Nat /\ 1 + 1 = 2
        BY <1>5, <2>1
      <3>2. PICK n : n = Get(SubSeq(p, 1 + 1, 1 + U32))
        OBVIOUS
      <3>3. n \in Nat /\ n < Power[U32]
        BY <3>1, <3>2, NumberAt, Widths
      <3>4. ttl = Some(n)
        BY <2>1, <3>1, <3>2
      <3> HIDE DEF ttl
      <3>5. ttl # None
        BY <3>4 DEF Some, None
      <3>6. OptNumber(ttl, U32)
        BY <3>3, <3>4 DEF OptNumber
      <3>7. Len(NumberBytes(ttl, U32)) = U32
        BY <3>5, <3>6, NumberField, Widths
      <3> QED
        BY <3>1, <3>6, <3>7, Widths
    <2>2. CASE ~has_ttl
      <3>1. at_key = 1 /\ ttl = None
        BY <2>2
      <3> HIDE DEF ttl
      <3>2. OptNumber(ttl, U32)
        BY <3>1 DEF OptNumber
      <3>3. Len(NumberBytes(ttl, U32)) = 0
        BY <3>1, <3>2, NumberField, Widths
      <3> QED
        BY <3>1, <3>2, <3>3
    <2> QED
      BY <2>1, <2>2
  <1> HIDE DEF ttl, at_key
  <1>7. /\ at_topic \in Nat /\ at_key <= at_topic /\ at_topic <= Len(p)
        /\ OptString(key) /\ Len(StringBytes(key)) = at_topic - at_key
    <2>1. CASE has_key
      <3>1. PICK n : n = Get(SubSeq(p, at_key + 1, at_key + U16))
        OBVIOUS
      <3>2. at_key + U16 <= Len(p)
        BY <1>1, <1>3, <1>5, <2>1, Widths
      <3>3. n \in Nat /\ n < Power[U16]
        BY <1>5, <3>1, <3>2, NumberAt, Widths
      <3>4. at_topic = at_key + (U16 + n)
        BY <2>1, <3>1
      <3>5. ~(Len(p) < at_topic)
        BY <1>1, <2>1
      <3> HIDE DEF at_topic
      <3>6. /\ at_topic \in Nat /\ at_topic <= Len(p) /\ at_key + U16 \in Nat
            /\ at_key + U16 <= at_topic /\ at_topic = (at_key + U16) + n
        BY <1>3, <1>5, <3>3, <3>4, <3>5, Widths
      <3>7. PICK s : s = SubSeq(p, at_key + U16 + 1, at_topic)
        OBVIOUS
      <3>8. s \in Strings /\ Len(s) = n
        <4>1. PICK a : a = at_key + U16
          OBVIOUS
        <4>2. s = SubSeq(p, a + 1, at_topic)
          BY <3>7, <4>1
        <4>3. /\ a \in Nat /\ at_topic \in Nat /\ a <= at_topic /\ at_topic <= Len(p)
              /\ n \in Nat /\ at_topic = a + n
          BY <3>3, <3>6, <4>1
        <4> QED
          BY <4>2, <4>3, SliceAt
      <3>9. FitsU16(s)
        BY <3>3, <3>8 DEF FitsU16
      <3>10. key = Some(s)
        BY <2>1, <3>7
      <3> HIDE DEF key
      <3>11. OptString(key) /\ key # None
        BY <3>8, <3>9, <3>10 DEF OptString, Some, None
      <3>12. StringBytes(key) = Prefixed(s)
        BY <3>10, <3>11 DEF StringBytes, Some
      <3>13. Len(StringBytes(key)) = U16 + n
        BY <3>8, <3>12, PrefixedFacts
      <3> QED
        BY <1>5, <3>3, <3>4, <3>6, <3>11, <3>13, Widths
    <2>2. CASE ~has_key
      <3>1. at_topic = at_key + 0 /\ key = None
        BY <2>2
      <3> HIDE DEF key, at_topic
      <3>2. OptString(key)
        BY <3>1 DEF OptString
      <3>3. Len(StringBytes(key)) = 0
        BY <3>1, <3>2, StringField
      <3> QED
        BY <1>5, <3>1, <3>2, <3>3
    <2> QED
      BY <2>1, <2>2
  <1>8. ~(Len(p) < at_text) /\ ~(Len(p) < at_message)
    BY <1>1
  <1> HIDE DEF key, at_topic
  <1>9. at_topic + U16 <= Len(p) /\ at_text \in Nat
    BY <1>3, <1>7, <1>8, Widths
  <1>10. PICK n : n = Get(SubSeq(p, at_topic + 1, at_topic + U16))
    OBVIOUS
  <1>11. n \in Nat /\ n < Power[U16]
    BY <1>7, <1>9, <1>10, NumberAt, Widths
  <1>12. at_message = at_text + n
    BY <1>10
  <1> HIDE DEF at_message
  <1>13. at_message \in Nat /\ at_text <= at_message /\ at_message <= Len(p)
    <2> HIDE DEF at_text
    <2> QED
      BY <1>3, <1>8, <1>9, <1>11, <1>12
  <1>14. topic \in Strings /\ Len(topic) = n
    BY <1>9, <1>11, <1>12, <1>13, SliceAt
  <1>15. message \in Strings /\ Len(message) = Len(p) - at_message
    BY <1>3, <1>13, Slices
  <1>16. Utf8(topic)
    BY <1>1
  <1> HIDE DEF topic, message
  <1>17. FitsU16(topic)
    BY <1>11, <1>14 DEF FitsU16
  <1>18. Len(p) = 1 + Len(NumberBytes(ttl, U32)) + Len(StringBytes(key))
                    + U16 + Len(topic) + Len(message)
    <2>1. Len(NumberBytes(ttl, U32)) = at_key - 1 /\ Len(StringBytes(key)) = at_topic - at_key
      BY <1>6, <1>7
    <2> QED
      BY <1>3, <1>5, <1>7, <1>11, <1>12, <1>13, <1>14, <1>15, <2>1, Widths
  <1> QED
    BY <1>2, <1>4, <1>6, <1>7, <1>14, <1>15, <1>16, <1>17, <1>18

LEMMA PublishAgain ==
  ASSUME NEW p \in Strings, decode_publish(p) # None
  PROVE  \E q \in Strings : /\ encode_publish(decode_publish(p)[1]) = Some(q) /\ Len(q) <= Len(p)
                            /\ decode_publish(q) = decode_publish(p)
  <1>1. PICK qos \in 0 .. 3, topic \in Strings, message \in Strings : \E ttl, key :
           /\ FitsU16(topic) /\ Utf8(topic) /\ OptNumber(ttl, U32) /\ OptString(key)
           /\ decode_publish(p) = Some(Publication(qos, topic, message, ttl, key))
           /\ Len(p) = 1 + Len(NumberBytes(ttl, U32)) + Len(StringBytes(key))
                         + U16 + Len(topic) + Len(message)
    BY PublishDecoded
  <1>2. PICK ttl, key :
           /\ FitsU16(topic) /\ Utf8(topic) /\ OptNumber(ttl, U32) /\ OptString(key)
           /\ decode_publish(p) = Some(Publication(qos, topic, message, ttl, key))
           /\ Len(p) = 1 + Len(NumberBytes(ttl, U32)) + Len(StringBytes(key))
                         + U16 + Len(topic) + Len(message)
    BY <1>1
  <1>3. PICK r : r = Publication(qos, topic, message, ttl, key)
    OBVIOUS
  <1>4. decode_publish(p) = Some(r) /\ decode_publish(p)[1] = r
    BY <1>2, <1>3 DEF Some
  <1>5. PICK q \in Strings :
           /\ encode_publish(r) = Some(q)
           /\ Len(q) = 1 + Len(NumberBytes(ttl, U32)) + Len(StringBytes(key))
                         + U16 + Len(topic) + Len(message)
           /\ decode_publish(q) = Some(r)
    <2>1. FitsU16(topic) /\ Utf8(topic) /\ OptNumber(ttl, U32) /\ OptString(key)
      BY <1>2
    <2> QED
      BY <1>3, <2>1, PublishEncoded
  <1>6. Len(q) = Len(p)
    BY <1>2, <1>5
  <1>7. Len(q) <= Len(p)
    BY <1>6, Lengths
  <1> QED
    BY <1>4, <1>5, <1>7

-----------------------------------------------------------------------------
(* SUBSCRIBE.                                                              *)

Subscription(topic, qos, group, from_offset) ==
  [topic |-> topic, qos |-> qos, group |-> group, from_offset |-> from_offset]

OptText(o) == o # None => Utf8(o[1])

LEMMA SubscribeEncoded ==
  ASSUME NEW topic \in Strings, FitsU16(topic), Utf8(topic), NEW qos \in 0 .. 3,
         NEW group, OptString(group), OptText(group), NEW offset, OptNumber(offset, U64),
         NEW r, r = Subscription(topic, qos, group, offset)
  PROVE  \E q \in Strings :
           /\ encode_subscribe(r) = Some(q)
           /\ Len(q) = U16 + Len(topic) + 1 + Len(StringBytes(group))
                         + Len(NumberBytes(offset, U64))
           /\ decode_subscribe(q) = Some(r)
  <1>1. PICK byte : byte = QosByte(qos, group, offset)
    OBVIOUS
  <1>2. /\ byte \in Byte /\ QosOf(byte) = qos
        /\ Flagged(byte, HIGH_FLAG) <=> group # None
        /\ Flagged(byte, LOW_FLAG) <=> offset # None
    BY <1>1, QosByteFacts
  <1>3. PICK tp, b, g, o : /\ tp = Prefixed(topic) /\ b = <<byte>> /\ g = StringBytes(group)
                           /\ o = NumberBytes(offset, U64)
    OBVIOUS
  <1>4. b \in Strings /\ Len(b) = 1
    BY <1>2, <1>3, OneByte
  <1>5. /\ o \in Strings /\ Len(o) \in Nat
        /\ offset = None => Len(o) = 0
        /\ offset # None => Len(o) = U64 /\ Some(Get(o)) = offset
    BY <1>3, NumberField, Widths, Lengths
  <1>6. /\ g \in Strings /\ Len(g) \in Nat
        /\ group = None => Len(g) = 0
        /\ group # None => \E s \in Strings : /\ FitsU16(s) /\ group = Some(s) /\ g = Prefixed(s)
                                              /\ Len(g) = U16 + Len(s)
    BY <1>3, StringField, Lengths
  <1>7. tp \in Strings /\ Len(tp) = U16 + Len(topic)
    BY <1>3, PrefixedFacts
  <1>8. Len(topic) \in Nat
    BY Lengths
  <1>9. PICK q : q = Cat(Cat(Cat(tp, b), g), o)
    OBVIOUS
  <1>10. /\ q \in Strings /\ Len(q) = (U16 + Len(topic)) + 1 + Len(g) + Len(o)
         /\ At(q, 0, tp) /\ At(q, U16 + Len(topic), b) /\ At(q, (U16 + Len(topic)) + 1, g)
         /\ At(q, (U16 + Len(topic)) + 1 + Len(g), o)
    <2>1. PICK z : z = <<>> /\ z \in Strings /\ Len(z) = 0
      BY CatEmpty
    <2>2. b \in Strings /\ g \in Strings /\ o \in Strings /\ tp \in Strings /\ z \in Strings
      BY <1>4, <1>5, <1>6, <1>7, <2>1
    <2>3. q \in Strings
      BY <1>9, <2>2, AtFour
    <2>4. q = Cat(Cat(Cat(Cat(tp, b), g), o), z)
      BY <1>9, <2>1, <2>3, CatEmpty
    <2>5. /\ q \in Strings /\ Len(q) = Len(tp) + Len(b) + Len(g) + Len(o) + Len(z)
          /\ At(q, 0, tp) /\ At(q, Len(tp), b) /\ At(q, Len(tp) + Len(b), g)
          /\ At(q, Len(tp) + Len(b) + Len(g), o)
      BY <2>2, <2>4, AtParts
    <2>6. Len(q) = (U16 + Len(topic)) + 1 + Len(g) + Len(o)
      BY <1>4, <1>5, <1>6, <1>7, <1>8, <2>1, <2>5, Widths
    <2> QED
      BY <1>4, <1>7, <2>5, <2>6
  <1>11. encode_subscribe(r) = Some(q)
    <2>1. r.qos = qos /\ r.topic = topic /\ r.group = group /\ r.from_offset = offset
      BY DEF Subscription
    <2>2. \A i \in DOMAIN group : FitsU16(group[i])
      <3>1. CASE group = None
        BY <3>1 DEF None
      <3>2. CASE group # None
        <4>1. PICK s \in Strings : FitsU16(s) /\ group = Some(s)
          BY <1>6, <3>2
        <4>2. DOMAIN group = {1} /\ group[1] = s
          BY <4>1 DEF Some
        <4> QED
          BY <4>1, <4>2
      <3> QED
        BY <3>1, <3>2
    <2>3. g = IF group = None THEN <<>> ELSE Prefixed(group[1])
      BY <1>3 DEF StringBytes
    <2>4. o = IF offset = None THEN <<>> ELSE Put(offset[1], U64)
      BY <1>3 DEF NumberBytes
    <2>5. encode_subscribe(r) = Some(tp \o b \o g \o o)
      BY <1>1, <1>3, <2>1, <2>2, <2>3, <2>4 DEF encode_subscribe
    <2> QED
      BY <1>9, <2>5 DEF Cat
  <1> DEFINE at_qos == U16 + Get(Take(q, U16))
             has_group == Flagged(q[at_qos + 1], HIGH_FLAG)
             has_offset == Flagged(q[at_qos + 1], LOW_FLAG)
             at_text == at_qos + 1 + U16
             at_offset == IF has_group THEN at_text + Get(SubSeq(q, at_qos + 2, at_text))
                          ELSE at_qos + 1
             text == SubSeq(q, at_text + 1, at_offset)
  <1>12. at_qos = U16 + Len(topic) /\ SubSeq(q, U16 + 1, at_qos) = topic
    <2>1. /\ Get(SubSeq(q, 0 + 1, 0 + U16)) = Len(topic)
          /\ SubSeq(q, 0 + U16 + 1, 0 + U16 + Len(topic)) = topic
      BY <1>3, <1>10, AtPrefixed
    <2>2. 0 + 1 = 1 /\ 0 + U16 = U16
      BY Widths
    <2>3. Get(Take(q, U16)) = Len(topic)
      BY <2>1, <2>2 DEF Take
    <2> QED
      BY <2>1, <2>2, <2>3
  <1> HIDE DEF at_qos
  <1>13. /\ q[at_qos + 1] = byte
         /\ has_group <=> group # None
         /\ has_offset <=> offset # None
    <2>1. q[at_qos + 1] = byte
      BY <1>2, <1>3, <1>10, <1>12, AtByte
    <2> QED
      BY <1>2, <2>1
  <1> HIDE DEF has_group, has_offset
  <1>14. at_qos \in Nat /\ at_text \in Nat
    BY <1>8, <1>12, Widths
  <1>15. /\ at_offset = at_qos + 1 + Len(g)
         /\ (IF has_group THEN Some(text) ELSE None) = group
         /\ has_group => at_text <= at_offset /\ Utf8(text)
    <2>1. CASE group = None
      <3>1. at_offset = at_qos + 1
        BY <1>13, <2>1
      <3> QED
        BY <1>6, <1>13, <1>14, <2>1, <3>1
    <2>2. CASE group # None
      <3>1. PICK s \in Strings :
              FitsU16(s) /\ group = Some(s) /\ g = Prefixed(s) /\ Len(g) = U16 + Len(s)
        BY <1>6, <2>2
      <3>2. PICK n : n = at_qos + 1
        OBVIOUS
      <3>3. FitsU16(s) /\ At(q, n, Prefixed(s))
        BY <1>10, <1>12, <3>1, <3>2
      <3>4. /\ Get(SubSeq(q, n + 1, n + U16)) = Len(s)
            /\ SubSeq(q, n + U16 + 1, n + U16 + Len(s)) = s
        BY <1>10, <3>3, AtPrefixed
      <3>5. n + 1 = at_qos + 2 /\ n + U16 = at_text /\ Len(s) \in Nat
        BY <1>14, <3>2, Lengths
      <3>6. at_offset = at_text + Len(s)
        BY <1>13, <2>2, <3>4, <3>5
      <3>7. text = s
        BY <3>4, <3>5, <3>6
      <3>8. group[1] = s
        BY <3>1 DEF Some
      <3>9. Utf8(s)
        BY <2>2, <3>8 DEF OptText
      <3> HIDE DEF at_offset, text
      <3>10. at_offset = at_qos + 1 + Len(g) /\ at_text <= at_offset
        BY <1>14, <3>1, <3>5, <3>6, Widths
      <3> QED
        BY <1>13, <2>2, <3>1, <3>7, <3>9, <3>10
    <2> QED
      BY <2>1, <2>2
  <1> HIDE DEF at_offset, text
  <1>16. (IF has_offset THEN Some(Get(SubSeq(q, at_offset + 1, at_offset + U64))) ELSE None)
           = offset
    <2>1. CASE offset = None
      BY <1>13, <2>1
    <2>2. CASE offset # None
      <3>1. At(q, at_offset, o)
        BY <1>10, <1>12, <1>15
      <3>2. SubSeq(q, at_offset + 1, at_offset + U64) = o
        BY <1>5, <2>2, <3>1 DEF At
      <3> QED
        BY <1>5, <1>13, <2>2, <3>2
    <2> QED
      BY <2>1, <2>2
  <1>17. /\ Len(q) = at_offset + Len(o) /\ at_offset \in Nat /\ at_qos + 1 <= at_offset
         /\ has_offset => Len(o) = U64
    <2>1. Len(q) = at_qos + 1 + Len(g) + Len(o) /\ Len(g) \in Nat /\ Len(o) \in Nat
      BY <1>5, <1>6, <1>10, <1>12
    <2>2. at_offset = at_qos + 1 + Len(g)
      BY <1>15
    <2>3. has_offset => Len(o) = U64
      BY <1>5, <1>13
    <2> QED
      BY <1>14, <2>1, <2>2, <2>3
  <1>18. U16 + 1 <= at_qos + 1
    BY <1>8, <1>12, Widths
  <1>19. /\ ~(Len(q) < U16 + 1) /\ ~(Len(q) < at_qos + 1)
         /\ has_group => ~(Len(q) < at_text) /\ ~(Len(q) < at_offset)
         /\ has_offset => ~(Len(q) < at_offset + U64)
    <2> HIDE DEF at_text
    <2> QED
      BY <1>5, <1>14, <1>15, <1>17, <1>18, Widths
  <1>20. decode_subscribe(q) = Some(r)
    BY <1>2, <1>12, <1>13, <1>15, <1>16, <1>19
       DEF decode_subscribe, Subscription, at_qos, has_group, has_offset, at_offset, text
  <1>21. Len(q) = U16 + Len(topic) + 1 + Len(g) + Len(o)
    BY <1>5, <1>6, <1>8, <1>10, Widths
  <1> QED
    BY <1>3, <1>10, <1>11, <1>20, <1>21

LEMMA SubscribeDecoded ==
  ASSUME NEW p \in Strings, decode_subscribe(p) # None
  PROVE  \E topic \in Strings, qos \in 0 .. 3 : \E group, offset :
           /\ FitsU16(topic) /\ Utf8(topic)
           /\ OptString(group) /\ OptText(group) /\ OptNumber(offset, U64)
           /\ decode_subscribe(p) = Some(Subscription(topic, qos, group, offset))
           /\ U16 + Len(topic) + 1 + Len(StringBytes(group)) + Len(NumberBytes(offset, U64))
                <= Len(p)
  <1> DEFINE at_qos == U16 + Get(Take(p, U16))
             topic == SubSeq(p, U16 + 1, at_qos)
             has_group == Flagged(p[at_qos + 1], HIGH_FLAG)
             has_offset == Flagged(p[at_qos + 1], LOW_FLAG)
             at_text == at_qos + 1 + U16
             at_offset == IF has_group THEN at_text + Get(SubSeq(p, at_qos + 2, at_text))
                          ELSE at_qos + 1
             text == SubSeq(p, at_text + 1, at_offset)
             group == IF has_group THEN Some(text) ELSE None
             offset == IF has_offset THEN Some(Get(SubSeq(p, at_offset + 1, at_offset + U64)))
                       ELSE None
  <1>1. /\ ~(Len(p) < U16 + 1) /\ ~(Len(p) < at_qos + 1) /\ Utf8(topic)
        /\ has_group => ~(Len(p) < at_text) /\ ~(Len(p) < at_offset) /\ Utf8(text)
        /\ has_offset => ~(Len(p) < at_offset + U64)
    BY DEF decode_subscribe
  <1>2. decode_subscribe(p) = Some(Subscription(topic, QosOf(p[at_qos + 1]), group, offset))
    BY DEF decode_subscribe, Subscription
  <1>3. Len(p) \in Nat
    BY Lengths
  <1>4. PICK n : n = Get(Take(p, U16))
    OBVIOUS
  <1>5. n \in Nat /\ n < Power[U16]
    <2>1. U16 <= Len(p) /\ U16 <= U16
      BY <1>1, <1>3, Widths
    <2>2. Take(p, U16) \in Strings /\ Len(Take(p, U16)) = U16
      BY <2>1, Slices, Widths
    <2> QED
      BY <1>4, <2>2, GetString
  <1>6. at_qos = U16 + n
    BY <1>4
  <1> HIDE DEF has_group, has_offset, at_qos
  <1>7. at_qos \in Nat /\ U16 <= at_qos /\ at_qos + 1 <= Len(p) /\ at_qos <= Len(p)
    BY <1>1, <1>3, <1>5, <1>6, Widths
  <1>8. topic \in Strings /\ Len(topic) = n
    BY <1>5, <1>6, <1>7, SliceAt, Widths
  <1>9. FitsU16(topic) /\ Utf8(topic)
    BY <1>1, <1>5, <1>8 DEF FitsU16
  <1> HIDE DEF topic
  <1>10. QosOf(p[at_qos + 1]) \in 0 .. 3
    <2>1. at_qos + 1 \in 1 .. Len(p)
      BY <1>3, <1>7
    <2>2. p[at_qos + 1] \in Byte
      BY <2>1, ElementFacts DEF Strings
    <2> QED
      BY <2>2, QosFacts
  <1>11. /\ at_offset \in Nat /\ at_qos + 1 <= at_offset /\ at_offset <= Len(p)
         /\ OptString(group) /\ OptText(group)
         /\ Len(StringBytes(group)) = at_offset - (at_qos + 1)
    <2>1. CASE has_group
      <3>1. PICK a : a = at_qos + 1
        OBVIOUS
      <3>2. ~(Len(p) < at_text) /\ ~(Len(p) < at_offset) /\ Utf8(text)
        BY <1>1, <2>1
      <3>3. a \in Nat /\ a + U16 <= Len(p) /\ at_text = a + U16 /\ at_qos + 2 = a + 1
        BY <1>3, <1>7, <3>1, <3>2, Widths
      <3>4. PICK m : m = Get(SubSeq(p, a + 1, a + U16))
        OBVIOUS
      <3>5. m \in Nat /\ m < Power[U16]
        BY <3>3, <3>4, NumberAt, Widths
      <3>6. at_offset = at_text + m
        BY <2>1, <3>3, <3>4
      <3>7. text = SubSeq(p, at_text + 1, at_offset)
        OBVIOUS
      <3>8. group = Some(text)
        BY <2>1
      <3> HIDE DEF at_offset, text, group
      <3>9. at_text \in Nat
        BY <3>3, Widths
      <3> HIDE DEF at_text
      <3>10. at_offset \in Nat /\ at_text <= at_offset /\ at_offset <= Len(p)
        BY <1>3, <3>2, <3>5, <3>6, <3>9
      <3>11. text \in Strings /\ Len(text) = m
        BY <3>5, <3>6, <3>7, <3>9, <3>10, SliceAt
      <3>12. FitsU16(text)
        BY <3>5, <3>11 DEF FitsU16
      <3>13. OptString(group) /\ group # None /\ group[1] = text
        BY <3>8, <3>11, <3>12 DEF OptString, Some, None
      <3>14. OptText(group)
        BY <3>2, <3>13 DEF OptText
      <3>15. StringBytes(group) = Prefixed(text)
        BY <3>13 DEF StringBytes
      <3>16. Len(StringBytes(group)) = U16 + m
        BY <3>11, <3>15, PrefixedFacts
      <3>17. at_qos + 1 <= at_offset /\ U16 + m = at_offset - (at_qos + 1)
        BY <1>7, <3>1, <3>3, <3>5, <3>6, Widths
      <3> QED
        BY <3>10, <3>13, <3>14, <3>16, <3>17
    <2>2. CASE ~has_group
      <3>1. at_offset = at_qos + 1 /\ group = None
        BY <2>2
      <3> HIDE DEF at_offset, group
      <3>2. OptString(group) /\ OptText(group)
        BY <3>1 DEF OptString, OptText
      <3>3. Len(StringBytes(group)) = 0
        BY <3>1, <3>2, StringField
      <3> QED
        BY <1>7, <3>1, <3>2, <3>3
    <2> QED
      BY <2>1, <2>2
  <1>12. has_offset => ~(Len(p) < at_offset + U64)
    BY <1>1
  <1> HIDE DEF at_offset, group
  <1>13. OptNumber(offset, U64) /\ at_offset + Len(NumberBytes(offset, U64)) <= Len(p)
    <2>1. CASE has_offset
      <3>1. PICK m : m = Get(SubSeq(p, at_offset + 1, at_offset + U64))
        OBVIOUS
      <3>2. at_offset + U64 <= Len(p) /\ at_offset \in Nat
        BY <1>3, <1>11, <1>12, <2>1, Widths
      <3>3. m \in Nat /\ m < Power[U64]
        BY <3>1, <3>2, NumberAt, Widths
      <3>4. offset = Some(m)
        BY <2>1, <3>1
      <3> HIDE DEF offset
      <3>5. OptNumber(offset, U64) /\ offset # None
        BY <3>3, <3>4 DEF OptNumber, Some, None
      <3>6. Len(NumberBytes(offset, U64)) = U64
        BY <3>5, NumberField, Widths
      <3> QED
        BY <3>2, <3>5, <3>6
    <2>2. CASE ~has_offset
      <3>1. offset = None
        BY <2>2
      <3> HIDE DEF offset
      <3>2. OptNumber(offset, U64)
        BY <3>1 DEF OptNumber
      <3>3. Len(NumberBytes(offset, U64)) = 0
        BY <3>1, <3>2, NumberField, Widths
      <3> QED
        BY <1>3, <1>11, <3>2, <3>3
    <2> QED
      BY <2>1, <2>2
  <1> HIDE DEF offset
  <1>14. U16 + Len(topic) + 1 + Len(StringBytes(group)) + Len(NumberBytes(offset, U64)) <= Len(p)
    <2>1. U16 + Len(topic) + 1 + Len(StringBytes(group)) = at_offset
      BY <1>5, <1>6, <1>7, <1>8, <1>11, Widths
    <2> QED
      BY <1>13, <2>1
  <1> QED
    BY <1>2, <1>8, <1>9, <1>10, <1>11, <1>13, <1>14

LEMMA SubscribeAgain ==
  ASSUME NEW p \in Strings, decode_subscribe(p) # None
  PROVE  \E q \in Strings :
           /\ encode_subscribe(decode_subscribe(p)[1]) = Some(q) /\ Len(q) <= Len(p)
           /\ decode_subscribe(q) = decode_subscribe(p)
  <1>1. PICK topic \in Strings, qos \in 0 .. 3 : \E group, offset :
           /\ FitsU16(topic) /\ Utf8(topic)
           /\ OptString(group) /\ OptText(group) /\ OptNumber(offset, U64)
           /\ decode_subscribe(p) = Some(Subscription(topic, qos, group, offset))
           /\ U16 + Len(topic) + 1 + Len(StringBytes(group)) + Len(NumberBytes(offset, U64))
                <= Len(p)
    BY SubscribeDecoded
  <1>2. PICK group, offset :
           /\ FitsU16(topic) /\ Utf8(topic)
           /\ OptString(group) /\ OptText(group) /\ OptNumber(offset, U64)
           /\ decode_subscribe(p) = Some(Subscription(topic, qos, group, offset))
           /\ U16 + Len(topic) + 1 + Len(StringBytes(group)) + Len(NumberBytes(offset, U64))
                <= Len(p)
    BY <1>1
  <1>3. PICK r : r = Subscription(topic, qos, group, offset)
    OBVIOUS
  <1>4. decode_subscribe(p) = Some(r) /\ decode_subscribe(p)[1] = r
    BY <1>2, <1>3 DEF Some
  <1>5. PICK q \in Strings :
           /\ encode_subscribe(r) = Some(q)
           /\ Len(q) = U16 + Len(topic) + 1 + Len(StringBytes(group))
                         + Len(NumberBytes(offset, U64))
           /\ decode_subscribe(q) = Some(r)
    <2>1. /\ FitsU16(topic) /\ Utf8(topic) /\ OptString(group) /\ OptText(group)
          /\ OptNumber(offset, U64)
      BY <1>2
    <2> QED
      BY <1>3, <2>1, SubscribeEncoded
  <1>6. Len(q) <= Len(p)
    BY <1>2, <1>5
  <1> QED
    BY <1>4, <1>5, <1>6

-----------------------------------------------------------------------------
(* Every frame the reader takes out.                                       *)

LEMMA DecodedAs ==
  ASSUME NEW f
  PROVE  /\ f.msg_type = HELLO => Decoded(f) = decode_hello(f.payload)
         /\ f.msg_type = AUTH => Decoded(f) = decode_auth(f.payload)
         /\ f.msg_type = PUBLISH => Decoded(f) = decode_publish(f.payload)
         /\ f.msg_type = SUBSCRIBE => Decoded(f) = decode_subscribe(f.payload)
         /\ f.msg_type \in {ACK, POLL} => Decoded(f) = decode_id(f.payload)
         /\ f.msg_type = NACK => Decoded(f) = decode_nack(f.payload)
         /\ f.msg_type = DELIVER => Decoded(f) = decode_deliver(f.payload)
         /\ f.msg_type \in {PING, PONG} => Decoded(f) = None
  BY DEF Decoded, HELLO, AUTH, PUBLISH, SUBSCRIBE, ACK, NACK, PING, PONG, POLL, DELIVER

LEMMA EncodedAs ==
  ASSUME NEW type, NEW r
  PROVE  /\ type = HELLO => Encoded(type, r) = encode_hello(r)
         /\ type = AUTH => Encoded(type, r) = encode_auth(r)
         /\ type = PUBLISH => Encoded(type, r) = encode_publish(r)
         /\ type = SUBSCRIBE => Encoded(type, r) = encode_subscribe(r)
         /\ type \in {ACK, POLL} => Encoded(type, r) = encode_id(r)
         /\ type = NACK => Encoded(type, r) = encode_nack(r)
         /\ type = DELIVER => Encoded(type, r) = encode_deliver(r)
  BY DEF Encoded, HELLO, AUTH, PUBLISH, SUBSCRIBE, ACK, NACK, POLL, DELIVER

LEMMA TypeCases ==
  ASSUME NEW t \in FrameTypes
  PROVE  \/ t = HELLO \/ t = AUTH \/ t = PUBLISH \/ t = SUBSCRIBE \/ t \in {ACK, POLL}
         \/ t = NACK \/ t = DELIVER \/ t \in {PING, PONG}
  <1>1. t \in 1 .. 10
    BY TypeBytes
  <1> QED
    BY <1>1 DEF HELLO, AUTH, PUBLISH, SUBSCRIBE, ACK, NACK, PING, PONG, POLL, DELIVER

\* Some encoding of what a payload decodes to, in no more bytes, decodes to the
\* same.
LEMMA PayloadAgain ==
  ASSUME NEW f \in Sendable, Decoded(f) # None
  PROVE  \E q \in Strings :
           /\ Encoded(f.msg_type, Decoded(f)[1]) = Some(q)
           /\ Len(q) <= Len(f.payload)
           /\ \A g : g.msg_type = f.msg_type /\ g.payload = q => Decoded(g) = Decoded(f)
  <1>1. PICK p, t : p = f.payload /\ t = f.msg_type
    OBVIOUS
  <1>2. p \in Strings /\ t \in FrameTypes /\ Len(p) <= Len(p)
    <2>1. p \in Strings /\ t \in FrameTypes
      BY <1>1 DEF Sendable
    <2> QED
      BY <2>1, Lengths
  <1>3. CASE t = HELLO
    <2>1. Decoded(f) = decode_hello(p)
      BY <1>1, <1>3, DecodedAs
    <2>2. encode_hello(decode_hello(p)[1]) = Some(p)
      BY <1>2, <2>1, HelloAgain
    <2>3. \A g : g.msg_type = f.msg_type /\ g.payload = p => Decoded(g) = decode_hello(p)
      BY <1>1, <1>3, DecodedAs
    <2>4. Encoded(f.msg_type, Decoded(f)[1]) = Some(p)
      BY <1>1, <1>3, <2>1, <2>2, EncodedAs
    <2> QED
      BY <1>1, <1>2, <2>1, <2>3, <2>4
  <1>4. CASE t = AUTH
    <2>1. Decoded(f) = decode_auth(p)
      BY <1>1, <1>4, DecodedAs
    <2>2. encode_auth(decode_auth(p)[1]) = Some(p)
      BY <1>2, <2>1, AuthAgain
    <2>3. \A g : g.msg_type = f.msg_type /\ g.payload = p => Decoded(g) = decode_auth(p)
      BY <1>1, <1>4, DecodedAs
    <2>4. Encoded(f.msg_type, Decoded(f)[1]) = Some(p)
      BY <1>1, <1>4, <2>1, <2>2, EncodedAs
    <2> QED
      BY <1>1, <1>2, <2>1, <2>3, <2>4
  <1>5. CASE t = PUBLISH
    <2>1. Decoded(f) = decode_publish(p)
      BY <1>1, <1>5, DecodedAs
    <2>2. PICK q \in Strings :
             /\ encode_publish(decode_publish(p)[1]) = Some(q) /\ Len(q) <= Len(p)
             /\ decode_publish(q) = decode_publish(p)
      BY <1>2, <2>1, PublishAgain
    <2>3. \A g : g.msg_type = f.msg_type /\ g.payload = q => Decoded(g) = decode_publish(q)
      BY <1>1, <1>5, DecodedAs
    <2> QED
      BY <1>1, <1>5, <2>1, <2>2, <2>3, EncodedAs
  <1>6. CASE t = SUBSCRIBE
    <2>1. Decoded(f) = decode_subscribe(p)
      BY <1>1, <1>6, DecodedAs
    <2>2. PICK q \in Strings :
             /\ encode_subscribe(decode_subscribe(p)[1]) = Some(q) /\ Len(q) <= Len(p)
             /\ decode_subscribe(q) = decode_subscribe(p)
      BY <1>2, <2>1, SubscribeAgain
    <2>3. \A g : g.msg_type = f.msg_type /\ g.payload = q => Decoded(g) = decode_subscribe(q)
      BY <1>1, <1>6, DecodedAs
    <2> QED
      BY <1>1, <1>6, <2>1, <2>2, <2>3, EncodedAs
  <1>7. CASE t \in {ACK, POLL}
    <2>1. Decoded(f) = decode_id(p)
      BY <1>1, <1>7, DecodedAs
    <2>2. encode_id(decode_id(p)[1]) = Some(p)
      BY <1>2, <2>1, IdAgain
    <2>3. \A g : g.msg_type = f.msg_type /\ g.payload = p => Decoded(g) = decode_id(p)
      BY <1>1, <1>7, DecodedAs
    <2>4. Encoded(f.msg_type, Decoded(f)[1]) = Some(p)
      BY <1>1, <1>7, <2>1, <2>2, EncodedAs
    <2> QED
      BY <1>1, <1>2, <2>1, <2>3, <2>4
  <1>8. CASE t = NACK
    <2>1. Decoded(f) = decode_nack(p)
      BY <1>1, <1>8, DecodedAs
    <2>2. encode_nack(decode_nack(p)[1]) = Some(p)
      BY <1>2, <2>1, NackAgain
    <2>3. \A g : g.msg_type = f.msg_type /\ g.payload = p => Decoded(g) = decode_nack(p)
      BY <1>1, <1>8, DecodedAs
    <2>4. Encoded(f.msg_type, Decoded(f)[1]) = Some(p)
      BY <1>1, <1>8, <2>1, <2>2, EncodedAs
    <2> QED
      BY <1>1, <1>2, <2>1, <2>3, <2>4
  <1>9. CASE t = DELIVER
    <2>1. Decoded(f) = decode_deliver(p)
      BY <1>1, <1>9, DecodedAs
    <2>2. PICK q \in Strings :
             /\ encode_deliver(decode_deliver(p)[1]) = Some(q) /\ Len(q) <= Len(p)
             /\ decode_deliver(q) = decode_deliver(p)
      BY <1>2, <2>1, DeliverAgain
    <2>3. \A g : g.msg_type = f.msg_type /\ g.payload = q => Decoded(g) = decode_deliver(q)
      BY <1>1, <1>9, DecodedAs
    <2> QED
      BY <1>1, <1>9, <2>1, <2>2, <2>3, EncodedAs
  <1>10. CASE t \in {PING, PONG}
    BY <1>1, <1>10, DecodedAs
  <1> QED
    BY <1>2, <1>3, <1>4, <1>5, <1>6, <1>7, <1>8, <1>9, <1>10, TypeCases

LEMMA FrameAgain ==
  ASSUME NEW f \in Sendable, Decoded(f) # None, NEW again, again = Encoded(f.msg_type, Decoded(f)[1])
  PROVE  /\ again # None /\ Len(again[1]) <= Len(f.payload)
         /\ Decoded([f EXCEPT !.payload = again[1]]) = Decoded(f)
  <1>1. PICK q \in Strings :
           /\ again = Some(q) /\ Len(q) <= Len(f.payload)
           /\ \A g : g.msg_type = f.msg_type /\ g.payload = q => Decoded(g) = Decoded(f)
    BY PayloadAgain
  <1>2. again # None /\ again[1] = q
    BY <1>1 DEF Some, None
  <1>3. PICK g : g = [f EXCEPT !.payload = q]
    OBVIOUS
  <1>4. g.msg_type = f.msg_type /\ g.payload = q
    BY <1>3 DEF Sendable
  <1> QED
    BY <1>1, <1>2, <1>3, <1>4

LEMMA Elements ==
  ASSUME Types, NEW i \in DOMAIN frames
  PROVE  frames[i] \in Sendable
  BY DEF Types

LEMMA RoundTripInv == Types => RoundTrip
  BY Elements, FrameAgain DEF RoundTrip

\* What a payload decodes to survives another round, whatever its bytes and the
\* widths: no flag, length or optional field is read otherwise than written.
THEOREM PayloadsComeBack == Spec => []RoundTrip
  <1>1. CodecInv => RoundTrip
    BY RoundTripInv DEF CodecInv
  <1> QED
    BY <1>1, CodecAlways, PTL

-----------------------------------------------------------------------------
(* A publication on its way out.                                           *)

\* encode_deliver_frame writes what encode_frame writes of encode_deliver's
\* payload, and gives up for the same lengths.
LEMMA OnePass ==
  ASSUME NEW qos \in Byte, NEW tag \in Nat, NEW topic \in Strings, FitsU16(topic),
         NEW message \in Strings, NEW q \in Strings
  PROVE  /\ q = Cat(Cat(Cat(<<qos>>, Put(tag, U64)), Prefixed(topic)), message)
         /\ Len(q) = 1 + U64 + U16 + Len(topic) + Len(message)
         => encode_deliver_frame(qos, tag, topic, message) = encode_frame(Frame(DELIVER, tag, q))
  <1>1. SUFFICES ASSUME q = Cat(Cat(Cat(<<qos>>, Put(tag, U64)), Prefixed(topic)), message),
                        Len(q) = 1 + U64 + U16 + Len(topic) + Len(message)
                 PROVE  encode_deliver_frame(qos, tag, topic, message)
                          = encode_frame(Frame(DELIVER, tag, q))
    OBVIOUS
  <1>2. PICK b, t, k, d, len :
          /\ b = <<qos>> /\ t = Put(tag, U64) /\ k = Prefixed(topic) /\ d = <<DELIVER>>
          /\ len = 1 + U64 + 1 + U64 + U16 + Len(topic) + Len(message)
    OBVIOUS
  <1>3. DELIVER \in Byte
    BY BaseFacts DEF Byte, DELIVER
  <1>4. b \in Strings /\ d \in Strings /\ Len(d) = 1
    BY <1>2, <1>3, OneByte
  <1>5. t \in Strings /\ Len(t) = U64
    BY <1>2, PutString, Widths
  <1>6. k \in Strings
    BY <1>2, PrefixedFacts
  <1>7. len \in Nat /\ Len(topic) \in Nat /\ Len(message) \in Nat
    <2>1. Len(topic) \in Nat /\ Len(message) \in Nat
      BY Lengths
    <2> QED
      BY <1>2, <2>1, Widths
  <1>8. PICK l, body : l = Put(len, U32) /\ body = Cat(Cat(d, t), q)
    OBVIOUS
  <1>9. l \in Strings
    BY <1>7, <1>8, PutString, Widths
  <1>10. PICK dt, bt, btk, x :
          /\ dt = Cat(d, t) /\ bt = Cat(b, t) /\ btk = Cat(bt, k) /\ x = Cat(l, dt)
    OBVIOUS
  <1>11. Cat(Cat(Cat(Cat(Cat(Cat(l, d), t), b), t), k), message) = Cat(l, body)
    <2>1. l \in Strings /\ d \in Strings /\ t \in Strings /\ b \in Strings /\ k \in Strings
      BY <1>4, <1>5, <1>6, <1>9
    <2>2. dt \in Strings /\ bt \in Strings
      BY <1>10, <2>1, CatJoin
    <2>3. btk \in Strings /\ x \in Strings
      BY <1>10, <2>1, <2>2, CatJoin
    <2>4. q = Cat(btk, message) /\ body = Cat(dt, q)
      BY <1>1, <1>2, <1>8, <1>10
    <2>5. Cat(Cat(l, d), t) = x
      BY <1>10, <2>1, CatAssoc
    <2>6. Cat(Cat(x, b), t) = Cat(x, bt)
      BY <1>10, <2>1, <2>3, CatAssoc
    <2>7. Cat(Cat(x, bt), k) = Cat(x, btk)
      BY <1>10, <2>1, <2>2, <2>3, CatAssoc
    <2>8. Cat(Cat(x, btk), message) = Cat(x, q)
      BY <2>3, <2>4, CatAssoc
    <2>9. Cat(x, q) = Cat(l, body)
      BY <1>10, <2>1, <2>2, <2>4, CatAssoc
    <2> QED
      BY <2>5, <2>6, <2>7, <2>8, <2>9
  <1>12. Len(body) = len
    <2>1. d \in Strings /\ t \in Strings
      BY <1>4, <1>5
    <2>2. PICK u : u = Cat(d, t)
      OBVIOUS
    <2>3. u \in Strings /\ Len(u) = Len(d) + Len(t)
      BY <2>1, <2>2, CatJoin
    <2>4. Len(body) = Len(u) + Len(q)
      BY <1>8, <2>2, <2>3, CatJoin
    <2> QED
      BY <1>1, <1>2, <1>4, <1>5, <1>7, <2>3, <2>4, Widths
  <1>13. encode_frame(Frame(DELIVER, tag, q)) = Framed(body)
    <2>1. body = <<DELIVER>> \o Put(tag, U64) \o q
      BY <1>2, <1>8 DEF Cat
    <2>2. /\ Frame(DELIVER, tag, q).msg_type = DELIVER
          /\ Frame(DELIVER, tag, q).correlation_id = tag
          /\ Frame(DELIVER, tag, q).payload = q
      BY DEF Frame
    <2> QED
      BY <2>1, <2>2 DEF encode_frame
  <1>14. Framed(body) = IF len > MAX_FRAME_SIZE THEN None ELSE Some(Cat(l, body))
    BY <1>8, <1>12 DEF Framed, Cat
  <1>15. PICK whole : whole = Cat(l, body)
    OBVIOUS
  <1>16. whole = Put(len, U32) \o <<DELIVER>> \o Put(tag, U64) \o <<qos>>
                   \o Put(tag, U64) \o Prefixed(topic) \o message
    BY <1>2, <1>8, <1>11, <1>15 DEF Cat
  <1>17. encode_deliver_frame(qos, tag, topic, message)
           = IF len > MAX_FRAME_SIZE THEN None ELSE Some(whole)
    BY <1>2, <1>16 DEF encode_deliver_frame
  <1> QED
    BY <1>13, <1>14, <1>15, <1>17

LEMMA DeliveryOf ==
  ASSUME NEW qos \in Byte, NEW tag \in Nat, tag < Power[U64],
         NEW topic \in Strings, FitsU16(topic), Utf8(topic), NEW message \in Strings,
         NEW r, r = Delivery(qos, tag, topic, message),
         NEW frame, frame = Frame(DELIVER, tag, encode_deliver(r)[1]),
         NEW bytes, bytes = encode_deliver_frame(qos, tag, topic, message)
  PROVE  /\ bytes = encode_frame(frame)
         /\ bytes # None =>
              /\ try_decode_frame(bytes[1]) = Result(Some(frame), <<>>)
              /\ Decoded(frame) = Some(r)
  <1>1. PICK q \in Strings :
           /\ encode_deliver(r) = Some(q)
           /\ Len(q) = 1 + U64 + U16 + Len(topic) + Len(message)
           /\ Utf8(topic) => decode_deliver(q) = Some(r)
    BY DeliverEncoded
  <1>2. encode_deliver(r)[1] = q /\ frame = Frame(DELIVER, tag, q)
    BY <1>1 DEF Some
  <1>3. q = Cat(Cat(Cat(<<qos>>, Put(tag, U64)), Prefixed(topic)), message)
    <2>1. PICK w : w = Cat(Cat(Cat(<<qos>>, Put(tag, U64)), Prefixed(topic)), message)
      OBVIOUS
    <2>2. r.qos = qos /\ r.delivery_tag = tag /\ r.topic = topic /\ r.message = message
      BY DEF Delivery
    <2>3. encode_deliver(r) = Some(w)
      BY <2>1, <2>2 DEF encode_deliver, Cat
    <2>4. q = w
      BY <1>2, <2>3 DEF Some
    <2> QED
      BY <2>1, <2>4
  <1>4. bytes = encode_frame(frame)
    BY <1>1, <1>2, <1>3, OnePass
  <1>5. frame.msg_type = DELIVER /\ frame.correlation_id = tag /\ frame.payload = q
    BY <1>2 DEF Frame
  <1>6. Decoded(frame) = Some(r)
    <2>1. Decoded(frame) = decode_deliver(q)
      BY <1>5, DecodedAs
    <2> QED
      BY <1>1, <2>1
  <1>7. ASSUME bytes # None PROVE try_decode_frame(bytes[1]) = Result(Some(frame), <<>>)
    <2>1. 1 + U64 + Len(q) <= MAX_FRAME_SIZE
      <3>1. PICK len : len = 1 + U64 + 1 + U64 + U16 + Len(topic) + Len(message)
        OBVIOUS
      <3>2. ~(len > MAX_FRAME_SIZE)
        BY <1>7, <3>1 DEF encode_deliver_frame
      <3>3. Len(topic) \in Nat /\ Len(message) \in Nat
        BY Lengths
      <3> QED
        BY <1>1, <3>1, <3>2, <3>3, Widths
    <2>2. DELIVER \in FrameTypes
      BY DEF FrameTypes, HELLO, DELIVER
    <2>3. frame \in Sendable
      BY <1>2, <2>1, <2>2 DEF Frame, Sendable
    <2>4. PICK e : e = encode_frame(frame)[1]
      OBVIOUS
    <2>5. e \in Strings
      BY <2>3, <2>4, SendableBytes
    <2>6. try_decode_frame(e \o <<>>) = Result(Some(frame), <<>>)
      BY <2>3, <2>4, DecodeEncoded, JoinEmpty
    <2>7. e \o <<>> = e
      BY <2>5, JoinEmpty
    <2> QED
      BY <1>4, <2>4, <2>6, <2>7
  <1> QED
    BY <1>4, <1>6, <1>7

LEMMA PublicationOut ==
  ASSUME NEW f \in Sendable, f.msg_type = PUBLISH, Decoded(f) # None,
         NEW p, p = Decoded(f)[1],
         NEW r, r = [qos |-> p.qos, delivery_tag |-> f.correlation_id, topic |-> p.topic,
                     message |-> p.message],
         NEW frame, frame = Frame(DELIVER, f.correlation_id, encode_deliver(r)[1]),
         NEW bytes, bytes = encode_deliver_frame(p.qos, f.correlation_id, p.topic, p.message)
  PROVE  /\ bytes = encode_frame(frame)
         /\ bytes # None =>
              /\ try_decode_frame(bytes[1]) = Result(Some(frame), <<>>)
              /\ Decoded(frame) = Some(r)
  <1>1. PICK s, tag : s = f.payload /\ tag = f.correlation_id
    OBVIOUS
  <1>2. s \in Strings /\ tag \in Nat /\ tag < Power[U64]
    BY <1>1 DEF Sendable
  <1>3. Decoded(f) = decode_publish(s)
    BY <1>1, DecodedAs
  <1>4. PICK qos \in 0 .. 3, topic \in Strings, message \in Strings : \E ttl, key :
           /\ FitsU16(topic) /\ Utf8(topic) /\ OptNumber(ttl, U32) /\ OptString(key)
           /\ decode_publish(s) = Some(Publication(qos, topic, message, ttl, key))
           /\ Len(s) = 1 + Len(NumberBytes(ttl, U32)) + Len(StringBytes(key))
                         + U16 + Len(topic) + Len(message)
    BY <1>2, <1>3, PublishDecoded
  <1>5. PICK ttl, key :
           /\ FitsU16(topic) /\ Utf8(topic)
           /\ decode_publish(s) = Some(Publication(qos, topic, message, ttl, key))
    BY <1>4
  <1>6. p = Publication(qos, topic, message, ttl, key)
    BY <1>3, <1>5 DEF Some
  <1>7. p.qos = qos /\ p.topic = topic /\ p.message = message
    BY <1>6 DEF Publication
  <1>8. r = Delivery(qos, tag, topic, message)
    BY <1>1, <1>7 DEF Delivery
  <1>9. qos \in Byte
    BY BaseFacts DEF Byte
  <1>10. /\ frame = Frame(DELIVER, tag, encode_deliver(r)[1])
         /\ bytes = encode_deliver_frame(qos, tag, topic, message)
    BY <1>1, <1>7
  <1>11. FitsU16(topic) /\ Utf8(topic)
    BY <1>5
  <1> QED
    BY <1>2, <1>8, <1>9, <1>10, <1>11, DeliveryOf

LEMMA DeliverMirrorsInv == Types => DeliverMirrors
  BY Elements, PublicationOut DEF DeliverMirrors

\* What the client reads of a delivery is what the publisher wrote: the frame
\* encode_deliver_frame writes in one pass is encode_frame's of encode_deliver's
\* payload, for every topic, message and tag, and is refused at the same length.
THEOREM DeliveredAsPublished == Spec => []DeliverMirrors
  <1>1. CodecInv => DeliverMirrors
    BY DeliverMirrorsInv DEF CodecInv
  <1> QED
    BY <1>1, CodecAlways, PTL
=============================================================================
