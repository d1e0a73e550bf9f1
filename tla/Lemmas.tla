------------------------------- MODULE Lemmas -------------------------------
(* Lemmas on the arithmetic of words and of ring positions, on the least   *)
(* number of a set, and on what editing a sequence does to its elements.   *)
EXTENDS Integers, SequenceTheorems, FiniteSetTheorems, WellFoundedInduction, TLAPS

(* A number less than the modulus is its own remainder.                    *)
LEMMA SmallMod ==
    ASSUME NEW m \in Nat, NEW a \in Nat, a < m
    PROVE  a % m = a
  BY SMT

(* A small negative number wraps to the top of the word.                   *)
LEMMA NegativeMod ==
    ASSUME NEW m \in Nat, NEW x \in Int, 0 - m < x, x < 0
    PROVE  x % m = x + m
<1> DEFINE q == x \div m
<1>1. q \in Int /\ x % m \in 0 .. m - 1 /\ x = m * q + (x % m)
  BY SMT
<1> HIDE DEF q
<1>2. CASE q >= 0
  <2>1. m * q >= 0
    BY <1>1, <1>2, SMT
  <2> QED BY <1>1, <2>1, SMT
<1>3. CASE q <= 0 - 2
  <2>1. m * q <= 0 - m - m
    BY <1>1, <1>3, SMT
  <2> QED BY <1>1, <2>1, SMT
<1>4. CASE q = 0 - 1
  BY <1>1, <1>4, SMT
<1> QED BY <1>1, <1>2, <1>3, <1>4, SMT

(* Positions less than a ring-full apart have different slots: the reason  *)
(* why a cursor may be reduced modulo the capacity.                        *)
LEMMA ResiduesDiffer ==
    ASSUME NEW m \in Nat, m > 0, NEW a \in Nat, NEW b \in Nat, a < b, b < a + m
    PROVE  a % m # b % m
<1> SUFFICES ASSUME a % m = b % m PROVE FALSE
  OBVIOUS
<1> DEFINE qa == a \div m
           qb == b \div m
<1>1. /\ qa \in Int /\ qb \in Int
      /\ a = m * qa + (a % m)
      /\ b = m * qb + (b % m)
      /\ a % m \in Int
  BY SMT
<1> HIDE DEF qa, qb
<1>2. b - a = m * (qb - qa)
  BY <1>1, SMT
<1>3. CASE qb - qa <= 0
  <2>1. m * (qb - qa) <= 0
    BY <1>1, <1>3, SMT
  <2> QED BY <1>2, <2>1, SMT
<1>4. CASE qb - qa >= 1
  <2>1. m * (qb - qa) >= m
    BY <1>1, <1>4, SMT
  <2> QED BY <1>2, <2>1, SMT
<1> QED BY <1>1, <1>3, <1>4, SMT

(* Inside a turn of the ring, slots follow each other as positions do.     *)
LEMMA ResidueStep ==
    ASSUME NEW m \in Nat, m > 0, NEW a \in Nat, NEW i \in Nat, (a % m) + i < m
    PROVE  (a + i) % m = (a % m) + i
<1> DEFINE qa == a \div m
           q == (a + i) \div m
<1>1. /\ qa \in Int /\ q \in Int
      /\ a = m * qa + (a % m)
      /\ a + i = m * q + ((a + i) % m)
      /\ a % m \in 0 .. m - 1 /\ (a + i) % m \in 0 .. m - 1
  BY SMT
<1> HIDE DEF qa, q
<1>2. m * (q - qa) = (a % m) + i - ((a + i) % m)
  BY <1>1, SMT
<1>3. CASE q - qa <= 0 - 1
  <2>1. m * (q - qa) <= 0 - m
    BY <1>1, <1>3, SMT
  <2> QED BY <1>1, <1>2, <2>1, SMT
<1>4. CASE q - qa >= 1
  <2>1. m * (q - qa) >= m
    BY <1>1, <1>4, SMT
  <2> QED BY <1>1, <1>2, <2>1, SMT
<1>5. CASE q = qa
  BY <1>1, <1>2, <1>5, SMT
<1> QED BY <1>1, <1>3, <1>4, <1>5, SMT

-----------------------------------------------------------------------------
(* A set of numbers has a least one.                                       *)
LEMMA Least ==
    ASSUME NEW S \in SUBSET Nat, S # {}
    PROVE  \E m \in S : \A k \in S : m <= k
<1>1. PICK n0 \in S : TRUE
  OBVIOUS
<1> DEFINE F == {1 .. n : n \in {k \in S : k <= n0}}
           B == 1 .. n0
<1>2. F \subseteq FiniteSubsetsOf(B)
  <2>1. IsFiniteSet(B)
    BY <1>1, FS_Interval
  <2>2. FiniteSubsetsOf(B) = SUBSET B
    BY <2>1, FS_FiniteSubsetsOfFinite
  <2>3. \A n \in S : n <= n0 => 1 .. n \subseteq B
    BY SMT
  <2> QED BY <2>2, <2>3
<1>3. F # {}
  BY <1>1
<1>4. \E x \in F : \A y \in F : ~(<<y, x>> \in StrictSubsetOrdering(B))
  <2>1. IsWellFoundedOn(StrictSubsetOrdering(B), FiniteSubsetsOf(B))
    BY FS_StrictSubsetOrderingWellFounded
  <2> HIDE DEF F, B
  <2> QED BY <1>2, <1>3, <2>1, WFMin, Zenon
<1>5. PICK m \in S : m <= n0 /\ \A y \in F : ~(<<y, 1 .. m>> \in StrictSubsetOrdering(B))
  BY <1>4
<1>6. ASSUME NEW k \in S, k < m PROVE FALSE
  <2>1. k <= n0 /\ k \in Nat /\ m \in Nat
    BY <1>5, <1>6, SMT
  <2>2. 1 .. k \in F
    BY <2>1
  <2>3. 1 .. k \subseteq 1 .. m /\ 1 .. m \subseteq B /\ 1 .. k # 1 .. m
    <3>1. m \in 1 .. m /\ m \notin 1 .. k
      BY <1>6, <2>1, SMT
    <3> QED BY <1>5, <1>6, <2>1, <3>1, SMT
  <2>4. <<1 .. k, 1 .. m>> \in StrictSubsetOrdering(B)
    BY <2>3, Zenon DEF StrictSubsetOrdering
  <2> QED BY <1>5, <2>2, <2>4
<1> QED BY <1>5, <1>6, SMT

(* Induction up to a bound, for a set instead of a formula.                *)
LEMMA UpTo ==
    ASSUME NEW n \in Nat, NEW S, 0 \in S, \A k \in 0 .. n - 1 : k \in S => k + 1 \in S
    PROVE  0 .. n \subseteq S
<1> SUFFICES ASSUME NEW x \in 0 .. n, x \notin S PROVE FALSE
  OBVIOUS
<1>1. PICK m \in {k \in 0 .. n : k \notin S} : \A k \in {j \in 0 .. n : j \notin S} : m <= k
  <2>1. {k \in 0 .. n : k \notin S} \subseteq Nat
    BY SMT
  <2> QED BY <2>1, Least
<1>2. m # 0 /\ m \in 0 .. n /\ m \notin S
  BY <1>1
<1>3. m - 1 \in 0 .. n - 1 /\ m - 1 \in 0 .. n /\ (m - 1) + 1 = m /\ ~(m <= m - 1)
  BY <1>2, SMT
<1> QED BY <1>1, <1>2, <1>3

-----------------------------------------------------------------------------
\* list with t behind its first n items
Put(list, n, t) == SubSeq(list, 1, n) \o <<t>> \o SubSeq(list, n + 1, Len(list))

LEMMA PutParts ==
    ASSUME NEW S, NEW list \in Seq(S), NEW t \in S, NEW n \in 0 .. Len(list)
    PROVE  /\ Put(list, n, t) \in Seq(S) /\ Len(Put(list, n, t)) = Len(list) + 1
           /\ \A k \in 1 .. Len(list) + 1 :
                 Put(list, n, t)[k] = IF k <= n THEN list[k] ELSE IF k = n + 1 THEN t ELSE list[k - 1]
<1> DEFINE len == Len(list)
           a == SubSeq(list, 1, n)
           b == SubSeq(list, n + 1, len)
           one == <<t>>
           c == a \o one
           p == c \o b
<1>1. len \in Nat /\ n \in Nat /\ n <= len /\ \A k \in 1 .. len : list[k] \in S
  BY LenProperties, SMT
<1>2. a \in Seq(S) /\ Len(a) = n /\ \A k \in 1 .. n : a[k] = list[k]
  <2>1. \A k \in 1 .. n : list[k] \in S
    BY <1>1, SMT
  <2>2. /\ a \in Seq(S) /\ Len(a) = IF 1 <= n THEN n - 1 + 1 ELSE 0
        /\ \A k \in 1 .. n - 1 + 1 : a[k] = list[1 + k - 1]
    BY <1>1, <2>1, SubSeqProperties
  <2> HIDE DEF a
  <2> QED BY <1>1, <2>2, SMT
<1>3. b \in Seq(S) /\ Len(b) = len - n /\ \A k \in 1 .. len - n : b[k] = list[n + k]
  <2>1. \A k \in n + 1 .. len : list[k] \in S
    BY <1>1, SMT
  <2>2. n + 1 \in Int /\ len \in Int
    BY <1>1, SMT
  <2>3. /\ b \in Seq(S) /\ Len(b) = IF n + 1 <= len THEN len - (n + 1) + 1 ELSE 0
        /\ \A k \in 1 .. len - (n + 1) + 1 : b[k] = list[n + 1 + k - 1]
    BY <2>1, <2>2, SubSeqProperties
  <2> HIDE DEF b, len
  <2>4. Len(b) = len - n
    BY <1>1, <2>3, SMT
  <2>5. \A k \in 1 .. len - n : k \in 1 .. len - (n + 1) + 1 /\ n + 1 + k - 1 = n + k
    BY <1>1, SMT
  <2> QED BY <2>3, <2>4, <2>5
<1>4. one \in Seq(S) /\ Len(one) = 1 /\ one[1] = t
  BY SMT
<1>5. c \in Seq(S) /\ Len(c) = n + 1 /\ (\A k \in 1 .. n : c[k] = list[k]) /\ c[n + 1] = t
  <2>1. /\ c \in Seq(S) /\ Len(c) = Len(a) + Len(one)
        /\ \A k \in 1 .. Len(a) + Len(one) : c[k] = IF k <= Len(a) THEN a[k] ELSE one[k - Len(a)]
    BY <1>2, <1>4, ConcatProperties
  <2> HIDE DEF a, one, c
  <2>2. \A k \in 1 .. n : c[k] = list[k]
    BY <1>1, <1>2, <1>4, <2>1, SMT
  <2>3. c[n + 1] = one[n + 1 - n]
    BY <1>1, <1>2, <1>4, <2>1, SMT
  <2>4. n + 1 - n = 1
    BY <1>1, SMT
  <2> QED BY <1>2, <1>4, <2>1, <2>2, <2>3, <2>4
<1>6. /\ p \in Seq(S) /\ Len(p) = Len(c) + Len(b)
      /\ \A k \in 1 .. Len(c) + Len(b) : p[k] = IF k <= Len(c) THEN c[k] ELSE b[k - Len(c)]
  <2>1. c \in Seq(S) /\ b \in Seq(S)
    BY <1>3, <1>5
  <2> HIDE DEF a, b, c
  <2> QED BY <2>1, ConcatProperties
<1> HIDE DEF a, b, c, p, one, len
<1>7. Len(p) = len + 1
  BY <1>1, <1>3, <1>5, <1>6, SMT
<1>8. \A k \in 1 .. n + 1 : p[k] = c[k]
  BY <1>1, <1>3, <1>5, <1>6, SMT
<1>9. \A k \in n + 2 .. len + 1 : p[k] = b[k - (n + 1)]
  BY <1>1, <1>3, <1>5, <1>6, SMT
<1>10. \A k \in n + 2 .. len + 1 : k - (n + 1) \in 1 .. len - n /\ n + (k - (n + 1)) = k - 1
  BY <1>1, SMT
<1>11. \A k \in n + 2 .. len + 1 : p[k] = list[k - 1]
  BY <1>3, <1>9, <1>10
<1>12. p[n + 1] = t /\ \A k \in 1 .. n : p[k] = list[k]
  BY <1>1, <1>5, <1>8, SMT
<1>13. \A k \in 1 .. len + 1 : p[k] = IF k <= n THEN list[k] ELSE IF k = n + 1 THEN t ELSE list[k - 1]
  BY <1>1, <1>11, <1>12, SMT
<1>14. Put(list, n, t) = p
  BY DEF Put, a, b, c, p, one, len
<1> QED BY <1>6, <1>7, <1>13, <1>14 DEF len

\* list without its n-th item
Cut(list, n) == SubSeq(list, 1, n - 1) \o SubSeq(list, n + 1, Len(list))

LEMMA CutParts ==
    ASSUME NEW S, NEW list \in Seq(S), NEW n \in 1 .. Len(list)
    PROVE  /\ Cut(list, n) \in Seq(S) /\ Len(Cut(list, n)) = Len(list) - 1
           /\ \A k \in 1 .. Len(list) - 1 :
                 Cut(list, n)[k] = IF k < n THEN list[k] ELSE list[k + 1]
<1> DEFINE len == Len(list)
           m == n - 1
           a == SubSeq(list, 1, m)
           b == SubSeq(list, n + 1, len)
           p == a \o b
<1>1. len \in Nat /\ n \in Nat /\ m \in Nat /\ n = m + 1 /\ n <= len /\ \A k \in 1 .. len : list[k] \in S
  BY LenProperties, SMT
<1> HIDE DEF m
<1>2. a \in Seq(S) /\ Len(a) = m /\ \A k \in 1 .. m : a[k] = list[k]
  <2>1. \A k \in 1 .. m : list[k] \in S
    BY <1>1, SMT
  <2>2. /\ a \in Seq(S) /\ Len(a) = IF 1 <= m THEN m - 1 + 1 ELSE 0
        /\ \A k \in 1 .. m - 1 + 1 : a[k] = list[1 + k - 1]
    BY <1>1, <2>1, SubSeqProperties
  <2> HIDE DEF a
  <2> QED BY <1>1, <2>2, SMT
<1>3. b \in Seq(S) /\ Len(b) = len - n /\ \A k \in 1 .. len - n : b[k] = list[n + k]
  <2>1. \A k \in n + 1 .. len : list[k] \in S
    BY <1>1, SMT
  <2>2. n + 1 \in Int /\ len \in Int
    BY <1>1, SMT
  <2>3. /\ b \in Seq(S) /\ Len(b) = IF n + 1 <= len THEN len - (n + 1) + 1 ELSE 0
        /\ \A k \in 1 .. len - (n + 1) + 1 : b[k] = list[n + 1 + k - 1]
    BY <2>1, <2>2, SubSeqProperties
  <2> HIDE DEF b, len
  <2>4. Len(b) = len - n
    BY <1>1, <2>3, SMT
  <2>5. \A k \in 1 .. len - n : k \in 1 .. len - (n + 1) + 1 /\ n + 1 + k - 1 = n + k
    BY <1>1, SMT
  <2> QED BY <2>3, <2>4, <2>5
<1>4. /\ p \in Seq(S) /\ Len(p) = Len(a) + Len(b)
      /\ \A k \in 1 .. Len(a) + Len(b) : p[k] = IF k <= Len(a) THEN a[k] ELSE b[k - Len(a)]
  BY <1>2, <1>3, ConcatProperties
<1> HIDE DEF a, b, p, len
<1>5. Len(p) = len - 1
  BY <1>1, <1>2, <1>3, <1>4, SMT
<1>6. \A k \in 1 .. m : p[k] = list[k]
  BY <1>1, <1>2, <1>3, <1>4, SMT
<1>7. \A k \in n .. len - 1 : p[k] = b[k - m]
  BY <1>1, <1>2, <1>3, <1>4, SMT
<1>8. \A k \in n .. len - 1 : k - m \in 1 .. len - n /\ n + (k - m) = k + 1
  BY <1>1, SMT
<1>9. \A k \in n .. len - 1 : p[k] = list[k + 1]
  BY <1>3, <1>7, <1>8
<1>10. \A k \in 1 .. len - 1 : p[k] = IF k < n THEN list[k] ELSE list[k + 1]
  BY <1>1, <1>6, <1>9, SMT
<1>11. Cut(list, n) = p
  BY DEF Cut, a, b, p, len, m
<1> QED BY <1>4, <1>5, <1>10, <1>11 DEF len

(* The same for a sequence given as a function.                            *)
LEMMA PutIs ==
  ASSUME NEW S, NEW n \in Nat, NEW s \in [1 .. n -> S], NEW t \in S, NEW k \in 0 .. n
  PROVE  Put(s, k, t) = [j \in 1 .. n + 1 |-> IF j <= k THEN s[j] ELSE IF j = k + 1 THEN t ELSE s[j - 1]]
<1>1. s \in Seq(S) /\ Len(s) = n
  <2>1. s \in Seq(S)
    BY SeqDef
  <2>2. Len(s) \in Nat /\ DOMAIN s = 1 .. Len(s)
    BY <2>1, LenProperties
  <2> QED BY <2>1, <2>2, SMT
<1>2. \A r \in Seq(S) : \A m \in 0 .. Len(r) :
         /\ Put(r, m, t) \in Seq(S) /\ Len(Put(r, m, t)) = Len(r) + 1
         /\ \A j \in 1 .. Len(r) + 1 :
               Put(r, m, t)[j] = IF j <= m THEN r[j] ELSE IF j = m + 1 THEN t ELSE r[j - 1]
  BY PutParts
<1> DEFINE p == Put(s, k, t)
<1>3. /\ p \in Seq(S) /\ Len(p) = n + 1
      /\ \A j \in 1 .. n + 1 : p[j] = IF j <= k THEN s[j] ELSE IF j = k + 1 THEN t ELSE s[j - 1]
  BY <1>1, <1>2, Zenon
<1> HIDE DEF p
<1>4. p \in [1 .. Len(p) -> S]
  BY <1>3, LenProperties
<1> QED BY <1>3, <1>4 DEF p

LEMMA CutIs ==
  ASSUME NEW S, NEW n \in Nat, NEW s \in [1 .. n -> S], NEW k \in 1 .. n
  PROVE  Cut(s, k) = [j \in 1 .. n - 1 |-> IF j < k THEN s[j] ELSE s[j + 1]]
<1>1. s \in Seq(S) /\ Len(s) = n
  <2>1. s \in Seq(S)
    BY SeqDef
  <2>2. Len(s) \in Nat /\ DOMAIN s = 1 .. Len(s)
    BY <2>1, LenProperties
  <2> QED BY <2>1, <2>2, SMT
<1>2. \A r \in Seq(S) : \A m \in 1 .. Len(r) :
         /\ Cut(r, m) \in Seq(S) /\ Len(Cut(r, m)) = Len(r) - 1
         /\ \A j \in 1 .. Len(r) - 1 : Cut(r, m)[j] = IF j < m THEN r[j] ELSE r[j + 1]
  BY CutParts
<1> DEFINE p == Cut(s, k)
<1>3. /\ p \in Seq(S) /\ Len(p) = n - 1
      /\ \A j \in 1 .. n - 1 : p[j] = IF j < k THEN s[j] ELSE s[j + 1]
  BY <1>1, <1>2, Zenon
<1> HIDE DEF p
<1>4. p \in [1 .. Len(p) -> S]
  BY <1>3, LenProperties
<1> QED BY <1>3, <1>4 DEF p
=============================================================================
