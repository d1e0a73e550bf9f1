---------------------------- MODULE TimersProofs ----------------------------
(* Proofs about Timers, for any timers, periods, word and nesting.         *)
EXTENDS TimersInv, Lemmas

LEMMA ParamFacts ==
    /\ Word \in Nat /\ Word > 0 /\ MaxDelay \in Nat
    /\ \A t \in Timer : Period[t] \in Nat /\ Period[t] > 0 /\ Period[t] < Word
    /\ MaxStart \in Nat /\ MaxTime \in Nat
    /\ MaxLag \in Nat /\ MaxLag > 0 /\ MaxLag < Word
  BY TimerParams, SMT DEF TimerParams, MaxDelay

LEMMA TickFacts ==
    ASSUME NEW a \in Nat
    PROVE  Tick(a) \in Nat /\ Tick(a) <= MaxDelay
  BY ParamFacts, SMT DEF Tick, MaxDelay

-----------------------------------------------------------------------------
(* Lists of timers                                                         *)

LEMMA ListParts ==
    ASSUME NEW list \in Seq(Timer)
    PROVE  /\ Len(list) \in Nat /\ DOMAIN list = 1 .. Len(list)
           /\ \A k \in 1 .. Len(list) : list[k] \in Timer
           /\ Range(list) \subseteq Timer
           /\ Range(list) = {list[k] : k \in 1 .. Len(list)}
<1>1. Len(list) \in Nat /\ DOMAIN list = 1 .. Len(list) /\ list \in [1 .. Len(list) -> Timer]
  BY LenProperties
<1> QED BY <1>1 DEF Range

\* Where InsertItem puts a timer: its scan comes to an end, ...
LEMMA WithPlace ==
    ASSUME NEW list \in Seq(Timer), NEW t \in Timer, NEW exp \in [Timer -> Nat]
    PROVE  \E n \in 0 .. Len(list) :
              /\ With(list, t, exp) = SubSeq(list, 1, n) \o <<t>> \o SubSeq(list, n + 1, Len(list))
              /\ \A j \in 1 .. n : Tick(exp[list[j]]) <= Tick(exp[t])
              /\ n < Len(list) => Tick(exp[t]) <= Tick(exp[list[n + 1]])
<1> DEFINE len == Len(list)
           v == Tick(exp[t])
           below(j) == Tick(exp[list[j]]) < v
           stops(n) == (\A j \in 1 .. n : below(j)) /\ (n < len => ~below(n + 1))
           place == IF v = MaxDelay THEN len ELSE CHOOSE n \in 0 .. len : stops(n)
<1>1. len \in Nat /\ \A j \in 1 .. len : list[j] \in Timer
  BY ListParts
<1>2. v \in Nat /\ v <= MaxDelay /\ MaxDelay \in Nat
  BY TickFacts, ParamFacts
<1>3. \A j \in 1 .. len : Tick(exp[list[j]]) \in Nat /\ Tick(exp[list[j]]) <= MaxDelay
  BY <1>1, TickFacts
<1>4. With(list, t, exp) = SubSeq(list, 1, place) \o <<t>> \o SubSeq(list, place + 1, len)
  BY DEF With
<1>5. CASE v = MaxDelay
  <2>1. place = len /\ len \in 0 .. len /\ ~(len < len)
    BY <1>1, <1>5, SMT
  <2>2. \A j \in 1 .. len : Tick(exp[list[j]]) <= v
    BY <1>3, <1>5
  <2> HIDE DEF v, place
  <2>3. With(list, t, exp) = SubSeq(list, 1, len) \o <<t>> \o SubSeq(list, len + 1, len)
    BY <1>4, <2>1
  <2> QED BY <2>1, <2>2, <2>3 DEF v
<1>6. CASE v # MaxDelay
  <2> DEFINE S == {n \in 0 .. len : n < len => ~below(n + 1)}
  <2>1. len \in S /\ S \in SUBSET Nat
    BY <1>1, SMT
  <2>2. PICK m \in S : \A k \in S : m <= k
    BY <2>1, Least
  <2>3. \A j \in 1 .. m : below(j)
    <3> SUFFICES ASSUME NEW j \in 1 .. m, ~below(j) PROVE FALSE
      OBVIOUS
    <3> HIDE DEF below
    <3>1. j - 1 \in 0 .. len /\ (j - 1) + 1 = j /\ j - 1 < m
      BY <1>1, <2>2, SMT
    <3>2. j - 1 \in S
      BY <3>1
    <3>3. m <= j - 1
      BY <2>2, <3>2
    <3>4. m \in Nat /\ j \in Nat
      BY <2>1, <2>2, SMT
    <3> HIDE DEF S
    <3> QED BY <3>1, <3>3, <3>4, SMT
  <2>4. m \in 0 .. len /\ stops(m)
    BY <2>2, <2>3
  <2> HIDE DEF stops
  <2>5. place \in 0 .. len /\ stops(place)
    BY <1>6, <2>4
  <2> HIDE DEF place
  <2>6. \A j \in 1 .. place : j \in 1 .. len /\ below(j)
    BY <1>1, <2>5, SMT DEF stops
  <2>7. \A j \in 1 .. place : Tick(exp[list[j]]) <= v
    <3> HIDE DEF v
    <3> QED BY <1>2, <1>3, <2>6, SMT
  <2>8. ASSUME place < len PROVE v <= Tick(exp[list[place + 1]])
    <3>1. place + 1 \in 1 .. len /\ ~below(place + 1)
      BY <1>1, <2>5, <2>8, SMT DEF stops
    <3> HIDE DEF v
    <3> QED BY <1>2, <1>3, <3>1, SMT
  <2> QED BY <1>4, <2>5, <2>7, <2>8
<1> QED BY <1>5, <1>6

\* ... and what the list is then.
LEMMA WithFacts ==
    ASSUME NEW list \in Seq(Timer), NEW t \in Timer, NEW exp \in [Timer -> Nat]
    PROVE  /\ With(list, t, exp) \in Seq(Timer)
           /\ Range(With(list, t, exp)) = Range(list) \cup {t}
           /\ IsInjective(list) /\ t \notin Range(list) => IsInjective(With(list, t, exp))
           /\ Ascends(list, exp) => Ascends(With(list, t, exp), exp)
<1> DEFINE len == Len(list)
           p == With(list, t, exp)
           old(k, n) == IF k <= n THEN k ELSE k - 1
<1>1. PICK n \in 0 .. len :
         /\ p = SubSeq(list, 1, n) \o <<t>> \o SubSeq(list, n + 1, len)
         /\ \A j \in 1 .. n : Tick(exp[list[j]]) <= Tick(exp[t])
         /\ n < len => Tick(exp[t]) <= Tick(exp[list[n + 1]])
  BY WithPlace
<1>2. /\ p \in Seq(Timer) /\ Len(p) = len + 1
      /\ \A k \in 1 .. n : p[k] = list[k]
      /\ p[n + 1] = t
      /\ \A k \in n + 2 .. len + 1 : p[k] = list[k - 1]
  <2> HIDE DEF p
  <2>1. p = Put(list, n, t)
    BY <1>1 DEF Put
  <2>2. /\ Put(list, n, t) \in Seq(Timer) /\ Len(Put(list, n, t)) = len + 1
        /\ \A k \in 1 .. len + 1 :
              Put(list, n, t)[k] = IF k <= n THEN list[k] ELSE IF k = n + 1 THEN t ELSE list[k - 1]
    BY PutParts
  <2>3. len \in Nat /\ n \in 0 .. len
    BY ListParts
  <2> HIDE DEF len
  <2> QED BY <2>1, <2>2, <2>3, SMT
<1>3. /\ len \in Nat /\ n \in Nat /\ n <= len /\ DOMAIN list = 1 .. len /\ DOMAIN p = 1 .. len + 1
      /\ \A k \in 1 .. len : list[k] \in Timer
  <2>1. DOMAIN p = 1 .. Len(p)
    BY <1>2, ListParts
  <2> QED BY <1>2, <2>1, ListParts, SMT
<1> HIDE DEF p, len
<1>4. \A k \in 1 .. len + 1 : k # n + 1 => old(k, n) \in 1 .. len /\ p[k] = list[old(k, n)]
  <2>1. ASSUME NEW k \in 1 .. len + 1, k # n + 1, k <= n PROVE k \in 1 .. len /\ k \in 1 .. n
    BY <1>3, <2>1, SMT
  <2>2. ASSUME NEW k \in 1 .. len + 1, k # n + 1, ~(k <= n)
        PROVE  k - 1 \in 1 .. len /\ k \in n + 2 .. len + 1
    BY <1>3, <2>2, SMT
  <2> QED BY <1>2, <2>1, <2>2
<1>5. \A k \in 1 .. len : \E j \in 1 .. len + 1 : p[j] = list[k]
  <2> TAKE k \in 1 .. len
  <2>1. CASE k <= n
    BY <1>2, <1>3, <2>1, SMT
  <2>2. CASE ~(k <= n)
    <3>1. k + 1 \in n + 2 .. len + 1 /\ k + 1 \in 1 .. len + 1 /\ (k + 1) - 1 = k
      BY <1>3, <2>2, SMT
    <3> QED BY <1>2, <3>1
  <2> QED BY <2>1, <2>2
<1>6. n + 1 \in 1 .. len + 1
  BY <1>3, SMT
<1>7. Range(p) = Range(list) \cup {t}
  <2> HIDE DEF old
  <2>1. \A x : x \in Range(p) <=> \E k \in 1 .. len + 1 : x = p[k]
    BY <1>3 DEF Range
  <2>2. \A x : x \in Range(list) <=> \E k \in 1 .. len : x = list[k]
    BY <1>3 DEF Range
  <2>3. \A x \in Range(p) : x \in Range(list) \cup {t}
    <3>1. \A k \in 1 .. len + 1 : k # n + 1 => p[k] \in Range(list)
      BY <1>4, <2>2
    <3> QED BY <1>2, <2>1, <3>1
  <2>4. \A x \in Range(list) : x \in Range(p)
    BY <1>5, <2>1, <2>2
  <2>5. t \in Range(p)
    BY <1>2, <1>6, <2>1
  <2> QED BY <2>3, <2>4, <2>5
<1>8. ASSUME IsInjective(list), t \notin Range(list) PROVE IsInjective(p)
  <2> SUFFICES ASSUME NEW j \in 1 .. len + 1, NEW k \in 1 .. len + 1, p[j] = p[k] PROVE j = k
    BY <1>3 DEF IsInjective
  <2>1. \A i \in 1 .. len : list[i] # t
    BY <1>3, <1>8 DEF Range
  <2>2. CASE j = n + 1 \/ k = n + 1
    <3> HIDE DEF old
    <3>1. \A i \in 1 .. len + 1 : i # n + 1 => p[i] # t
      BY <1>4, <2>1
    <3> QED BY <1>2, <2>2, <3>1
  <2>3. CASE j # n + 1 /\ k # n + 1
    <3>1. old(j, n) = old(k, n)
      BY <1>3, <1>4, <1>8, <2>3, Zenon DEF IsInjective
    <3> QED BY <1>3, <2>3, <3>1, SMT
  <2> QED BY <2>2, <2>3
<1>9. ASSUME Ascends(list, exp) PROVE Ascends(p, exp)
  <2> DEFINE tick(u) == Tick(exp[u])
  <2>1. \A u \in Timer : tick(u) \in Nat
    BY TickFacts
  <2>2. \A i, k \in 1 .. len : i <= k => tick(list[i]) <= tick(list[k])
    <3>1. \A i \in 1 .. len : tick(list[i]) \in Nat
      BY <1>3, <2>1
    <3>2. \A i, k \in 1 .. len : i < k => tick(list[i]) <= tick(list[k])
      BY <1>3, <1>9 DEF Ascends
    <3> HIDE DEF tick
    <3> QED BY <1>3, <3>1, <3>2, SMT
  <2>3. \A i \in 1 .. n : tick(list[i]) <= tick(t)
    BY <1>1
  <2>4. \A k \in n + 1 .. len : tick(t) <= tick(list[k])
    <3> TAKE k \in n + 1 .. len
    <3>1. n < len /\ n + 1 \in 1 .. len /\ k \in 1 .. len /\ n + 1 <= k
      BY <1>3, SMT
    <3>2. tick(t) <= tick(list[n + 1]) /\ tick(list[n + 1]) <= tick(list[k])
      BY <1>1, <2>2, <3>1
    <3>3. tick(t) \in Nat /\ tick(list[n + 1]) \in Nat /\ tick(list[k]) \in Nat
      BY <1>3, <2>1, <3>1
    <3> HIDE DEF tick
    <3> QED BY <3>2, <3>3, SMT
  <2> SUFFICES ASSUME NEW j \in 1 .. len + 1, NEW k \in 1 .. len + 1, j < k
               PROVE  tick(p[j]) <= tick(p[k])
    BY <1>3 DEF Ascends
  <2> HIDE DEF tick
  <2>5. CASE j = n + 1
    <3>1. k # n + 1 /\ old(k, n) \in n + 1 .. len
      BY <1>3, <2>5, SMT
    <3> QED BY <1>2, <1>4, <2>4, <2>5, <3>1
  <2>6. CASE k = n + 1
    <3>1. j # n + 1 /\ old(j, n) \in 1 .. n
      BY <1>3, <2>6, SMT
    <3> QED BY <1>2, <1>4, <2>3, <2>6, <3>1
  <2>7. CASE j # n + 1 /\ k # n + 1
    <3>1. old(j, n) <= old(k, n)
      BY <1>3, <2>7, SMT
    <3> QED BY <1>4, <2>2, <2>7, <3>1
  <2> QED BY <2>5, <2>6, <2>7
<1> QED BY <1>2, <1>7, <1>8, <1>9 DEF p

\* A list without the item at place n.
LEMMA DropFacts ==
    ASSUME NEW list \in Seq(Timer), NEW n \in 1 .. Len(list), NEW p \in Seq(Timer),
           Len(p) = Len(list) - 1,
           \A k \in 1 .. n - 1 : p[k] = list[k],
           \A k \in n .. Len(list) - 1 : p[k] = list[k + 1],
           IsInjective(list)
    PROVE  /\ Range(p) = Range(list) \ {list[n]}
           /\ IsInjective(p)
           /\ \A exp \in [Timer -> Nat] : Ascends(list, exp) => Ascends(p, exp)
<1> DEFINE len == Len(list)
           old(k) == IF k < n THEN k ELSE k + 1
<1>1. /\ len \in Nat /\ n \in Nat /\ 1 <= n /\ n <= len
      /\ DOMAIN list = 1 .. len /\ DOMAIN p = 1 .. len - 1
  <2>1. DOMAIN p = 1 .. Len(p)
    BY ListParts
  <2> QED BY <2>1, ListParts, SMT
<1>2. \A k \in 1 .. len - 1 : old(k) \in 1 .. len /\ old(k) # n /\ p[k] = list[old(k)]
  <2>1. ASSUME NEW k \in 1 .. len - 1, k < n PROVE k \in 1 .. len /\ k # n /\ k \in 1 .. n - 1
    BY <1>1, <2>1, SMT
  <2>2. ASSUME NEW k \in 1 .. len - 1, ~(k < n)
        PROVE  k + 1 \in 1 .. len /\ k + 1 # n /\ k \in n .. len - 1
    BY <1>1, <2>2, SMT
  <2> QED BY <2>1, <2>2
<1>3. \A j, k \in 1 .. len - 1 : j < k => old(j) < old(k)
  BY <1>1, SMT
<1>4. \A k \in 1 .. len : k # n => \E j \in 1 .. len - 1 : p[j] = list[k]
  <2> TAKE k \in 1 .. len
  <2> HAVE k # n
  <2>1. CASE k < n
    BY <1>1, <2>1, SMT
  <2>2. CASE ~(k < n)
    <3>1. k - 1 \in n .. len - 1 /\ k - 1 \in 1 .. len - 1 /\ (k - 1) + 1 = k
      BY <1>1, <2>2, SMT
    <3> QED BY <3>1
  <2> QED BY <2>1, <2>2
<1>5. \A j, k \in 1 .. len : list[j] = list[k] => j = k
  BY <1>1 DEF IsInjective
<1> HIDE DEF len, old
<1>6. Range(p) = Range(list) \ {list[n]}
  <2>1. \A x : x \in Range(p) <=> \E k \in 1 .. len - 1 : x = p[k]
    BY <1>1 DEF Range
  <2>2. \A x : x \in Range(list) <=> \E k \in 1 .. len : x = list[k]
    BY <1>1 DEF Range
  <2>3. n \in 1 .. len
    BY <1>1, SMT
  <2>4. \A k \in 1 .. len - 1 : p[k] \in Range(list) /\ p[k] # list[n]
    BY <1>2, <1>5, <2>2, <2>3
  <2>5. \A x \in Range(p) : x \in Range(list) \ {list[n]}
    BY <2>1, <2>4
  <2>6. \A x \in Range(list) \ {list[n]} : x \in Range(p)
    BY <1>4, <2>1, <2>2
  <2> QED BY <2>5, <2>6
<1>7. IsInjective(p)
  <2> SUFFICES ASSUME NEW j \in 1 .. len - 1, NEW k \in 1 .. len - 1, p[j] = p[k] PROVE j = k
    BY <1>1 DEF IsInjective
  <2>1. old(j) = old(k)
    BY <1>2, <1>5
  <2> QED BY <1>1, <2>1, SMT DEF old
<1>8. ASSUME NEW exp \in [Timer -> Nat], Ascends(list, exp) PROVE Ascends(p, exp)
  <2> SUFFICES ASSUME NEW j \in 1 .. len - 1, NEW k \in 1 .. len - 1, j < k
               PROVE  Tick(exp[p[j]]) <= Tick(exp[p[k]])
    BY <1>1 DEF Ascends
  <2>1. old(j) \in 1 .. len /\ old(k) \in 1 .. len /\ old(j) < old(k)
    BY <1>2, <1>3
  <2>2. Tick(exp[list[old(j)]]) <= Tick(exp[list[old(k)]])
    BY <1>1, <1>8, <2>1 DEF Ascends
  <2> QED BY <1>2, <2>2
<1> QED BY <1>6, <1>7, <1>8

LEMMA WithoutFacts ==
    ASSUME NEW list \in Seq(Timer), NEW t, IsInjective(list)
    PROVE  /\ Without(list, t) \in Seq(Timer)
           /\ Range(Without(list, t)) = Range(list) \ {t}
           /\ IsInjective(Without(list, t))
           /\ \A exp \in [Timer -> Nat] : Ascends(list, exp) => Ascends(Without(list, t), exp)
<1>1. Len(list) \in Nat /\ DOMAIN list = 1 .. Len(list)
  BY ListParts
<1>2. CASE t \in Range(list)
  <2>1. \E k \in DOMAIN list : list[k] = t
    BY <1>2 DEF Range
  <2> DEFINE n == CHOOSE k \in DOMAIN list : list[k] = t
             p == SubSeq(list, 1, n - 1) \o SubSeq(list, n + 1, Len(list))
  <2>2. n \in DOMAIN list /\ list[n] = t
    BY <2>1
  <2>3. Without(list, t) = p
    BY <2>1 DEF Without
  <2> HIDE DEF n
  <2>4. n \in 1 .. Len(list)
    BY <1>1, <2>2
  <2>5. /\ p \in Seq(Timer) /\ Len(p) = Len(list) - 1
        /\ \A k \in 1 .. n - 1 : p[k] = list[k]
        /\ \A k \in n .. Len(list) - 1 : p[k] = list[k + 1]
    <3>1. /\ Cut(list, n) \in Seq(Timer) /\ Len(Cut(list, n)) = Len(list) - 1
          /\ \A k \in 1 .. Len(list) - 1 : Cut(list, n)[k] = IF k < n THEN list[k] ELSE list[k + 1]
      BY <2>4, CutParts
    <3>2. p = Cut(list, n)
      BY DEF Cut
    <3>3. Len(list) \in Nat
      BY ListParts
    <3> HIDE DEF p
    <3> QED BY <2>4, <3>1, <3>2, <3>3, SMT
  <2> HIDE DEF p
  <2> QED BY <2>2, <2>3, <2>4, <2>5, DropFacts
<1>3. CASE t \notin Range(list)
  <2>1. Without(list, t) = list
    BY <1>3 DEF Without, Range
  <2> QED BY <1>3, <2>1
<1> QED BY <1>2, <1>3

LEMMA TailFacts ==
    ASSUME NEW list \in Seq(Timer), list # <<>>, IsInjective(list)
    PROVE  /\ Head(list) \in Range(list) /\ Head(list) \in Timer
           /\ Tail(list) \in Seq(Timer)
           /\ Range(Tail(list)) = Range(list) \ {Head(list)}
           /\ IsInjective(Tail(list))
           /\ \A exp \in [Timer -> Nat] : Ascends(list, exp) => Ascends(Tail(list), exp)
<1>1. Len(list) \in Nat \ {0} /\ DOMAIN list = 1 .. Len(list)
  BY EmptySeq, ListParts
<1>2. /\ Head(list) = list[1] /\ Tail(list) \in Seq(Timer) /\ Len(Tail(list)) = Len(list) - 1
      /\ \A k \in 1 .. Len(list) - 1 : Tail(list)[k] = list[k + 1]
  BY HeadTailProperties
<1>3. 1 \in 1 .. Len(list) /\ 1 .. 1 - 1 = {}
  BY <1>1, SMT
<1>4. /\ Range(Tail(list)) = Range(list) \ {list[1]}
      /\ IsInjective(Tail(list))
      /\ \A exp \in [Timer -> Nat] : Ascends(list, exp) => Ascends(Tail(list), exp)
  <2> DEFINE p == Tail(list)
  <2>1. p \in Seq(Timer) /\ Len(p) = Len(list) - 1 /\ \A k \in 1 .. Len(list) - 1 : p[k] = list[k + 1]
    BY <1>2
  <2>2. \A k \in 1 .. 1 - 1 : p[k] = list[k]
    BY <1>3
  <2> HIDE DEF p
  <2>3. /\ Range(p) = Range(list) \ {list[1]}
        /\ IsInjective(p)
        /\ \A exp \in [Timer -> Nat] : Ascends(list, exp) => Ascends(p, exp)
    BY <1>3, <2>1, <2>2, DropFacts
  <2> QED BY <2>3 DEF p
<1>5. list[1] \in Range(list) /\ list[1] \in Timer
  BY <1>1, <1>3, ListParts DEF Range
<1> QED BY <1>2, <1>4, <1>5

\* Setting the value of a timer that is not in a list leaves it in order.
LEMMA AscendsExcept ==
    ASSUME NEW list \in Seq(Timer), NEW exp \in [Timer -> Nat], NEW t, t \notin Range(list),
           NEW e \in Nat, Ascends(list, exp)
    PROVE  Ascends(list, [exp EXCEPT ![t] = e])
<1>1. \A k \in DOMAIN list : list[k] \in Timer /\ list[k] # t
  BY ListParts DEF Range
<1>2. \A k \in DOMAIN list : [exp EXCEPT ![t] = e][list[k]] = exp[list[k]]
  BY <1>1
<1> QED BY <1>2 DEF Ascends

-----------------------------------------------------------------------------
(* Stacks of calls                                                         *)

LEMMA FrameFacts ==
    ASSUME NEW f \in Frames
    PROVE  /\ f.at \in {"start", "command", "insert", "switch", "expired"}
           /\ f.at \in {"start", "command", "insert"} => f \in StartFrames /\ f.timer \in Timer
           /\ f.at = "switch" => f \in SwitchFrames
           /\ f.at = "expired" => f \in ExpiredFrames
  BY DEF Frames, StartFrames, SwitchFrames, ExpiredFrames

LEMMA CallsParts ==
    ASSUME NEW calls \in Seq(Frames)
    PROVE  /\ Len(calls) \in Nat /\ DOMAIN calls = 1 .. Len(calls)
           /\ \A k \in 1 .. Len(calls) : calls[k] \in Frames
           /\ calls # <<>> =>
                 /\ Len(calls) > 0 /\ Head(calls) = calls[1] /\ calls[1] \in Frames
                 /\ Tail(calls) \in Seq(Frames) /\ Len(Tail(calls)) = Len(calls) - 1
                 /\ \A k \in 1 .. Len(calls) - 1 : Tail(calls)[k] = calls[k + 1]
           /\ Len(calls) = 0 => calls = <<>>
<1>1. Len(calls) \in Nat /\ calls \in [1 .. Len(calls) -> Frames] /\ DOMAIN calls = 1 .. Len(calls)
  BY LenProperties
<1>2. calls # <<>> => Len(calls) \in Nat \ {0}
  BY EmptySeq
<1>3. ASSUME calls # <<>>
      PROVE  /\ Head(calls) = calls[1]
             /\ Tail(calls) \in Seq(Frames) /\ Len(Tail(calls)) = Len(calls) - 1
             /\ \A k \in 1 .. Len(calls) - 1 : Tail(calls)[k] = calls[k + 1]
  BY <1>3, HeadTailProperties
<1>4. calls # <<>> => 1 \in 1 .. Len(calls) /\ Len(calls) > 0
  BY <1>2, SMT
<1> QED BY <1>1, <1>2, <1>3, <1>4

LEMMA PushParts ==
    ASSUME NEW calls \in Seq(Frames), NEW f \in Frames
    PROVE  LET q == <<f>> \o calls
           IN /\ q \in Seq(Frames) /\ Len(q) = Len(calls) + 1
              /\ q[1] = f
              /\ \A k \in 2 .. Len(calls) + 1 : q[k] = calls[k - 1]
<1> DEFINE one == <<f>>
           q == one \o calls
<1>1. one \in Seq(Frames) /\ Len(one) = 1 /\ one[1] = f
  BY SMT
<1>2. /\ q \in Seq(Frames) /\ Len(q) = Len(one) + Len(calls)
      /\ \A k \in 1 .. Len(one) + Len(calls) : q[k] = IF k <= Len(one) THEN one[k] ELSE calls[k - Len(one)]
  <2> HIDE DEF one
  <2> QED BY <1>1, ConcatProperties
<1>3. Len(calls) \in Nat
  BY CallsParts
<1> HIDE DEF one, q
<1>4. Len(q) = Len(calls) + 1 /\ q[1] = one[1] /\ \A k \in 2 .. Len(calls) + 1 : q[k] = calls[k - 1]
  BY <1>1, <1>2, <1>3, SMT
<1> QED BY <1>1, <1>2, <1>4 DEF q, one

LEMMA ResumeParts ==
    ASSUME NEW calls \in Seq(Frames), calls # <<>>, calls[1].at \in {"start", "command"},
           NEW now \in Nat
    PROVE  LET r == Resume(calls, now)
           IN /\ r \in Seq(Frames) /\ Len(r) = Len(calls) /\ r # <<>>
              /\ r[1].timer = calls[1].timer
              /\ calls[1].at = "start" => r[1].at = "command" /\ r[1].command = now
              /\ calls[1].at = "command" =>
                    r[1].at = "insert" /\ r[1].command = calls[1].command /\ r[1].now = now
              /\ \A k \in 2 .. Len(calls) : r[k] = calls[k]
<1> DEFINE f == calls[1]
           g == IF f.at = "start" THEN [f EXCEPT !.at = "command", !.command = now]
                                  ELSE [f EXCEPT !.at = "insert", !.now = now]
           r == <<g>> \o Tail(calls)
<1>1. /\ Len(calls) \in Nat /\ Len(calls) > 0 /\ Head(calls) = f /\ f \in Frames
      /\ Tail(calls) \in Seq(Frames) /\ Len(Tail(calls)) = Len(calls) - 1
      /\ \A k \in 1 .. Len(calls) - 1 : Tail(calls)[k] = calls[k + 1]
  BY CallsParts
<1>2. f \in StartFrames
  BY <1>1, FrameFacts
<1>3. /\ g \in StartFrames /\ g.timer = f.timer
      /\ f.at = "start" => g.at = "command" /\ g.command = now
      /\ f.at = "command" => g.at = "insert" /\ g.command = f.command /\ g.now = now
  BY <1>2 DEF StartFrames
<1>4. g \in Frames
  BY <1>3 DEF Frames
<1>5. Resume(calls, now) = r
  BY <1>1 DEF Resume
<1> HIDE DEF g
<1>6. /\ r \in Seq(Frames) /\ Len(r) = Len(Tail(calls)) + 1
      /\ r[1] = g
      /\ \A k \in 2 .. Len(Tail(calls)) + 1 : r[k] = Tail(calls)[k - 1]
  BY <1>1, <1>4, PushParts
<1> HIDE DEF r
<1>7. \A k \in 2 .. Len(calls) : k - 1 \in 1 .. Len(calls) - 1 /\ (k - 1) + 1 = k /\ k \in 2 .. Len(Tail(calls)) + 1
  BY <1>1, SMT
<1>8. \A k \in 2 .. Len(calls) : r[k] = calls[k]
  BY <1>1, <1>6, <1>7
<1>9. Len(r) = Len(calls) /\ r # <<>>
  <2>1. Len(r) = Len(calls)
    BY <1>1, <1>6, SMT
  <2>2. Len(<<>>) = 0
    BY EmptySeq
  <2> QED BY <1>1, <2>1, <2>2, SMT
<1> QED BY <1>3, <1>5, <1>6, <1>8, <1>9

\* The calls that hold a timer in q held it in calls, d places away, ...
Carries(calls, q, d) ==
    \A k \in 1 .. Len(q) : Holds(q, k) =>
        k + d \in 1 .. Len(calls) /\ Holds(calls, k + d) /\ q[k].timer = calls[k + d].timer

\* ... or the i-th call of q is the one that holds t.
Adds(calls, q, d, i, t) ==
    \A k \in 1 .. Len(q) : Holds(q, k) =>
        \/ k = i /\ q[k].timer = t
        \/ k + d \in 1 .. Len(calls) /\ Holds(calls, k + d) /\ q[k].timer = calls[k + d].timer

LEMMA HeldSame ==
    ASSUME NEW calls \in Seq(Frames), NEW q \in Seq(Frames), NEW d \in Int,
           HeldOnce(calls), Carries(calls, q, d)
    PROVE  HeldOnce(q) /\ Held(q) \subseteq Held(calls)
<1>1. ASSUME NEW j \in 1 .. Len(q), NEW k \in 1 .. Len(q), Holds(q, j), Holds(q, k), q[j].timer = q[k].timer
      PROVE  j = k
  <2>1. j + d = k + d
    BY <1>1 DEF HeldOnce, Carries
  <2>2. Len(q) \in Nat
    BY CallsParts
  <2> QED BY <2>1, <2>2, SMT
<1>2. \A k \in 1 .. Len(q) : Holds(q, k) => q[k].timer \in Held(calls)
  BY DEF Held, Carries
<1> QED BY <1>1, <1>2 DEF HeldOnce, Held

LEMMA HeldMore ==
    ASSUME NEW calls \in Seq(Frames), NEW q \in Seq(Frames), NEW d \in Int, NEW i, NEW t,
           HeldOnce(calls), t \notin Held(calls), Adds(calls, q, d, i, t)
    PROVE  HeldOnce(q) /\ Held(q) \subseteq Held(calls) \cup {t}
<1> DEFINE Old(k) == k + d \in 1 .. Len(calls) /\ Holds(calls, k + d) /\ q[k].timer = calls[k + d].timer
<1>1. \A k \in 1 .. Len(q) : Old(k) => q[k].timer \in Held(calls)
  BY DEF Held
<1>2. ASSUME NEW j \in 1 .. Len(q), NEW k \in 1 .. Len(q), Holds(q, j), Holds(q, k), q[j].timer = q[k].timer
      PROVE  j = k
  <2>1. (j = i /\ q[j].timer = t) \/ Old(j)
    BY <1>2 DEF Adds
  <2>2. (k = i /\ q[k].timer = t) \/ Old(k)
    BY <1>2 DEF Adds
  <2>3. CASE Old(j) /\ Old(k)
    <3>1. j + d = k + d
      BY <1>2, <2>3 DEF HeldOnce
    <3>2. Len(q) \in Nat
      BY CallsParts
    <3> QED BY <3>1, <3>2, SMT
  <2> HIDE DEF Old
  <2> QED BY <1>1, <1>2, <2>1, <2>2, <2>3
<1>3. \A k \in 1 .. Len(q) : Holds(q, k) => q[k].timer \in Held(calls) \cup {t}
  BY <1>1 DEF Adds
<1> QED BY <1>2, <1>3 DEF HeldOnce, Held

\* What prvInsertTimerInActiveList leaves when it returns.
LEMMA PopInsert ==
    ASSUME NEW calls \in Seq(Frames), calls # <<>>, calls[1].at = "insert",
           Nested(calls), HeldOnce(calls)
    PROVE  /\ Tail(calls) \in Seq(Frames) /\ Nested(Tail(calls)) /\ HeldOnce(Tail(calls))
           /\ calls[1].timer \in Held(calls)
           /\ Held(Tail(calls)) \subseteq Held(calls) \ {calls[1].timer}
<1> DEFINE len == Len(calls)
           q == Tail(calls)
<1>1. /\ len \in Nat /\ len > 0
      /\ q \in Seq(Frames) /\ Len(q) = len - 1
      /\ \A k \in 1 .. len - 1 : q[k] = calls[k + 1]
  BY CallsParts
<1> HIDE DEF q, len
<1>2. \A k \in 1 .. len - 1 : k + 1 \in 1 .. len /\ k + 1 # 1
  BY <1>1, SMT
<1>3. \A k \in 1 .. len - 1 : q[k].at # "insert"
  BY <1>1, <1>2 DEF Nested, len
<1>4. \A k \in 1 .. len - 1 : q[k].at = "expired" => k = len - 1
  <2> TAKE k \in 1 .. len - 1
  <2> HAVE q[k].at = "expired"
  <2>1. k + 1 = len
    BY <1>1, <1>2 DEF Nested, len
  <2> QED BY <1>1, <2>1, SMT
<1>5. \A k \in 1 .. len - 1 - 1 : q[k].at = "switch" <=> q[k + 1].at \in {"start", "command"}
  <2> TAKE k \in 1 .. len - 1 - 1
  <2>1. k \in 1 .. len - 1 /\ k + 1 \in 1 .. len - 1
    BY <1>1, SMT
  <2> QED BY <1>1, <2>1 DEF Nested, len
<1>6. Nested(q)
  BY <1>1, <1>3, <1>4, <1>5 DEF Nested
<1>7. q[1].at \notin {"start", "command"} \/ len = 1
  <2>1. len = 1 \/ 1 \in 1 .. len - 1
    BY <1>1, SMT
  <2>2. 1 \in 1 .. len - 1 => q[1].at \notin {"start", "command"}
    BY <1>1 DEF Nested, len
  <2> QED BY <2>1, <2>2
<1>8. \A k \in 1 .. Len(q) : Holds(q, k) => k + 1 \in 1 .. len /\ Holds(calls, k + 1) /\ q[k].timer = calls[k + 1].timer
  <2> TAKE k \in 1 .. Len(q)
  <2>1. k \in 1 .. len - 1 /\ q[k] = calls[k + 1] /\ k + 1 \in 1 .. len /\ 1 < k + 1
    BY <1>1, <1>2, SMT
  <2>2. k < Len(q) => k + 1 < len
    BY <1>1, <2>1, SMT
  <2> QED BY <2>1, <2>2 DEF Holds, len
<1>9. HeldOnce(q) /\ Held(q) \subseteq Held(calls)
  <2>1. Carries(calls, q, 1)
    BY <1>8 DEF Carries, len
  <2> QED BY <1>1, <2>1, HeldSame
<1>10. 1 \in 1 .. len /\ Holds(calls, 1)
  BY <1>1, SMT DEF Holds
<1>11. calls[1].timer \in Held(calls)
  BY <1>10 DEF Held, len
<1>12. calls[1].timer \notin Held(q)
  <2> SUFFICES ASSUME NEW k \in 1 .. Len(q), Holds(q, k), q[k].timer = calls[1].timer PROVE FALSE
    BY DEF Held
  <2>1. k + 1 = 1
    BY <1>8, <1>10 DEF HeldOnce, len
  <2>2. k \in 1 .. len - 1
    BY <1>1
  <2> QED BY <1>2, <2>1, <2>2
<1> QED BY <1>1, <1>6, <1>9, <1>11, <1>12 DEF q

\* prvSwitchTimerLists calls StartTimer.
LEMMA PushStart ==
    ASSUME NEW calls \in Seq(Frames), calls # <<>>, calls[1].at = "switch",
           Nested(calls), HeldOnce(calls), NEW t \in Timer, t \notin Held(calls)
    PROVE  LET q == <<Start(t)>> \o calls
           IN q \in Seq(Frames) /\ Nested(q) /\ HeldOnce(q) /\ Held(q) \subseteq Held(calls) \cup {t}
<1> DEFINE len == Len(calls)
           q == <<Start(t)>> \o calls
<1>1. Start(t) \in Frames /\ Start(t).at = "start" /\ Start(t).timer = t
  BY DEF Start, Frames, StartFrames
<1>2. /\ len \in Nat /\ len > 0
      /\ q \in Seq(Frames) /\ Len(q) = len + 1
      /\ q[1].at = "start" /\ q[1].timer = t
      /\ \A k \in 2 .. len + 1 : q[k] = calls[k - 1]
  <2> HIDE DEF Start
  <2> QED BY <1>1, CallsParts, PushParts
<1> HIDE DEF q, len
<1>3. \A k \in 1 .. len + 1 : k = 1 \/ (k \in 2 .. len + 1 /\ k - 1 \in 1 .. len)
  BY <1>2, SMT
<1>4. \A k \in 1 .. len + 1 : q[k].at # "insert"
  <2> SUFFICES ASSUME NEW k \in 2 .. len + 1, calls[k - 1].at = "insert" PROVE FALSE
    BY <1>2, <1>3
  <2>1. k - 1 = 1
    BY <1>3 DEF Nested, len
  <2> QED BY <2>1
<1>5. \A k \in 1 .. len + 1 : q[k].at = "expired" => k = len + 1
  <2> SUFFICES ASSUME NEW k \in 2 .. len + 1, calls[k - 1].at = "expired" PROVE k = len + 1
    BY <1>2, <1>3
  <2>1. k - 1 \in 1 .. len
    BY <1>2, SMT
  <2>2. k - 1 = len
    BY <2>1 DEF Nested, len
  <2> QED BY <1>2, <2>2, SMT
<1>6. \A k \in 1 .. len : q[k].at = "switch" <=> q[k + 1].at \in {"start", "command"}
  <2> TAKE k \in 1 .. len
  <2>1. k + 1 \in 2 .. len + 1 /\ (k + 1) - 1 = k
    BY <1>2, SMT
  <2>2. q[k + 1] = calls[k]
    BY <1>2, <2>1
  <2>3. CASE k = 1
    BY <1>2, <2>2, <2>3
  <2>4. CASE k # 1
    <3>1. k \in 2 .. len + 1 /\ k - 1 \in 1 .. len - 1 /\ (k - 1) + 1 = k
      BY <1>2, <2>4, SMT
    <3>2. q[k] = calls[k - 1]
      BY <1>2, <3>1
    <3>3. calls[k - 1].at = "switch" <=> calls[(k - 1) + 1].at \in {"start", "command"}
      BY <3>1 DEF Nested, len
    <3> QED BY <2>2, <3>1, <3>2, <3>3
  <2> QED BY <2>3, <2>4
<1>7. Nested(q)
  <2>1. Len(q) - 1 = len
    BY <1>2, SMT
  <2> QED BY <1>2, <1>4, <1>5, <1>6, <2>1 DEF Nested
<1>8. \A k \in 1 .. Len(q) : Holds(q, k) =>
          \/ k = 1 /\ q[k].timer = t
          \/ k + (-1) \in 1 .. len /\ Holds(calls, k + (-1)) /\ q[k].timer = calls[k + (-1)].timer
  <2> TAKE k \in 1 .. Len(q)
  <2>1. CASE k = 1
    BY <1>2, <2>1
  <2>2. CASE k # 1
    <3> DEFINE j == k - 1
    <3>1. k \in 2 .. len + 1 /\ j \in 1 .. len /\ k + (-1) = j /\ (k < Len(q) <=> j < len)
      BY <1>2, <2>2, SMT
    <3>2. q[k] = calls[j]
      BY <1>2, <3>1
    <3>3. calls[j].at = "command" => 1 < j \/ j < len
      <4> SUFFICES ASSUME calls[j].at = "command", ~(1 < j) PROVE FALSE
        OBVIOUS
      <4>1. j = 1
        BY <3>1, SMT
      <4> QED BY <4>1
    <3> HIDE DEF j
    <3> QED BY <3>1, <3>2, <3>3 DEF Holds, len
  <2> QED BY <2>1, <2>2
<1>9. HeldOnce(q) /\ Held(q) \subseteq Held(calls) \cup {t}
  <2>1. Adds(calls, q, -1, 1, t)
    BY <1>8 DEF Adds, len
  <2>2. -1 \in Int
    BY SMT
  <2> QED BY <1>2, <2>1, <2>2, HeldMore
<1> QED BY <1>2, <1>7, <1>9 DEF q

\* The timer that is taken out of the lists at the second reading of StartTimer.
Taken(f) == IF f.at = "command" THEN {f.timer} ELSE {}

\* A reading in StartTimer that calls prvSwitchTimerLists.
LEMMA PushSwitch ==
    ASSUME NEW calls \in Seq(Frames), calls # <<>>, calls[1].at \in {"start", "command"},
           Nested(calls), HeldOnce(calls), NEW now \in Nat
    PROVE  LET q == <<Switch(now)>> \o calls
           IN /\ q \in Seq(Frames) /\ Nested(q) /\ HeldOnce(q)
              /\ Held(q) \subseteq Held(calls) \cup Taken(calls[1])
<1> DEFINE len == Len(calls)
           q == <<Switch(now)>> \o calls
           t == calls[1].timer
<1>1. Switch(now) \in Frames /\ Switch(now).at = "switch"
  BY DEF Switch, Frames, SwitchFrames
<1>2. /\ len \in Nat /\ len > 0
      /\ q \in Seq(Frames) /\ Len(q) = len + 1
      /\ q[1].at = "switch"
      /\ \A k \in 2 .. len + 1 : q[k] = calls[k - 1]
  <2> HIDE DEF Switch
  <2> QED BY <1>1, CallsParts, PushParts
<1> HIDE DEF q, len
<1>3. \A k \in 1 .. len + 1 : k = 1 \/ (k \in 2 .. len + 1 /\ k - 1 \in 1 .. len)
  BY <1>2, SMT
<1>4. \A k \in 1 .. len + 1 : q[k].at # "insert"
  <2> SUFFICES ASSUME NEW k \in 2 .. len + 1, calls[k - 1].at = "insert" PROVE FALSE
    BY <1>2, <1>3
  <2>1. k - 1 = 1
    BY <1>3 DEF Nested, len
  <2> QED BY <2>1
<1>5. \A k \in 1 .. len + 1 : q[k].at = "expired" => k = len + 1
  <2> SUFFICES ASSUME NEW k \in 2 .. len + 1, calls[k - 1].at = "expired" PROVE k = len + 1
    BY <1>2, <1>3
  <2>1. k - 1 \in 1 .. len
    BY <1>2, SMT
  <2>2. k - 1 = len
    BY <2>1 DEF Nested, len
  <2> QED BY <1>2, <2>2, SMT
<1>6. \A k \in 1 .. len : q[k].at = "switch" <=> q[k + 1].at \in {"start", "command"}
  <2> TAKE k \in 1 .. len
  <2>1. k + 1 \in 2 .. len + 1 /\ (k + 1) - 1 = k
    BY <1>2, SMT
  <2>2. q[k + 1] = calls[k]
    BY <1>2, <2>1
  <2>3. CASE k = 1
    BY <1>2, <2>2, <2>3
  <2>4. CASE k # 1
    <3>1. k \in 2 .. len + 1 /\ k - 1 \in 1 .. len - 1 /\ (k - 1) + 1 = k
      BY <1>2, <2>4, SMT
    <3>2. q[k] = calls[k - 1]
      BY <1>2, <3>1
    <3>3. calls[k - 1].at = "switch" <=> calls[(k - 1) + 1].at \in {"start", "command"}
      BY <3>1 DEF Nested, len
    <3> QED BY <2>2, <3>1, <3>2, <3>3
  <2> QED BY <2>3, <2>4
<1>7. Nested(q)
  <2>1. Len(q) - 1 = len
    BY <1>2, SMT
  <2> QED BY <1>2, <1>4, <1>5, <1>6, <2>1 DEF Nested
<1>8. \A k \in 1 .. Len(q) : Holds(q, k) =>
          \/ k = 2 /\ len = 1 /\ calls[1].at = "command" /\ q[k].timer = t
          \/ k + (-1) \in 1 .. len /\ Holds(calls, k + (-1)) /\ q[k].timer = calls[k + (-1)].timer
  <2> TAKE k \in 1 .. Len(q)
  <2> HAVE Holds(q, k)
  <2> DEFINE j == k - 1
  <2>1. k # 1
    BY <1>2 DEF Holds
  <2>2. /\ k \in 2 .. len + 1 /\ j \in 1 .. len /\ k + (-1) = j /\ (k < Len(q) <=> j < len)
        /\ 1 < j \/ j < len \/ (j = 1 /\ len = 1 /\ k = 2)
    BY <1>2, <2>1, SMT
  <2>3. q[k] = calls[j]
    BY <1>2, <2>2
  <2> HIDE DEF j
  <2> QED BY <2>2, <2>3 DEF Holds, len
<1>9. -1 \in Int
  BY SMT
<1>10. CASE len = 1 /\ calls[1].at = "command"
  <2>1. Held(calls) = {}
    BY <1>2, <1>10, SMT DEF Held, Holds, len
  <2>2. Adds(calls, q, -1, 2, t)
    BY <1>8 DEF Adds, len
  <2>3. HeldOnce(q) /\ Held(q) \subseteq Held(calls) \cup {t}
    BY <1>2, <1>9, <2>1, <2>2, HeldMore
  <2> QED BY <1>2, <1>7, <1>10, <2>3 DEF Taken, q
<1>11. CASE ~(len = 1 /\ calls[1].at = "command")
  <2>1. Carries(calls, q, -1)
    BY <1>8, <1>11 DEF Carries, len
  <2>2. HeldOnce(q) /\ Held(q) \subseteq Held(calls)
    BY <1>2, <1>9, <2>1, HeldSame
  <2> QED BY <1>2, <1>7, <2>2 DEF q
<1> QED BY <1>10, <1>11

\* A reading returns to StartTimer, without or ...
LEMMA ResumeTop ==
    ASSUME NEW calls \in Seq(Frames), calls # <<>>, calls[1].at \in {"start", "command"},
           Nested(calls), HeldOnce(calls), NEW now \in Nat
    PROVE  LET r == Resume(calls, now)
           IN /\ r \in Seq(Frames) /\ Nested(r) /\ HeldOnce(r)
              /\ Held(r) \subseteq Held(calls) \cup Taken(calls[1])
<1> DEFINE len == Len(calls)
           r == Resume(calls, now)
           t == calls[1].timer
<1>1. /\ r \in Seq(Frames) /\ Len(r) = len
      /\ r[1].timer = t
      /\ calls[1].at = "start" => r[1].at = "command"
      /\ calls[1].at = "command" => r[1].at = "insert"
      /\ \A k \in 2 .. len : r[k] = calls[k]
  BY ResumeParts
<1>2. len \in Nat /\ len > 0
  BY CallsParts
<1> HIDE DEF r, len
<1>3. \A k \in 1 .. len : k = 1 \/ k \in 2 .. len
  BY <1>2, SMT
<1>4. r[1].at \in {"command", "insert"}
  BY <1>1
<1>5. Nested(r)
  <2>1. \A k \in 1 .. len : r[k].at = "insert" => k = 1
    BY <1>1, <1>3 DEF Nested, len
  <2>2. \A k \in 1 .. len : r[k].at = "expired" => k = len
    BY <1>1, <1>3, <1>4 DEF Nested, len
  <2>3. \A k \in 1 .. len - 1 : r[k].at = "switch" <=> r[k + 1].at \in {"start", "command"}
    <3> TAKE k \in 1 .. len - 1
    <3>1. k \in 1 .. len /\ k + 1 \in 2 .. len
      BY <1>2, SMT
    <3>2. r[k + 1] = calls[k + 1]
      BY <1>1, <3>1
    <3>3. calls[k].at = "switch" <=> calls[k + 1].at \in {"start", "command"}
      BY DEF Nested, len
    <3>4. r[k].at = "switch" <=> calls[k].at = "switch"
      BY <1>1, <1>3, <1>4, <3>1
    <3> QED BY <3>2, <3>3, <3>4
  <2> QED BY <1>1, <2>1, <2>2, <2>3 DEF Nested
<1>6. \A k \in 1 .. Len(r) : Holds(r, k) =>
          \/ k = 1 /\ len = 1 /\ calls[1].at = "command" /\ r[k].timer = t
          \/ k + 0 \in 1 .. len /\ Holds(calls, k + 0) /\ r[k].timer = calls[k + 0].timer
  <2> TAKE k \in 1 .. Len(r)
  <2> HAVE Holds(r, k)
  <2>1. k + 0 = k /\ k \in 1 .. len /\ (1 < len \/ len = 1)
    BY <1>1, <1>2, SMT
  <2>2. CASE k \in 2 .. len
    BY <1>1, <2>1, <2>2 DEF Holds, len
  <2>3. CASE k = 1
    <3>1. ~(1 < 1) /\ ~(len = 1 /\ 1 < len)
      BY <1>2, SMT
    <3>2. CASE calls[1].at = "start"
      <4>1. r[1].at = "command" /\ 1 < len
        BY <1>1, <2>3, <3>1, <3>2 DEF Holds
      <4> QED BY <1>1, <2>1, <2>3, <3>2, <4>1 DEF Holds, len
    <3>3. CASE calls[1].at = "command"
      BY <1>1, <2>1, <2>3, <3>3 DEF Holds, len
    <3> QED BY <3>2, <3>3
  <2> QED BY <1>3, <2>1, <2>2, <2>3
<1>7. CASE len = 1 /\ calls[1].at = "command"
  <2>1. Held(calls) = {}
    BY <1>2, <1>7, SMT DEF Held, Holds, len
  <2>2. Adds(calls, r, 0, 1, t)
    BY <1>6 DEF Adds, len
  <2>3. HeldOnce(r) /\ Held(r) \subseteq Held(calls) \cup {t}
    BY <1>1, <2>1, <2>2, HeldMore
  <2> QED BY <1>1, <1>5, <1>7, <2>3 DEF Taken, r
<1>8. CASE ~(len = 1 /\ calls[1].at = "command")
  <2>1. Carries(calls, r, 0)
    BY <1>6, <1>8 DEF Carries, len
  <2>2. HeldOnce(r) /\ Held(r) \subseteq Held(calls)
    BY <1>1, <2>1, HeldSame
  <2> QED BY <1>1, <1>5, <2>2 DEF r
<1> QED BY <1>7, <1>8

\* ... after prvSwitchTimerLists.
LEMMA ResumeNext ==
    ASSUME NEW calls \in Seq(Frames), calls # <<>>, calls[1].at = "switch",
           Nested(calls), HeldOnce(calls), NEW now \in Nat
    PROVE  LET r == Resume(Tail(calls), now)
           IN r \in Seq(Frames) /\ Nested(r) /\ HeldOnce(r) /\ Held(r) \subseteq Held(calls)
<1> DEFINE len == Len(calls)
           q == Tail(calls)
           r == Resume(q, now)
<1>1. /\ len \in Nat /\ len > 0
      /\ q \in Seq(Frames) /\ Len(q) = len - 1
      /\ \A k \in 1 .. len - 1 : q[k] = calls[k + 1]
  BY CallsParts
<1> HIDE DEF q
<1>2. CASE q = <<>>
  <2>1. r = <<>>
    BY <1>2 DEF Resume
  <2>2. <<>> \in Seq(Frames) /\ Len(<<>>) = 0
    BY EmptySeq
  <2>3. Nested(<<>>) /\ HeldOnce(<<>>) /\ Held(<<>>) = {}
    BY <2>2, SMT DEF Nested, HeldOnce, Held
  <2> QED BY <2>1, <2>2, <2>3 DEF q
<1>3. CASE q # <<>>
  <2>1. len > 1
    <3>1. Len(q) # 0
      BY <1>1, <1>3, CallsParts
    <3> QED BY <1>1, <3>1, SMT
  <2>2. 1 \in 1 .. len - 1 /\ 1 + 1 = 2
    BY <1>1, <2>1, SMT
  <2>3. q[1] = calls[2] /\ q[1].at \in {"start", "command"}
    BY <1>1, <2>2 DEF Nested, len
  <2>4. /\ r \in Seq(Frames) /\ Len(r) = len - 1
        /\ r[1].timer = q[1].timer
        /\ q[1].at = "start" => r[1].at = "command"
        /\ q[1].at = "command" => r[1].at = "insert"
        /\ \A k \in 2 .. len - 1 : r[k] = q[k]
    BY <1>1, <1>3, <2>3, ResumeParts
  <2> HIDE DEF r
  <2>5. \A k \in 2 .. len - 1 : k \in 1 .. len - 1 /\ r[k] = calls[k + 1] /\ k + 1 \in 1 .. len /\ k + 1 # 1
    <3>1. \A k \in 2 .. len - 1 : k \in 1 .. len - 1 /\ k + 1 \in 1 .. len /\ k + 1 # 1
      BY <1>1, SMT
    <3> QED BY <1>1, <2>4, <3>1
  <2>6. \A k \in 1 .. len - 1 : k = 1 \/ k \in 2 .. len - 1
    BY <1>1, SMT
  <2>7. r[1].at \in {"command", "insert"}
    BY <2>3, <2>4
  <2>8. Nested(r)
    <3>1. \A k \in 1 .. len - 1 : r[k].at = "insert" => k = 1
      BY <2>5, <2>6 DEF Nested, len
    <3>2. \A k \in 1 .. len - 1 : r[k].at = "expired" => k = len - 1
      <4> SUFFICES ASSUME NEW k \in 2 .. len - 1, r[k].at = "expired" PROVE k = len - 1
        BY <2>6, <2>7
      <4>1. k + 1 = len
        BY <2>5 DEF Nested, len
      <4> QED BY <1>1, <4>1, SMT
    <3>3. \A k \in 1 .. (len - 1) - 1 : r[k].at = "switch" <=> r[k + 1].at \in {"start", "command"}
      <4> TAKE k \in 1 .. (len - 1) - 1
      <4>1. k \in 1 .. len - 1 /\ k + 1 \in 2 .. len - 1 /\ k + 1 \in 1 .. len - 1
        BY <1>1, SMT
      <4>2. r[k + 1] = calls[(k + 1) + 1]
        BY <2>5, <4>1
      <4>3. calls[k + 1].at = "switch" <=> calls[(k + 1) + 1].at \in {"start", "command"}
        BY <4>1 DEF Nested, len
      <4>4. r[k].at = "switch" <=> calls[k + 1].at = "switch"
        <5>1. k = 1 => calls[k + 1] = q[1]
          BY <2>2, <2>3
        <5>2. k # 1 => r[k] = calls[k + 1]
          BY <2>5, <2>6, <4>1
        <5> QED BY <2>3, <2>7, <5>1, <5>2
      <4> QED BY <4>2, <4>3, <4>4
    <3> QED BY <2>4, <3>1, <3>2, <3>3 DEF Nested
  <2>9. Carries(calls, r, 1)
    <3> SUFFICES ASSUME NEW k \in 1 .. len - 1, Holds(r, k)
                 PROVE  k + 1 \in 1 .. len /\ Holds(calls, k + 1) /\ r[k].timer = calls[k + 1].timer
      BY <2>4 DEF Carries, len
    <3>1. k + 1 \in 1 .. len /\ 1 < k + 1 /\ (k < len - 1 => k + 1 < len)
      BY <1>1, SMT
    <3>2. CASE k = 1
      <4>1. calls[k + 1] = q[1]
        BY <2>2, <2>3, <3>2
      <4>2. CASE q[1].at = "start"
        <5>1. r[1].at = "command" /\ (1 < 1 \/ 1 < len - 1)
          BY <2>4, <3>2, <4>2 DEF Holds
        <5>2. 1 < len - 1
          BY <1>1, <5>1, SMT
        <5> QED BY <2>4, <3>1, <3>2, <4>1, <4>2, <5>2 DEF Holds, len
      <4>3. CASE q[1].at = "command"
        BY <2>4, <3>1, <3>2, <4>1, <4>3 DEF Holds, len
      <4> QED BY <2>3, <4>2, <4>3
    <3>3. CASE k \in 2 .. len - 1
      BY <2>4, <2>5, <3>1, <3>3 DEF Holds, len
    <3> QED BY <2>6, <3>2, <3>3
  <2>10. HeldOnce(r) /\ Held(r) \subseteq Held(calls)
    BY <2>4, <2>9, HeldSame
  <2> QED BY <2>4, <2>8, <2>10 DEF r, q
<1> QED BY <1>2, <1>3

\* No call, ...
LEMMA NoCalls == <<>> \in Seq(Frames) /\ Nested(<<>>) /\ HeldOnce(<<>>) /\ Held(<<>>) = {}
<1>1. <<>> \in Seq(Frames) /\ Len(<<>>) = 0
  BY EmptySeq
<1> QED BY <1>1, SMT DEF Nested, HeldOnce, Held

\* ... one call, and a timer started before its callback.
LEMMA OneCall ==
    ASSUME NEW f \in Frames, f.at \in {"start", "switch"}
    PROVE  <<f>> \in Seq(Frames) /\ Nested(<<f>>) /\ HeldOnce(<<f>>) /\ Held(<<f>>) = {}
<1>1. <<f>> \in Seq(Frames) /\ Len(<<f>>) = 1 /\ <<f>>[1] = f /\ 1 .. 1 = {1} /\ 1 .. 1 - 1 = {} /\ ~(1 < 1)
  BY SMT
<1> DEFINE q == <<f>>
<1>2. q \in Seq(Frames) /\ Len(q) = 1 /\ q[1] = f
  BY <1>1
<1> HIDE DEF q
<1>3. Nested(q)
  BY <1>1, <1>2 DEF Nested
<1>4. \A k \in 1 .. Len(q) : ~Holds(q, k)
  BY <1>1, <1>2 DEF Holds
<1>5. HeldOnce(q) /\ Held(q) = {}
  BY <1>4 DEF HeldOnce, Held
<1> QED BY <1>2, <1>3, <1>5 DEF q

LEMMA StartAndCallback ==
    ASSUME NEW t \in Timer, expiry[t] \in Nat
    PROVE  LET q == <<Start(t), Expired(t)>>
           IN q \in Seq(Frames) /\ Nested(q) /\ HeldOnce(q) /\ Held(q) \subseteq {t}
<1> DEFINE s == Start(t)
           x == Expired(t)
           q == <<s, x>>
<1>1. s \in Frames /\ s.at = "start" /\ s.timer = t
  BY DEF Start, Frames, StartFrames
<1>2. x \in Frames /\ x.at = "expired"
  BY DEF Expired, Frames, ExpiredFrames
<1> HIDE DEF s, x
<1>3. q \in Seq(Frames) /\ Len(q) = 2 /\ q[1] = s /\ q[2] = x
  BY <1>1, <1>2, SMT
<1>4. 1 .. 2 = {1, 2} /\ 1 .. 2 - 1 = {1} /\ 1 + 1 = 2
  BY SMT
<1> HIDE DEF q
<1>5. Nested(q)
  BY <1>1, <1>2, <1>3, <1>4 DEF Nested
<1>6. \A k \in 1 .. Len(q) : Holds(q, k) => k = 1 /\ q[k].timer = t
  BY <1>1, <1>2, <1>3, <1>4 DEF Holds
<1>7. HeldOnce(q) /\ Held(q) \subseteq {t}
  BY <1>6 DEF HeldOnce, Held
<1> QED BY <1>3, <1>5, <1>7 DEF q, s, x

LEMMA NewFrames ==
    /\ \A t \in Timer : Start(t) \in Frames /\ Start(t).at = "start"
    /\ \A now \in Nat : Switch(now) \in Frames /\ Switch(now).at = "switch"
  BY DEF Start, Switch, Frames, StartFrames, SwitchFrames

-----------------------------------------------------------------------------
(* The invariant                                                           *)

\* The parts of Inv that are about lists and calls.
Sound(cur, over, exp, calls) ==
    /\ cur \in Seq(Timer) /\ over \in Seq(Timer) /\ exp \in [Timer -> Nat]
    /\ calls \in Seq(Frames)
    /\ Nested(calls) /\ HeldOnce(calls)
    /\ IsInjective(cur) /\ IsInjective(over)
    /\ Range(cur) \cap Range(over) = {}
    /\ Held(calls) \cap (Range(cur) \cup Range(over)) = {}
    /\ Ascends(cur, exp) /\ Ascends(over, exp)

Now == Sound(current, overflow, expiry, stack)

LEMMA InvIsSound == Inv <=> TypeOK /\ Now
  BY DEF Inv, Apart, Now, Sound, TypeOK

\* Taking the timer out at the second reading of StartTimer.
LEMMA Removes ==
    ASSUME Now, stack # <<>>, stack[1].at \in {"start", "command"}, RemoveContained
    PROVE  /\ current' \in Seq(Timer) /\ overflow' \in Seq(Timer)
           /\ IsInjective(current') /\ IsInjective(overflow')
           /\ Range(current') = Range(current) \ Taken(stack[1])
           /\ Range(overflow') = Range(overflow) \ Taken(stack[1])
           /\ Ascends(current', expiry) /\ Ascends(overflow', expiry)
<1>1. Top = stack[1]
  BY CallsParts DEF Top, Now, Sound
<1>2. CASE stack[1].at = "command"
  <2>1. /\ current' = Without(current, stack[1].timer)
        /\ overflow' = Without(overflow, stack[1].timer)
    BY <1>1, <1>2 DEF RemoveContained
  <2>2. Taken(stack[1]) = {stack[1].timer}
    BY <1>2 DEF Taken
  <2> QED BY <2>1, <2>2, WithoutFacts DEF Now, Sound
<1>3. CASE stack[1].at # "command"
  <2>1. current' = current /\ overflow' = overflow /\ Taken(stack[1]) = {}
    BY <1>1, <1>3 DEF RemoveContained, Taken
  <2> QED BY <2>1 DEF Now, Sound
<1> QED BY <1>2, <1>3

\* Inserting a timer that is in no list.
LEMMA Inserts ==
    ASSUME NEW cur \in Seq(Timer), NEW over \in Seq(Timer), expiry \in [Timer -> Nat],
           NEW t \in Timer, NEW e \in Nat, NEW now,
           IsInjective(cur), IsInjective(over), Range(cur) \cap Range(over) = {},
           Ascends(cur, expiry), Ascends(over, expiry),
           t \notin Range(cur) \cup Range(over),
           InsertActive(t, e, now, cur, over)
    PROVE  /\ current' \in Seq(Timer) /\ overflow' \in Seq(Timer) /\ expiry' \in [Timer -> Nat]
           /\ IsInjective(current') /\ IsInjective(overflow')
           /\ Range(current') \cap Range(overflow') = {}
           /\ Range(current') \cup Range(overflow') = Range(cur) \cup Range(over) \cup {t}
           /\ Ascends(current', expiry') /\ Ascends(overflow', expiry')
<1>1. expiry' = [expiry EXCEPT ![t] = e]
  BY DEF InsertActive
<1>2. expiry' \in [Timer -> Nat] /\ Ascends(cur, expiry') /\ Ascends(over, expiry')
  BY <1>1, AscendsExcept
<1>3. CASE overflow' = With(over, t, expiry') /\ current' = cur
  <2>1. /\ overflow' \in Seq(Timer) /\ Range(overflow') = Range(over) \cup {t}
        /\ IsInjective(overflow') /\ Ascends(overflow', expiry')
    BY <1>2, <1>3, WithFacts
  <2> QED BY <1>2, <1>3, <2>1
<1>4. CASE current' = With(cur, t, expiry') /\ overflow' = over
  <2>1. /\ current' \in Seq(Timer) /\ Range(current') = Range(cur) \cup {t}
        /\ IsInjective(current') /\ Ascends(current', expiry')
    BY <1>2, <1>4, WithFacts
  <2> QED BY <1>2, <1>4, <2>1
<1> QED BY <1>3, <1>4 DEF InsertActive

LEMMA TopFacts ==
    ASSUME TypeOK, stack # <<>>
    PROVE  /\ Top = stack[1] /\ stack[1] \in Frames
           /\ stack[1].at \in {"start", "command", "insert"} =>
                 /\ stack[1].timer \in Timer /\ stack[1].command \in Nat /\ stack[1].now \in Nat
                 /\ Period[stack[1].timer] \in Nat
                 /\ stack[1].command + Period[stack[1].timer] \in Nat
           /\ stack[1].at = "switch" => stack[1].now \in Nat
           /\ stack[1].at = "expired" => stack[1].timer \in Timer /\ stack[1].due \in Nat
<1>1. Top = stack[1] /\ stack[1] \in Frames
  BY CallsParts DEF TypeOK, Top
<1>2. ASSUME stack[1].at \in {"start", "command", "insert"}
      PROVE  stack[1].timer \in Timer /\ stack[1].command \in Nat /\ stack[1].now \in Nat
  BY <1>1, <1>2, FrameFacts DEF StartFrames
<1>3. stack[1].at = "switch" => stack[1].now \in Nat
  BY <1>1, FrameFacts DEF SwitchFrames
<1>4. stack[1].at = "expired" => stack[1].timer \in Timer /\ stack[1].due \in Nat
  BY <1>1, FrameFacts DEF ExpiredFrames
<1>5. \A t \in Timer : Period[t] \in Nat
  BY ParamFacts
<1>6. \A a, b \in Nat : a + b \in Nat
  BY SMT
<1> QED BY <1>1, <1>2, <1>3, <1>4, <1>5, <1>6

LEMMA HeadFacts ==
    ASSUME TypeOK, Now, current # <<>>
    PROVE  /\ Head(current) \in Timer /\ Head(current) \in Range(current)
           /\ expiry[Head(current)] \in Nat
           /\ expiry[Head(current)] + Period[Head(current)] \in Nat
           /\ Tail(current) \in Seq(Timer)
           /\ Range(Tail(current)) = Range(current) \ {Head(current)}
           /\ IsInjective(Tail(current)) /\ Ascends(Tail(current), expiry)
<1>1. /\ Head(current) \in Timer /\ Head(current) \in Range(current)
      /\ Tail(current) \in Seq(Timer)
      /\ Range(Tail(current)) = Range(current) \ {Head(current)}
      /\ IsInjective(Tail(current)) /\ Ascends(Tail(current), expiry)
  BY TailFacts DEF Now, Sound
<1>2. expiry[Head(current)] \in Nat /\ Period[Head(current)] \in Nat
  BY <1>1, ParamFacts DEF TypeOK
<1>3. \A a, b \in Nat : a + b \in Nat
  BY SMT
<1> QED BY <1>1, <1>2, <1>3

\* Every step keeps the lists and the calls sound, ...
LEMMA SoundStep ==
    ASSUME TypeOK, Now, [Next]_vars
    PROVE  Now'
<1> USE DEF Now
<1>0. /\ current \in Seq(Timer) /\ overflow \in Seq(Timer) /\ expiry \in [Timer -> Nat]
      /\ stack \in Seq(Frames) /\ clock \in Nat
      /\ Nested(stack) /\ HeldOnce(stack)
      /\ Ascends(current, expiry) /\ Ascends(overflow, expiry)
  BY SMT DEF Sound, TypeOK
<1>1. CASE Pass \/ AppLoop \/ RoundIdle \/ UNCHANGED vars
  <2>1. UNCHANGED <<current, overflow, expiry, stack>>
    BY <1>1 DEF Pass, AppLoop, RoundIdle, vars
  <2> QED BY <2>1 DEF Sound
<1>2. ASSUME NEW t \in Timer, AppStart(t) PROVE Now'
  <2>1. UNCHANGED <<current, overflow, expiry>> /\ stack' = <<Start(t)>>
    BY <1>2 DEF AppStart
  <2>2. stack' \in Seq(Frames) /\ Nested(stack') /\ HeldOnce(stack') /\ Held(stack') = {}
    BY <2>1, NewFrames, OneCall
  <2> QED BY <2>1, <2>2 DEF Sound
<1>3. CASE Sample
  <2>1. stack # <<>> /\ stack[1].at \in {"start", "command"}
    BY <1>3, TopFacts DEF Sample, At
  <2>2. RemoveContained /\ stack' = Resume(stack, clock) /\ expiry' = expiry
    BY <1>3 DEF Sample
  <2>3. /\ stack' \in Seq(Frames) /\ Nested(stack') /\ HeldOnce(stack')
        /\ Held(stack') \subseteq Held(stack) \cup Taken(stack[1])
    BY <1>0, <2>1, <2>2, ResumeTop
  <2> QED BY <2>1, <2>2, <2>3, Removes DEF Sound
<1>4. CASE SampleOverflow
  <2>1. stack # <<>> /\ stack[1].at \in {"start", "command"}
    BY <1>4, TopFacts DEF SampleOverflow, At
  <2>2. RemoveContained /\ stack' = <<Switch(clock)>> \o stack /\ expiry' = expiry
    BY <1>4 DEF SampleOverflow
  <2>3. /\ stack' \in Seq(Frames) /\ Nested(stack') /\ HeldOnce(stack')
        /\ Held(stack') \subseteq Held(stack) \cup Taken(stack[1])
    BY <1>0, <2>1, <2>2, PushSwitch
  <2> QED BY <2>1, <2>2, <2>3, Removes DEF Sound
<1>5. CASE StartInsert
  <2> DEFINE t == stack[1].timer
             e == stack[1].command + Period[t]
  <2>1. stack # <<>> /\ stack[1].at = "insert" /\ Top = stack[1]
    BY <1>5, TopFacts DEF StartInsert, At
  <2>2. t \in Timer /\ e \in Nat
    BY <2>1, TopFacts
  <2>3. /\ stack' = Tail(stack)
        /\ stack' \in Seq(Frames) /\ Nested(stack') /\ HeldOnce(stack')
        /\ t \in Held(stack) /\ Held(stack') \subseteq Held(stack) \ {t}
    BY <1>0, <1>5, <2>1, PopInsert DEF StartInsert
  <2>4. InsertActive(t, e, stack[1].now, current, overflow)
    BY <1>5, <2>1 DEF StartInsert
  <2>5. t \notin Range(current) \cup Range(overflow)
    BY <2>3 DEF Sound
  <2> HIDE DEF t, e
  <2>6. /\ current' \in Seq(Timer) /\ overflow' \in Seq(Timer) /\ expiry' \in [Timer -> Nat]
        /\ IsInjective(current') /\ IsInjective(overflow')
        /\ Range(current') \cap Range(overflow') = {}
        /\ Range(current') \cup Range(overflow') = Range(current) \cup Range(overflow) \cup {t}
        /\ Ascends(current', expiry') /\ Ascends(overflow', expiry')
    BY <1>0, <2>2, <2>4, <2>5, Inserts DEF Sound
  <2>7. Held(stack') \cap (Range(current') \cup Range(overflow')) = {}
    BY <2>3, <2>6 DEF Sound
  <2> QED BY <2>3, <2>6, <2>7 DEF Sound
<1>6. CASE StartLate
  <2> DEFINE t == stack[1].timer
             e == stack[1].command + Period[t]
  <2>1. stack # <<>> /\ stack[1].at = "insert" /\ Top = stack[1]
    BY <1>6, TopFacts DEF StartLate, At
  <2>2. t \in Timer /\ e \in Nat
    BY <2>1, TopFacts
  <2>3. /\ stack' = Tail(stack)
        /\ stack' \in Seq(Frames) /\ Nested(stack') /\ HeldOnce(stack')
        /\ t \in Held(stack) /\ Held(stack') \subseteq Held(stack) \ {t}
    BY <1>0, <1>6, <2>1, PopInsert DEF StartLate
  <2>4. expiry' = [expiry EXCEPT ![t] = e] /\ UNCHANGED <<current, overflow>>
    BY <1>6, <2>1 DEF StartLate
  <2>5. t \notin Range(current) /\ t \notin Range(overflow)
    BY <2>3 DEF Sound
  <2> HIDE DEF t, e
  <2>6. expiry' \in [Timer -> Nat] /\ Ascends(current', expiry') /\ Ascends(overflow', expiry')
    BY <1>0, <2>2, <2>4, <2>5, AscendsExcept
  <2> QED BY <2>3, <2>4, <2>6 DEF Sound
<1>7. CASE SwitchOneShot \/ RoundOneShot
  <2>1. current # <<>> /\ current' = Tail(current) /\ UNCHANGED <<overflow, expiry, stack>>
    BY <1>7 DEF SwitchOneShot, RoundOneShot, HeadExpired
  <2> QED BY <2>1, HeadFacts DEF Sound
<1>8. CASE SwitchReload
  <2> DEFINE t == Head(current)
             e == expiry[t] + Period[t]
  <2>1. current # <<>> /\ UNCHANGED <<overflow, stack>>
    BY <1>8 DEF SwitchReload
  <2>2. expiry' = [expiry EXCEPT ![t] = e] /\ current' = With(Tail(current), t, expiry')
    BY <1>8 DEF SwitchReload
  <2>3. /\ t \in Timer /\ t \in Range(current) /\ e \in Nat
        /\ Tail(current) \in Seq(Timer) /\ Range(Tail(current)) = Range(current) \ {t}
        /\ IsInjective(Tail(current)) /\ Ascends(Tail(current), expiry)
    BY <2>1, HeadFacts
  <2>4. t \notin Range(Tail(current)) /\ t \notin Range(overflow)
    BY <2>3 DEF Sound
  <2> HIDE DEF t, e
  <2>5. /\ expiry' \in [Timer -> Nat]
        /\ Ascends(Tail(current), expiry') /\ Ascends(overflow, expiry')
    BY <1>0, <2>2, <2>3, <2>4, AscendsExcept
  <2> DEFINE rest == Tail(current)
             after == expiry'
  <2>6. rest \in Seq(Timer) /\ after \in [Timer -> Nat] /\ current' = With(rest, t, after)
    BY <2>2, <2>3, <2>5
  <2>7. t \notin Range(rest) /\ IsInjective(rest) /\ Ascends(rest, after)
        /\ Range(rest) = Range(current) \ {t}
    BY <2>3, <2>4, <2>5
  <2>8. Ascends(current', expiry') <=> Ascends(current', after)
    OBVIOUS
  <2> HIDE DEF rest, after
  <2>9. /\ current' \in Seq(Timer) /\ Range(current') = Range(rest) \cup {t}
        /\ IsInjective(current') /\ Ascends(current', after)
    BY <2>3, <2>6, <2>7, WithFacts
  <2>10. Range(current') = Range(current)
    BY <2>3, <2>7, <2>9
  <2> QED BY <2>1, <2>5, <2>8, <2>9, <2>10 DEF Sound
<1>9. CASE SwitchRestart
  <2> DEFINE t == Head(current)
  <2>1. /\ current # <<>> /\ current' = Tail(current) /\ UNCHANGED <<overflow, expiry>>
        /\ stack' = <<Start(t)>> \o stack
    BY <1>9 DEF SwitchRestart
  <2>2. stack # <<>> /\ stack[1].at = "switch"
    BY <1>9, TopFacts DEF SwitchRestart, At
  <2>3. /\ t \in Timer /\ t \in Range(current)
        /\ current' \in Seq(Timer) /\ Range(current') = Range(current) \ {t}
        /\ IsInjective(current') /\ Ascends(current', expiry')
    BY <2>1, HeadFacts
  <2>4. t \notin Held(stack) /\ t \notin Range(overflow)
    BY <2>3 DEF Sound
  <2> HIDE DEF t
  <2>5. /\ stack' \in Seq(Frames) /\ Nested(stack') /\ HeldOnce(stack')
        /\ Held(stack') \subseteq Held(stack) \cup {t}
    BY <1>0, <2>1, <2>2, <2>3, <2>4, PushStart
  <2> QED BY <2>1, <2>3, <2>4, <2>5 DEF Sound
<1>10. CASE SwitchDone
  <2>1. stack # <<>> /\ stack[1].at = "switch" /\ Top = stack[1] /\ stack[1].now \in Nat
    BY <1>10, TopFacts DEF SwitchDone, At
  <2>2. /\ current' = overflow /\ overflow' = current /\ expiry' = expiry
        /\ stack' = Resume(Tail(stack), stack[1].now)
    BY <1>10, <2>1 DEF SwitchDone
  <2>3. /\ stack' \in Seq(Frames) /\ Nested(stack') /\ HeldOnce(stack')
        /\ Held(stack') \subseteq Held(stack)
    BY <1>0, <2>1, <2>2, ResumeNext
  <2> QED BY <2>2, <2>3 DEF Sound
<1>11. CASE RoundOverflow
  <2>1. UNCHANGED <<current, overflow, expiry>> /\ stack' = <<Switch(clock)>> /\ stack = <<>>
    BY <1>11 DEF RoundOverflow, Round
  <2>2. stack' \in Seq(Frames) /\ Nested(stack') /\ HeldOnce(stack') /\ Held(stack') = {}
    BY <1>0, <2>1, NewFrames, OneCall
  <2> QED BY <2>1, <2>2 DEF Sound
<1>12. CASE RoundReload
  <2> DEFINE t == Head(current)
             e == expiry[t] + Period[t]
  <2>1. current # <<>> /\ stack' = stack
    BY <1>12 DEF RoundReload, HeadExpired
  <2>2. InsertActive(t, e, clock, Tail(current), overflow)
    BY <1>12 DEF RoundReload
  <2>3. /\ t \in Timer /\ t \in Range(current) /\ e \in Nat
        /\ Tail(current) \in Seq(Timer) /\ Range(Tail(current)) = Range(current) \ {t}
        /\ IsInjective(Tail(current)) /\ Ascends(Tail(current), expiry)
    BY <2>1, HeadFacts
  <2>4. /\ t \notin Range(Tail(current)) \cup Range(overflow)
        /\ Range(Tail(current)) \cap Range(overflow) = {}
        /\ IsInjective(overflow)
    BY <2>3 DEF Sound
  <2> HIDE DEF t, e
  <2>5. /\ current' \in Seq(Timer) /\ overflow' \in Seq(Timer) /\ expiry' \in [Timer -> Nat]
        /\ IsInjective(current') /\ IsInjective(overflow')
        /\ Range(current') \cap Range(overflow') = {}
        /\ Range(current') \cup Range(overflow') = Range(Tail(current)) \cup Range(overflow) \cup {t}
        /\ Ascends(current', expiry') /\ Ascends(overflow', expiry')
    BY <1>0, <2>2, <2>3, <2>4, Inserts
  <2>6. Held(stack') \cap (Range(current') \cup Range(overflow')) = {}
    BY <2>1, <2>3, <2>5 DEF Sound
  <2> QED BY <1>0, <2>1, <2>5, <2>6 DEF Sound
<1>13. CASE RoundRestart
  <2> DEFINE t == Head(current)
             e == expiry[t] + Period[t]
  <2>1. /\ current # <<>> /\ current' = Tail(current) /\ overflow' = overflow
        /\ expiry' = [expiry EXCEPT ![t] = e]
        /\ stack' = <<Start(t), Expired(t)>>
    BY <1>13 DEF RoundRestart, HeadExpired
  <2>2. /\ t \in Timer /\ t \in Range(current) /\ e \in Nat /\ expiry[t] \in Nat
        /\ Tail(current) \in Seq(Timer) /\ Range(Tail(current)) = Range(current) \ {t}
        /\ IsInjective(Tail(current)) /\ Ascends(Tail(current), expiry)
    BY <2>1, HeadFacts
  <2>3. t \notin Range(Tail(current)) /\ t \notin Range(overflow)
    BY <2>2 DEF Sound
  <2> HIDE DEF t, e
  <2>4. /\ expiry' \in [Timer -> Nat]
        /\ Ascends(current', expiry') /\ Ascends(overflow', expiry')
    BY <1>0, <2>1, <2>2, <2>3, AscendsExcept
  <2>5. /\ stack' \in Seq(Frames) /\ Nested(stack') /\ HeldOnce(stack')
        /\ Held(stack') \subseteq {t}
    BY <2>1, <2>2, StartAndCallback
  <2> QED BY <2>1, <2>2, <2>3, <2>4, <2>5 DEF Sound
<1>14. CASE ExpiredCallback
  <2>1. stack # <<>> /\ stack[1].at = "expired" /\ stack' = Tail(stack)
        /\ UNCHANGED <<current, overflow, expiry>>
    BY <1>14, TopFacts DEF ExpiredCallback, At
  <2>2. /\ Len(stack) \in Nat /\ Len(stack) > 0
        /\ Tail(stack) \in Seq(Frames) /\ Len(Tail(stack)) = Len(stack) - 1
        /\ Len(Tail(stack)) = 0 => Tail(stack) = <<>>
    BY <1>0, <2>1, CallsParts
  <2>3. 1 \in 1 .. Len(stack)
    BY <2>2, SMT
  <2>4. Len(stack) = 1
    BY <1>0, <2>1, <2>3 DEF Nested
  <2>5. stack' = <<>>
    BY <2>1, <2>2, <2>4, SMT
  <2> QED BY <2>1, <2>5, NoCalls DEF Sound
<1> QED
  BY <1>1, <1>2, <1>3, <1>4, <1>5, <1>6, <1>7, <1>8, <1>9, <1>10, <1>11, <1>12, <1>13, <1>14
     DEF Next, Program, App, StartTimer, SwitchTimerLists, ProcessLoop

-----------------------------------------------------------------------------
(* The invariant                                                           *)

LEMMA InitInv == Init => Inv
<1> SUFFICES ASSUME Init PROVE Inv
  OBVIOUS
<1>1. TypeOK
  <2>1. clock \in 0 .. MaxTime /\ sampled \in 0 .. clock /\ last \in Nat /\ starts \in 0 .. MaxStart
    BY ParamFacts, SMT DEF Init
  <2>2. current \in Seq(Timer) /\ overflow \in Seq(Timer) /\ stack \in Seq(Frames)
    BY EmptySeq DEF Init
  <2>3. expiry \in [Timer -> Nat] /\ looping \in BOOLEAN /\ ran = <<>>
    BY DEF Init
  <2> QED BY <2>1, <2>2, <2>3 DEF TypeOK
<1> DEFINE none == <<>>
<1>2. /\ current = none /\ overflow = none /\ stack = none
      /\ none \in Seq(Timer) /\ DOMAIN none = {} /\ Range(none) = {}
  BY EmptySeq DEF Init, Range
<1>3. Nested(none) /\ HeldOnce(none) /\ Held(none) = {}
  BY NoCalls
<1> HIDE DEF none
<1>4. IsInjective(none) /\ Ascends(none, expiry)
  BY <1>2 DEF IsInjective, Ascends
<1> QED BY <1>1, <1>2, <1>3, <1>4 DEF Inv, Apart

\* The readings and the counters.
LEMMA ScalarStep ==
    ASSUME TypeOK, [Next]_vars
    PROVE  /\ clock' \in 0 .. MaxTime /\ sampled' \in 0 .. clock' /\ last' \in Nat
           /\ starts' \in 0 .. MaxStart /\ looping' \in BOOLEAN
           /\ ran' = <<>> \/ ran' \in Timer \X Nat
<1>0. /\ clock \in Nat /\ clock <= MaxTime /\ sampled \in Nat /\ sampled <= clock
      /\ last \in Nat /\ starts \in Nat /\ starts <= MaxStart
      /\ looping \in BOOLEAN /\ MaxTime \in Nat /\ MaxStart \in Nat
  BY ParamFacts, SMT DEF TypeOK
<1>1. current # <<>> => Head(current) \in Timer /\ expiry[Head(current)] \in Nat
  BY ListParts DEF TypeOK
<1>2. CASE Pass
  <2>1. /\ clock < MaxTime /\ clock' = clock + 1 /\ ran' = <<>>
        /\ UNCHANGED <<sampled, last, starts, looping>>
    BY <1>2 DEF Pass, Quiet
  <2> QED BY <1>0, <2>1, SMT
<1>3. ASSUME NEW t \in Timer, AppStart(t)
      PROVE  /\ clock' \in 0 .. MaxTime /\ sampled' \in 0 .. clock' /\ last' \in Nat
             /\ starts' \in 0 .. MaxStart /\ looping' \in BOOLEAN /\ ran' = <<>>
  <2>1. /\ starts < MaxStart /\ starts' = starts + 1 /\ ran' = <<>>
        /\ UNCHANGED <<clock, sampled, last, looping>>
    BY <1>3 DEF AppStart, Quiet
  <2> QED BY <1>0, <2>1, SMT
<1>4. CASE AppLoop
  <2>1. looping' = TRUE /\ ran' = <<>> /\ UNCHANGED <<clock, sampled, last, starts>>
    BY <1>4 DEF AppLoop, Quiet
  <2> QED BY <1>0, <2>1, SMT
<1>5. CASE Sample \/ SampleOverflow \/ RoundOverflow \/ RoundIdle \/ RoundRestart
  <2>1. /\ sampled' = clock /\ last' \in {clock, last} /\ ran' = <<>>
        /\ UNCHANGED <<clock, starts, looping>>
    BY <1>5 DEF Sample, SampleOverflow, RoundOverflow, RoundIdle, RoundRestart, Quiet
  <2> QED BY <1>0, <2>1, SMT
<1>6. CASE RoundOneShot \/ RoundReload
  <2>1. /\ current # <<>> /\ sampled' = clock /\ last' = clock
        /\ ran' = <<Head(current), expiry[Head(current)]>>
        /\ UNCHANGED <<clock, starts, looping>>
    BY <1>6, Zenon DEF RoundOneShot, RoundReload, HeadExpired, Callback
  <2>2. ran' \in Timer \X Nat
    BY <1>1, <2>1
  <2> QED BY <1>0, <2>1, <2>2, SMT
<1>7. CASE SwitchOneShot \/ SwitchReload \/ SwitchRestart
  <2>1. /\ current # <<>> /\ ran' = <<Head(current), expiry[Head(current)]>>
        /\ UNCHANGED <<clock, sampled, last, starts, looping>>
    BY <1>7, Zenon DEF SwitchOneShot, SwitchReload, SwitchRestart, Callback
  <2>2. ran' \in Timer \X Nat
    BY <1>1, <2>1
  <2> QED BY <1>0, <2>1, <2>2, SMT
<1>8. CASE StartInsert
  <2>1. ran' = <<>> /\ UNCHANGED <<clock, sampled, last, starts, looping>>
    BY <1>8 DEF StartInsert, Quiet
  <2> QED BY <1>0, <2>1, SMT
<1>9. CASE StartLate
  <2>1. stack # <<>> /\ stack[1].at = "insert" /\ Top = stack[1]
    BY <1>9, TopFacts DEF StartLate, At
  <2>2. /\ ran' = <<stack[1].timer, stack[1].command + Period[stack[1].timer]>>
        /\ UNCHANGED <<clock, sampled, last, starts, looping>>
    BY <1>9, <2>1 DEF StartLate, Callback
  <2>3. ran' \in Timer \X Nat
    BY <2>1, <2>2, TopFacts
  <2> QED BY <1>0, <2>2, <2>3, SMT
<1>10. CASE SwitchDone
  <2>1. stack # <<>> /\ stack[1].at = "switch" /\ Top = stack[1] /\ stack[1].now \in Nat
    BY <1>10, TopFacts DEF SwitchDone, At
  <2>2. /\ last' = stack[1].now /\ ran' = <<>>
        /\ UNCHANGED <<clock, sampled, starts, looping>>
    BY <1>10, <2>1 DEF SwitchDone, Quiet
  <2> QED BY <1>0, <2>1, <2>2, SMT
<1>11. CASE ExpiredCallback
  <2>1. stack # <<>> /\ stack[1].at = "expired" /\ Top = stack[1]
    BY <1>11, TopFacts DEF ExpiredCallback, At
  <2>2. /\ ran' = <<stack[1].timer, stack[1].due>>
        /\ UNCHANGED <<clock, sampled, last, starts, looping>>
    BY <1>11, <2>1 DEF ExpiredCallback, Callback
  <2>3. ran' \in Timer \X Nat
    BY <2>1, <2>2, TopFacts
  <2> QED BY <1>0, <2>2, <2>3, SMT
<1>12. CASE UNCHANGED vars
  <2>1. UNCHANGED <<clock, sampled, last, starts, looping, ran>>
    BY <1>12 DEF vars
  <2>2. ran' = <<>> \/ ran' \in Timer \X Nat
    BY <2>1 DEF TypeOK
  <2> QED BY <1>0, <2>1, <2>2, SMT
<1> QED
  BY <1>2, <1>3, <1>4, <1>5, <1>6, <1>7, <1>8, <1>9, <1>10, <1>11, <1>12
     DEF Next, Program, App, StartTimer, SwitchTimerLists, ProcessLoop

LEMMA InvStep ==
    ASSUME Inv, [Next]_vars
    PROVE  Inv'
<1>1. TypeOK /\ Now
  BY InvIsSound
<1>2. Now'
  BY <1>1, SoundStep
<1>3. /\ clock' \in 0 .. MaxTime /\ sampled' \in 0 .. clock' /\ last' \in Nat
      /\ starts' \in 0 .. MaxStart /\ looping' \in BOOLEAN
      /\ ran' = <<>> \/ ran' \in Timer \X Nat
  BY <1>1, ScalarStep
<1>4. TypeOK'
  BY <1>2, <1>3 DEF TypeOK, Now, Sound
<1> QED BY <1>2, <1>4 DEF Inv, Apart, Now, Sound

(* The inductive invariant: calls nest as the code's do, and every timer   *)
(* is in one list, or out of both in the hand of one call.                 *)
THEOREM Invariant == Spec => []Inv
<1>1. Init => Inv
  BY InitInv
<1>2. Inv /\ [Next]_vars => Inv'
  BY InvStep
<1> QED BY <1>1, <1>2, PTL DEF Spec

(* The readings, lists and calls of Timers.cpp stay what they should be.   *)
THEOREM TypeCorrect == Spec => []TypeOK
<1>1. Inv => TypeOK
  BY DEF Inv
<1> QED BY <1>1, Invariant, PTL

LEMMA OnePlace ==
    ASSUME Inv, NEW t \in Timer, NEW p \in Places(t), NEW q \in Places(t)
    PROVE  p = q
<1> DEFINE cur == {<<"current", k>> : k \in {j \in DOMAIN current : current[j] = t}}
           over == {<<"overflow", k>> : k \in {j \in DOMAIN overflow : overflow[j] = t}}
           calls == {<<"stack", k>> : k \in
                       {j \in DOMAIN stack : stack[j].at = "insert" /\ stack[j].timer = t}}
<1>1. p \in cur \cup over \cup calls /\ q \in cur \cup over \cup calls
  BY DEF Places
<1>2. /\ DOMAIN stack = 1 .. Len(stack)
      /\ DOMAIN current = 1 .. Len(current) /\ DOMAIN overflow = 1 .. Len(overflow)
  BY CallsParts, ListParts DEF Inv, TypeOK
<1>3. ASSUME NEW a \in cur PROVE t \in Range(current) /\ \A b \in cur : a = b
  BY <1>3 DEF Range, Inv, Apart, IsInjective
<1>4. ASSUME NEW a \in over PROVE t \in Range(overflow) /\ \A b \in over : a = b
  BY <1>4 DEF Range, Inv, Apart, IsInjective
<1>5. ASSUME NEW a \in calls PROVE t \in Held(stack) /\ \A b \in calls : a = b
  <2>1. PICK j \in DOMAIN stack :
          a = <<"stack", j>> /\ stack[j].at = "insert" /\ stack[j].timer = t
    BY <1>5
  <2>2. j \in 1 .. Len(stack) /\ Holds(stack, j)
    BY <1>2, <2>1 DEF Holds
  <2>3. t \in Held(stack)
    BY <2>1, <2>2 DEF Held
  <2>4. ASSUME NEW b \in calls PROVE a = b
    <3>1. PICK k \in DOMAIN stack :
            b = <<"stack", k>> /\ stack[k].at = "insert" /\ stack[k].timer = t
      BY <2>4
    <3>2. k \in 1 .. Len(stack) /\ Holds(stack, k)
      BY <1>2, <3>1 DEF Holds
    <3>3. j = k
      BY <2>1, <2>2, <3>1, <3>2 DEF Inv, Apart, HeldOnce
    <3> QED BY <2>1, <3>1, <3>3
  <2> QED BY <2>3, <2>4
<1>6. /\ ~(t \in Range(current) /\ t \in Range(overflow))
      /\ ~(t \in Held(stack) /\ (t \in Range(current) \/ t \in Range(overflow)))
  BY DEF Inv, Apart
<1> HIDE DEF cur, over, calls
<1> QED BY <1>1, <1>3, <1>4, <1>5, <1>6

(* What StartTimer, prvProcessExpiredTimer or prvSwitchTimerLists inserts  *)
(* is in no list, however the calls re-enter each other: no item of        *)
(* List.cpp is ever linked twice.                                          *)
THEOREM NoDoubleInsert == Spec => []InsertsFree
<1>1. ASSUME Inv PROVE InsertsFree
  <2>1. ASSUME NEW t \in Timer PROVE Cardinality(Places(t)) <= 1
    <3>1. CASE Places(t) = {}
      BY <3>1, FS_EmptySet, SMT
    <3>2. CASE Places(t) # {}
      <4>1. PICK p \in Places(t) : TRUE
        BY <3>2
      <4>2. Places(t) = {p}
        BY <1>1, <4>1, OnePlace
      <4> QED BY <4>2, FS_Singleton, SMT
    <3> QED BY <3>1, <3>2
  <2> QED BY <2>1 DEF InsertsFree
<1> QED BY <1>1, Invariant, PTL

(* Both lists are in the order of their item values between any two steps  *)
(* of any nesting of calls, so that looking at a head is looking at the    *)
(* timer of the list that expires first.                                   *)
THEOREM Sorted == Spec => []ListsSorted
<1>1. Inv => ListsSorted
  BY DEF Inv, Ascends, ListsSorted
<1> QED BY <1>1, Invariant, PTL

-----------------------------------------------------------------------------
(* Turns of the tick                                                       *)

LEMMA Turn ==
    ASSUME NEW a \in Nat
    PROVE  /\ a \div Word \in Nat /\ Tick(a) \in Nat /\ Tick(a) < Word
           /\ a = Word * (a \div Word) + Tick(a)
  BY ParamFacts, SMT DEF Tick

\* In one turn ticks are in the order of their times, ...
LEMMA SameTurn ==
    ASSUME NEW a \in Nat, NEW b \in Nat, a \div Word = b \div Word
    PROVE  Tick(a) <= Tick(b) <=> a <= b
<1> DEFINE q == Word * (b \div Word)
<1>1. /\ Tick(a) \in Nat /\ Tick(b) \in Nat
      /\ a = q + Tick(a) /\ b = q + Tick(b)
  BY Turn
<1>2. q \in Int
  <2>1. b \div Word \in Nat /\ Word \in Nat
    BY Turn, ParamFacts
  <2> QED BY <2>1, SMT
<1> HIDE DEF q
<1> QED BY <1>1, <1>2, SMT

\* ... and a later turn is a later time.
LEMMA LaterTurn ==
    ASSUME NEW a \in Nat, NEW b \in Nat, a \div Word < b \div Word
    PROVE  a < b
<1> DEFINE qa == a \div Word
           qb == b \div Word
<1>1. /\ qa \in Nat /\ qb \in Nat /\ Word \in Nat
      /\ Tick(a) \in Nat /\ Tick(b) \in Nat /\ Tick(a) < Word
      /\ a = Word * qa + Tick(a) /\ b = Word * qb + Tick(b)
  BY Turn, ParamFacts
<1>2. qa < qb
  OBVIOUS
<1> HIDE DEF qa, qb
<1>3. Word * qb = Word * qa + Word * (qb - qa) /\ Word * (qb - qa) >= Word
  BY <1>1, <1>2, SMT
<1> QED BY <1>1, <1>3, SMT

(* Less than a word apart, a smaller reading is one of the next turn: what *)
(* prvSampleTimeNowSinceConstruct concludes.                               *)
LEMMA Turns ==
    ASSUME NEW a \in Nat, NEW b \in Nat, a <= b, b < a + Word
    PROVE  /\ Tick(b) < Tick(a) => b \div Word = a \div Word + 1
           /\ Tick(a) <= Tick(b) => b \div Word = a \div Word
<1> DEFINE qa == a \div Word
           qb == b \div Word
<1>1. /\ qa \in Nat /\ qb \in Nat /\ Word \in Nat /\ Word > 0
      /\ Tick(a) \in Nat /\ Tick(b) \in Nat /\ Tick(a) < Word /\ Tick(b) < Word
      /\ a = Word * qa + Tick(a) /\ b = Word * qb + Tick(b)
  BY Turn, ParamFacts
<1> SUFFICES /\ Tick(b) < Tick(a) => qb = qa + 1
             /\ Tick(a) <= Tick(b) => qb = qa
  OBVIOUS
<1> HIDE DEF qa, qb
<1>2. Word * (qb - qa) = (b - a) + Tick(a) - Tick(b)
  BY <1>1, SMT
<1>3. CASE qb - qa <= 0 - 1
  <2>1. Word * (qb - qa) <= 0 - Word
    BY <1>1, <1>3, SMT
  <2> QED BY <1>1, <1>2, <2>1, SMT
<1>4. CASE qb - qa >= 2
  <2>1. Word * (qb - qa) >= Word + Word
    BY <1>1, <1>4, SMT
  <2> QED BY <1>1, <1>2, <2>1, SMT
<1>5. CASE qb - qa = 0
  <2>1. Word * (qb - qa) = 0
    BY <1>1, <1>5, SMT
  <2> QED BY <1>1, <1>2, <1>5, <2>1, SMT
<1>6. CASE qb - qa = 1
  <2>1. Word * (qb - qa) = Word
    BY <1>1, <1>6, SMT
  <2> QED BY <1>1, <1>2, <1>6, <2>1, SMT
<1> QED BY <1>1, <1>3, <1>4, <1>5, <1>6, SMT

LEMMA OneTurnMore ==
    ASSUME NEW m \in Nat, NEW a \in Nat, a < m
    PROVE  (a + m) % m = a
<1> DEFINE q == (a + m) \div m
<1>1. q \in Int /\ (a + m) % m \in 0 .. m - 1 /\ a + m = m * q + ((a + m) % m)
  BY SMT
<1> HIDE DEF q
<1>2. CASE q <= 0
  <2>1. m * q <= 0
    BY <1>1, <1>2, SMT
  <2> QED BY <1>1, <2>1, SMT
<1>3. CASE q >= 2
  <2>1. m * q >= m + m
    BY <1>1, <1>3, SMT
  <2> QED BY <1>1, <2>1, SMT
<1>4. CASE q = 1
  BY <1>1, <1>4, SMT
<1> QED BY <1>1, <1>2, <1>3, <1>4, SMT

\* The time from command to now, as prvInsertTimerInActiveList counts it.
LEMMA Elapsed ==
    ASSUME NEW command \in Nat, NEW now \in Nat, command <= now, now < command + Word
    PROVE  (Tick(now) + Word - Tick(command)) % Word = now - command
<1> DEFINE qa == command \div Word
           qb == now \div Word
           d == now - command
<1>1. /\ qa \in Nat /\ Word \in Nat /\ Word > 0
      /\ Tick(command) \in Nat /\ Tick(now) \in Nat /\ Tick(command) < Word
      /\ command = Word * qa + Tick(command) /\ now = Word * qb + Tick(now)
      /\ Tick(now) < Tick(command) => qb = qa + 1
      /\ Tick(command) <= Tick(now) => qb = qa
  BY Turn, Turns, ParamFacts
<1>4. d \in Nat /\ d < Word /\ now = command + d
  BY <1>1, SMT
<1> HIDE DEF qa, qb, d
<1>2. CASE Tick(now) < Tick(command)
  <2>1. Word * qb = Word * qa + Word
    BY <1>1, <1>2, SMT
  <2>2. Tick(now) + Word - Tick(command) = d
    BY <1>1, <1>2, <1>4, <2>1, SMT
  <2>3. d % Word = d
    BY <1>1, <1>4, SmallMod
  <2> QED BY <2>2, <2>3 DEF d
<1>3. CASE Tick(command) <= Tick(now)
  <2>1. Tick(now) + Word - Tick(command) = d + Word
    BY <1>1, <1>3, <1>4, SMT
  <2>2. (d + Word) % Word = d
    BY <1>1, <1>4, OneTurnMore
  <2> QED BY <2>1, <2>2 DEF d
<1> QED BY <1>1, <1>2, <1>3, SMT

(* prvInsertTimerInActiveList sees through one overflow between command    *)
(* and now: pdTRUE for a time that has passed, and otherwise the list of   *)
(* the turn the timer expires in.                                          *)
LEMMA ListOfTurn ==
    ASSUME NEW t \in Timer, NEW command \in Nat, NEW now \in Nat,
           command <= now, now <= command + MaxLag
    PROVE  LET e == command + Period[t]
           IN  /\ ProcessNow(t, e, now, command) => e <= now
               /\ ~ProcessNow(t, e, now, command) =>
                     e \div Word = IF Tick(e) <= Tick(now) THEN now \div Word + 1 ELSE now \div Word
<1> DEFINE e == command + Period[t]
<1>1. /\ Period[t] \in Nat /\ Period[t] > 0 /\ Period[t] < Word /\ Word \in Nat
      /\ e \in Nat /\ command <= e /\ e < command + Word /\ now < command + Word
  BY ParamFacts, SMT
<1>2. /\ e = command + Period[t]
      /\ Tick(e) \in Nat /\ Tick(now) \in Nat /\ Tick(command) \in Nat
      /\ command \div Word \in Nat
  BY <1>1, Turn
<1> HIDE DEF e
<1>3. /\ Tick(e) < Tick(command) => e \div Word = command \div Word + 1
      /\ Tick(command) <= Tick(e) => e \div Word = command \div Word
      /\ Tick(now) < Tick(command) => now \div Word = command \div Word + 1
      /\ Tick(command) <= Tick(now) => now \div Word = command \div Word
  BY <1>1, Turns
<1>4. CASE Tick(e) <= Tick(now)
  <2>1. ProcessNow(t, e, now, command) <=> now - command >= Period[t]
    BY <1>1, <1>4, Elapsed DEF ProcessNow
  <2>2. ASSUME ~(now - command >= Period[t]) PROVE e \div Word = now \div Word + 1
    <3>1. now <= e /\ e < now + Word /\ e # now
      BY <1>1, <1>2, <2>2, SMT
    <3>2. e \div Word # now \div Word
      <4>1. SUFFICES ASSUME e \div Word = now \div Word PROVE FALSE
        OBVIOUS
      <4>2. e <= now
        BY <1>1, <1>4, <4>1, SameTurn
      <4> QED BY <1>1, <3>1, <4>2, SMT
    <3>3. /\ Tick(e) < Tick(now) => e \div Word = now \div Word + 1
          /\ Tick(now) <= Tick(e) => e \div Word = now \div Word
      BY <1>1, <3>1, Turns
    <3> QED BY <1>2, <3>2, <3>3, SMT
  <2>3. now - command >= Period[t] => e <= now
    BY <1>1, <1>2, SMT
  <2> QED BY <1>2, <1>4, <2>1, <2>2, <2>3
<1>5. CASE ~(Tick(e) <= Tick(now))
  <2>1. ProcessNow(t, e, now, command) <=> Tick(now) < Tick(command) /\ Tick(e) >= Tick(command)
    BY <1>5 DEF ProcessNow
  <2>2. ASSUME Tick(now) < Tick(command), Tick(e) >= Tick(command) PROVE e <= now
    <3>1. e \div Word < now \div Word
      BY <1>2, <1>3, <2>2, SMT
    <3>2. e < now
      BY <1>1, <3>1, LaterTurn
    <3> QED BY <1>1, <3>2, SMT
  <2>3. ASSUME ~(Tick(now) < Tick(command) /\ Tick(e) >= Tick(command))
        PROVE  e \div Word = now \div Word
    BY <1>2, <1>3, <1>5, <2>3, SMT
  <2> QED BY <1>2, <1>5, <2>1, <2>2, <2>3
<1> QED BY <1>2, <1>4, <1>5

-----------------------------------------------------------------------------
(* One-shot timers                                                         *)

LEMMA ReadingFacts ==
    ASSUME OneShotInv
    PROVE  /\ clock \in Nat /\ sampled \in Nat /\ last \in Nat
           /\ last <= sampled /\ sampled <= clock
           /\ clock <= sampled + MaxLag /\ sampled <= last + MaxLag
           /\ MaxLag \in Nat /\ MaxLag < Word /\ Word \in Nat
           /\ last \div Word \in Nat /\ sampled \div Word \in Nat /\ clock \div Word \in Nat
<1>1. /\ clock \in Nat /\ sampled \in Nat /\ last \in Nat /\ sampled <= clock
      /\ MaxLag \in Nat /\ MaxLag < Word /\ Word \in Nat
  BY ParamFacts, SMT DEF OneShotInv, Inv, TypeOK
<1> QED BY <1>1, Turn DEF OneShotInv, Frequent

LEMMA ListedFacts ==
    ASSUME OneShotInv
    PROVE  /\ \A t \in Range(current) : t \in Timer /\ expiry[t] \in Nat
           /\ \A t \in Range(overflow) : t \in Timer /\ expiry[t] \in Nat
<1>1. Range(current) \subseteq Timer /\ Range(overflow) \subseteq Timer
  BY ListParts DEF OneShotInv, Inv, TypeOK, Range
<1> QED BY <1>1 DEF OneShotInv, Inv, TypeOK

\* A reading that is not smaller is one of the same turn.
LEMMA SameTurnReading ==
    ASSUME OneShotInv, last = sampled, ~Overflowed
    PROVE  last <= clock /\ clock <= last + MaxLag /\ clock \div Word = last \div Word
<1>1. /\ clock \in Nat /\ last \in Nat /\ last <= clock /\ clock <= last + MaxLag
      /\ clock < last + Word
  BY ReadingFacts, SMT
<1>2. Tick(last) <= Tick(clock)
  BY <1>1, Turn, SMT DEF Overflowed
<1> QED BY <1>1, <1>2, Turns

\* The calls in progress while the time is not being switched, ...
LEMMA StartForm ==
    ASSUME OneShotInv, stack # <<>>, stack[1].at \in {"start", "command", "insert"}
    PROVE  Len(stack) = 1 /\ last = sampled /\ Answered(stack[1]) /\ Len(Tail(stack)) = 0
<1>1. ~Switches
  BY DEF Switches, Switch
<1>2. Len(stack) = 1 /\ last = sampled /\ Answered(stack[1])
  BY <1>1 DEF OneShotInv, Shallow
<1>3. Len(Tail(stack)) = Len(stack) - 1
  BY CallsParts DEF OneShotInv, Inv, TypeOK
<1> QED BY <1>2, <1>3, SMT

\* ... and while it is.
LEMMA SwitchForm ==
    ASSUME OneShotInv, At("switch")
    PROVE  /\ Top = stack[1] /\ stack # <<>> /\ stack[1] = Switch(sampled)
           /\ sampled \div Word = last \div Word + 1
           /\ \/ Len(stack) = 1 /\ Len(Tail(stack)) = 0
              \/ /\ Len(stack) = 2 /\ Len(Tail(stack)) = 1 /\ Tail(stack)[1] = stack[2]
                 /\ stack[2].at \in {"start", "command"} /\ Answered(stack[2])
<1>1. Top = stack[1] /\ stack # <<>> /\ stack[1].at = "switch"
  BY TopFacts DEF At, OneShotInv, Inv
<1>2. Switches /\ \/ Len(stack) = 1
                  \/ Len(stack) = 2 /\ stack[2].at \in {"start", "command"} /\ Answered(stack[2])
  BY <1>1 DEF OneShotInv, Shallow
<1>3. sampled \in Nat /\ last \in Nat /\ last <= sampled /\ sampled < last + Word
  BY ReadingFacts, SMT
<1>4. sampled \div Word = last \div Word + 1
  BY <1>2, <1>3, Turns DEF Switches
<1>5. /\ Len(Tail(stack)) = Len(stack) - 1
      /\ \A k \in 1 .. Len(stack) - 1 : Tail(stack)[k] = stack[k + 1]
  BY <1>1, CallsParts DEF OneShotInv, Inv, TypeOK
<1>6. CASE Len(stack) = 1
  <2>1. Len(Tail(stack)) = 0
    BY <1>5, <1>6, SMT
  <2> QED BY <1>1, <1>2, <1>4, <1>6, <2>1 DEF Switches
<1>7. CASE Len(stack) = 2 /\ stack[2].at \in {"start", "command"} /\ Answered(stack[2])
  <2>1. 1 \in 1 .. Len(stack) - 1 /\ 1 + 1 = 2
    BY <1>7, SMT
  <2>2. Tail(stack)[1] = stack[2]
    BY <1>5, <2>1
  <2>3. Len(Tail(stack)) = 1
    BY <1>5, <1>7, SMT
  <2> QED BY <1>1, <1>2, <1>4, <1>7, <2>2, <2>3 DEF Switches
<1> QED BY <1>2, <1>6, <1>7

\* What is still in the current list when the tick has overflowed has expired.
LEMMA AllExpired ==
    ASSUME OneShotInv, At("switch"), NEW t \in Range(current)
    PROVE  expiry[t] <= clock
<1>1. expiry[t] \in Nat /\ expiry[t] \div Word = last \div Word
  BY ListedFacts DEF OneShotInv, InTurn
<1>2. expiry[t] \div Word < sampled \div Word
  BY <1>1, SwitchForm, ReadingFacts, SMT
<1>3. expiry[t] < sampled
  BY <1>1, <1>2, LaterTurn, ReadingFacts
<1> QED BY <1>1, <1>3, ReadingFacts, SMT

\* A list that is given away keeps its order of turns.
LEMMA InTurnSame ==
    ASSUME InTurn, Range(current') \subseteq Range(current),
           Range(overflow') \subseteq Range(overflow),
           \A t \in Range(current) \cup Range(overflow) : expiry'[t] = expiry[t],
           last' \div Word = last \div Word
    PROVE  InTurn'
  BY DEF InTurn

LEMMA OneShotStep ==
    ASSUME AutoReload = {}, OneShotInv, [Next]_vars
    PROVE  OneShotInv'
<1> DEFINE Good == Shallow' /\ Frequent' /\ InTurn' /\ NotEarly'
<1>0. Inv' /\ Inv /\ TypeOK /\ Now
  BY InvStep, InvIsSound DEF OneShotInv
<1> SUFFICES Good
  BY <1>0 DEF OneShotInv
<1>1. CASE Pass
  <2>1. /\ clock < sampled + MaxLag /\ clock' = clock + 1 /\ ran' = <<>>
        /\ UNCHANGED <<sampled, last, current, overflow, expiry, stack>>
    BY <1>1 DEF Pass, Quiet
  <2>2. Shallow'
    BY <2>1 DEF OneShotInv, Shallow, Switches, Answered
  <2>3. Frequent'
    BY <2>1, ReadingFacts, SMT DEF Frequent
  <2>4. InTurn' /\ NotEarly'
    BY <2>1 DEF OneShotInv, InTurn, NotEarly
  <2> QED BY <2>2, <2>3, <2>4
<1>2. ASSUME NEW t \in Timer, AppStart(t) PROVE Good
  <2>1. /\ stack = <<>> /\ stack' = <<Start(t)>> /\ ran' = <<>>
        /\ UNCHANGED <<clock, sampled, last, current, overflow, expiry>>
    BY <1>2 DEF AppStart, Quiet
  <2>2. last = sampled
    <3>1. Len(<<>>) = 0
      BY EmptySeq
    <3> QED BY <2>1, <3>1, SMT DEF OneShotInv, Shallow
  <2>3. Len(stack') = 1 /\ stack'[1] = Start(t)
    BY <2>1, SMT
  <2>4. Shallow'
    BY <2>1, <2>2, <2>3 DEF Shallow, Answered, Start
  <2> QED BY <2>1, <2>4 DEF OneShotInv, Frequent, InTurn, NotEarly
<1>3. CASE AppLoop \/ UNCHANGED vars
  <2>1. /\ ran' \in {<<>>, ran}
        /\ UNCHANGED <<clock, sampled, last, current, overflow, expiry, stack>>
    BY <1>3 DEF AppLoop, Quiet, vars
  <2>2. Shallow' /\ Frequent' /\ InTurn'
    BY <2>1 DEF OneShotInv, Shallow, Switches, Answered, Frequent, InTurn
  <2> QED BY <2>1, <2>2 DEF OneShotInv, NotEarly
<1>4. ASSUME At("start") \/ At("command"), RemoveContained
      PROVE  /\ stack # <<>> /\ stack[1].at \in {"start", "command"}
             /\ Range(current') \subseteq Range(current) /\ Range(overflow') \subseteq Range(overflow)
  <2>1. stack # <<>> /\ stack[1].at \in {"start", "command"}
    BY <1>0, <1>4, TopFacts DEF At
  <2> QED BY <1>0, <1>4, <2>1, Removes
<1>5. CASE Sample
  <2>1. /\ stack # <<>> /\ stack[1].at \in {"start", "command"}
        /\ Range(current') \subseteq Range(current) /\ Range(overflow') \subseteq Range(overflow)
    BY <1>4, <1>5 DEF Sample
  <2>2. /\ ~Overflowed /\ last' = clock /\ sampled' = clock /\ ran' = <<>>
        /\ stack' = Resume(stack, clock) /\ UNCHANGED <<clock, expiry>>
    BY <1>5 DEF Sample, Quiet
  <2>3. Len(stack) = 1 /\ last = sampled /\ Answered(stack[1])
    BY <2>1, StartForm
  <2>4. last <= clock /\ clock <= last + MaxLag /\ clock \div Word = last \div Word
    BY <2>2, <2>3, SameTurnReading
  <2>5. /\ Len(stack') = 1
        /\ stack[1].at = "start" => stack'[1].at = "command" /\ stack'[1].command = clock
        /\ stack[1].at = "command" => /\ stack'[1].at = "insert" /\ stack'[1].now = clock
                                      /\ stack'[1].command = stack[1].command
    BY <1>0, <2>1, <2>2, <2>3, ResumeParts, ReadingFacts DEF TypeOK
  <2>6. Shallow'
    BY <2>1, <2>2, <2>3, <2>4, <2>5 DEF Shallow, Answered
  <2>7. Frequent'
    BY <2>2, ReadingFacts, SMT DEF Frequent
  <2>8. InTurn'
    BY <2>1, <2>2, <2>4, InTurnSame DEF OneShotInv
  <2> QED BY <2>2, <2>6, <2>7, <2>8 DEF NotEarly
<1>6. CASE SampleOverflow
  <2>1. /\ stack # <<>> /\ stack[1].at \in {"start", "command"}
        /\ Range(current') \subseteq Range(current) /\ Range(overflow') \subseteq Range(overflow)
    BY <1>4, <1>6 DEF SampleOverflow
  <2>2. /\ Overflowed /\ sampled' = clock /\ ran' = <<>>
        /\ stack' = <<Switch(clock)>> \o stack /\ UNCHANGED <<clock, last, expiry>>
    BY <1>6 DEF SampleOverflow, Quiet
  <2>3. Len(stack) = 1 /\ last = sampled /\ Answered(stack[1])
    BY <2>1, StartForm
  <2>4. Switch(clock) \in Frames
    BY ReadingFacts DEF Switch, Frames, SwitchFrames
  <2>5. Len(stack') = 2 /\ stack'[1] = Switch(clock) /\ stack'[2] = stack[1]
    <3>1. /\ Len(stack') = Len(stack) + 1 /\ stack'[1] = Switch(clock)
          /\ \A k \in 2 .. Len(stack) + 1 : stack'[k] = stack[k - 1]
      BY <1>0, <2>2, <2>4, PushParts DEF TypeOK
    <3>2. 2 \in 2 .. Len(stack) + 1 /\ 2 - 1 = 1 /\ Len(stack) + 1 = 2
      BY <2>3, SMT
    <3> QED BY <3>1, <3>2
  <2>6. Shallow'
    BY <2>1, <2>2, <2>3, <2>5 DEF Shallow, Switches, Overflowed, Answered
  <2>7. Frequent'
    BY <2>2, <2>3, ReadingFacts, SMT DEF Frequent
  <2>8. InTurn'
    BY <2>1, <2>2, InTurnSame DEF OneShotInv
  <2> QED BY <2>2, <2>6, <2>7, <2>8 DEF NotEarly
<1>7. ASSUME At("insert"), stack' = Tail(stack), UNCHANGED <<clock, sampled, last>>
      PROVE  Shallow' /\ Frequent'
  <2>1. stack # <<>> /\ stack[1].at = "insert" /\ Tail(stack) \in Seq(Frames)
    BY <1>0, <1>7, TopFacts, CallsParts DEF At, TypeOK
  <2>2. stack' = <<>>
    BY <1>7, <2>1, StartForm, CallsParts
  <2>3. last = sampled
    BY <2>1, StartForm
  <2> QED BY <1>7, <2>2, <2>3 DEF OneShotInv, Shallow, Frequent
<1>8. CASE StartInsert
  <2> DEFINE t == stack[1].timer
             c == stack[1].command
             e == c + Period[t]
  <2>1. stack # <<>> /\ stack[1].at = "insert" /\ Top = stack[1]
    BY <1>0, <1>8, TopFacts DEF StartInsert, At
  <2>2. t \in Timer /\ c \in Nat /\ e \in Nat
    BY <1>0, <2>1, TopFacts
  <2>3. stack[1].now = last /\ c <= last /\ last <= c + MaxLag
    BY <2>1, StartForm DEF Answered
  <2>4. /\ ~ProcessNow(t, e, last, c) /\ InsertActive(t, e, last, current, overflow)
        /\ stack' = Tail(stack) /\ ran' = <<>> /\ UNCHANGED <<clock, sampled, last>>
    BY <1>8, <2>1, <2>3 DEF StartInsert, Quiet
  <2>5. t \notin Range(current) /\ t \notin Range(overflow)
    <3>1. 1 \in 1 .. Len(stack) /\ Holds(stack, 1)
      BY <1>0, <2>1, CallsParts, SMT DEF TypeOK, Holds
    <3>2. t \in Held(stack)
      BY <3>1 DEF Held
    <3> QED BY <1>0, <3>2 DEF Inv, Apart
  <2>6. e \div Word = IF Tick(e) <= Tick(last) THEN last \div Word + 1 ELSE last \div Word
    BY <2>2, <2>3, <2>4, ListOfTurn, ReadingFacts
  <2> HIDE DEF t, c, e
  <2>7. InTurn'
    <3>1. expiry' = [expiry EXCEPT ![t] = e] /\ expiry' \in [Timer -> Nat]
      BY <1>0, <2>2, <2>4 DEF InsertActive, TypeOK
    <3>2. expiry'[t] = e /\ \A u \in Range(current) \cup Range(overflow) : expiry'[u] = expiry[u]
      BY <1>0, <2>2, <2>5, <3>1 DEF TypeOK
    <3> DEFINE after == expiry'
    <3>3. after \in [Timer -> Nat] /\ current \in Seq(Timer) /\ overflow \in Seq(Timer)
      BY <1>0, <3>1 DEF TypeOK
    <3>4. IF Tick(e) <= Tick(last)
          THEN overflow' = With(overflow, t, after) /\ current' = current
          ELSE current' = With(current, t, after) /\ overflow' = overflow
      BY <2>4 DEF InsertActive
    <3> HIDE DEF after
    <3>5. CASE Tick(e) <= Tick(last)
      <4>1. Range(overflow') = Range(overflow) \cup {t} /\ current' = current
        BY <2>2, <3>3, <3>4, <3>5, WithFacts
      <4>2. e \div Word = last \div Word + 1
        BY <2>6, <3>5
      <4> QED BY <2>4, <3>2, <4>1, <4>2 DEF OneShotInv, InTurn
    <3>6. CASE ~(Tick(e) <= Tick(last))
      <4>1. Range(current') = Range(current) \cup {t} /\ overflow' = overflow
        BY <2>2, <3>3, <3>4, <3>6, WithFacts
      <4>2. e \div Word = last \div Word
        BY <2>6, <3>6
      <4> QED BY <2>4, <3>2, <4>1, <4>2 DEF OneShotInv, InTurn
    <3> QED BY <3>5, <3>6
  <2>8. Shallow' /\ Frequent'
    BY <1>7, <1>8, <2>4 DEF StartInsert
  <2> QED BY <2>4, <2>7, <2>8 DEF NotEarly
<1>9. CASE StartLate
  <2> DEFINE t == stack[1].timer
             c == stack[1].command
             e == c + Period[t]
  <2>1. stack # <<>> /\ stack[1].at = "insert" /\ Top = stack[1]
    BY <1>0, <1>9, TopFacts DEF StartLate, At
  <2>2. t \in Timer /\ c \in Nat /\ e \in Nat
    BY <1>0, <2>1, TopFacts
  <2>3. stack[1].now = last /\ c <= last /\ last <= c + MaxLag
    BY <2>1, StartForm DEF Answered
  <2>4. /\ ProcessNow(t, e, last, c) /\ expiry' = [expiry EXCEPT ![t] = e]
        /\ stack' = Tail(stack) /\ ran' = <<t, e>>
        /\ UNCHANGED <<clock, sampled, last, current, overflow>>
    BY <1>9, <2>1, <2>3 DEF StartLate, Callback
  <2>5. t \notin Range(current) /\ t \notin Range(overflow)
    <3>1. 1 \in 1 .. Len(stack) /\ Holds(stack, 1)
      BY <1>0, <2>1, CallsParts, SMT DEF TypeOK, Holds
    <3>2. t \in Held(stack)
      BY <3>1 DEF Held
    <3> QED BY <1>0, <3>2 DEF Inv, Apart
  <2>6. e <= last
    BY <2>2, <2>3, <2>4, ListOfTurn, ReadingFacts
  <2> HIDE DEF t, c, e
  <2>7. \A u \in Range(current) \cup Range(overflow) : expiry'[u] = expiry[u]
    BY <1>0, <2>4, <2>5, ListedFacts DEF TypeOK
  <2>8. InTurn'
    BY <2>4, <2>7, InTurnSame DEF OneShotInv
  <2>9. NotEarly'
    <3>1. e <= clock
      BY <2>2, <2>6, ReadingFacts, SMT
    <3> QED BY <2>4, <3>1 DEF NotEarly
  <2>10. Shallow' /\ Frequent'
    BY <1>7, <1>9, <2>4 DEF StartLate
  <2> QED BY <2>8, <2>9, <2>10
<1>10. CASE SwitchOneShot
  <2>1. /\ At("switch") /\ current # <<>> /\ current' = Tail(current)
        /\ ran' = <<Head(current), expiry[Head(current)]>>
        /\ UNCHANGED <<clock, sampled, last, overflow, expiry, stack>>
    BY <1>10 DEF SwitchOneShot, Callback
  <2>2. Head(current) \in Range(current) /\ Range(current') \subseteq Range(current)
    BY <1>0, <2>1, HeadFacts
  <2>3. NotEarly'
    BY <2>1, <2>2, AllExpired DEF NotEarly
  <2>4. Shallow' /\ Frequent'
    BY <2>1 DEF OneShotInv, Shallow, Switches, Answered, Frequent
  <2>5. InTurn'
    BY <2>1, <2>2, InTurnSame DEF OneShotInv
  <2> QED BY <2>3, <2>4, <2>5
<1>11. CASE SwitchDone
  <2>1. At("switch") /\ current = <<>>
    BY <1>11 DEF SwitchDone
  <2>2. Top = stack[1] /\ stack # <<>> /\ stack[1] = Switch(sampled) /\ stack[1].now = sampled
    BY <2>1, SwitchForm DEF Switch
  <2>3. /\ current' = overflow /\ overflow' = current /\ last' = sampled /\ ran' = <<>>
        /\ stack' = Resume(Tail(stack), sampled) /\ UNCHANGED <<clock, sampled, expiry>>
    BY <1>11, <2>2 DEF SwitchDone, Quiet
  <2>4. InTurn'
    <3>1. Range(current) = {}
      BY <2>1, EmptySeq DEF Range
    <3>2. sampled \div Word = last \div Word + 1
      BY <2>1, SwitchForm
    <3> QED BY <2>3, <3>1, <3>2 DEF OneShotInv, InTurn
  <2>5. Frequent'
    BY <2>3, ReadingFacts, SMT DEF Frequent
  <2>6. Shallow'
    <3>1. Tail(stack) \in Seq(Frames)
      BY <1>0, <2>2, CallsParts DEF TypeOK
    <3>2. CASE Len(Tail(stack)) = 0
      <4>1. Tail(stack) = <<>>
        BY <3>1, <3>2, CallsParts
      <4>2. stack' = <<>>
        BY <2>3, <4>1 DEF Resume
      <4> QED BY <2>3, <4>2 DEF Shallow
    <3>3. CASE /\ Len(Tail(stack)) = 1 /\ Tail(stack)[1] = stack[2]
               /\ stack[2].at \in {"start", "command"} /\ Answered(stack[2])
      <4>1. Tail(stack) # <<>>
        <5>1. Len(<<>>) = 0
          BY EmptySeq
        <5> QED BY <3>3, <5>1, SMT
      <4>2. /\ Len(stack') = 1
            /\ stack[2].at = "start" => stack'[1].at = "command" /\ stack'[1].command = sampled
            /\ stack[2].at = "command" => /\ stack'[1].at = "insert" /\ stack'[1].now = sampled
                                          /\ stack'[1].command = stack[2].command
        <5> DEFINE calls == Tail(stack)
        <5>1. /\ calls \in Seq(Frames) /\ calls # <<>> /\ Len(calls) = 1 /\ calls[1] = stack[2]
              /\ calls[1].at \in {"start", "command"} /\ stack' = Resume(calls, sampled)
              /\ sampled \in Nat
          BY <2>3, <3>1, <3>3, <4>1, ReadingFacts
        <5> HIDE DEF calls
        <5> QED BY <5>1, ResumeParts
      <4>3. last <= sampled /\ sampled <= last + MaxLag
        BY ReadingFacts
      <4> QED BY <2>3, <3>3, <4>2, <4>3 DEF Shallow, Answered
    <3> QED BY <2>1, <3>2, <3>3, SwitchForm
  <2> QED BY <2>3, <2>4, <2>5, <2>6 DEF NotEarly
<1>12. ASSUME stack = <<>>
       PROVE  last = sampled
  <2>1. Len(<<>>) = 0
    BY EmptySeq
  <2> QED BY <1>12, <2>1, SMT DEF OneShotInv, Shallow
<1>13. CASE RoundOverflow
  <2>1. /\ stack = <<>> /\ Overflowed /\ sampled' = clock /\ stack' = <<Switch(clock)>> /\ ran' = <<>>
        /\ UNCHANGED <<clock, last, current, overflow, expiry>>
    BY <1>13 DEF RoundOverflow, Round, Quiet
  <2>2. Len(stack') = 1 /\ stack'[1] = Switch(clock)
    BY <2>1, SMT
  <2>3. Shallow'
    BY <2>1, <2>2 DEF Shallow, Switches, Overflowed
  <2>4. Frequent'
    BY <1>12, <2>1, ReadingFacts, SMT DEF Frequent
  <2> QED BY <2>1, <2>3, <2>4 DEF OneShotInv, InTurn, NotEarly
<1>14. ASSUME Round, ~Overflowed, last' = clock, sampled' = clock, stack' = stack, clock' = clock
       PROVE  Shallow' /\ Frequent' /\ clock \div Word = last \div Word
  <2>1. stack = <<>>
    BY <1>14 DEF Round
  <2>2. clock \div Word = last \div Word
    BY <1>12, <1>14, <2>1, SameTurnReading
  <2>3. Frequent'
    BY <1>14, ReadingFacts, SMT DEF Frequent
  <2> QED BY <1>14, <2>1, <2>2, <2>3 DEF Shallow
<1>15. CASE RoundIdle
  <2>1. /\ Round /\ ~Overflowed /\ last' = clock /\ sampled' = clock /\ ran' = <<>>
        /\ UNCHANGED <<clock, current, overflow, expiry, stack>>
    BY <1>15 DEF RoundIdle, Quiet
  <2>2. Shallow' /\ Frequent' /\ clock \div Word = last \div Word
    BY <1>14, <2>1
  <2>3. InTurn'
    BY <2>1, <2>2, InTurnSame DEF OneShotInv
  <2> QED BY <2>1, <2>2, <2>3 DEF NotEarly
<1>16. CASE RoundOneShot
  <2>1. /\ Round /\ ~Overflowed /\ last' = clock /\ sampled' = clock /\ current' = Tail(current)
        /\ current # <<>> /\ Tick(expiry[Head(current)]) <= Tick(clock)
        /\ ran' = <<Head(current), expiry[Head(current)]>>
        /\ UNCHANGED <<clock, overflow, expiry, stack>>
    BY <1>16 DEF RoundOneShot, HeadExpired, Callback
  <2>2. Shallow' /\ Frequent' /\ clock \div Word = last \div Word
    BY <1>14, <2>1
  <2>3. Head(current) \in Range(current) /\ Range(current') \subseteq Range(current)
    BY <1>0, <2>1, HeadFacts
  <2>4. InTurn'
    BY <2>1, <2>2, <2>3, InTurnSame DEF OneShotInv
  <2>5. expiry[Head(current)] \in Nat /\ expiry[Head(current)] \div Word = clock \div Word
    BY <2>2, <2>3, ListedFacts DEF OneShotInv, InTurn
  <2>6. expiry[Head(current)] <= clock
    BY <2>1, <2>5, SameTurn, ReadingFacts
  <2>7. NotEarly'
    BY <2>1, <2>6 DEF NotEarly
  <2> QED BY <2>2, <2>4, <2>7
<1>17. ~SwitchReload /\ ~SwitchRestart /\ ~RoundReload /\ ~RoundRestart
  BY DEF SwitchReload, SwitchRestart, RoundReload, RoundRestart
<1>18. ~ExpiredCallback
  <2>1. SUFFICES ASSUME ExpiredCallback PROVE FALSE
    OBVIOUS
  <2>2. stack # <<>> /\ stack[1].at = "expired"
    BY <1>0, <2>1, TopFacts DEF ExpiredCallback, At
  <2> QED BY <2>2 DEF OneShotInv, Shallow, Switches, Switch
<1> QED
  BY <1>1, <1>2, <1>3, <1>5, <1>6, <1>8, <1>9, <1>10, <1>11, <1>13, <1>15, <1>16, <1>17, <1>18
     DEF Next, Program, App, StartTimer, SwitchTimerLists, ProcessLoop

(* With one-shot timers only, one switch of the lists at a time is enough  *)
(* to keep every timer in the list of its turn of the tick.                *)
THEOREM OneShotInvariant ==
    ASSUME AutoReload = {}
    PROVE  Spec => []OneShotInv
<1>1. Init => OneShotInv
  <2> SUFFICES ASSUME Init PROVE OneShotInv
    OBVIOUS
  <2>1. Inv
    BY InitInv
  <2>2. Shallow /\ NotEarly
    BY DEF Init, Shallow, NotEarly
  <2>3. Frequent
    BY ParamFacts, SMT DEF Init, Frequent
  <2>4. InTurn
    <3>1. Range(current) = {} /\ Range(overflow) = {}
      BY EmptySeq DEF Init, Range
    <3> QED BY <3>1 DEF InTurn
  <2> QED BY <2>1, <2>2, <2>3, <2>4 DEF OneShotInv
<1>2. OneShotInv /\ [Next]_vars => OneShotInv'
  BY OneShotStep
<1> QED BY <1>1, <1>2, PTL DEF Spec

(* No one-shot timer's callback runs before the time StartTimer was asked  *)
(* for, on whichever side of an overflow of the tick the call is made.     *)
THEOREM NeverEarly ==
    ASSUME AutoReload = {}
    PROVE  Spec => []NotEarly
<1>1. OneShotInv => NotEarly
  BY DEF OneShotInv
<1> QED BY <1>1, OneShotInvariant, PTL

(* The current list holds what expires in this turn of the tick, the       *)
(* overflow list what expires in the next.                                 *)
THEOREM EachInItsTurn ==
    ASSUME AutoReload = {}
    PROVE  Spec => []Epochs
<1>1. ASSUME OneShotInv PROVE Epochs
  <2>1. \A k \in DOMAIN current : current[k] \in Range(current)
    BY DEF Range
  <2>2. \A k \in DOMAIN overflow : overflow[k] \in Range(overflow)
    BY DEF Range
  <2> QED BY <1>1, <2>1, <2>2 DEF OneShotInv, InTurn, Epochs
<1> QED BY <1>1, OneShotInvariant, PTL

(* When prvSwitchTimerLists empties the current list, every timer it finds *)
(* there has expired, as its comment says.                                 *)
THEOREM SwitchedHaveExpired ==
    ASSUME AutoReload = {}
    PROVE  Spec => []MustHaveExpired
<1>1. ASSUME OneShotInv PROVE MustHaveExpired
  <2>1. \A k \in DOMAIN current : current[k] \in Range(current)
    BY DEF Range
  <2> QED BY <1>1, <2>1, AllExpired DEF MustHaveExpired
<1> QED BY <1>1, OneShotInvariant, PTL

(* A round that finds nothing due at the head of the current list has      *)
(* missed no timer in either list.                                         *)
THEOREM NoneMissed ==
    ASSUME AutoReload = {}
    PROVE  Spec => []NoneOverdue
<1>1. ASSUME OneShotInv, Round, ~Overflowed, ~HeadExpired, NEW t \in Timer, InList(t)
      PROVE  expiry[t] > clock
  <2>1. last = sampled
    <3>1. stack = <<>> /\ Len(<<>>) = 0
      BY <1>1, EmptySeq DEF Round
    <3> QED BY <1>1, <3>1, SMT DEF OneShotInv, Shallow
  <2>2. clock \div Word = last \div Word /\ clock \in Nat /\ last \div Word \in Nat
    BY <1>1, <2>1, SameTurnReading, ReadingFacts
  <2>3. expiry[t] \in Nat
    BY <1>1 DEF OneShotInv, Inv, TypeOK
  <2>4. ASSUME t \in Range(overflow) PROVE expiry[t] > clock
    <3>1. expiry[t] \div Word = last \div Word + 1
      BY <1>1, <2>4 DEF OneShotInv, InTurn
    <3>2. clock \div Word < expiry[t] \div Word
      BY <2>2, <3>1, SMT
    <3>3. clock < expiry[t]
      BY <2>2, <2>3, <3>2, LaterTurn
    <3> QED BY <2>2, <2>3, <3>3, SMT
  <2>5. ASSUME NEW k \in DOMAIN current, current[k] = t PROVE expiry[t] > clock
    <3>1. /\ current \in Seq(Timer) /\ current # <<>> /\ DOMAIN current = 1 .. Len(current)
          /\ Head(current) = current[1] /\ Len(current) \in Nat
      BY <1>1, <2>5, ListParts, EmptySeq DEF OneShotInv, Inv, TypeOK
    <3>2. k \in Nat /\ 1 <= k /\ 1 \in DOMAIN current
      BY <2>5, <3>1, SMT
    <3>3. Head(current) \in Timer /\ expiry[Head(current)] \in Nat
      BY <1>1, <3>1, <3>2, ListParts DEF OneShotInv, Inv, TypeOK
    <3>4. Tick(clock) < Tick(expiry[Head(current)])
      <4>1. ~(Tick(expiry[Head(current)]) <= Tick(clock))
        BY <1>1, <3>1 DEF HeadExpired
      <4>2. Tick(expiry[Head(current)]) \in Nat /\ Tick(clock) \in Nat
        BY <2>2, <3>3, Turn
      <4> QED BY <4>1, <4>2, SMT
    <3>5. Tick(expiry[Head(current)]) <= Tick(expiry[t])
      <4>1. CASE k = 1
        <5>1. Head(current) = t /\ Tick(expiry[t]) \in Nat
          BY <2>3, <2>5, <3>1, <4>1, Turn
        <5> QED BY <5>1, SMT
      <4>2. CASE 1 < k
        BY <1>1, <2>5, <3>1, <3>2, <4>2 DEF OneShotInv, Inv, Ascends
      <4> QED BY <3>2, <4>1, <4>2, SMT
    <3>6. expiry[t] \div Word = clock \div Word
      BY <1>1, <2>2, <2>5 DEF OneShotInv, InTurn, Range
    <3>7. Tick(expiry[t]) <= Tick(clock) <=> expiry[t] <= clock
      BY <2>2, <2>3, <3>6, SameTurn
    <3> QED BY <2>2, <2>3, <3>3, <3>4, <3>5, <3>7, Turn, SMT
  <2> QED BY <1>1, <2>4, <2>5 DEF InList, Range
<1>2. OneShotInv => NoneOverdue
  BY <1>1 DEF NoneOverdue
<1> QED BY <1>2, OneShotInvariant, PTL

-----------------------------------------------------------------------------
(* Readings in order                                                       *)

LEMMA TimelyTail ==
    ASSUME NEW calls \in Seq(Frames), calls # <<>>, NEW time, Timely(calls, time)
    PROVE  Timely(Tail(calls), time)
<1> DEFINE len == Len(calls)
           q == Tail(calls)
<1>1. /\ len \in Nat /\ len > 0 /\ Len(q) = len - 1
      /\ \A k \in 1 .. len - 1 : q[k] = calls[k + 1]
  BY CallsParts
<1> HIDE DEF q
<1>2. ASSUME NEW k \in 1 .. Len(q)
      PROVE  /\ k + 1 \in 1 .. len /\ q[k] = calls[k + 1]
             /\ k > 1 => k + 1 > 1 /\ q[k - 1] = calls[(k + 1) - 1]
  <2>1. /\ k \in 1 .. len - 1 /\ k + 1 \in 1 .. len
        /\ k > 1 => k + 1 > 1 /\ k - 1 \in 1 .. len - 1 /\ (k - 1) + 1 = (k + 1) - 1
    BY <1>1, SMT
  <2> QED BY <1>1, <2>1
<1>3. Timely(q, time)
  BY <1>2 DEF Timely
<1> QED BY <1>3 DEF q

LEMMA TimelyPush ==
    ASSUME NEW calls \in Seq(Frames), NEW time \in Nat, Timely(calls, time),
           NEW f \in Frames, f.at = "start" \/ (f.at = "switch" /\ f.now = time)
    PROVE  Timely(<<f>> \o calls, time)
<1> DEFINE len == Len(calls)
           q == <<f>> \o calls
<1>1. /\ len \in Nat /\ Len(q) = len + 1 /\ q[1] = f
      /\ \A k \in 2 .. len + 1 : q[k] = calls[k - 1]
  BY PushParts, CallsParts
<1> HIDE DEF q
<1>2. ASSUME NEW k \in 1 .. Len(q), k # 1
      PROVE  /\ k - 1 \in 1 .. len /\ q[k] = calls[k - 1]
             /\ k - 1 > 1 => q[k - 1] = calls[(k - 1) - 1]
             /\ ~(k - 1 > 1) => q[k - 1] = f
  <2>1. /\ k \in 2 .. len + 1 /\ k - 1 \in 1 .. len
        /\ k - 1 > 1 => k - 1 \in 2 .. len + 1
        /\ ~(k - 1 > 1) => k - 1 = 1
    BY <1>1, <1>2, SMT
  <2> QED BY <1>1, <2>1
<1>3. f.at = "switch" => f.now <= time
  BY SMT
<1>4. ASSUME NEW k \in 1 .. Len(q)
      PROVE  /\ q[k].at = "command" =>
                   /\ q[k].command <= time
                   /\ k > 1 /\ q[k - 1].at = "switch" => q[k].command <= q[k - 1].now
             /\ q[k].at = "insert" => q[k].command <= q[k].now
             /\ q[k].at = "switch" => q[k].now <= time
  <2>1. CASE k = 1
    BY <1>1, <1>3, <2>1
  <2>2. CASE k # 1
    BY <1>2, <2>2 DEF Timely
  <2> QED BY <2>1, <2>2
<1>5. Timely(q, time)
  BY <1>4 DEF Timely
<1> QED BY <1>5 DEF q

LEMMA TimelyResume ==
    ASSUME NEW calls \in Seq(Frames), calls # <<>>, calls[1].at \in {"start", "command"},
           NEW time \in Nat, Timely(calls, time), NEW now \in Nat, now <= time,
           calls[1].at = "command" => calls[1].command <= now
    PROVE  Timely(Resume(calls, now), time)
<1> DEFINE len == Len(calls)
           r == Resume(calls, now)
<1>1. /\ len \in Nat /\ Len(r) = len
      /\ calls[1].at = "start" => r[1].at = "command" /\ r[1].command = now
      /\ calls[1].at = "command" =>
            r[1].at = "insert" /\ r[1].command = calls[1].command /\ r[1].now = now
      /\ \A k \in 2 .. len : r[k] = calls[k]
  BY ResumeParts, CallsParts
<1> HIDE DEF r
<1>2. ASSUME NEW k \in 1 .. Len(r), k # 1
      PROVE  k \in 1 .. len /\ r[k] = calls[k] /\ (k - 1 = 1 \/ r[k - 1] = calls[k - 1])
  <2>1. k \in 2 .. len /\ k \in 1 .. len /\ (k - 1 = 1 \/ k - 1 \in 2 .. len)
    BY <1>1, <1>2, SMT
  <2> QED BY <1>1, <2>1
<1>3. r[1].at # "switch"
  BY <1>1
<1>4. ASSUME NEW k \in 1 .. Len(r)
      PROVE  /\ r[k].at = "command" =>
                   /\ r[k].command <= time
                   /\ k > 1 /\ r[k - 1].at = "switch" => r[k].command <= r[k - 1].now
             /\ r[k].at = "insert" => r[k].command <= r[k].now
             /\ r[k].at = "switch" => r[k].now <= time
  <2>1. CASE k = 1
    <3>1. ~(k > 1)
      BY <2>1, SMT
    <3> QED BY <1>1, <2>1, <3>1
  <2>2. CASE k # 1
    BY <1>2, <1>3, <2>2 DEF Timely
  <2> QED BY <2>1, <2>2
<1>5. Timely(r, time)
  BY <1>4 DEF Timely
<1> QED BY <1>5 DEF r

\* The frame under a switch is the call that made it.
LEMMA UnderSwitch ==
    ASSUME NEW calls \in Seq(Frames), calls # <<>>, calls[1].at = "switch", Nested(calls)
    PROVE  LET q == Tail(calls)
           IN /\ q \in Seq(Frames)
              /\ q # <<>> =>
                    /\ q[1].at \in {"start", "command"}
                    /\ \A time : Timely(calls, time) /\ q[1].at = "command" => q[1].command <= calls[1].now
<1> DEFINE len == Len(calls)
           q == Tail(calls)
<1>1. /\ len \in Nat /\ len > 0 /\ q \in Seq(Frames) /\ Len(q) = len - 1
      /\ \A k \in 1 .. len - 1 : q[k] = calls[k + 1]
      /\ q # <<>> => Len(q) > 0
  BY CallsParts
<1> HIDE DEF q
<1>2. ASSUME q # <<>>
      PROVE  /\ q[1].at \in {"start", "command"}
             /\ \A time : Timely(calls, time) /\ q[1].at = "command" => q[1].command <= calls[1].now
  <2>1. 1 \in 1 .. len - 1 /\ 1 + 1 = 2 /\ 2 \in 1 .. len /\ 2 > 1 /\ 2 - 1 = 1
    BY <1>1, <1>2, SMT
  <2>2. q[1] = calls[2] /\ calls[2].at \in {"start", "command"}
    BY <1>1, <2>1 DEF Nested
  <2>3. ASSUME NEW time, Timely(calls, time), q[1].at = "command"
        PROVE  q[1].command <= calls[1].now
    BY <2>1, <2>2, <2>3 DEF Timely
  <2> QED BY <2>2, <2>3
<1> QED BY <1>1, <1>2 DEF q

LEMMA TimelyStep ==
    ASSUME Inv, Timely(stack, clock), [Next]_vars
    PROVE  Timely(stack', clock')
<1>0. /\ TypeOK /\ stack \in Seq(Frames) /\ Nested(stack) /\ clock \in Nat
      /\ \A k \in 1 .. Len(stack) : stack[k] \in Frames
  BY CallsParts, SMT DEF Inv, TypeOK
<1>1. CASE Pass
  <2>1. clock' = clock + 1 /\ stack' = stack
    BY <1>1 DEF Pass
  <2>2. ASSUME NEW x \in Nat, x <= clock PROVE x <= clock'
    BY <1>0, <2>1, <2>2, SMT
  <2>3. ASSUME NEW k \in 1 .. Len(stack)
        PROVE  /\ stack[k].at = "command" => stack[k].command \in Nat
               /\ stack[k].at = "switch" => stack[k].now \in Nat
    BY <1>0, FrameFacts DEF StartFrames, SwitchFrames
  <2> QED BY <2>1, <2>2, <2>3 DEF Timely
<1>2. CASE \/ AppLoop \/ RoundIdle \/ RoundOneShot \/ RoundReload
           \/ SwitchOneShot \/ SwitchReload \/ UNCHANGED vars
  <2>1. UNCHANGED <<clock, stack>>
    BY <1>2 DEF AppLoop, RoundIdle, RoundOneShot, RoundReload, SwitchOneShot, SwitchReload, vars
  <2> QED BY <2>1 DEF Timely
<1>3. CASE (\E t \in Timer : AppStart(t)) \/ RoundOverflow
  <2>1. PICK f \in Frames :
          /\ stack = <<>> /\ clock' = clock /\ stack' = <<f>>
          /\ f.at = "start" \/ (f.at = "switch" /\ f.now = clock)
    <3>1. \A t \in Timer : Start(t) \in Frames /\ Start(t).at = "start"
      BY DEF Start, Frames, StartFrames
    <3>2. Switch(clock) \in Frames /\ Switch(clock).at = "switch" /\ Switch(clock).now = clock
      BY <1>0 DEF Switch, Frames, SwitchFrames
    <3> QED BY <1>3, <3>1, <3>2 DEF AppStart, RoundOverflow, Round
  <2>2. Len(stack') = 1 /\ stack'[1] = f /\ 1 .. 1 = {1} /\ clock <= clock
    BY <1>0, <2>1, SMT
  <2> QED BY <2>1, <2>2 DEF Timely
<1>4. ASSUME At("start") \/ At("command")
      PROVE  /\ stack # <<>> /\ stack[1].at \in {"start", "command"}
             /\ stack[1].at = "command" => stack[1].command <= clock
  <2>1. stack # <<>> /\ stack[1].at \in {"start", "command"}
    BY <1>0, <1>4, TopFacts DEF At
  <2>2. 1 \in 1 .. Len(stack)
    BY <1>0, <2>1, CallsParts, SMT
  <2> QED BY <2>1, <2>2 DEF Timely
<1>5. CASE Sample
  <2>1. stack' = Resume(stack, clock) /\ clock' = clock
    BY <1>5 DEF Sample
  <2>2. clock <= clock
    BY <1>0, SMT
  <2> QED BY <1>0, <1>4, <1>5, <2>1, <2>2, TimelyResume DEF Sample
<1>6. CASE SampleOverflow
  <2>1. stack' = <<Switch(clock)>> \o stack /\ clock' = clock
    BY <1>6 DEF SampleOverflow
  <2>2. Switch(clock) \in Frames /\ Switch(clock).at = "switch" /\ Switch(clock).now = clock
    BY <1>0 DEF Switch, Frames, SwitchFrames
  <2> QED BY <1>0, <2>1, <2>2, TimelyPush
<1>7. CASE StartInsert \/ StartLate \/ ExpiredCallback
  <2>1. stack # <<>> /\ stack' = Tail(stack) /\ clock' = clock
    BY <1>7 DEF StartInsert, StartLate, ExpiredCallback, At
  <2> QED BY <1>0, <2>1, TimelyTail
<1>8. CASE SwitchRestart
  <2> DEFINE t == Head(current)
  <2>1. current # <<>> /\ stack' = <<Start(t)>> \o stack /\ clock' = clock
    BY <1>8 DEF SwitchRestart
  <2>2. Start(t) \in Frames /\ Start(t).at = "start"
    BY <1>0, <2>1, ListParts DEF Start, Frames, StartFrames, TypeOK
  <2> QED BY <1>0, <2>1, <2>2, TimelyPush
<1>9. CASE SwitchDone
  <2>1. stack # <<>> /\ stack[1].at = "switch" /\ Top = stack[1] /\ stack[1].now \in Nat
    BY <1>0, <1>9, TopFacts DEF SwitchDone, At
  <2>2. stack' = Resume(Tail(stack), stack[1].now) /\ clock' = clock
    BY <1>9, <2>1 DEF SwitchDone
  <2>3. stack[1].now <= clock
    <3>1. 1 \in 1 .. Len(stack)
      BY <1>0, <2>1, CallsParts, SMT
    <3> QED BY <2>1, <3>1 DEF Timely
  <2>4. CASE Tail(stack) = <<>>
    <3>1. stack' = <<>> /\ Len(<<>>) = 0
      BY <2>2, <2>4, EmptySeq DEF Resume
    <3> QED BY <3>1, SMT DEF Timely
  <2>5. CASE Tail(stack) # <<>>
    <3> DEFINE calls == Tail(stack)
    <3>1. /\ calls \in Seq(Frames) /\ calls # <<>> /\ calls[1].at \in {"start", "command"}
          /\ calls[1].at = "command" => calls[1].command <= stack[1].now
          /\ Timely(calls, clock) /\ stack' = Resume(calls, stack[1].now)
      BY <1>0, <2>1, <2>2, <2>5, UnderSwitch, TimelyTail
    <3> HIDE DEF calls
    <3>2. Timely(Resume(calls, stack[1].now), clock)
      BY <1>0, <2>1, <2>3, <3>1, TimelyResume
    <3> QED BY <2>2, <3>1, <3>2
  <2> QED BY <2>4, <2>5
<1>10. CASE RoundRestart
  <2> DEFINE s == Start(Head(current))
             x == Expired(Head(current))
  <2>1. stack' = <<s, x>> /\ clock' = clock
    BY <1>10 DEF RoundRestart
  <2>2. s.at = "start" /\ x.at = "expired"
    BY DEF Start, Expired
  <2> HIDE DEF s, x
  <2>3. Len(stack') = 2 /\ stack'[1] = s /\ stack'[2] = x /\ 1 .. 2 = {1, 2}
    BY <2>1, SMT
  <2> QED BY <2>2, <2>3 DEF Timely
<1> QED
  BY <1>1, <1>2, <1>3, <1>5, <1>6, <1>7, <1>8, <1>9, <1>10
     DEF Next, Program, App, StartTimer, SwitchTimerLists, ProcessLoop

(* A late second reading is the only way to prvInsertTimerInActiveList's   *)
(* pdTRUE, however long the calls in between have taken.                   *)
LEMMA LateMeans ==
    ASSUME NEW t \in Timer, NEW command \in Nat, NEW now \in Nat, command <= now,
           ProcessNow(t, command + Period[t], now, command)
    PROVE  now - command >= Period[t]
<1> DEFINE e == command + Period[t]
<1>1. /\ Period[t] \in Nat /\ Period[t] > 0 /\ Period[t] < Word /\ Word \in Nat
      /\ e \in Nat /\ command <= e /\ e < command + Word /\ e = command + Period[t]
  BY ParamFacts, SMT
<1>2. ProcessNow(t, e, now, command)
  OBVIOUS
<1> HIDE DEF e
<1>3. CASE now - command >= Word
  BY <1>1, <1>3, SMT
<1>4. CASE now - command < Word
  <2>1. now < command + Word
    BY <1>1, <1>4, SMT
  <2>2. CASE Tick(e) <= Tick(now)
    BY <1>2, <2>1, <2>2, Elapsed DEF ProcessNow
  <2>3. CASE ~(Tick(e) <= Tick(now))
    <3>1. Tick(now) < Tick(command) /\ Tick(e) >= Tick(command)
      BY <1>2, <2>3 DEF ProcessNow
    <3>2. /\ now \div Word = command \div Word + 1 /\ e \div Word = command \div Word
          /\ command \div Word \in Nat
      BY <1>1, <2>1, <3>1, Turns, Turn
    <3>3. e \div Word < now \div Word
      BY <3>2, SMT
    <3>4. e < now
      BY <1>1, <3>3, LaterTurn
    <3> QED BY <1>1, <3>4, SMT
  <2> QED BY <2>2, <2>3
<1> QED BY <1>1, <1>3, <1>4, SMT

-----------------------------------------------------------------------------
(* Auto-reload timers                                                      *)

Listed(t) == t \in Range(current) \cup Range(overflow)

\* A call of StartTimer for t is in progress.
InCall(calls, t) ==
    \E k \in 1 .. Len(calls) : calls[k].at \in {"start", "command", "insert"} /\ calls[k].timer = t

LEMMA ActiveIs ==
    ASSUME NEW t
    PROVE  /\ stack \in Seq(Frames) => (Active(t) <=> Listed(t) \/ InCall(stack, t))
           /\ stack' \in Seq(Frames) => (Active(t)' <=> Listed(t)' \/ InCall(stack', t))
<1>1. \A calls \in Seq(Frames) : DOMAIN calls = 1 .. Len(calls)
  BY CallsParts
<1> QED BY <1>1 DEF Active, Listed, InList, InCall, Range

LEMMA InCallPush ==
    ASSUME NEW calls \in Seq(Frames), NEW f \in Frames, NEW t
    PROVE  /\ InCall(calls, t) => InCall(<<f>> \o calls, t)
           /\ f.at = "start" /\ f.timer = t => InCall(<<f>> \o calls, t)
<1> DEFINE len == Len(calls)
           q == <<f>> \o calls
<1>1. /\ len \in Nat /\ Len(q) = len + 1 /\ q[1] = f
      /\ \A k \in 2 .. len + 1 : q[k] = calls[k - 1]
  BY PushParts, CallsParts
<1> HIDE DEF q
<1>2. ASSUME NEW k \in 1 .. len PROVE k + 1 \in 1 .. Len(q) /\ q[k + 1] = calls[k]
  <2>1. k + 1 \in 2 .. len + 1 /\ k + 1 \in 1 .. Len(q) /\ (k + 1) - 1 = k
    BY <1>1, SMT
  <2> QED BY <1>1, <2>1
<1>3. 1 \in 1 .. Len(q)
  BY <1>1, SMT
<1>4. /\ InCall(calls, t) => InCall(q, t)
      /\ f.at = "start" /\ f.timer = t => InCall(q, t)
  BY <1>1, <1>2, <1>3 DEF InCall
<1> QED BY <1>4 DEF q

LEMMA InCallResume ==
    ASSUME NEW calls \in Seq(Frames), calls # <<>>, calls[1].at \in {"start", "command"},
           NEW now \in Nat, NEW t, InCall(calls, t)
    PROVE  InCall(Resume(calls, now), t)
<1> DEFINE len == Len(calls)
           r == Resume(calls, now)
<1>1. /\ len \in Nat /\ Len(r) = len /\ r[1].timer = calls[1].timer
      /\ r[1].at \in {"command", "insert"}
      /\ \A k \in 2 .. len : r[k] = calls[k]
  BY ResumeParts, CallsParts
<1> HIDE DEF r
<1>2. PICK k \in 1 .. len : calls[k].at \in {"start", "command", "insert"} /\ calls[k].timer = t
  BY DEF InCall
<1>3. k = 1 \/ k \in 2 .. len
  BY <1>1, SMT
<1>4. InCall(r, t)
  BY <1>1, <1>2, <1>3 DEF InCall
<1> QED BY <1>4 DEF r

LEMMA InCallTail ==
    ASSUME NEW calls \in Seq(Frames), NEW t, InCall(calls, t)
    PROVE  /\ calls # <<>>
           /\ \/ InCall(Tail(calls), t)
              \/ calls[1].at \in {"start", "command", "insert"} /\ calls[1].timer = t
<1> DEFINE len == Len(calls)
           q == Tail(calls)
<1>1. PICK k \in 1 .. len : calls[k].at \in {"start", "command", "insert"} /\ calls[k].timer = t
  BY DEF InCall
<1>2. calls # <<>>
  <2>1. Len(<<>>) = 0 /\ len > 0
    BY EmptySeq, <1>1, CallsParts, SMT
  <2> QED BY <2>1, SMT
<1>3. /\ len \in Nat /\ Len(q) = len - 1
      /\ \A j \in 1 .. len - 1 : q[j] = calls[j + 1]
  BY <1>2, CallsParts
<1> HIDE DEF q
<1>4. CASE k # 1
  <2>1. k - 1 \in 1 .. len - 1 /\ (k - 1) + 1 = k
    BY <1>3, <1>4, SMT
  <2>2. InCall(q, t)
    BY <1>1, <1>3, <2>1 DEF InCall
  <2> QED BY <1>2, <2>2 DEF q
<1> QED BY <1>1, <1>2, <1>4

LEMMA ActiveStep ==
    ASSUME Inv, Timely(stack, clock), [Next]_vars, NEW t \in AutoReload, Active(t)
    PROVE  \/ Active(t)'
           \/ At("insert") /\ Top.timer = t /\ Top.now - Top.command >= Period[t]
<1> SUFFICES \/ Listed(t)' \/ InCall(stack', t)
             \/ At("insert") /\ Top.timer = t /\ Top.now - Top.command >= Period[t]
  <2>1. stack' \in Seq(Frames)
    BY InvStep DEF Inv, TypeOK
  <2> QED BY <2>1, ActiveIs
<1>0. /\ TypeOK /\ Now /\ stack \in Seq(Frames) /\ Nested(stack) /\ clock \in Nat
      /\ Listed(t) \/ InCall(stack, t)
  BY ActiveIs, InvIsSound, SMT DEF Inv, TypeOK
<1>1. CASE Pass \/ AppLoop \/ RoundIdle \/ UNCHANGED vars
  <2>1. UNCHANGED <<current, overflow, stack>>
    BY <1>1 DEF Pass, AppLoop, RoundIdle, vars
  <2> QED BY <1>0, <2>1 DEF Listed
<1>2. CASE (\E u \in Timer : AppStart(u)) \/ RoundOverflow
  <2>1. stack = <<>> /\ UNCHANGED <<current, overflow>>
    BY <1>2 DEF AppStart, RoundOverflow, Round
  <2>2. Listed(t)
    BY <1>0, <2>1, InCallTail
  <2> QED BY <2>1, <2>2 DEF Listed
<1>3. CASE Sample \/ SampleOverflow
  <2>1. /\ stack # <<>> /\ stack[1].at \in {"start", "command"} /\ RemoveContained
        /\ stack' = Resume(stack, clock) \/ stack' = <<Switch(clock)>> \o stack
    BY <1>0, <1>3, TopFacts DEF Sample, SampleOverflow, At
  <2>2. InCall(stack, t) => InCall(stack', t)
    <3>1. Switch(clock) \in Frames
      BY <1>0 DEF Switch, Frames, SwitchFrames
    <3>2. CASE stack' = Resume(stack, clock)
      BY <1>0, <2>1, <3>2, InCallResume
    <3>3. CASE stack' = <<Switch(clock)>> \o stack
      BY <1>0, <3>1, <3>3, InCallPush
    <3> QED BY <2>1, <3>2, <3>3
  <2>3. /\ Range(current') = Range(current) \ Taken(stack[1])
        /\ Range(overflow') = Range(overflow) \ Taken(stack[1])
    BY <1>0, <2>1, Removes
  <2>4. t \in Taken(stack[1]) => InCall(stack, t)
    <3>1. 1 \in 1 .. Len(stack)
      BY <1>0, <2>1, CallsParts, SMT
    <3> QED BY <2>1, <3>1 DEF Taken, InCall
  <2> QED BY <1>0, <2>2, <2>3, <2>4 DEF Listed
<1>4. CASE StartInsert
  <2> DEFINE u == stack[1].timer
             e == stack[1].command + Period[u]
  <2>1. stack # <<>> /\ stack[1].at = "insert" /\ Top = stack[1]
    BY <1>0, <1>4, TopFacts DEF StartInsert, At
  <2>2. u \in Timer /\ e \in Nat
    BY <1>0, <2>1, TopFacts
  <2>3. InsertActive(u, e, stack[1].now, current, overflow) /\ stack' = Tail(stack)
    BY <1>4, <2>1 DEF StartInsert
  <2>4. u \notin Range(current) \cup Range(overflow)
    <3>1. 1 \in 1 .. Len(stack) /\ Holds(stack, 1)
      BY <1>0, <2>1, CallsParts, SMT DEF Holds
    <3>2. u \in Held(stack)
      BY <3>1 DEF Held
    <3> QED BY <3>2 DEF Inv, Apart
  <2>5. InCall(stack, t) => u = t \/ InCall(stack', t)
    BY <1>0, <2>3, InCallTail
  <2> HIDE DEF u, e
  <2>6. Range(current') \cup Range(overflow') = Range(current) \cup Range(overflow) \cup {u}
    BY <1>0, <2>2, <2>3, <2>4, Inserts DEF Now, Sound
  <2> QED BY <1>0, <2>5, <2>6 DEF Listed
<1>5. CASE StartLate
  <2> DEFINE c == stack[1].command
  <2>1. stack # <<>> /\ stack[1].at = "insert" /\ Top = stack[1] /\ At("insert")
    BY <1>0, <1>5, TopFacts DEF StartLate, At
  <2>2. stack' = Tail(stack) /\ UNCHANGED <<current, overflow>>
    BY <1>5 DEF StartLate
  <2>3. InCall(stack, t) => stack[1].timer = t \/ InCall(stack', t)
    BY <1>0, <2>2, InCallTail
  <2>4. ASSUME stack[1].timer = t PROVE Top.now - Top.command >= Period[t]
    <3>1. t \in Timer /\ c \in Nat /\ stack[1].now \in Nat
      BY <1>0, <2>1, <2>4, TopFacts
    <3>2. c <= stack[1].now
      <4>1. 1 \in 1 .. Len(stack)
        BY <1>0, <2>1, CallsParts, SMT
      <4> QED BY <2>1, <4>1 DEF Timely
    <3>3. ProcessNow(t, c + Period[t], stack[1].now, c)
      BY <1>5, <2>1, <2>4 DEF StartLate
    <3> QED BY <2>1, <3>1, <3>2, <3>3, LateMeans
  <2> QED BY <1>0, <2>1, <2>2, <2>3, <2>4 DEF Listed
<1>6. CASE SwitchOneShot \/ RoundOneShot
  <2>1. /\ current # <<>> /\ Head(current) \notin AutoReload /\ current' = Tail(current)
        /\ UNCHANGED <<overflow, stack>>
    BY <1>6 DEF SwitchOneShot, RoundOneShot, HeadExpired
  <2>2. Range(current') = Range(current) \ {Head(current)}
    BY <1>0, <2>1, HeadFacts
  <2> QED BY <1>0, <2>1, <2>2 DEF Listed
<1>7. CASE SwitchReload
  <2> DEFINE h == Head(current)
             rest == Tail(current)
             after == expiry'
  <2>1. /\ current # <<>> /\ UNCHANGED <<overflow, stack>>
        /\ expiry' = [expiry EXCEPT ![h] = expiry[h] + Period[h]]
        /\ current' = With(rest, h, after)
    BY <1>7 DEF SwitchReload
  <2>2. /\ h \in Timer /\ rest \in Seq(Timer) /\ Range(rest) = Range(current) \ {h}
        /\ expiry[h] + Period[h] \in Nat
    BY <1>0, <2>1, HeadFacts
  <2>3. after \in [Timer -> Nat]
    BY <1>0, <2>1, <2>2 DEF TypeOK
  <2> HIDE DEF h, rest, after
  <2>4. Range(current') = Range(rest) \cup {h}
    BY <2>1, <2>2, <2>3, WithFacts
  <2> QED BY <1>0, <2>1, <2>2, <2>4 DEF Listed
<1>8. CASE SwitchRestart
  <2> DEFINE h == Head(current)
  <2>1. /\ current # <<>> /\ current' = Tail(current) /\ overflow' = overflow
        /\ stack' = <<Start(h)>> \o stack
    BY <1>8 DEF SwitchRestart
  <2>2. h \in Timer /\ Range(current') = Range(current) \ {h}
    BY <1>0, <2>1, HeadFacts
  <2>3. Start(h) \in Frames /\ Start(h).at = "start" /\ Start(h).timer = h
    BY <2>2 DEF Start, Frames, StartFrames
  <2>4. /\ InCall(stack, t) => InCall(stack', t)
        /\ h = t => InCall(stack', t)
    BY <1>0, <2>1, <2>3, InCallPush
  <2> QED BY <1>0, <2>1, <2>2, <2>4 DEF Listed
<1>9. CASE SwitchDone
  <2>1. stack # <<>> /\ stack[1].at = "switch" /\ Top = stack[1] /\ stack[1].now \in Nat
    BY <1>0, <1>9, TopFacts DEF SwitchDone, At
  <2>2. /\ current' = overflow /\ overflow' = current
        /\ stack' = Resume(Tail(stack), stack[1].now)
    BY <1>9, <2>1 DEF SwitchDone
  <2>3. ASSUME InCall(stack, t) PROVE InCall(stack', t)
    <3> DEFINE calls == Tail(stack)
    <3>1. InCall(calls, t) /\ calls \in Seq(Frames)
      BY <1>0, <2>1, <2>3, InCallTail, UnderSwitch
    <3>2. calls # <<>>
      <4> HIDE DEF calls
      <4> QED BY <3>1, InCallTail
    <3>3. calls[1].at \in {"start", "command"} /\ stack' = Resume(calls, stack[1].now)
      BY <1>0, <2>1, <2>2, <3>2, UnderSwitch
    <3> HIDE DEF calls
    <3> QED BY <2>1, <3>1, <3>2, <3>3, InCallResume
  <2> QED BY <1>0, <2>2, <2>3 DEF Listed
<1>10. CASE RoundReload
  <2> DEFINE h == Head(current)
             e == expiry[h] + Period[h]
             rest == Tail(current)
  <2>1. current # <<>> /\ stack' = stack /\ InsertActive(h, e, clock, rest, overflow)
    BY <1>10 DEF RoundReload, HeadExpired
  <2>2. /\ h \in Timer /\ h \in Range(current) /\ e \in Nat
        /\ rest \in Seq(Timer) /\ Range(rest) = Range(current) \ {h}
        /\ IsInjective(rest) /\ Ascends(rest, expiry)
    BY <1>0, <2>1, HeadFacts
  <2>3. /\ overflow \in Seq(Timer) /\ expiry \in [Timer -> Nat] /\ IsInjective(overflow)
        /\ Ascends(overflow, expiry) /\ Range(rest) \cap Range(overflow) = {}
        /\ h \notin Range(rest) \cup Range(overflow)
    BY <1>0, <2>2 DEF Now, Sound
  <2> HIDE DEF h, e, rest
  <2>4. Range(current') \cup Range(overflow') = Range(rest) \cup Range(overflow) \cup {h}
    BY <2>1, <2>2, <2>3, Inserts
  <2> QED BY <1>0, <2>1, <2>2, <2>4 DEF Listed
<1>11. CASE RoundRestart
  <2> DEFINE h == Head(current)
             s == Start(h)
             x == Expired(h)
  <2>1. /\ current # <<>> /\ current' = Tail(current) /\ overflow' = overflow /\ stack = <<>>
        /\ stack' = <<s, x>>
    BY <1>11 DEF RoundRestart, HeadExpired, Round
  <2>2. Range(current') = Range(current) \ {h} /\ s.at = "start" /\ s.timer = h
    BY <1>0, <2>1, HeadFacts DEF Start
  <2>3. Listed(t)
    BY <1>0, <2>1, InCallTail
  <2> HIDE DEF h, s, x
  <2>4. 1 \in 1 .. Len(stack') /\ stack'[1] = s
    BY <2>1, SMT
  <2>5. t = h => InCall(stack', t)
    BY <2>2, <2>4 DEF InCall
  <2> QED BY <2>1, <2>2, <2>3, <2>5 DEF Listed
<1>12. CASE ExpiredCallback
  <2>1. /\ stack # <<>> /\ stack[1].at = "expired" /\ stack' = Tail(stack)
        /\ UNCHANGED <<current, overflow>>
    BY <1>0, <1>12, TopFacts DEF ExpiredCallback, At
  <2>2. InCall(stack, t) => InCall(stack', t)
    BY <1>0, <2>1, InCallTail
  <2> QED BY <1>0, <2>1, <2>2 DEF Listed
<1> QED
  BY <1>1, <1>2, <1>3, <1>4, <1>5, <1>6, <1>7, <1>8, <1>9, <1>10, <1>11, <1>12
     DEF Next, Program, App, StartTimer, SwitchTimerLists, ProcessLoop

(* An auto-reload timer that has been started stays in a list or in a call *)
(* of StartTimer, through every nesting of switches, restarts and          *)
(* overflows; it is lost only by the pdTRUE case of StartTimer             *)
(* (Timers.cpp:59), and then a whole period has gone by between the two    *)
(* readings.                                                               *)
THEOREM NeverLost == Spec => StaysActive
<1> DEFINE I == Inv /\ Timely(stack, clock)
<1>1. Init => I
  <2>1. ASSUME Init PROVE Timely(stack, clock)
    <3>1. stack = <<>> /\ Len(<<>>) = 0
      BY <2>1, EmptySeq DEF Init
    <3> QED BY <3>1, SMT DEF Timely
  <2> QED BY <2>1, InitInv
<1>2. I /\ [Next]_vars => I'
  BY InvStep, TimelyStep
<1>3. I /\ [Next]_vars =>
        [\A t \in AutoReload :
            Active(t) => \/ Active(t)'
                         \/ /\ At("insert") /\ Top.timer = t
                            /\ Top.now - Top.command >= Period[t]]_vars
  BY ActiveStep
<1> HIDE DEF I
<1> QED BY <1>1, <1>2, <1>3, PTL DEF Spec, StaysActive
=============================================================================
