-------------------------- MODULE DataPlaneProofs --------------------------
(***************************************************************************)
(* Proofs about the data plane: the quote cache and its users, for any     *)
(* symbols, ring size, histories, views and number of slots, and the feeds *)
(* and their recording, for any plan, timers, retries and book.            *)
(***************************************************************************)
EXTENDS DataPlane, Feeds, SequenceLemmas, FiniteSetTheorems, WellFoundedInduction

(***************************************************************************)
(* Arithmetic modulo the size of a ring.                                   *)
(***************************************************************************)
LEMMA ModInRange ==
  ASSUME NEW R \in Nat \ {0}, NEW a \in Int
  PROVE  a % R \in 0..(R - 1)
OBVIOUS

LEMMA ModSmall ==
  ASSUME NEW R \in Nat \ {0}, NEW a \in 0..(R - 1)
  PROVE  a % R = a
OBVIOUS

LEMMA ModOnceRound ==
  ASSUME NEW R \in Nat \ {0}, NEW a \in R..(2 * R - 1)
  PROVE  a % R = a - R
OBVIOUS

(***************************************************************************)
(* The last n of a sequence.                                               *)
(***************************************************************************)
LEMMA LastOfProperties ==
  ASSUME NEW S, NEW s \in Seq(S), NEW n \in Nat
  PROVE  /\ LastOf(s, n) \in Seq(S)
         /\ Len(s) <= n => LastOf(s, n) = s
         /\ Len(s) > n => /\ Len(LastOf(s, n)) = n
                          /\ \A i \in 1..n : LastOf(s, n)[i] = s[Len(s) - n + i]
<1>1. Len(s) \in Nat /\ \A i \in 1..Len(s) : s[i] \in S
  BY LenProperties, ElementOfSeq
<1>2. CASE Len(s) <= n
  BY <1>1, <1>2 DEF LastOf
<1>3. CASE Len(s) > n
  <2> DEFINE m == Len(s) - n + 1
             t == SubSeq(s, m, Len(s))
  <2>1. m \in Nat /\ m \in 1..(Len(s) + 1) /\ Len(s) - m + 1 = n
    BY <1>1, <1>3
  <2>2. LastOf(s, n) = t
    BY <1>1, <1>3 DEF LastOf
  <2>3. \A i \in m..Len(s) : s[i] \in S
    BY <1>1, <2>1
  <2>4. /\ t \in Seq(S)
        /\ Len(t) = n
        /\ \A i \in 1..n : t[i] = s[m + i - 1]
    <3> HIDE DEF t
    <3>1. m <= Len(s) + 1 /\ m > 0
      BY <2>1
    <3> QED BY <1>1, <2>1, <2>3, <3>1, SubSeqProperties DEF t
  <2>5. \A i \in 1..n : m + i - 1 = Len(s) - n + i
    BY <1>1
  <2> QED BY <1>1, <1>3, <2>2, <2>4, <2>5
<1> QED BY <1>1, <1>2, <1>3


LEMMA LastOfLonger ==
  ASSUME NEW S, NEW s \in Seq(S), NEW n \in Nat, Len(s) > n
  PROVE  /\ LastOf(s, n) \in Seq(S) /\ Len(LastOf(s, n)) = n
         /\ \A i \in 1..n : LastOf(s, n)[i] = s[Len(s) - n + i]
BY LastOfProperties

(* Forgetting what is older first changes nothing. *)
LEMMA LastOfAppend ==
  ASSUME NEW S, NEW s \in Seq(S), NEW x \in S, NEW n \in Nat \ {0}
  PROVE  LastOf(Append(LastOf(s, n), x), n) = LastOf(Append(s, x), n)
<1>1. CASE Len(s) <= n
  BY <1>1, LastOfProperties
<1>2. CASE Len(s) > n
  <2> DEFINE t == LastOf(s, n)
             u == Append(t, x)
             v == Append(s, x)
             k == Len(s)
  <2>1. /\ t \in Seq(S) /\ Len(t) = n /\ k \in Nat /\ k > n
        /\ \A i \in 1..n : t[i] = s[k - n + i]
    BY <1>2, LastOfProperties, LenProperties
  <2>2. /\ v \in Seq(S) /\ Len(v) = k + 1 /\ v[k + 1] = x
        /\ \A i \in 1..k : v[i] = s[i]
    BY AppendProperties, LenProperties
  <2> HIDE DEF t, k
  <2>3. /\ u \in Seq(S) /\ Len(u) = n + 1 /\ u[n + 1] = x
        /\ \A i \in 1..n : u[i] = t[i]
    BY <2>1, AppendProperties
  <2> HIDE DEF u, v
  <2>4. /\ LastOf(u, n) \in Seq(S) /\ Len(LastOf(u, n)) = n
        /\ \A i \in 1..n : LastOf(u, n)[i] = u[n + 1 - n + i]
    <3>0. n \in Nat
      OBVIOUS
    <3>1. Len(u) > n
      BY <2>3
    <3>2. /\ LastOf(u, n) \in Seq(S) /\ Len(LastOf(u, n)) = n
          /\ \A i \in 1..n : LastOf(u, n)[i] = u[Len(u) - n + i]
      BY <2>3, <3>0, <3>1, LastOfLonger
    <3> QED BY <2>3, <3>2
  <2>5. /\ LastOf(v, n) \in Seq(S) /\ Len(LastOf(v, n)) = n
        /\ \A i \in 1..n : LastOf(v, n)[i] = v[k + 1 - n + i]
    <3>0. n \in Nat
      OBVIOUS
    <3>1. Len(v) > n
      BY <2>1, <2>2
    <3>2. /\ LastOf(v, n) \in Seq(S) /\ Len(LastOf(v, n)) = n
          /\ \A i \in 1..n : LastOf(v, n)[i] = v[Len(v) - n + i]
      <4>1. v \in Seq(S)
        BY <2>2
      <4> QED BY <3>0, <3>1, <4>1, LastOfLonger
    <3> DEFINE m == k + 1
    <3>3. Len(v) = m
      BY <2>2
    <3> HIDE DEF m
    <3>4. /\ LastOf(v, n) \in Seq(S) /\ Len(LastOf(v, n)) = n
          /\ \A i \in 1..n : LastOf(v, n)[i] = v[m - n + i]
      BY <3>2, <3>3
    <3>5. \A i \in 1..n : m - n + i = k + 1 - n + i
      BY <2>1 DEF m
    <3> QED BY <3>4, <3>5
  <2>6. ASSUME NEW i \in 1..n PROVE u[n + 1 - n + i] = v[k + 1 - n + i]
    <3>1. CASE i = n
      <4>1. n + 1 - n + i = n + 1 /\ k + 1 - n + i = k + 1
        BY <2>1, <3>1
      <4> QED BY <2>2, <2>3, <4>1
    <3>2. CASE i # n
      <4>1. /\ n + 1 - n + i = i + 1 /\ i + 1 \in 1..n
            /\ k + 1 - n + i = k - n + (i + 1) /\ k - n + (i + 1) \in 1..k
        <5>1. n \in Nat /\ k \in Nat /\ i \in Nat /\ n < k /\ i >= 1 /\ i < n
          BY <2>1, <3>2
        <5> QED BY <5>1
      <4>2. u[i + 1] = s[k - n + (i + 1)]
        BY <2>1, <2>3, <4>1
      <4>3. v[k - n + (i + 1)] = s[k - n + (i + 1)]
        BY <2>2, <4>1
      <4> QED BY <4>1, <4>2, <4>3
    <3> QED BY <3>1, <3>2
  <2>7. LastOf(u, n) = LastOf(v, n)
    BY <2>4, <2>5, <2>6, SeqEqual
  <2> QED BY <2>7 DEF t, u, v
<1> QED
  <2>1. Len(s) \in Nat
    BY LenProperties
  <2> QED BY <1>1, <1>2, <2>1

(* b alone is long enough. *)
LEMMA LastOfBehind ==
  ASSUME NEW S, NEW a \in Seq(S), NEW b \in Seq(S), NEW n \in Nat, Len(b) >= n
  PROVE  LastOf(a \o b, n) = LastOf(b, n)
<1> DEFINE c == a \o b
           na == Len(a)
           nb == Len(b)
<1>1. /\ c \in Seq(S) /\ na \in Nat /\ nb \in Nat /\ nb >= n /\ Len(c) = na + nb
      /\ \A i \in 1..(na + nb) : c[i] = IF i <= na THEN a[i] ELSE b[i - na]
  BY ConcatProperties, LenProperties
<1> HIDE DEF c
<1>2. CASE nb = n /\ na = 0
  <2>1. a = <<>>
    BY <1>2, EmptySeq
  <2> QED BY <2>1, ConcatEmptySeq DEF c
<1>3. CASE ~(nb = n /\ na = 0)
  <2>1. /\ LastOf(c, n) \in Seq(S) /\ Len(LastOf(c, n)) = n
        /\ \A i \in 1..n : LastOf(c, n)[i] = c[na + nb - n + i]
    <3>1. Len(c) > n
      <4> HIDE DEF na, nb
      <4> QED BY <1>1, <1>3
    <3>2. /\ LastOf(c, n) \in Seq(S) /\ Len(LastOf(c, n)) = n
          /\ \A i \in 1..n : LastOf(c, n)[i] = c[Len(c) - n + i]
      <4>1. c \in Seq(S)
        BY <1>1
      <4> QED BY <3>1, <4>1, LastOfLonger
    <3> QED BY <1>1, <3>2
  <2>2. ASSUME NEW i \in 1..n PROVE c[na + nb - n + i] = b[nb - n + i]
    <3> HIDE DEF na, nb
    <3>1. /\ na + nb - n + i \in 1..(na + nb) /\ ~(na + nb - n + i <= na)
          /\ (na + nb - n + i) - na = nb - n + i
      BY <1>1
    <3> QED BY <1>1, <3>1
  <2>3. /\ LastOf(b, n) \in Seq(S) /\ Len(LastOf(b, n)) = n
        /\ \A i \in 1..n : LastOf(b, n)[i] = b[nb - n + i]
    <3>1. CASE nb > n
      BY <3>1, LastOfProperties
    <3>2. CASE nb = n
      <4>1. LastOf(b, n) = b
        BY <1>1, <3>2, LastOfProperties
      <4>2. \A i \in 1..n : nb - n + i = i
        BY <1>1, <3>2
      <4> QED BY <3>2, <4>1, <4>2
    <3> HIDE DEF nb
    <3> QED BY <1>1, <3>1, <3>2
  <2>4. LastOf(c, n) = LastOf(b, n)
    BY <2>1, <2>2, <2>3, SeqEqual
  <2> QED BY <2>4 DEF c
<1> QED BY <1>2, <1>3

(* b and as much of a as there is room for. *)
LEMMA LastOfInFront ==
  ASSUME NEW S, NEW a \in Seq(S), NEW b \in Seq(S), NEW n \in Nat, Len(b) <= n
  PROVE  /\ LastOf(a, n - Len(b)) \o b = LastOf(a \o b, n)
         /\ LastOf(a, n - Len(b)) \o b \in Seq(S)
         /\ Len(LastOf(a, n - Len(b)) \o b) <= n
<1> DEFINE c == a \o b
           na == Len(a)
           nb == Len(b)
           m == n - nb
           t == LastOf(a, m)
           d == t \o b
<1>1. /\ c \in Seq(S) /\ na \in Nat /\ nb \in Nat /\ nb <= n /\ Len(c) = na + nb
      /\ \A i \in 1..(na + nb) : c[i] = IF i <= na THEN a[i] ELSE b[i - na]
  BY ConcatProperties, LenProperties
<1>2. m \in Nat /\ n = m + nb
  BY <1>1
<1>s. na = Len(a) /\ nb = Len(b)
  OBVIOUS
<1> HIDE DEF c, na, nb, m
<1>3. CASE na <= m
  <2>1. LastOf(a, m) = a
    BY <1>2, <1>3, <1>s, LastOfProperties
  <2>2. Len(c) <= n
    BY <1>1, <1>2, <1>3
  <2>3. LastOf(c, n) = c
    BY <1>1, <2>2, LastOfProperties
  <2> QED BY <1>1, <1>s, <2>1, <2>2, <2>3 DEF c, m
<1>4. CASE na > m
  <2>1. /\ t \in Seq(S) /\ Len(t) = m
        /\ \A i \in 1..m : t[i] = a[na - m + i]
    BY <1>2, <1>4, <1>s, LastOfProperties
  <2> HIDE DEF t
  <2>2. /\ d \in Seq(S) /\ Len(d) = m + nb
        /\ \A i \in 1..(m + nb) : d[i] = IF i <= m THEN t[i] ELSE b[i - m]
    <3>1. b \in Seq(S) /\ Len(t) = m /\ Len(b) = nb
      BY <1>s, <2>1
    <3>2. /\ t \o b \in Seq(S) /\ Len(t \o b) = Len(t) + Len(b)
          /\ \A i \in 1..(Len(t) + Len(b)) :
               (t \o b)[i] = IF i <= Len(t) THEN t[i] ELSE b[i - Len(t)]
      BY <2>1, ConcatProperties
    <3> QED BY <3>1, <3>2
  <2> HIDE DEF d
  <2>3. /\ LastOf(c, n) \in Seq(S) /\ Len(LastOf(c, n)) = n
        /\ \A i \in 1..n : LastOf(c, n)[i] = c[na + nb - n + i]
    <3>1. Len(c) > n
      BY <1>1, <1>2, <1>4
    <3>2. /\ LastOf(c, n) \in Seq(S) /\ Len(LastOf(c, n)) = n
          /\ \A i \in 1..n : LastOf(c, n)[i] = c[Len(c) - n + i]
      <4>1. c \in Seq(S)
        BY <1>1
      <4> QED BY <3>1, <4>1, LastOfLonger
    <3> QED BY <1>1, <3>2
  <2>4. ASSUME NEW i \in 1..n PROVE c[na + nb - n + i] = d[i]
    <3>1. na + nb - n + i = na - m + i /\ na - m + i \in 1..(na + nb) /\ i \in 1..(m + nb)
      BY <1>1, <1>2, <1>4
    <3>2. CASE i <= m
      <4>1. na - m + i <= na /\ i \in 1..m
        BY <1>1, <1>2, <3>2
      <4> QED BY <1>1, <2>1, <2>2, <3>1, <3>2, <4>1
    <3>3. CASE ~(i <= m)
      <4>1. ~(na - m + i <= na) /\ (na - m + i) - na = i - m
        BY <1>1, <1>2, <3>3
      <4> QED BY <1>1, <2>2, <3>1, <3>3, <4>1
    <3> QED BY <3>2, <3>3
  <2>5. LastOf(c, n) = d
    BY <1>2, <2>2, <2>3, <2>4, SeqEqual
  <2> QED BY <1>2, <1>s, <2>2, <2>5 DEF c, d, t, m
<1> QED BY <1>1, <1>2, <1>3, <1>4


(***************************************************************************)
(* What the operations of a ring do to the series it holds.                *)
(***************************************************************************)
Wrap(a) == a % RingSize

LEMMA WrapProperties ==
  /\ RingSize \in Nat \ {0}
  /\ \A a \in Int : Wrap(a) \in 0..(RingSize - 1)
  /\ \A a \in 0..(2 * RingSize - 1) : Wrap(a) = IF a < RingSize THEN a ELSE a - RingSize
<1>1. RingSize \in Nat \ {0}
  BY CacheAssumption DEF CacheAssumption
<1>2. \A a \in Int : Wrap(a) \in 0..(RingSize - 1)
  BY <1>1, ModInRange DEF Wrap
<1>3. ASSUME NEW a \in 0..(2 * RingSize - 1)
      PROVE  Wrap(a) = IF a < RingSize THEN a ELSE a - RingSize
  <2>1. CASE a < RingSize
    <3>1. a \in 0..(RingSize - 1)
      BY <1>1, <2>1
    <3> QED BY <1>1, <2>1, <3>1, ModSmall DEF Wrap
  <2>2. CASE ~(a < RingSize)
    <3>1. a \in RingSize..(2 * RingSize - 1)
      BY <1>1, <2>2
    <3> QED BY <1>1, <2>2, <3>1, ModOnceRound DEF Wrap
  <2> QED BY <2>1, <2>2
<1> QED BY <1>1, <1>2, <1>3

Ring == [buf : [0..(RingSize - 1) -> Int], head : 0..(RingSize - 1), size : 0..RingSize]

(* Where the slots of a ring are that holds n numbers and writes slot h next. *)
LEMMA RingSlots ==
  ASSUME NEW h \in 0..(RingSize - 1), NEW n \in 0..RingSize, NEW st,
         st = Wrap(h - n + RingSize)
  PROVE  /\ st \in 0..(RingSize - 1)
         /\ \A i \in 1..n : Wrap(st + i - 1) \in 0..(RingSize - 1)
         /\ Wrap(h + 1) \in 0..(RingSize - 1)
         /\ n < RingSize =>
              /\ Wrap(st + n) = h
              /\ \A i \in 1..n : Wrap(st + i - 1) # h
              /\ Wrap(Wrap(h + 1) - (n + 1) + RingSize) = st
         /\ n = RingSize =>
              /\ st = h
              /\ Wrap(Wrap(h + 1) - n + RingSize) = Wrap(h + 1)
              /\ Wrap(Wrap(h + 1) + n - 1) = h
              /\ \A i \in 1..(n - 1) : /\ Wrap(Wrap(h + 1) + i - 1) = Wrap(h + i)
                                       /\ Wrap(h + i) # h
<1> DEFINE R == RingSize
<1>w. /\ R \in Nat \ {0}
      /\ \A x \in Int : Wrap(x) \in 0..(R - 1)
      /\ \A x \in 0..(2 * R - 1) : Wrap(x) = IF x < R THEN x ELSE x - R
  BY WrapProperties
<1>t. h \in 0..(R - 1) /\ n \in 0..R
  OBVIOUS
<1>d. st = Wrap(h - n + R)
  OBVIOUS
<1> HIDE DEF R
<1>1. st = IF h < n THEN h - n + R ELSE h - n
  BY <1>w, <1>t, <1>d
<1>2. st \in 0..(R - 1)
  BY <1>w, <1>t, <1>1
<1>3. \A i \in 1..n : Wrap(st + i - 1) \in 0..(R - 1)
  BY <1>w, <1>t, <1>2
<1>4. Wrap(h + 1) = IF h + 1 < R THEN h + 1 ELSE 0
  BY <1>w, <1>t
<1>5. ASSUME n < R
      PROVE  /\ Wrap(st + n) = h
             /\ \A i \in 1..n : Wrap(st + i - 1) # h
             /\ Wrap(Wrap(h + 1) - (n + 1) + R) = st
  <2>1. Wrap(st + n) = h
    BY <1>w, <1>t, <1>1, <1>5
  <2>2. ASSUME NEW i \in 1..n PROVE Wrap(st + i - 1) # h
    BY <1>w, <1>t, <1>1, <1>5
  <2>3. Wrap(Wrap(h + 1) - (n + 1) + R) = st
    BY <1>w, <1>t, <1>1, <1>4, <1>5
  <2> QED BY <2>1, <2>2, <2>3
<1>6. ASSUME n = R
      PROVE  /\ st = h
             /\ Wrap(Wrap(h + 1) - n + R) = Wrap(h + 1)
             /\ Wrap(Wrap(h + 1) + n - 1) = h
             /\ \A i \in 1..(n - 1) : Wrap(Wrap(h + 1) + i - 1) = Wrap(h + i) /\ Wrap(h + i) # h
  <2>1. st = h
    BY <1>w, <1>t, <1>1, <1>6
  <2>2. Wrap(Wrap(h + 1) - n + R) = Wrap(h + 1)
    BY <1>w, <1>t, <1>4, <1>6
  <2>3. Wrap(Wrap(h + 1) + n - 1) = h
    BY <1>w, <1>t, <1>4, <1>6
  <2>4. ASSUME NEW i \in 1..(n - 1)
        PROVE  Wrap(Wrap(h + 1) + i - 1) = Wrap(h + i) /\ Wrap(h + i) # h
    BY <1>w, <1>t, <1>4, <1>6
  <2> QED BY <2>1, <2>2, <2>3, <2>4
<1>7. Wrap(h + 1) \in 0..(R - 1)
  BY <1>w, <1>t
<1> QED BY <1>2, <1>3, <1>5, <1>6, <1>7 DEF R


(* The series of a ring whose fields are b, h and n, oldest slot st. *)
LEMMA SeriesProperties ==
  ASSUME NEW r \in Ring, NEW st, st = Wrap(r.head - r.size + RingSize)
  PROVE  /\ Series(r) \in Seq(Int) /\ Len(Series(r)) = r.size
         /\ \A i \in 1..r.size : Series(r)[i] = r.buf[Wrap(st + i - 1)]
<1> DEFINE h == r.head
           n == r.size
           b == r.buf
           R == RingSize
<1>1. /\ R \in Nat \ {0} /\ n \in 0..R /\ h \in 0..(R - 1) /\ b \in [0..(R - 1) -> Int]
  BY CacheAssumption DEF CacheAssumption, Ring
<1>2. Series(r) = [i \in 1..n |-> b[Wrap(st + i - 1)]]
  BY DEF Series, Wrap
<1>3. st = Wrap(h - n + RingSize)
  OBVIOUS
<1>4. n \in Nat
  <2> HIDE DEF n, R, h, b
  <2> QED BY <1>1
<1>5. \A i \in 1..n : Wrap(st + i - 1) \in 0..(R - 1)
  <2> HIDE DEF n, h
  <2> QED BY <1>1, <1>3, RingSlots
<1>6. \A i \in 1..n : b[Wrap(st + i - 1)] \in Int
  <2> HIDE DEF n, b, R
  <2> QED BY <1>1, <1>5
<1>7. /\ [i \in 1..n |-> b[Wrap(st + i - 1)]] \in Seq(Int)
      /\ Len([i \in 1..n |-> b[Wrap(st + i - 1)]]) = n
  <2> HIDE DEF n, b
  <2>1. [i \in 1..n |-> b[Wrap(st + i - 1)]] \in [1..n -> Int]
    BY <1>6
  <2> QED BY <1>4, <2>1
<1> QED BY <1>2, <1>7

LEMMA PutProperties ==
  ASSUME NEW r \in Ring, NEW v \in Int
  PROVE  /\ Put(r, v) \in Ring
         /\ Series(Put(r, v)) = LastOf(Append(Series(r), v), RingSize)
<1> DEFINE R == RingSize
           p == Put(r, v)
           s == Series(r)
           a == Append(s, v)
           q == Series(p)
           h == r.head
           n == r.size
           b == r.buf
           pb == p.buf
           ph == p.head
           pn == p.size
           st == Wrap(h - n + RingSize)
           pst == Wrap(ph - pn + RingSize)
<1>1. /\ R \in Nat \ {0} /\ n \in 0..R /\ h \in 0..(R - 1) /\ b \in [0..(R - 1) -> Int]
  BY CacheAssumption DEF CacheAssumption, Ring
<1>2. /\ pb = [b EXCEPT ![h] = v] /\ ph = Wrap(h + 1)
      /\ pn = IF n < R THEN n + 1 ELSE n
      /\ p = [buf |-> pb, head |-> ph, size |-> pn]
  BY DEF Put, Wrap
<1>3. p \in Ring
  <2> HIDE DEF h, n, b, pb, ph, pn, p
  <2>1. Wrap(h + 1) \in 0..(R - 1)
    BY <1>1, RingSlots
  <2>2. pn \in 0..R
    BY <1>1, <1>2
  <2>3. pb \in [0..(R - 1) -> Int]
    BY <1>1, <1>2
  <2> QED BY <1>2, <2>1, <2>2, <2>3 DEF Ring
<1>4. /\ q \in Seq(Int) /\ Len(q) = pn
      /\ \A i \in 1..pn : q[i] = pb[Wrap(pst + i - 1)]
  <2> HIDE DEF p
  <2> QED BY <1>3, SeriesProperties
<1>5. /\ s \in Seq(Int) /\ Len(s) = n
      /\ \A i \in 1..n : s[i] = b[Wrap(st + i - 1)]
  BY SeriesProperties
<1> HIDE DEF s
<1>6. /\ a \in Seq(Int) /\ Len(a) = n + 1 /\ a[n + 1] = v /\ \A i \in 1..n : a[i] = s[i]
  <2> HIDE DEF n
  <2> QED BY <1>5, AppendProperties
<1>7. /\ st = Wrap(h - n + RingSize)
      /\ pst = Wrap(ph - pn + RingSize)
  OBVIOUS
<1> HIDE DEF h, n, b, pb, ph, pn, p, a, q, st, pst
<1>s. /\ \A i \in 1..n : Wrap(st + i - 1) \in 0..(R - 1)
      /\ n < R => /\ Wrap(st + n) = h
                  /\ \A i \in 1..n : Wrap(st + i - 1) # h
                  /\ Wrap(Wrap(h + 1) - (n + 1) + R) = st
      /\ n = R => /\ st = h
                  /\ Wrap(Wrap(h + 1) - n + R) = Wrap(h + 1)
                  /\ Wrap(Wrap(h + 1) + n - 1) = h
                  /\ \A i \in 1..(n - 1) : /\ Wrap(Wrap(h + 1) + i - 1) = Wrap(h + i)
                                           /\ Wrap(h + i) # h
  <2>1. /\ h \in 0..(RingSize - 1) /\ n \in 0..RingSize
        /\ st = Wrap(h - n + RingSize)
    BY <1>1, <1>7
  <2> QED BY <2>1, RingSlots
<1>t. st \in 0..(R - 1)
  <2>1. /\ h \in 0..(RingSize - 1) /\ n \in 0..RingSize
        /\ st = Wrap(h - n + RingSize)
    BY <1>1, <1>7
  <2> QED BY <2>1, RingSlots
<1>9. CASE n < R
  <2>1. pn = n + 1 /\ pst = st
    BY <1>2, <1>7, <1>s, <1>9
  <2>2. ASSUME NEW i \in 1..(n + 1) PROVE q[i] = a[i]
    <3>1. CASE i = n + 1
      <4>1. i \in 1..pn /\ st + i - 1 = st + n
        <5>1. st \in Int
          BY <1>1, <1>t
        <5> QED BY <1>1, <2>1, <3>1, <5>1
      <4>2. q[i] = pb[h]
        BY <1>4, <1>s, <1>9, <2>1, <4>1
      <4> QED BY <1>1, <1>2, <1>6, <3>1, <4>2
    <3>2. CASE i # n + 1
      <4>1. i \in 1..n /\ i \in 1..pn
        BY <1>1, <2>1, <3>2
      <4>2. q[i] = pb[Wrap(st + i - 1)] /\ a[i] = b[Wrap(st + i - 1)]
        BY <1>4, <1>5, <1>6, <2>1, <4>1
      <4>3. Wrap(st + i - 1) \in 0..(R - 1) /\ Wrap(st + i - 1) # h
        BY <1>s, <1>9, <4>1
      <4> QED BY <1>1, <1>2, <4>2, <4>3
    <3> QED BY <3>1, <3>2
  <2>3. q = a
    BY <1>4, <1>6, <2>1, <2>2, SeqEqual
  <2>4. LastOf(a, R) = a
    <3>1. Len(a) <= R /\ R \in Nat
      BY <1>1, <1>6, <1>9
    <3> QED BY <1>6, <3>1, LastOfProperties
  <2> QED BY <1>3, <2>3, <2>4 DEF p, q, a, s
<1>10. CASE n = R
  <2>1. pn = n /\ pst = ph /\ st = h
    <3>1. pn = n /\ st = h /\ Wrap(Wrap(h + 1) - n + R) = Wrap(h + 1)
      BY <1>1, <1>2, <1>s, <1>10
    <3> QED BY <1>2, <1>7, <3>1
  <2>2. /\ LastOf(a, R) \in Seq(Int) /\ Len(LastOf(a, R)) = R
        /\ \A i \in 1..R : LastOf(a, R)[i] = a[i + 1]
    <3>1. Len(a) > R /\ R \in Nat /\ \A i \in 1..R : Len(a) - R + i = i + 1
      BY <1>1, <1>6, <1>10
    <3>2. /\ LastOf(a, R) \in Seq(Int) /\ Len(LastOf(a, R)) = R
          /\ \A i \in 1..R : LastOf(a, R)[i] = a[Len(a) - R + i]
      <4>1. a \in Seq(Int)
        BY <1>6
      <4> HIDE DEF R
      <4> QED BY <4>1, <3>1, LastOfLonger
    <3> QED BY <3>1, <3>2
  <2>3. ASSUME NEW i \in 1..R PROVE q[i] = a[i + 1]
    <3>1. q[i] = pb[Wrap(ph + i - 1)]
      BY <1>4, <1>10, <2>1
    <3>2. CASE i = R
      <4>1. Wrap(ph + i - 1) = h
        BY <1>2, <1>s, <1>10, <3>2
      <4> QED BY <1>1, <1>2, <1>6, <1>10, <3>1, <3>2, <4>1
    <3>3. CASE i # R
      <4>1. i \in 1..(n - 1) /\ i + 1 \in 1..n /\ h + (i + 1) - 1 = h + i
        BY <1>1, <1>10, <3>3
      <4>2. Wrap(ph + i - 1) = Wrap(h + i) /\ Wrap(h + i) # h
        BY <1>2, <1>s, <1>10, <4>1
      <4>3. a[i + 1] = b[Wrap(h + i)] /\ Wrap(h + i) \in 0..(R - 1)
        <5>1. a[i + 1] = b[Wrap(h + (i + 1) - 1)] /\ Wrap(h + (i + 1) - 1) \in 0..(R - 1)
          BY <1>5, <1>6, <1>s, <2>1, <4>1
        <5> QED BY <4>1, <5>1
      <4> QED BY <1>1, <1>2, <3>1, <4>2, <4>3
    <3> QED BY <3>2, <3>3
  <2>4. q = LastOf(a, R)
    <3>1. Len(q) = R
      BY <1>4, <1>10, <2>1
    <3> QED BY <1>4, <2>2, <2>3, <3>1, SeqEqual
  <2> QED BY <1>3, <2>4 DEF p, q, a, s
<1> QED BY <1>1, <1>9, <1>10

LEMMA FilledProperties ==
  ASSUME NEW seq \in Seq(Int), Len(seq) <= RingSize
  PROVE  Filled(seq) \in Ring /\ Series(Filled(seq)) = seq /\ Filled(seq).size = Len(seq)
<1> DEFINE R == RingSize
           r == Filled(seq)
           n == Len(seq)
           b == r.buf
           h == r.head
           st == Wrap(r.head - r.size + RingSize)
<1>w. /\ R \in Nat \ {0}
      /\ \A x \in 0..(2 * R - 1) : Wrap(x) = IF x < R THEN x ELSE x - R
  BY WrapProperties
<1>1. /\ R \in Nat \ {0} /\ n \in 0..R /\ \A i \in 1..n : seq[i] \in Int
  BY CacheAssumption, LenProperties, ElementOfSeq DEF CacheAssumption
<1>2. /\ b = [i \in 0..(R - 1) |-> IF i < n THEN seq[i + 1] ELSE 0]
      /\ h = Wrap(n) /\ r.size = n
      /\ r = [buf |-> b, head |-> h, size |-> r.size]
  BY DEF Filled, Wrap
<1>3. st = Wrap(h - n + R)
  BY <1>2
<1>n. n = Len(seq)
  OBVIOUS
<1> HIDE DEF r, n, b, h, R
<1>4. h = IF n = R THEN 0 ELSE n
  BY <1>w, <1>1, <1>2
<1>5. r \in Ring
  <2>1. \A i \in 0..(R - 1) : (IF i < n THEN seq[i + 1] ELSE 0) \in Int
    BY <1>1
  <2>2. b \in [0..(R - 1) -> Int]
    BY <1>2, <2>1
  <2>3. h \in 0..(R - 1)
    BY <1>1, <1>4
  <2>4. r.size \in 0..R
    BY <1>1, <1>2
  <2> QED BY <1>2, <2>2, <2>3, <2>4 DEF Ring, R
<1>6. st = 0
  BY <1>w, <1>1, <1>3, <1>4
<1>7. /\ Series(r) \in Seq(Int) /\ Len(Series(r)) = n
      /\ \A i \in 1..n : Series(r)[i] = b[Wrap(st + i - 1)]
  BY <1>2, <1>5, SeriesProperties DEF b
<1> HIDE DEF st
<1>8. ASSUME NEW i \in 1..n PROVE Series(r)[i] = seq[i]
  <2>1. st + i - 1 = i - 1 /\ i - 1 \in 0..(R - 1) /\ i - 1 < n /\ (i - 1) + 1 = i
    BY <1>1, <1>6
  <2>2. Wrap(i - 1) = i - 1
    BY <1>w, <1>1, <2>1
  <2> QED BY <1>2, <1>7, <2>1, <2>2
<1>9. Series(r) = seq
  BY <1>7, <1>8, <1>n, SeqEqual
<1> QED BY <1>2, <1>5, <1>9 DEF r, n

(***************************************************************************)
(* The ring of a symbol given a history of b bars and n live quotes.        *)
(***************************************************************************)
Live(n) == [i \in 1..n |-> i]
Holds(r, b, n) == Series(r) = LastOf(History(b) \o Live(n), RingSize)

LEMMA HistoryProperties ==
  ASSUME NEW b \in Nat
  PROVE  History(b) \in Seq(Int) /\ Len(History(b)) = b
<1>1. History(b) = [i \in 1..b |-> i - b - 1]
  BY DEF History
<1>2. [i \in 1..b |-> i - b - 1] \in [1..b -> Int]
  OBVIOUS
<1> QED BY <1>1, <1>2

LEMMA NoHistory ==
  ASSUME NEW s \in Seq(Int)
  PROVE  History(0) \o s = s
<1>1. History(0) = <<>>
  BY HistoryProperties, EmptySeq
<1> QED BY <1>1, ConcatEmptySeq

LEMMA LiveProperties ==
  ASSUME NEW n \in Nat
  PROVE  /\ Live(n) \in Seq(Int) /\ Len(Live(n)) = n
         /\ Append(Live(n), n + 1) = Live(n + 1)
<1>1. \A m \in Nat : /\ Live(m) \in Seq(Int) /\ Len(Live(m)) = m
                     /\ \A i \in 1..m : Live(m)[i] = i
  <2> TAKE m \in Nat
  <2>1. Live(m) = [i \in 1..m |-> i]
    BY DEF Live
  <2>2. [i \in 1..m |-> i] \in [1..m -> Int]
    OBVIOUS
  <2> QED BY <2>1, <2>2
<1> DEFINE l == Live(n)
           m == Live(n + 1)
           a == Append(l, n + 1)
<1>2. /\ l \in Seq(Int) /\ Len(l) = n /\ \A i \in 1..n : l[i] = i
      /\ m \in Seq(Int) /\ Len(m) = n + 1 /\ \A i \in 1..(n + 1) : m[i] = i
  <2>1. n + 1 \in Nat
    OBVIOUS
  <2> QED BY <1>1, <2>1
<1> HIDE DEF l, m
<1>3. /\ a \in Seq(Int) /\ Len(a) = n + 1 /\ a[n + 1] = n + 1
      /\ \A i \in 1..n : a[i] = l[i]
  BY <1>2, AppendProperties
<1> HIDE DEF a
<1>4. ASSUME NEW i \in 1..(n + 1) PROVE a[i] = m[i]
  <2>1. CASE i = n + 1
    BY <1>2, <1>3, <2>1
  <2>2. CASE i # n + 1
    <3>1. i \in 1..n
      BY <2>2
    <3> QED BY <1>2, <1>3, <3>1
  <2> QED BY <2>1, <2>2
<1>5. a = m
  BY <1>2, <1>3, <1>4, SeqEqual
<1> QED BY <1>2, <1>5 DEF l, m, a

LEMMA NewRingHolds ==
  NewRing \in Ring /\ Holds(NewRing, 0, 0)
<1>1. RingSize \in Nat \ {0}
  BY CacheAssumption DEF CacheAssumption
<1>2. NewRing \in Ring /\ NewRing.size = 0
  BY <1>1 DEF NewRing, Ring
<1>3. Series(NewRing) = <<>>
  <2>1. Series(NewRing) \in Seq(Int) /\ Len(Series(NewRing)) = 0
    BY <1>2, SeriesProperties
  <2> QED BY <2>1, EmptySeq
<1>4. Live(0) \in Seq(Int) /\ Live(0) = <<>>
  BY LiveProperties, EmptySeq
<1>5. LastOf(Live(0), RingSize) = Live(0)
  <2>1. Len(Live(0)) <= RingSize /\ RingSize \in Nat
    BY <1>1, LiveProperties
  <2> QED BY <1>4, <2>1, LastOfProperties
<1> QED BY <1>2, <1>3, <1>4, <1>5, NoHistory DEF Holds

LEMMA PutHolds ==
  ASSUME NEW r \in Ring, NEW b \in Nat, NEW n \in Nat, Holds(r, b, n)
  PROVE  Put(r, n + 1) \in Ring /\ Holds(Put(r, n + 1), b, n + 1)
<1> DEFINE all == History(b) \o Live(n)
<1>1. RingSize \in Nat \ {0} /\ n + 1 \in Int
  BY CacheAssumption DEF CacheAssumption
<1>2. /\ Put(r, n + 1) \in Ring
      /\ Series(Put(r, n + 1)) = LastOf(Append(Series(r), n + 1), RingSize)
  BY <1>1, PutProperties
<1>3. History(b) \in Seq(Int) /\ Live(n) \in Seq(Int)
  BY HistoryProperties, LiveProperties
<1>4. all \in Seq(Int)
  BY <1>3, ConcatProperties
<1>5. Append(all, n + 1) = History(b) \o Live(n + 1)
  <2>1. Append(all, n + 1) = History(b) \o Append(Live(n), n + 1)
    <3> DEFINE old == History(b)
               new == Live(n)
               x == n + 1
    <3>1. old \in Seq(Int) /\ new \in Seq(Int) /\ x \in Int
      BY <1>1, <1>3
    <3> HIDE DEF old, new, x
    <3>2. old \o Append(new, x) = Append(old \o new, x)
      BY <3>1, ConcatAppend
    <3> QED BY <3>2 DEF old, new, x
  <2> QED BY <2>1, LiveProperties
<1>6. Series(r) = LastOf(all, RingSize)
  BY DEF Holds
<1> HIDE DEF all
<1>7. LastOf(Append(LastOf(all, RingSize), n + 1), RingSize) = LastOf(Append(all, n + 1), RingSize)
  BY <1>1, <1>4, LastOfAppend
<1> QED BY <1>2, <1>5, <1>6, <1>7 DEF Holds

(* The samples of an unseeded ring are its live ones. *)
LEMMA FullRingHolds ==
  ASSUME NEW r \in Ring, NEW h \in Nat, NEW n \in Nat, Holds(r, 0, n), r.size = RingSize
  PROVE  Holds(r, h, n)
<1>1. RingSize \in Nat
  BY CacheAssumption DEF CacheAssumption
<1>2. History(h) \in Seq(Int) /\ Live(n) \in Seq(Int) /\ Len(Live(n)) = n
  BY HistoryProperties, LiveProperties
<1>3. Series(r) = LastOf(Live(n), RingSize)
  BY <1>2, NoHistory DEF Holds
<1>4. Len(Series(r)) = RingSize
  BY SeriesProperties
<1>5. n >= RingSize
  <2>1. CASE n <= RingSize
    <3>1. LastOf(Live(n), RingSize) = Live(n)
      BY <1>1, <1>2, <2>1, LastOfProperties
    <3> QED BY <1>1, <1>2, <1>3, <1>4, <3>1
  <2> QED BY <1>1, <2>1
<1>6. LastOf(History(h) \o Live(n), RingSize) = LastOf(Live(n), RingSize)
  BY <1>1, <1>2, <1>5, LastOfBehind
<1> QED BY <1>3, <1>6 DEF Holds

LEMMA BackfilledHolds ==
  ASSUME NEW r \in Ring, NEW h \in Nat, NEW n \in Nat, Holds(r, 0, n), r.size # RingSize
  PROVE  Backfilled(r, h) \in Ring /\ Holds(Backfilled(r, h), h, n)
<1> DEFINE f == LastOf(History(h), RingSize - r.size) \o Series(r)
<1>1. RingSize \in Nat /\ r.size \in Nat /\ r.size < RingSize
  BY CacheAssumption DEF CacheAssumption, Ring
<1>2. History(h) \in Seq(Int) /\ Live(n) \in Seq(Int) /\ Len(Live(n)) = n
  BY HistoryProperties, LiveProperties
<1>3. Series(r) = LastOf(Live(n), RingSize)
  BY <1>2, NoHistory DEF Holds
<1>4. Len(Series(r)) = r.size
  BY SeriesProperties
<1>5. Series(r) = Live(n)
  <2>1. CASE n <= RingSize
    BY <1>1, <1>2, <1>3, <2>1, LastOfProperties
  <2>2. CASE n > RingSize
    <3>1. Len(LastOf(Live(n), RingSize)) = RingSize
      BY <1>1, <1>2, <2>2, LastOfLonger
    <3> QED BY <1>1, <1>3, <1>4, <3>1
  <2> QED BY <1>1, <2>1, <2>2
<1>6. /\ f = LastOf(History(h) \o Live(n), RingSize)
      /\ f \in Seq(Int) /\ Len(f) <= RingSize
  <2>1. Len(Live(n)) <= RingSize /\ Len(Live(n)) = r.size
    BY <1>1, <1>4, <1>5
  <2>2. /\ LastOf(History(h), RingSize - Len(Live(n))) \o Live(n)
             = LastOf(History(h) \o Live(n), RingSize)
        /\ LastOf(History(h), RingSize - Len(Live(n))) \o Live(n) \in Seq(Int)
        /\ Len(LastOf(History(h), RingSize - Len(Live(n))) \o Live(n)) <= RingSize
    BY <1>1, <1>2, <2>1, LastOfInFront
  <2> QED BY <1>5, <2>1, <2>2
<1>7. Backfilled(r, h) = Filled(f)
  BY DEF Backfilled
<1> HIDE DEF f
<1>8. Filled(f) \in Ring /\ Series(Filled(f)) = f
  BY <1>6, FilledProperties
<1> QED BY <1>6, <1>7, <1>8 DEF Holds

(***************************************************************************)
(* The rings, with what the proofs need besides: a symbol not seeded yet   *)
(* was given no bars.                                                      *)
(***************************************************************************)
UnseededHasNoBars == \A s \in Symbols : s \notin seeded => bars[s] = 0

CacheInv == TypeOK /\ RingHoldsNewest /\ UnseededHasNoBars

(* What a step of the cache keeps is a matter of the cache alone. *)
RingsOK ==
  /\ data \in [Symbols -> Ring] /\ last \in [Symbols -> Nat] /\ bars \in [Symbols -> Nat]
  /\ seeded \in SUBSET Symbols
  /\ gen \in Nat
  /\ holder \in Symbols \cup {"none", "hub"}
  /\ \A s \in Symbols : Holds(data[s], bars[s], last[s])
  /\ UnseededHasNoBars

LEMMA RingsInInv ==
  CacheTypeOK /\ RingHoldsNewest /\ UnseededHasNoBars <=> RingsOK
BY DEF CacheTypeOK, RingHoldsNewest, RingsOK, Ring, Holds, Live

LEMMA PushKeepsRings ==
  ASSUME RingsOK, NEW s \in Symbols, Push(s)
  PROVE  RingsOK'
<1>1. /\ data[s] \in Ring /\ last[s] \in Nat /\ bars[s] \in Nat
      /\ Holds(data[s], bars[s], last[s])
  BY DEF RingsOK
<1>2. /\ Put(data[s], last[s] + 1) \in Ring
      /\ Holds(Put(data[s], last[s] + 1), bars[s], last[s] + 1)
  BY <1>1, PutHolds
<1>3. /\ data' = [data EXCEPT ![s] = Put(data[s], last[s] + 1)]
      /\ last' = [last EXCEPT ![s] = last[s] + 1]
      /\ holder' = "hub" /\ UNCHANGED <<seeded, gen, bars>>
  BY DEF Push
<1>4. /\ data \in [Symbols -> Ring] /\ last \in [Symbols -> Nat]
      /\ \A t \in Symbols : Holds(data[t], bars[t], last[t])
  BY DEF RingsOK
<1>5. data' \in [Symbols -> Ring] /\ last' \in [Symbols -> Nat]
  BY <1>1, <1>2, <1>3, <1>4
<1>6. ASSUME NEW t \in Symbols PROVE Holds(data'[t], bars'[t], last'[t])
  BY <1>1, <1>2, <1>3, <1>4
<1>7. UnseededHasNoBars'
  BY <1>3 DEF RingsOK, UnseededHasNoBars
<1>8. (\A t \in Symbols : Holds(data[t], bars[t], last[t]))'
  BY <1>6 DEF Holds
<1> QED BY <1>3, <1>5, <1>7, <1>8 DEF RingsOK

LEMMA SeedKeepsRings ==
  ASSUME RingsOK, NEW s \in Symbols, NEW h \in Nat, Seed(s, h)
  PROVE  RingsOK'
<1> DEFINE r == data[s]
           idle == s \in seeded \/ r.size = RingSize
<1>1. /\ r \in Ring /\ last[s] \in Nat /\ bars[s] \in Nat
      /\ Holds(r, bars[s], last[s])
      /\ s \notin seeded => bars[s] = 0
  BY DEF RingsOK, UnseededHasNoBars
<1>2. /\ data' = [data EXCEPT ![s] = IF idle THEN r ELSE Backfilled(r, h)]
      /\ bars' = [bars EXCEPT ![s] = IF s \in seeded THEN bars[s] ELSE h]
      /\ holder' = IF idle THEN holder ELSE s
      /\ seeded' = seeded \cup {s}
      /\ UNCHANGED <<last, gen>>
  <2>1. data \in [Symbols -> Ring]
    BY DEF RingsOK
  <2>2. CASE idle
    <3>1. [data EXCEPT ![s] = r] = data
      BY <2>1
    <3> QED BY <2>2, <3>1 DEF Seed
  <2>3. CASE ~idle
    BY <2>3 DEF Seed
  <2> QED BY <2>2, <2>3
<1>3. s \notin seeded /\ r.size = RingSize => Holds(r, h, last[s])
  BY <1>1, FullRingHolds
<1>4. s \notin seeded /\ r.size # RingSize =>
        Backfilled(r, h) \in Ring /\ Holds(Backfilled(r, h), h, last[s])
  BY <1>1, BackfilledHolds
<1>5. /\ data \in [Symbols -> Ring] /\ bars \in [Symbols -> Nat]
      /\ \A t \in Symbols : Holds(data[t], bars[t], last[t])
  BY DEF RingsOK
<1> HIDE DEF r
<1>6. data' \in [Symbols -> Ring] /\ bars' \in [Symbols -> Nat]
  BY <1>1, <1>2, <1>4, <1>5
<1>7. ASSUME NEW t \in Symbols PROVE Holds(data'[t], bars'[t], last'[t])
  <2>1. CASE t = s
    BY <1>1, <1>2, <1>3, <1>4, <1>5, <2>1
  <2>2. CASE t # s
    BY <1>2, <1>5, <2>2
  <2> QED BY <2>1, <2>2
<1>8. UnseededHasNoBars'
  <2>1. \A t \in Symbols : t \notin seeded => bars[t] = 0
    BY DEF RingsOK, UnseededHasNoBars
  <2> QED BY <1>2, <1>5, <2>1 DEF UnseededHasNoBars
<1>9. (\A t \in Symbols : Holds(data[t], bars[t], last[t]))'
  BY <1>7 DEF Holds
<1>10. holder' \in Symbols \cup {"none", "hub"} /\ seeded' \in SUBSET Symbols
  BY <1>2 DEF RingsOK
<1> QED BY <1>2, <1>6, <1>8, <1>9, <1>10 DEF RingsOK

LEMMA AdvanceKeepsRings ==
  ASSUME RingsOK, Advance \/ UNCHANGED cacheVars
  PROVE  RingsOK'
BY DEF RingsOK, Advance, cacheVars, UnseededHasNoBars, Holds

(* One step of the program for the rings: Push, Seed or Advance, or none.   *)
LEMMA StepForRings ==
  ASSUME TypeOK, [Next]_vars
  PROVE  \/ \E s \in Symbols : Push(s)
         \/ \E s \in Symbols, h \in Nat : Seed(s, h)
         \/ Advance
         \/ UNCHANGED cacheVars
<1>1. \A s \in Symbols, h \in 1..MaxBars : Seed(s, h) => \E k \in Nat : Seed(s, k)
  BY CacheAssumption DEF CacheAssumption
<1>2. CASE HubPush
  BY <1>2 DEF HubPush
<1>3. CASE WriterAdvances
  BY <1>3 DEF WriterAdvances
<1>4. CASE Pool
  <2>1. CASE Spawn \/ StopSpawning \/ BackfillReturns
    BY <2>1 DEF Spawn, StopSpawning, BackfillReturns
  <2>2. ASSUME NEW s \in Symbols, FetchFails(s) PROVE UNCHANGED cacheVars
    BY <2>2 DEF FetchFails
  <2>3. ASSUME NEW s \in Symbols, FetchSeeds(s)
        PROVE  \E k \in Nat : Seed(s, k)
    BY <1>1, <2>3 DEF FetchSeeds
  <2> QED BY <1>4, <2>1, <2>2, <2>3 DEF Pool
<1>5. CASE CtxDone \/ Tab
  BY <1>5 DEF CtxDone, Tab, ChangeView, Recompute, ReadSeries, Memoize
<1>6. CASE UNCHANGED vars
  BY <1>6 DEF vars
<1> QED BY <1>2, <1>3, <1>4, <1>5, <1>6 DEF Next

LEMMA RingsInit ==
  ASSUME Init
  PROVE  RingsOK
<1>1. NewRing \in Ring /\ Holds(NewRing, 0, 0)
  BY NewRingHolds
<1> QED BY <1>1 DEF Init, CacheInit, RingsOK, UnseededHasNoBars

LEMMA RingsNext ==
  ASSUME TypeOK, RingsOK, [Next]_vars
  PROVE  RingsOK'
BY StepForRings, PushKeepsRings, SeedKeepsRings, AdvanceKeepsRings

(* The variables that are not the cache's. *)
LEMMA TypeNext ==
  ASSUME TypeOK, CacheTypeOK', [Next]_vars
  PROVE  TypeOK'
<1>1. Len(Subscribed) \in Nat /\ \A i \in 1..Len(Subscribed) : Subscribed[i] \in Symbols
  BY DataPlaneAssumption, LenProperties, ElementOfSeq DEF DataPlaneAssumption
<1> USE DEF TypeOK, cacheVars, poolVars, tabVars
<1>2. CASE HubPush \/ WriterAdvances \/ CtxDone
  BY <1>2 DEF HubPush, WriterAdvances, CtxDone
<1>3. CASE Spawn
  <2>1. upcoming + 1 \in 1..(Len(Subscribed) + 1)
    BY <1>1, <1>3 DEF Spawn
  <2>2. fetching' \in SUBSET Symbols
    BY <1>1, <1>3 DEF Spawn
  <2> QED BY <1>3, <2>1, <2>2 DEF Spawn
<1>4. CASE StopSpawning \/ BackfillReturns
  BY <1>4 DEF StopSpawning, BackfillReturns
<1>5. ASSUME NEW s \in Symbols, FetchFails(s) PROVE TypeOK'
  BY <1>5 DEF FetchFails
<1>6. ASSUME NEW s \in Symbols, FetchSeeds(s) PROVE TypeOK'
  BY <1>6 DEF FetchSeeds
<1>7. CASE Tab
  BY <1>7 DEF Tab, ChangeView, Recompute, ReadSeries, Memoize
<1>8. CASE UNCHANGED vars
  BY <1>8 DEF vars
<1> QED BY <1>2, <1>3, <1>4, <1>5, <1>6, <1>7, <1>8 DEF Next, Pool

LEMMA CacheInvInit ==
  ASSUME Init
  PROVE  CacheInv
<1>1. CacheTypeOK /\ RingHoldsNewest /\ UnseededHasNoBars
  BY RingsInit, RingsInInv
<1>2. Len(Subscribed) \in Nat
  BY DataPlaneAssumption, LenProperties DEF DataPlaneAssumption
<1>3. 1 \in 1..(Len(Subscribed) + 1)
  BY <1>2
<1>4. TypeOK
  BY <1>1, <1>3 DEF Init, TypeOK
<1> QED BY <1>1, <1>4 DEF CacheInv

LEMMA CacheInvNext ==
  ASSUME CacheInv, [Next]_vars
  PROVE  CacheInv'
<1>1. RingsOK
  BY RingsInInv DEF CacheInv, TypeOK
<1>2. RingsOK'
  BY <1>1, RingsNext DEF CacheInv
<1>3. (CacheTypeOK /\ RingHoldsNewest /\ UnseededHasNoBars)'
  BY <1>2 DEF CacheTypeOK, RingHoldsNewest, RingsOK, Ring, Holds, Live
<1> QED BY <1>3, TypeNext DEF CacheInv

LEMMA SpecCacheInv == Spec => []CacheInv
BY CacheInvInit, CacheInvNext, PTL DEF Spec

(* SeedCandles and Push, cache.go: in whatever order live quotes and the    *)
(* one backfill of a symbol reach its ring, and whoever else uses the cache *)
(* meanwhile, the ring holds the newest RingSize samples of history and     *)
(* live quotes together.                                                    *)
THEOREM CacheAlwaysSound == Spec => []CacheSound
<1>1. CacheInv => CacheSound
  BY DEF CacheInv, CacheSound
<1> QED BY <1>1, SpecCacheInv, PTL

(***************************************************************************)
(* The correlation tab.                                                    *)
(***************************************************************************)
(* A matrix, stored or being computed, is made of what its rings hold now   *)
(* for as long as the generation is the one it was begun at and nobody is   *)
(* writing: a write that is over has moved the counter.                     *)
Matrices == [valid : {TRUE}, view : Views, gen : Nat, series : Seq(Seq(Int))]

MatrixSound(m) ==
  m # NoMatrix =>
    /\ m \in Matrices
    /\ m.gen <= gen /\ Len(m.series) <= Len(m.view.syms)
    /\ m.gen = gen /\ holder = "none" =>
         \A i \in 1..Len(m.series) : m.series[i] = Series(data[m.view.syms[i]])

MemoInv ==
  /\ MatrixSound(memo)
  /\ MatrixSound(pending)
  /\ memo # NoMatrix => Len(memo.series) = Len(memo.view.syms)

LEMMA ViewProperties ==
  ASSUME NEW v \in Views
  PROVE  /\ v.syms \in Seq(Symbols) /\ Len(v.syms) \in Nat
         /\ \A i \in 1..Len(v.syms) : v.syms[i] \in Symbols
<1>1. v.syms \in Seq(Symbols)
  BY DataPlaneAssumption DEF DataPlaneAssumption
<1> QED BY <1>1, LenProperties, ElementOfSeq

(* A step of the cache that does not end with the lock taken changes no ring, *)
(* or the generation is a later one. *)
LEMMA WritesAreSeen ==
  ASSUME CacheInv, [Next]_vars
  PROVE  /\ gen' \in Nat /\ gen <= gen'
         /\ gen' = gen /\ holder' = "none" => holder = "none" /\ data' = data
<1>1. gen \in Nat /\ "none" # "hub" /\ \A s \in Symbols : s # "none"
  BY CacheAssumption DEF CacheInv, TypeOK, CacheTypeOK, CacheAssumption
<1>2. TypeOK
  BY DEF CacheInv
<1>3. ASSUME NEW s \in Symbols, Push(s)
      PROVE  gen' = gen /\ holder' # "none"
  BY <1>1, <1>3 DEF Push
<1>4. ASSUME NEW s \in Symbols, NEW h \in Nat, Seed(s, h)
      PROVE  gen' = gen /\ (holder' # "none" \/ (data' = data /\ holder' = holder))
  BY <1>1, <1>4 DEF Seed
<1>5. CASE Advance
  BY <1>1, <1>5 DEF Advance
<1>6. CASE UNCHANGED cacheVars
  BY <1>1, <1>6 DEF cacheVars
<1> QED BY <1>1, <1>2, <1>3, <1>4, <1>5, <1>6, StepForRings

LEMMA MatrixKept ==
  ASSUME CacheInv, [Next]_vars, NEW m, MatrixSound(m)
  PROVE  m # NoMatrix =>
    /\ m \in Matrices
    /\ m.gen <= gen' /\ Len(m.series) <= Len(m.view.syms)
    /\ m.gen = gen' /\ holder' = "none" =>
         \A i \in 1..Len(m.series) : m.series[i] = Series(data'[m.view.syms[i]])
<1> SUFFICES ASSUME m # NoMatrix
             PROVE  /\ m \in Matrices
                    /\ m.gen <= gen' /\ Len(m.series) <= Len(m.view.syms)
                    /\ m.gen = gen' /\ holder' = "none" =>
                         \A i \in 1..Len(m.series) : m.series[i] = Series(data'[m.view.syms[i]])
  OBVIOUS
<1>1. /\ m \in Matrices
      /\ m.gen <= gen /\ Len(m.series) <= Len(m.view.syms)
      /\ m.gen = gen /\ holder = "none" =>
           \A i \in 1..Len(m.series) : m.series[i] = Series(data[m.view.syms[i]])
  BY DEF MatrixSound
<1>2. /\ gen' \in Nat /\ gen <= gen'
      /\ gen' = gen /\ holder' = "none" => holder = "none" /\ data' = data
  BY WritesAreSeen
<1>3. gen \in Nat
  BY DEF CacheInv, TypeOK, CacheTypeOK
<1>4. m.gen <= gen' /\ (m.gen = gen' => gen' = gen)
  <2> DEFINE g == m.gen
  <2>1. g \in Nat /\ g <= gen
    BY <1>1 DEF Matrices
  <2> HIDE DEF g
  <2>2. g <= gen' /\ (g = gen' => gen' = gen)
    BY <1>2, <1>3, <2>1
  <2> QED BY <2>2 DEF g
<1> QED BY <1>1, <1>2, <1>4

(* The tab's own steps leave the cache as it is. *)
LEMMA ReadSeriesKeepsMatrix ==
  ASSUME CacheInv, MatrixSound(pending), ReadSeries
  PROVE  MatrixSound(pending)'
<1> DEFINE s == pending.series
           syms == pending.view.syms
           n == Len(s)
           x == Series(data[syms[n + 1]])
           q == Append(s, x)
<1>1. /\ pending.valid /\ n < Len(syms) /\ holder = "none"
      /\ pending' = [pending EXCEPT !.series = q]
      /\ UNCHANGED <<data, gen, holder>>
  BY DEF ReadSeries, cacheVars
<1>2. pending # NoMatrix
  BY <1>1 DEF NoMatrix
<1>3. /\ pending \in Matrices
      /\ pending.gen <= gen
      /\ pending.gen = gen => \A i \in 1..n : s[i] = Series(data[syms[i]])
  BY <1>1, <1>2 DEF MatrixSound
<1>4. /\ Len(syms) \in Nat
      /\ \A i \in 1..Len(syms) : syms[i] \in Symbols
  BY <1>3, ViewProperties DEF Matrices
<1>5. s \in Seq(Seq(Int)) /\ n \in Nat
  BY <1>3, LenProperties DEF Matrices
<1> HIDE DEF syms, n
<1>6. n + 1 \in 1..Len(syms)
  BY <1>1, <1>4, <1>5
<1>7. x \in Seq(Int)
  <2>1. data[syms[n + 1]] \in Ring
    BY <1>4, <1>6 DEF CacheInv, TypeOK, CacheTypeOK, Ring
  <2> QED BY <2>1, SeriesProperties
<1>8. /\ q \in Seq(Seq(Int)) /\ Len(q) = n + 1 /\ q[n + 1] = x
      /\ \A i \in 1..n : q[i] = s[i]
  <2> HIDE DEF x, s
  <2> QED BY <1>5, <1>7, AppendProperties DEF n
<1> HIDE DEF q
<1>9. /\ pending' \in Matrices /\ pending'.series = q
      /\ pending'.gen = pending.gen /\ pending'.view.syms = syms
  BY <1>1, <1>3, <1>8 DEF Matrices, syms
<1>10. pending.gen = gen => \A i \in 1..(n + 1) : q[i] = Series(data[syms[i]])
  <2> SUFFICES ASSUME pending.gen = gen, NEW i \in 1..(n + 1)
               PROVE  q[i] = Series(data[syms[i]])
    OBVIOUS
  <2> HIDE DEF s, x
  <2>1. CASE i = n + 1
    BY <1>8, <2>1 DEF x
  <2>2. CASE i # n + 1
    <3>1. i \in 1..n
      BY <1>5, <2>2
    <3> QED BY <1>3, <1>8, <3>1
  <2> QED BY <2>1, <2>2
<1>11. Len(q) <= Len(syms)
  BY <1>4, <1>6, <1>8
<1>12. gen' = gen /\ data' = data
  BY <1>1
<1> QED BY <1>3, <1>8, <1>9, <1>10, <1>11, <1>12 DEF MatrixSound

LEMMA MemoInvInit ==
  ASSUME Init
  PROVE  MemoInv
BY DEF Init, MemoInv, MatrixSound

LEMMA MemoInvNext ==
  ASSUME CacheInv, MemoInv, [Next]_vars
  PROVE  MemoInv'
<1>1. CASE UNCHANGED <<memo, pending>>
  <2>1. MatrixSound(memo)' /\ MatrixSound(pending)'
    BY <1>1, MatrixKept DEF MemoInv, MatrixSound
  <2> QED BY <1>1, <2>1 DEF MemoInv
<1>2. CASE Recompute
  <2>1. /\ pending' = [valid |-> TRUE, view |-> view, gen |-> gen, series |-> <<>>]
        /\ UNCHANGED <<data, gen, holder, memo>>
    BY <1>2 DEF Recompute, cacheVars
  <2>2. gen \in Nat /\ view \in Views
    BY DEF CacheInv, TypeOK, CacheTypeOK
  <2>3. Len(view.syms) \in Nat /\ Len(<<>>) = 0
    BY <2>2, ViewProperties
  <2>4. pending' \in Matrices /\ pending'.gen = gen' /\ pending'.series = <<>>
        /\ pending'.view = view
    BY <2>1, <2>2 DEF Matrices
  <2>5. MatrixSound(pending)'
    BY <2>1, <2>2, <2>3, <2>4 DEF MatrixSound
  <2>6. MatrixSound(memo)'
    BY <2>1 DEF MemoInv, MatrixSound
  <2> QED BY <2>1, <2>5, <2>6 DEF MemoInv
<1>3. CASE ReadSeries
  <2>1. MatrixSound(pending)'
    BY <1>3, ReadSeriesKeepsMatrix DEF MemoInv
  <2>2. UNCHANGED <<data, gen, holder, memo>>
    BY <1>3 DEF ReadSeries, cacheVars
  <2>3. MatrixSound(memo)'
    BY <2>2 DEF MemoInv, MatrixSound
  <2> QED BY <2>1, <2>2, <2>3 DEF MemoInv
<1>4. CASE Memoize
  <2>1. /\ memo' = pending /\ pending' = NoMatrix
        /\ Len(pending.series) = Len(pending.view.syms)
        /\ UNCHANGED <<data, gen, holder>>
    BY <1>4 DEF Memoize, cacheVars
  <2>2. MatrixSound(memo)' /\ MatrixSound(pending)'
    BY <2>1 DEF MemoInv, MatrixSound
  <2> QED BY <2>1, <2>2 DEF MemoInv
<1>5. [Next]_vars => UNCHANGED <<memo, pending>> \/ Recompute \/ ReadSeries \/ Memoize
  BY DEF Next, vars, tabVars, HubPush, WriterAdvances, Pool, CtxDone, Tab, Spawn,
         StopSpawning, BackfillReturns, FetchFails, FetchSeeds, ChangeView
<1> QED BY <1>1, <1>2, <1>3, <1>4, <1>5

LEMMA SpecMemoInv == Spec => [](CacheInv /\ MemoInv)
<1>1. Init => CacheInv /\ MemoInv
  BY CacheInvInit, MemoInvInit
<1>2. CacheInv /\ MemoInv /\ [Next]_vars => (CacheInv /\ MemoInv)'
  BY CacheInvNext, MemoInvNext
<1> QED BY <1>1, <1>2, PTL DEF Spec

(* matrixMemo, internal/tui/correlation/memo.go:18: a matrix the tab would  *)
(* reuse is the one it would compute now.  Quotes and backfills land while  *)
(* its series are read one by one; the generation read before the first is  *)
(* what makes such a matrix worthless at the next render.                   *)
THEOREM MemoIsNeverStale == Spec => []MemoNeverStale
<1>1. CacheInv /\ MemoInv => MemoNeverStale
  <2> SUFFICES ASSUME MemoInv, Current, holder = "none"
               PROVE  /\ memo.view = view
                      /\ memo.series = [i \in 1..Len(view.syms) |-> Series(data[view.syms[i]])]
    BY DEF MemoNeverStale
  <2> DEFINE s == memo.series
             n == Len(view.syms)
             f == [i \in 1..n |-> Series(data[view.syms[i]])]
  <2>1. memo.view = view /\ memo.gen = gen /\ memo # NoMatrix
    BY DEF Current, NoMatrix
  <2>2. /\ memo \in Matrices /\ Len(s) = n
        /\ \A i \in 1..Len(s) : s[i] = Series(data[view.syms[i]])
    BY <2>1 DEF MemoInv, MatrixSound
  <2>3. s \in Seq(Seq(Int))
    BY <2>2 DEF Matrices
  <2> HIDE DEF s, n
  <2>4. s = [i \in 1..Len(s) |-> s[i]]
    BY <2>3
  <2>5. s = f
    BY <2>2, <2>4
  <2> QED BY <2>1, <2>5 DEF s, n
<1> QED BY <1>1, SpecMemoInv, PTL

(***************************************************************************)
(* The backfill pool.                                                      *)
(***************************************************************************)
(* Whatever the loop has passed is seeded, failed or out; the loop stops    *)
(* short of the end only when the context is done, and the pool returns     *)
(* only when no slot is in use.                                             *)
BackfillInv ==
  /\ IsFiniteSet(Slots) /\ Cardinality(Slots) <= Concurrency
  /\ \A i \in 1..(upcoming - 1) : Subscribed[i] \in seeded \cup failed \cup fetching
  /\ backfill # "spawning" => upcoming = Len(Subscribed) + 1 \/ ctxDone
  /\ backfill = "returned" => Slots = {}

LEMMA FewerSlots ==
  ASSUME NEW S, NEW T, IsFiniteSet(S), Cardinality(S) <= Concurrency, T \subseteq S
  PROVE  IsFiniteSet(T) /\ Cardinality(T) <= Concurrency
<1>1. IsFiniteSet(T) /\ Cardinality(T) <= Cardinality(S)
  BY FS_Subset
<1>2. Cardinality(T) \in Nat /\ Cardinality(S) \in Nat /\ Concurrency \in Nat
  BY <1>1, FS_CardinalityType, DataPlaneAssumption DEF DataPlaneAssumption
<1> QED BY <1>1, <1>2

(* A step that gives no slot away and keeps what is passed. *)
LEMMA PoolKept ==
  ASSUME TypeOK, BackfillInv, Slots' \subseteq Slots,
         UNCHANGED <<backfill, upcoming>>, ctxDone => ctxDone',
         seeded \cup failed \cup fetching \subseteq seeded' \cup failed' \cup fetching'
  PROVE  BackfillInv'
<1>1. IsFiniteSet(Slots') /\ Cardinality(Slots') <= Concurrency
  BY FewerSlots DEF BackfillInv
<1>2. \A i \in 1..(upcoming - 1) : Subscribed[i] \in seeded' \cup failed' \cup fetching'
  BY DEF BackfillInv
<1>3. backfill' # "spawning" => upcoming' = Len(Subscribed) + 1 \/ ctxDone'
  BY DEF BackfillInv
<1>4. backfill' = "returned" => Slots' = {}
  BY DEF BackfillInv
<1>5. upcoming' = upcoming
  OBVIOUS
<1> HIDE DEF Slots
<1> QED BY <1>1, <1>2, <1>3, <1>4, <1>5 DEF BackfillInv

LEMMA BackfillInvInit ==
  ASSUME Init
  PROVE  BackfillInv
<1>1. Slots = {}
  BY CacheAssumption DEF Init, CacheInit, Slots, CacheAssumption
<1>2. IsFiniteSet({}) /\ Cardinality({}) = 0
  BY FS_EmptySet
<1>3. Concurrency \in Nat
  BY DataPlaneAssumption DEF DataPlaneAssumption
<1>4. IsFiniteSet(Slots) /\ Cardinality(Slots) <= Concurrency
  BY <1>1, <1>2, <1>3
<1>5. \A i \in 1..(upcoming - 1) : FALSE
  BY DEF Init
<1> QED BY <1>4, <1>5 DEF Init, BackfillInv

LEMMA SpawnKeepsPool ==
  ASSUME TypeOK, BackfillInv, Spawn
  PROVE  BackfillInv'
<1> DEFINE s == Subscribed[upcoming]
<1>1. /\ backfill = "spawning" /\ holder = "none" /\ upcoming <= Len(Subscribed)
      /\ s \notin seeded => Cardinality(Slots) < Concurrency
      /\ fetching' = fetching \cup ({s} \ seeded)
      /\ upcoming' = upcoming + 1
      /\ UNCHANGED <<holder, seeded, backfill, failed, ctxDone>>
  BY DEF Spawn, cacheVars
<1>2. /\ upcoming \in 1..(Len(Subscribed) + 1) /\ Len(Subscribed) \in Nat
      /\ Concurrency \in Nat
  BY DataPlaneAssumption, LenProperties DEF TypeOK, DataPlaneAssumption
<1>3. Slots' = Slots \cup ({s} \ seeded)
  BY <1>1 DEF Slots
<1>4. IsFiniteSet(Slots) /\ Cardinality(Slots) <= Concurrency /\ Cardinality(Slots) \in Nat
  BY FS_CardinalityType DEF BackfillInv
<1>5. IsFiniteSet(Slots') /\ Cardinality(Slots') <= Concurrency
  <2>1. CASE s \in seeded
    <3>1. Slots' = Slots
      BY <1>3, <2>1
    <3> QED BY <1>4, <3>1
  <2>2. CASE s \notin seeded
    <3>1. Slots' = Slots \cup {s}
      BY <1>3, <2>2
    <3>2. /\ IsFiniteSet(Slots \cup {s})
          /\ Cardinality(Slots \cup {s}) = IF s \in Slots THEN Cardinality(Slots)
                                           ELSE Cardinality(Slots) + 1
      BY <1>4, FS_AddElement
    <3>3. Cardinality(Slots) < Concurrency
      BY <1>1, <2>2
    <3> HIDE DEF Slots
    <3> QED BY <1>2, <1>4, <3>1, <3>2, <3>3
  <2> QED BY <2>1, <2>2
<1>6. ASSUME NEW i \in 1..(upcoming' - 1)
      PROVE  Subscribed[i] \in seeded' \cup failed' \cup fetching'
  <2>1. CASE i = upcoming
    BY <1>1, <2>1
  <2>2. CASE i # upcoming
    <3>1. i \in 1..(upcoming - 1)
      BY <1>1, <1>2, <2>2
    <3> QED BY <1>1, <3>1 DEF BackfillInv
  <2> QED BY <2>1, <2>2
<1> HIDE DEF Slots
<1> QED BY <1>1, <1>5, <1>6 DEF BackfillInv

LEMMA BackfillInvNext ==
  ASSUME TypeOK, BackfillInv, [Next]_vars
  PROVE  BackfillInv'
<1>0. "hub" \notin Symbols /\ "none" \notin Symbols
  BY CacheAssumption DEF CacheAssumption
<1>1. CASE HubPush \/ WriterAdvances
  <2>1. /\ UNCHANGED <<poolVars, seeded>>
        /\ holder' \notin Symbols
    BY <1>0, <1>1 DEF HubPush, WriterAdvances, Push, Advance
  <2>2. Slots' \subseteq Slots
    BY <2>1 DEF Slots, poolVars
  <2> QED BY <2>1, <2>2, PoolKept DEF poolVars
<1>2. CASE Spawn
  BY <1>2, SpawnKeepsPool
<1>3. CASE StopSpawning
  <2>1. /\ backfill' = "waiting" /\ UNCHANGED <<holder, seeded, upcoming, fetching, failed, ctxDone>>
        /\ upcoming > Len(Subscribed) \/ ctxDone
    BY <1>3 DEF StopSpawning, cacheVars
  <2>2. Slots' = Slots
    BY <2>1 DEF Slots
  <2>3. Len(Subscribed) \in Nat /\ upcoming \in 1..(Len(Subscribed) + 1)
    BY DataPlaneAssumption, LenProperties DEF TypeOK, DataPlaneAssumption
  <2>4. upcoming = Len(Subscribed) + 1 \/ ctxDone
    BY <2>1, <2>3
  <2> HIDE DEF Slots
  <2> QED BY <2>1, <2>2, <2>4 DEF BackfillInv
<1>4. CASE BackfillReturns
  <2>1. /\ backfill = "waiting" /\ backfill' = "returned" /\ Slots = {}
        /\ UNCHANGED <<holder, seeded, upcoming, fetching, failed, ctxDone>>
    BY <1>4 DEF BackfillReturns, cacheVars
  <2>2. Slots' = Slots
    BY <2>1 DEF Slots
  <2> HIDE DEF Slots
  <2> QED BY <2>1, <2>2 DEF BackfillInv
<1>5. ASSUME NEW s \in Symbols, FetchFails(s) PROVE BackfillInv'
  <2>1. /\ failed' = failed \cup {s} /\ fetching' = fetching \ {s}
        /\ UNCHANGED <<holder, seeded, backfill, upcoming, ctxDone>>
    BY <1>5 DEF FetchFails, cacheVars
  <2>2. Slots' \subseteq Slots
    BY <2>1 DEF Slots
  <2>3. seeded \cup failed \cup fetching \subseteq seeded' \cup failed' \cup fetching'
    BY <2>1
  <2> QED BY <2>1, <2>2, <2>3, PoolKept
<1>6. ASSUME NEW s \in Symbols, FetchSeeds(s) PROVE BackfillInv'
  <2>1. /\ s \in fetching /\ fetching' = fetching \ {s}
        /\ seeded' = seeded \cup {s} /\ holder = "none" /\ holder' \in {"none", s}
        /\ UNCHANGED <<failed, backfill, upcoming, ctxDone>>
    BY <1>6 DEF FetchSeeds, Seed
  <2>2. Slots' \subseteq Slots
    BY <1>0, <2>1 DEF Slots
  <2>3. seeded \cup failed \cup fetching \subseteq seeded' \cup failed' \cup fetching'
    BY <2>1
  <2> QED BY <2>1, <2>2, <2>3, PoolKept
<1>7. CASE CtxDone
  <2>1. ctxDone' /\ UNCHANGED <<holder, seeded, backfill, upcoming, fetching, failed>>
    BY <1>7 DEF CtxDone, cacheVars
  <2>2. Slots' \subseteq Slots
    BY <2>1 DEF Slots
  <2> QED BY <2>1, <2>2, PoolKept
<1>8. CASE Tab \/ UNCHANGED vars
  <2>1. UNCHANGED <<holder, seeded, backfill, upcoming, fetching, failed, ctxDone>>
    BY <1>8 DEF Tab, ChangeView, Recompute, ReadSeries, Memoize, cacheVars, poolVars, vars
  <2>2. Slots' \subseteq Slots
    BY <2>1 DEF Slots
  <2> QED BY <2>1, <2>2, PoolKept
<1> QED BY <1>1, <1>2, <1>3, <1>4, <1>5, <1>6, <1>7, <1>8 DEF Next, Pool

(* seedCache, cmd/dataplane_seed.go: never more than seedConcurrency        *)
(* requests are out, however requests fail, finish or meet a writer, and an *)
(* unhurried backfill passes over no subscribed symbol.                     *)
THEOREM BackfillAlwaysComplete == Spec => []BackfillComplete
<1>1. Init => CacheInv /\ BackfillInv
  BY CacheInvInit, BackfillInvInit
<1>2. CacheInv /\ BackfillInv /\ [Next]_vars => (CacheInv /\ BackfillInv)'
  BY CacheInvNext, BackfillInvNext DEF CacheInv
<1>3. CacheInv /\ BackfillInv => BackfillComplete
  <2> SUFFICES ASSUME CacheInv, BackfillInv
               PROVE  BackfillComplete
    OBVIOUS
  <2>1. Cardinality(Slots) <= Concurrency
    BY DEF BackfillInv
  <2>2. ASSUME backfill = "returned", ~ctxDone, NEW x \in ToSet(Subscribed)
        PROVE  x \in seeded \cup failed
    <3>1. Len(Subscribed) \in Nat
      BY DataPlaneAssumption, LenProperties DEF DataPlaneAssumption
    <3>2. PICK i \in 1..Len(Subscribed) : Subscribed[i] = x
      BY <2>2 DEF ToSet
    <3>3. upcoming = Len(Subscribed) + 1 /\ Slots = {}
      BY <2>2 DEF BackfillInv
    <3>4. i \in 1..(upcoming - 1)
      BY <3>1, <3>2, <3>3
    <3>5. x \in seeded \cup failed \cup fetching
      BY <3>2, <3>4 DEF BackfillInv
    <3> QED BY <3>3, <3>5 DEF Slots
  <2> QED BY <2>1, <2>2 DEF BackfillComplete
<1> QED BY <1>1, <1>2, <1>3, PTL DEF Spec

-----------------------------------------------------------------------------
(***************************************************************************)
(* The recording: what a queue of quotes holds as it moves.                *)
(***************************************************************************)
FeedQuotes == [from : Providers, n : Nat \ {0}]

LEMMA ToSetOfAppend ==
  ASSUME NEW S, NEW s \in Seq(S), NEW x \in S
  PROVE  ToSet(Append(s, x)) = ToSet(s) \cup {x}
<1> DEFINE t == Append(s, x)
<1>1. /\ t \in Seq(S) /\ Len(t) = Len(s) + 1 /\ Len(s) \in Nat
      /\ \A i \in 1..Len(s) : t[i] = s[i]
      /\ t[Len(s) + 1] = x
  BY AppendProperties, LenProperties
<1> HIDE DEF t
<1>2. ToSet(t) = {t[i] : i \in 1..(Len(s) + 1)} /\ ToSet(s) = {s[i] : i \in 1..Len(s)}
  BY <1>1, LenProperties DEF ToSet
<1>3. 1..(Len(s) + 1) = (1..Len(s)) \cup {Len(s) + 1}
  BY <1>1
<1>4. ToSet(t) = ToSet(s) \cup {x}
  BY <1>1, <1>2, <1>3
<1> QED BY <1>4 DEF t

LEMMA ToSetOfTail ==
  ASSUME NEW S, NEW s \in Seq(S), s # <<>>
  PROVE  ToSet(Tail(s)) \subseteq ToSet(s) /\ Head(s) \in ToSet(s)
<1>1. /\ Tail(s) \in Seq(S) /\ Len(Tail(s)) = Len(s) - 1
      /\ \A i \in 1..Len(Tail(s)) : Tail(s)[i] = s[i + 1]
      /\ Len(s) \in Nat /\ Len(s) > 0
  BY HeadTailProperties, EmptySeq
<1>2. ToSet(Tail(s)) = {Tail(s)[i] : i \in 1..Len(Tail(s))} /\ ToSet(s) = {s[i] : i \in 1..Len(s)}
  BY <1>1, LenProperties DEF ToSet
<1>3. Head(s) = s[1]
  OBVIOUS
<1>4. ASSUME NEW i \in 1..Len(Tail(s)) PROVE Tail(s)[i] \in ToSet(s)
  <2>1. i + 1 \in 1..Len(s) /\ Tail(s)[i] = s[i + 1]
    BY <1>1
  <2> QED BY <1>2, <2>1
<1>5. s[1] \in ToSet(s)
  BY <1>1, <1>2
<1> QED BY <1>2, <1>3, <1>4, <1>5

RecordingTypes ==
  /\ recorded \in BOOLEAN /\ cancelled \in BOOLEAN /\ sinkOpen \in BOOLEAN
  /\ returned \subseteq Providers /\ copying \subseteq Providers
  /\ sent \in [Providers -> Nat]
  /\ tee \in [Providers -> Seq(FeedQuotes)]
  /\ hand \in [Providers -> FeedQuotes \cup {NoQuote}]
  /\ file \in Seq(FeedQuotes) /\ unwritten \subseteq FeedQuotes
  /\ out \in Seq(FeedQuotes) /\ delivered \in Seq(FeedQuotes)
  /\ Len(out) <= OutDepth /\ \A p \in Providers : Len(tee[p]) <= TeeDepth

Captured == ToSet(file) \cup unwritten

(* The capture is ahead of whatever its copiers have passed on ...         *)
CaptureCovers ==
  /\ ToSet(delivered) \subseteq Captured /\ ToSet(out) \subseteq Captured
  /\ \A p \in Providers : hand[p] # NoQuote => hand[p] \in Captured

(* ... and behind what still waits for them, which is all of one provider  *)
(* and in its order.                                                       *)
FileAscends ==
  \A i \in 1..Len(file) :
    /\ file[i].n <= sent[file[i].from]
    /\ \A j \in (i + 1)..Len(file) : file[i].from = file[j].from => file[i].n < file[j].n
TeeAscends ==
  \A p \in Providers : \A i \in 1..Len(tee[p]) :
    /\ tee[p][i].from = p /\ tee[p][i].n <= sent[p]
    /\ \A j \in (i + 1)..Len(tee[p]) : tee[p][i].n < tee[p][j].n
    /\ \A k \in 1..Len(file) : file[k].from = p => file[k].n < tee[p][i].n

RecordingInv ==
  RecordingTypes /\ (recorded => CaptureCovers /\ FileAscends /\ TeeAscends)

LEMMA CaptureFromInvariant ==
  RecordingInv => CaptureLeadsDelivery
<1> SUFFICES ASSUME RecordingInv, recorded
             PROVE  CaptureLeadsDelivery
  BY DEF CaptureLeadsDelivery
<1>1. ToSet(delivered) \cup ToSet(out) \subseteq ToSet(file) \cup unwritten
  BY DEF RecordingInv, CaptureCovers, Captured
<1>2. ASSUME NEW i \in 1..Len(file)
      PROVE  /\ file[i].from \in Providers
             /\ file[i].n \in 1..sent[file[i].from]
             /\ \A j \in (i + 1)..Len(file) : file[i].from = file[j].from => file[i].n < file[j].n
  <2>1. file[i] \in FeedQuotes /\ sent \in [Providers -> Nat]
    BY ElementOfSeq DEF RecordingInv, RecordingTypes
  <2>2. file[i].from \in Providers /\ file[i].n \in Nat \ {0} /\ sent[file[i].from] \in Nat
    BY <2>1 DEF FeedQuotes
  <2> QED BY <2>2 DEF RecordingInv, FileAscends
<1> QED BY <1>1, <1>2 DEF CaptureLeadsDelivery

(* The n-th quote of a provider, sent to its copier or to the hub.         *)
LEMMA SendKeepsRecording ==
  ASSUME RecordingInv, NEW p \in Providers, Send(p)
  PROVE  RecordingInv'
<1> DEFINE q == [from |-> p, n |-> sent[p] + 1]
<1>1. /\ RecordingTypes /\ CanSend(p)
      /\ sent' = [sent EXCEPT ![p] = @ + 1]
      /\ IF recorded THEN tee' = [tee EXCEPT ![p] = Append(@, q)] /\ UNCHANGED out
         ELSE out' = Append(out, q) /\ UNCHANGED tee
      /\ UNCHANGED <<recorded, cancelled, returned, hand, copying, sinkOpen, file, unwritten, delivered>>
  BY DEF RecordingInv, Send, copierVars
<1>2. q \in FeedQuotes /\ sent[p] \in Nat
  BY <1>1 DEF RecordingTypes, FeedQuotes
<1>3. sent' \in [Providers -> Nat] /\ \A r \in Providers : sent[r] <= sent'[r]
  BY <1>1 DEF RecordingTypes
<1>4. /\ Append(tee[p], q) \in Seq(FeedQuotes) /\ Len(Append(tee[p], q)) = Len(tee[p]) + 1
      /\ \A i \in 1..Len(tee[p]) : Append(tee[p], q)[i] = tee[p][i]
      /\ Append(tee[p], q)[Len(tee[p]) + 1] = q /\ Len(tee[p]) \in Nat
      /\ Append(out, q) \in Seq(FeedQuotes) /\ Len(Append(out, q)) = Len(out) + 1 /\ Len(out) \in Nat
  <2>1. tee[p] \in Seq(FeedQuotes) /\ out \in Seq(FeedQuotes)
    BY <1>1 DEF RecordingTypes
  <2> QED BY <1>2, <2>1, AppendProperties, LenProperties
<1>5. RecordingTypes'
  <2>1. CASE recorded
    <3>1. tee' \in [Providers -> Seq(FeedQuotes)] /\ out' = out
      BY <1>1, <1>4, <2>1 DEF RecordingTypes
    <3>2. \A r \in Providers : Len(tee'[r]) <= TeeDepth
      <4>1. Len(tee[p]) < TeeDepth /\ TeeDepth \in Nat
        BY <1>1, <2>1, RecordingAssumption DEF CanSend
      <4>2. \A r \in Providers : tee'[r] = IF r = p THEN Append(tee[p], q) ELSE tee[r]
        BY <1>1, <2>1 DEF RecordingTypes
      <4>3. \A r \in Providers : Len(tee[r]) <= TeeDepth
        BY <1>1 DEF RecordingTypes
      <4>4. Len(Append(tee[p], q)) <= TeeDepth
        BY <1>4, <4>1
      <4> QED BY <4>2, <4>3, <4>4
    <3> QED BY <1>1, <1>3, <3>1, <3>2 DEF RecordingTypes
  <2>2. CASE ~recorded
    <3>1. out' \in Seq(FeedQuotes) /\ Len(out') <= OutDepth /\ tee' = tee
      BY <1>1, <1>4, <2>2, RecordingAssumption DEF CanSend
    <3> QED BY <1>1, <1>3, <3>1 DEF RecordingTypes
  <2> QED BY <2>1, <2>2
<1>6. ASSUME recorded' PROVE CaptureCovers' /\ FileAscends' /\ TeeAscends'
  <2>1. recorded /\ CaptureCovers /\ FileAscends /\ TeeAscends
    BY <1>1, <1>6 DEF RecordingInv
  <2>2. CaptureCovers'
    BY <1>1, <2>1 DEF CaptureCovers, Captured
  <2>3. \A i \in 1..Len(file) : file[i].from \in Providers /\ file[i].n \in Nat
    <3>1. \A i \in 1..Len(file) : file[i] \in FeedQuotes
      BY <1>1, ElementOfSeq DEF RecordingTypes
    <3> QED BY <3>1 DEF FeedQuotes
  <2>4. FileAscends'
    <3>1. \A i \in 1..Len(file) : file[i].n <= sent'[file[i].from]
      BY <1>1, <1>3, <2>1, <2>3 DEF FileAscends, RecordingTypes
    <3> QED BY <1>1, <2>1, <3>1 DEF FileAscends
  <2>5. ASSUME NEW r \in Providers, NEW i \in 1..Len(tee'[r])
        PROVE  /\ tee'[r][i].from = r /\ tee'[r][i].n <= sent'[r]
               /\ \A j \in (i + 1)..Len(tee'[r]) : tee'[r][i].n < tee'[r][j].n
               /\ \A k \in 1..Len(file) : file[k].from = r => file[k].n < tee'[r][i].n
    <3>1. CASE r # p
      <4>1. tee'[r] = tee[r] /\ sent'[r] = sent[r]
        BY <1>1, <2>1, <3>1 DEF RecordingTypes
      <4> QED BY <2>1, <4>1 DEF TeeAscends
    <3>2. CASE r = p
      <4> DEFINE t == Append(tee[p], q)
      <4>1. tee'[r] = t /\ sent'[r] = sent[p] + 1 /\ q.n = sent[p] + 1 /\ q.from = p
        BY <1>1, <2>1, <3>2 DEF RecordingTypes
      <4>2. \A j \in 1..Len(tee[p]) : tee[p][j].n \in Nat
        <5>1. tee[p] \in Seq(FeedQuotes)
          BY <1>1 DEF RecordingTypes
        <5>2. \A j \in 1..Len(tee[p]) : tee[p][j] \in FeedQuotes
          BY <5>1, ElementOfSeq
        <5> QED BY <5>2 DEF FeedQuotes
      <4> HIDE DEF q, t
      <4>3. /\ Len(t) = Len(tee[p]) + 1 /\ Len(tee[p]) \in Nat
            /\ \A j \in 1..Len(tee[p]) : t[j] = tee[p][j]
            /\ t[Len(tee[p]) + 1] = q
        BY <1>4 DEF t
      <4>4. CASE i \in 1..Len(tee[p])
        <5>1. /\ tee[p][i].from = p /\ tee[p][i].n <= sent[p]
              /\ \A j \in (i + 1)..Len(tee[p]) : tee[p][i].n < tee[p][j].n
              /\ \A k \in 1..Len(file) : file[k].from = p => file[k].n < tee[p][i].n
          BY <2>1, <4>4 DEF TeeAscends
        <5>2. t[i] = tee[p][i]
          BY <4>3, <4>4
        <5>3. ASSUME NEW j \in (i + 1)..Len(t) PROVE t[i].n < t[j].n
          <6>1. j \in (i + 1)..Len(tee[p]) \/ j = Len(tee[p]) + 1
            BY <4>3, <5>3
          <6>2. CASE j \in (i + 1)..Len(tee[p])
            <7>1. j \in 1..Len(tee[p])
              BY <4>4, <6>2
            <7> QED BY <4>3, <5>1, <5>2, <6>2, <7>1
          <6>3. CASE j = Len(tee[p]) + 1
            BY <1>2, <4>1, <4>2, <4>3, <4>4, <5>1, <5>2, <6>3
          <6> QED BY <6>1, <6>2, <6>3
        <5>4. t[i].n <= sent[p] + 1
          BY <1>2, <4>2, <4>4, <5>1, <5>2
        <5> QED BY <3>2, <4>1, <5>1, <5>2, <5>3, <5>4
      <4>5. CASE i = Len(tee[p]) + 1
        <5>1. t[i] = q /\ ~(\E j \in (i + 1)..Len(t) : TRUE)
          BY <4>3, <4>5
        <5>2. ASSUME NEW k \in 1..Len(file), file[k].from = p
              PROVE  file[k].n < q.n
          <6>1. file[k].n <= sent[p]
            BY <2>1, <5>2 DEF FileAscends
          <6> QED BY <1>2, <2>3, <4>1, <6>1
        <5> QED BY <1>2, <3>2, <4>1, <5>1, <5>2
      <4>6. i \in 1..Len(tee[p]) \/ i = Len(tee[p]) + 1
        BY <4>1, <4>3
      <4> QED BY <4>4, <4>5, <4>6
    <3> QED BY <3>1, <3>2
  <2>6. TeeAscends'
    BY <1>1, <2>5 DEF TeeAscends
  <2> QED BY <2>2, <2>4, <2>6
<1> QED BY <1>5, <1>6 DEF RecordingInv

(* The copier writes a quote to the capture, or fails to, and has it in    *)
(* hand.                                                                   *)
LEMMA CopyKeepsRecording ==
  ASSUME RecordingInv, NEW p \in Providers, Copy(p)
  PROVE  RecordingInv'
<1> DEFINE q == Head(tee[p])
           t == Tail(tee[p])
<1>1. /\ RecordingTypes /\ tee[p] # <<>>
      /\ hand' = [hand EXCEPT ![p] = q]
      /\ tee' = [tee EXCEPT ![p] = t]
      /\ \/ file' = Append(file, q) /\ unwritten' = unwritten
         \/ unwritten' = unwritten \cup {q} /\ file' = file
      /\ UNCHANGED <<recorded, cancelled, returned, sent, copying, sinkOpen, out, delivered>>
  BY DEF RecordingInv, Copy
<1>2. tee[p] \in Seq(FeedQuotes) /\ file \in Seq(FeedQuotes)
  BY <1>1 DEF RecordingTypes
<1>3. /\ q \in FeedQuotes /\ t \in Seq(FeedQuotes) /\ Len(t) = Len(tee[p]) - 1
      /\ \A i \in 1..Len(t) : t[i] = tee[p][i + 1]
      /\ q = tee[p][1] /\ Len(tee[p]) \in Nat /\ Len(tee[p]) > 0
  BY <1>1, <1>2, HeadTailProperties, EmptySeq
<1> HIDE DEF q, t
<1>4. /\ Append(file, q) \in Seq(FeedQuotes) /\ Len(Append(file, q)) = Len(file) + 1
      /\ \A i \in 1..Len(file) : Append(file, q)[i] = file[i]
      /\ Append(file, q)[Len(file) + 1] = q /\ Len(file) \in Nat
      /\ ToSet(Append(file, q)) = ToSet(file) \cup {q}
  BY <1>2, <1>3, AppendProperties, LenProperties, ToSetOfAppend
<1>5. \A r \in Providers : tee'[r] = IF r = p THEN t ELSE tee[r]
  BY <1>1 DEF RecordingTypes
<1>6. RecordingTypes'
  <2>1. tee' \in [Providers -> Seq(FeedQuotes)] /\ hand' \in [Providers -> FeedQuotes \cup {NoQuote}]
    BY <1>1, <1>3 DEF RecordingTypes
  <2>2. file' \in Seq(FeedQuotes) /\ unwritten' \subseteq FeedQuotes
    BY <1>1, <1>3, <1>4 DEF RecordingTypes
  <2>3. \A r \in Providers : Len(tee'[r]) <= TeeDepth
    <3>1. \A r \in Providers : Len(tee[r]) <= TeeDepth
      BY <1>1 DEF RecordingTypes
    <3>2. Len(t) <= TeeDepth
      BY <1>3, <3>1, RecordingAssumption
    <3> QED BY <1>5, <3>1, <3>2
  <2> QED BY <1>1, <2>1, <2>2, <2>3 DEF RecordingTypes
<1>7. ASSUME recorded' PROVE CaptureCovers' /\ FileAscends' /\ TeeAscends'
  <2>1. recorded /\ CaptureCovers /\ FileAscends /\ TeeAscends
    BY <1>1, <1>7 DEF RecordingInv
  <2>2. Captured \subseteq Captured' /\ q \in Captured'
    BY <1>1, <1>4 DEF Captured
  <2>3. CaptureCovers'
    <3>1. \A r \in Providers : hand'[r] # NoQuote => hand'[r] \in Captured'
      BY <1>1, <2>1, <2>2 DEF RecordingTypes, CaptureCovers
    <3> QED BY <1>1, <2>1, <2>2, <3>1 DEF CaptureCovers
  <2>4. \A i \in 1..Len(file) : file[i] \in FeedQuotes
    BY <1>2, ElementOfSeq
  <2>5. /\ \A i \in 1..Len(tee[p]) : tee[p][i] \in FeedQuotes
        /\ \A r \in Providers : \A i \in 1..Len(tee[r]) : tee[r][i].n \in Nat
    <3>1. \A r \in Providers : \A i \in 1..Len(tee[r]) : tee[r][i] \in FeedQuotes
      BY <1>1, ElementOfSeq DEF RecordingTypes
    <3> QED BY <3>1 DEF FeedQuotes
  <2>6. /\ q.from = p /\ q.n <= sent[p]
        /\ \A j \in 1..Len(t) : q.n < t[j].n
        /\ \A k \in 1..Len(file) : file[k].from = p => file[k].n < q.n
    <3>1. 1 \in 1..Len(tee[p])
      BY <1>3
    <3>2. ASSUME NEW j \in 1..Len(t) PROVE q.n < t[j].n
      <4>1. j + 1 \in (1 + 1)..Len(tee[p]) /\ t[j] = tee[p][j + 1]
        BY <1>3
      <4> QED BY <1>3, <2>1, <3>1, <4>1 DEF TeeAscends
    <3> QED BY <1>3, <2>1, <3>1, <3>2 DEF TeeAscends
  <2>7. FileAscends'
    <3>1. CASE file' = file
      BY <1>1, <2>1, <3>1 DEF FileAscends
    <3>2. CASE file' = Append(file, q)
      <4> DEFINE f == Append(file, q)
      <4>1. /\ Len(f) = Len(file) + 1 /\ Len(file) \in Nat
            /\ \A i \in 1..Len(file) : f[i] = file[i]
            /\ f[Len(file) + 1] = q
        BY <1>4
      <4> HIDE DEF f
      <4>2. ASSUME NEW i \in 1..Len(f)
            PROVE  /\ f[i].n <= sent[f[i].from]
                   /\ \A j \in (i + 1)..Len(f) : f[i].from = f[j].from => f[i].n < f[j].n
        <5>1. CASE i \in 1..Len(file)
          <6>1. ASSUME NEW j \in (i + 1)..Len(f), f[i].from = f[j].from PROVE f[i].n < f[j].n
            <7>1. CASE j \in (i + 1)..Len(file)
              <8>1. j \in 1..Len(file)
                BY <5>1, <7>1
              <8> QED BY <2>1, <4>1, <5>1, <6>1, <7>1, <8>1 DEF FileAscends
            <7>2. CASE j = Len(file) + 1
              BY <2>6, <4>1, <5>1, <6>1, <7>2
            <7> QED BY <4>1, <5>1, <7>1, <7>2
          <6> QED BY <2>1, <4>1, <5>1, <6>1 DEF FileAscends
        <5>2. CASE i = Len(file) + 1
          <6>1. ~(\E j \in (i + 1)..Len(f) : TRUE)
            BY <4>1, <5>2
          <6> QED BY <2>6, <4>1, <5>2, <6>1
        <5> QED BY <4>1, <5>1, <5>2
      <4> QED BY <1>1, <3>2, <4>2 DEF FileAscends, f
    <3> QED BY <1>1, <3>1, <3>2
  <2>8. ASSUME NEW r \in Providers, NEW i \in 1..Len(tee'[r])
        PROVE  /\ tee'[r][i].from = r /\ tee'[r][i].n <= sent[r]
               /\ \A j \in (i + 1)..Len(tee'[r]) : tee'[r][i].n < tee'[r][j].n
               /\ \A k \in 1..Len(file') : file'[k].from = r => file'[k].n < tee'[r][i].n
    <3>1. /\ tee'[r][i].from = r /\ tee'[r][i].n <= sent[r]
          /\ \A j \in (i + 1)..Len(tee'[r]) : tee'[r][i].n < tee'[r][j].n
          /\ \A k \in 1..Len(file) : file[k].from = r => file[k].n < tee'[r][i].n
      <4>1. CASE r # p
        <5>1. tee'[r] = tee[r]
          BY <1>5, <4>1
        <5> QED BY <2>1, <5>1 DEF TeeAscends
      <4>2. CASE r = p
        <5>1. /\ tee'[r] = t /\ i \in 1..Len(t) /\ i + 1 \in 1..Len(tee[p])
              /\ t[i] = tee[p][i + 1]
          BY <1>3, <1>5, <4>2
        <5>2. ASSUME NEW j \in (i + 1)..Len(t) PROVE t[i].n < t[j].n
          <6>1. j \in 1..Len(t) /\ j + 1 \in ((i + 1) + 1)..Len(tee[p]) /\ t[j] = tee[p][j + 1]
            BY <1>3, <5>1
          <6> QED BY <2>1, <5>1, <6>1 DEF TeeAscends
        <5> QED BY <2>1, <4>2, <5>1, <5>2 DEF TeeAscends
      <4> QED BY <4>1, <4>2
    <3>2. ASSUME NEW k \in 1..Len(file'), file'[k].from = r
          PROVE  file'[k].n < tee'[r][i].n
      <4>1. CASE k \in 1..Len(file) /\ file'[k] = file[k]
        BY <3>1, <3>2, <4>1
      <4>2. CASE file'[k] = q
        <5>1. r = p /\ tee'[r] = t
          BY <1>5, <2>6, <3>2, <4>2
        <5> QED BY <2>6, <4>2, <5>1
      <4>3. (k \in 1..Len(file) /\ file'[k] = file[k]) \/ file'[k] = q
        <5>1. CASE file' = file
          BY <5>1
        <5>2. CASE file' = Append(file, q)
          <6>1. k \in 1..Len(file) \/ k = Len(file) + 1
            BY <1>4, <5>2
          <6> QED BY <1>4, <5>2, <6>1
        <5> QED BY <1>1, <5>1, <5>2
      <4> QED BY <4>1, <4>2, <4>3
    <3> QED BY <3>1, <3>2
  <2>9. TeeAscends'
    BY <1>1, <2>8 DEF TeeAscends
  <2> QED BY <2>3, <2>7, <2>9
<1> QED BY <1>6, <1>7 DEF RecordingInv

LEMMA ForwardKeepsRecording ==
  ASSUME RecordingInv, NEW p \in Providers, Forward(p)
  PROVE  RecordingInv'
<1>1. /\ RecordingTypes /\ hand[p] # NoQuote /\ Len(out) < OutDepth
      /\ out' = Append(out, hand[p])
      /\ hand' = [hand EXCEPT ![p] = NoQuote]
      /\ UNCHANGED <<recorded, cancelled, returned, sent, tee, copying, sinkOpen, file, unwritten,
                     delivered>>
  BY DEF RecordingInv, Forward
<1>2. out \in Seq(FeedQuotes) /\ hand[p] \in FeedQuotes
  BY <1>1 DEF RecordingTypes
<1>3. /\ out' \in Seq(FeedQuotes) /\ Len(out') = Len(out) + 1 /\ Len(out) \in Nat
      /\ ToSet(out') = ToSet(out) \cup {hand[p]}
  BY <1>1, <1>2, AppendProperties, LenProperties, ToSetOfAppend
<1>4. Len(out') <= OutDepth
  BY <1>1, <1>3, RecordingAssumption
<1>5. hand' \in [Providers -> FeedQuotes \cup {NoQuote}]
  BY <1>1 DEF RecordingTypes
<1>6. RecordingTypes'
  BY <1>1, <1>3, <1>4, <1>5 DEF RecordingTypes
<1>7. ASSUME recorded' PROVE CaptureCovers' /\ FileAscends' /\ TeeAscends'
  <2>1. recorded /\ CaptureCovers /\ FileAscends /\ TeeAscends
    BY <1>1, <1>7 DEF RecordingInv
  <2>2. Captured' = Captured /\ hand[p] \in Captured
    BY <1>1, <2>1 DEF CaptureCovers, Captured
  <2>3. \A r \in Providers : hand'[r] # NoQuote => hand'[r] \in Captured
    BY <1>1, <2>1 DEF RecordingTypes, CaptureCovers
  <2>4. CaptureCovers'
    BY <1>1, <1>3, <2>1, <2>2, <2>3 DEF CaptureCovers
  <2> QED BY <1>1, <2>1, <2>4 DEF FileAscends, TeeAscends
<1> QED BY <1>6, <1>7 DEF RecordingInv

LEMMA CopierEndsKeepsRecording ==
  ASSUME RecordingInv, NEW p \in Providers, CopierEnds(p)
  PROVE  RecordingInv'
<1>1. /\ RecordingTypes
      /\ copying' = copying \ {p}
      /\ hand' = [hand EXCEPT ![p] = NoQuote]
      /\ UNCHANGED <<recorded, cancelled, returned, sent, tee, sinkOpen, file, unwritten, out, delivered>>
  BY DEF RecordingInv, CopierEnds
<1>2. RecordingTypes'
  <2>1. hand' \in [Providers -> FeedQuotes \cup {NoQuote}] /\ copying' \subseteq Providers
    BY <1>1 DEF RecordingTypes
  <2> QED BY <1>1, <2>1 DEF RecordingTypes
<1>3. ASSUME recorded' PROVE CaptureCovers' /\ FileAscends' /\ TeeAscends'
  <2>1. recorded /\ CaptureCovers /\ FileAscends /\ TeeAscends
    BY <1>1, <1>3 DEF RecordingInv
  <2>2. \A r \in Providers : hand'[r] # NoQuote => hand'[r] \in Captured
    BY <1>1, <2>1 DEF RecordingTypes, CaptureCovers
  <2> QED BY <1>1, <2>1, <2>2 DEF CaptureCovers, Captured, FileAscends, TeeAscends
<1> QED BY <1>2, <1>3 DEF RecordingInv

LEMMA HubTakesKeepsRecording ==
  ASSUME RecordingInv, HubTakes
  PROVE  RecordingInv'
<1>1. /\ RecordingTypes /\ out # <<>>
      /\ delivered' = Append(delivered, Head(out))
      /\ out' = Tail(out)
      /\ UNCHANGED <<recorded, cancelled, returned, sent, tee, hand, copying, sinkOpen, file, unwritten>>
  BY DEF RecordingInv, HubTakes, copierVars
<1>2. out \in Seq(FeedQuotes) /\ delivered \in Seq(FeedQuotes) /\ Len(out) <= OutDepth
  BY <1>1 DEF RecordingTypes
<1>3. /\ out' \in Seq(FeedQuotes) /\ Len(out') = Len(out) - 1 /\ Len(out) \in Nat
      /\ Head(out) \in FeedQuotes
      /\ ToSet(out') \subseteq ToSet(out) /\ Head(out) \in ToSet(out)
  BY <1>1, <1>2, HeadTailProperties, LenProperties, ToSetOfTail
<1>4. delivered' \in Seq(FeedQuotes) /\ ToSet(delivered') = ToSet(delivered) \cup {Head(out)}
  BY <1>1, <1>2, <1>3, AppendProperties, ToSetOfAppend
<1>5. Len(out') <= OutDepth
  BY <1>2, <1>3, RecordingAssumption
<1>6. RecordingTypes'
  BY <1>1, <1>3, <1>4, <1>5 DEF RecordingTypes
<1>7. ASSUME recorded' PROVE CaptureCovers' /\ FileAscends' /\ TeeAscends'
  <2>1. recorded /\ CaptureCovers /\ FileAscends /\ TeeAscends
    BY <1>1, <1>7 DEF RecordingInv
  <2>2. CaptureCovers'
    BY <1>1, <1>3, <1>4, <2>1 DEF CaptureCovers, Captured
  <2> QED BY <1>1, <2>1, <2>2 DEF FileAscends, TeeAscends
<1> QED BY <1>6, <1>7 DEF RecordingInv

(* What else happens at the recording moves no quote.                      *)
LEMMA OtherwiseRecordingKept ==
  ASSUME RecordingInv,
         cancelled' \in BOOLEAN, sinkOpen' \in BOOLEAN, returned' \subseteq Providers,
         UNCHANGED <<recorded, sent, tee, hand, copying, file, unwritten, out, delivered>>
  PROVE  RecordingInv'
<1>1. RecordingTypes'
  BY DEF RecordingInv, RecordingTypes
<1>2. recorded => CaptureCovers' /\ FileAscends' /\ TeeAscends'
  BY DEF RecordingInv, CaptureCovers, Captured, FileAscends, TeeAscends
<1> QED BY <1>1, <1>2 DEF RecordingInv

(***************************************************************************)
(* The back-off of the Coinbase streams.                                   *)
(***************************************************************************)
(* Doubling adds one to the exponent: a set with one more element has      *)
(* twice as many subsets.                                                  *)
LEMMA PowerDoubles ==
  ASSUME NEW n \in Nat
  PROVE  2 ^ n \in Nat \ {0} /\ 2 ^ (n + 1) = 2 * 2 ^ n
<1> DEFINE S == 1..n
           T == 1..(n + 1)
           A == SUBSET S
           B == {x \cup {n + 1} : x \in A}
           f == [x \in A |-> x \cup {n + 1}]
<1>1. /\ IsFiniteSet(S) /\ Cardinality(S) = n
      /\ IsFiniteSet(T) /\ Cardinality(T) = n + 1
  <2>1. Cardinality(S) = IF 1 > n THEN 0 ELSE n - 1 + 1
    BY FS_Interval
  <2>2. Cardinality(T) = IF 1 > n + 1 THEN 0 ELSE n + 1 - 1 + 1
    BY FS_Interval
  <2>3. IsFiniteSet(S) /\ IsFiniteSet(T)
    BY FS_Interval
  <2> HIDE DEF S, T
  <2> QED BY <2>1, <2>2, <2>3
<1>2. n + 1 \notin S /\ T = S \cup {n + 1}
  OBVIOUS
<1> HIDE DEF S, T
<1>3. /\ IsFiniteSet(A) /\ Cardinality(A) = 2 ^ n
      /\ IsFiniteSet(SUBSET T) /\ Cardinality(SUBSET T) = 2 ^ (n + 1)
  BY <1>1, FS_SUBSET
<1>4. f \in Bijection(A, B)
  <2>1. f \in [A -> B]
    OBVIOUS
  <2>2. ASSUME NEW x \in A, NEW y \in A, f[x] = f[y] PROVE x = y
    BY <1>2, <2>2
  <2>3. \A y \in B : \E x \in A : f[x] = y
    OBVIOUS
  <2> QED BY <2>1, <2>2, <2>3 DEF Bijection, Injection, Surjection, IsInjective
<1>5. IsFiniteSet(B) /\ Cardinality(B) = Cardinality(A)
  <2>1. ExistsBijection(A, B)
    BY <1>4 DEF ExistsBijection
  <2> QED BY <1>3, <2>1, FS_Bijection
<1>6. SUBSET T = A \cup B
  <2>1. ASSUME NEW x \in SUBSET T PROVE x \in A \cup B
    <3>1. CASE n + 1 \in x
      <4>1. x \ {n + 1} \in A /\ x = (x \ {n + 1}) \cup {n + 1}
        BY <1>2, <3>1
      <4> QED BY <4>1
    <3>2. CASE n + 1 \notin x
      BY <1>2, <3>2
    <3> QED BY <3>1, <3>2
  <2>2. ASSUME NEW x \in A \cup B PROVE x \in SUBSET T
    BY <1>2
  <2> QED BY <2>1, <2>2
<1>7. A \cap B = {}
  BY <1>2
<1> HIDE DEF A, B, f
<1>8. Cardinality(A \cup B) = Cardinality(A) + Cardinality(B) - Cardinality(A \cap B)
  BY <1>3, <1>5, FS_Union
<1>9. Cardinality(A \cap B) = 0 /\ Cardinality(A) \in Nat
  BY <1>3, <1>7, FS_EmptySet, FS_CardinalityType
<1>10. 2 ^ (n + 1) = 2 * 2 ^ n /\ 2 ^ n \in Nat
  <2> DEFINE a == 2 ^ n
             b == 2 ^ (n + 1)
  <2>1. b = a + a - 0 /\ a \in Nat
    BY <1>3, <1>5, <1>6, <1>8, <1>9
  <2> HIDE DEF a, b
  <2>2. b = 2 * a
    BY <2>1
  <2> QED BY <2>1, <2>2 DEF a, b
<1>11. 2 ^ n # 0
  <2>1. {} \in A
    BY DEF A
  <2> QED BY <1>3, <2>1, FS_EmptySet
<1> QED BY <1>10, <1>11

LEMMA MinOfTwo ==
  ASSUME NEW a \in Int, NEW b \in Int
  PROVE  Min({a, b}) = IF a <= b THEN a ELSE b
BY DEF Min

LEMMA MaxOfTwo ==
  ASSUME NEW a \in Int, NEW b \in Int
  PROVE  Max({a, b}) = IF a >= b THEN a ELSE b
BY DEF Max

Phases == {"off", "dialing", "subscribing", "live", "down", "waiting", "ended"}
Delay(n) == Min({ReconnectMax, ReconnectMin * 2 ^ n})
LongestWait == Max({ReconnectMax + Jitter, DialTimeout})

LEMMA CoinbaseConstants ==
  /\ ReconnectMin \in Nat \ {0} /\ ReconnectMax \in Nat \ {0} /\ ReconnectMin <= ReconnectMax
  /\ Stable \in Nat \ {0} /\ DialTimeout \in Nat \ {0} /\ Jitter \in Nat
  /\ LongestWait \in Nat /\ DialTimeout <= LongestWait /\ ReconnectMax + Jitter <= LongestWait
<1>1. /\ ReconnectMin \in Nat \ {0} /\ ReconnectMax \in Nat \ {0} /\ ReconnectMin <= ReconnectMax
      /\ Stable \in Nat \ {0} /\ DialTimeout \in Nat \ {0} /\ Jitter \in Nat
  BY CoinbaseAssumption
<1>2. LongestWait = IF ReconnectMax + Jitter >= DialTimeout THEN ReconnectMax + Jitter ELSE DialTimeout
  <2>1. ReconnectMax + Jitter \in Int /\ DialTimeout \in Int
    BY <1>1
  <2> QED BY <2>1, MaxOfTwo DEF LongestWait
<1> QED BY <1>1, <1>2

LEMMA DelayDoubles ==
  /\ Delay(0) = ReconnectMin
  /\ \A n \in Nat : /\ Delay(n) \in ReconnectMin..ReconnectMax
                    /\ Min({2 * Delay(n), ReconnectMax}) = Delay(n + 1)
<1>1. ReconnectMin \in Nat \ {0} /\ ReconnectMax \in Nat \ {0} /\ ReconnectMin <= ReconnectMax
  BY CoinbaseConstants
<1>2. Delay(0) = ReconnectMin
  <2>1. 2 ^ 0 = 1
    OBVIOUS
  <2>2. ReconnectMin * 2 ^ 0 = ReconnectMin
    BY <1>1, <2>1
  <2>3. Min({ReconnectMax, ReconnectMin}) = IF ReconnectMax <= ReconnectMin THEN ReconnectMax ELSE ReconnectMin
    BY <1>1, MinOfTwo
  <2> QED BY <1>1, <2>2, <2>3 DEF Delay
<1>3. ASSUME NEW n \in Nat
      PROVE  /\ Delay(n) \in ReconnectMin..ReconnectMax
             /\ Min({2 * Delay(n), ReconnectMax}) = Delay(n + 1)
  <2> DEFINE a == 2 ^ n
             m == ReconnectMin * a
             d == Delay(n)
  <2>1. a \in Nat \ {0} /\ 2 ^ (n + 1) = 2 * a
    BY PowerDoubles
  <2> HIDE DEF a
  <2>2. m \in Nat /\ m >= ReconnectMin /\ ReconnectMin * (2 * a) = 2 * m
    BY <1>1, <2>1
  <2>3. Delay(n) = Min({ReconnectMax, m}) /\ Delay(n + 1) = Min({ReconnectMax, 2 * m})
    BY <2>1, <2>2 DEF Delay, a
  <2> HIDE DEF m
  <2>4. /\ d = IF ReconnectMax <= m THEN ReconnectMax ELSE m
        /\ Delay(n + 1) = IF ReconnectMax <= 2 * m THEN ReconnectMax ELSE 2 * m
    <3>1. m \in Int /\ 2 * m \in Int /\ ReconnectMax \in Int
      BY <1>1, <2>2
    <3> QED BY <2>3, <3>1, MinOfTwo
  <2> HIDE DEF d
  <2>5. d \in ReconnectMin..ReconnectMax
    BY <1>1, <2>2, <2>4
  <2>6. Min({2 * d, ReconnectMax}) = IF 2 * d <= ReconnectMax THEN 2 * d ELSE ReconnectMax
    <3>1. 2 * d \in Int /\ ReconnectMax \in Int
      BY <1>1, <2>5
    <3> QED BY <3>1, MinOfTwo
  <2>7. Min({2 * d, ReconnectMax}) = Delay(n + 1)
    BY <1>1, <2>2, <2>4, <2>6
  <2> QED BY <2>5, <2>7 DEF d
<1> QED BY <1>2, <1>3

CoinbaseTypes ==
  /\ phase \in [Streams -> Phases]
  /\ left \in [Streams -> Nat]
  /\ cur \in [Streams -> ReconnectMin..ReconnectMax]
  /\ age \in [Streams -> NoAge..Stable]
  /\ statusCh \in Seq(BOOLEAN) /\ Len(statusCh) <= 1
  /\ flaps \in [Streams -> Nat]
  /\ waited \in [Streams -> Nat]

(* The delay that is next stands for all the failures since a session that *)
(* lasted, the one that is waited for all but the last.                    *)
DelaysCountFlaps ==
  \A s \in Streams :
    /\ cur[s] = Delay(flaps[s])
    /\ phase[s] = "waiting" => flaps[s] >= 1 /\ waited[s] = Delay(flaps[s] - 1)
    /\ left[s] <= LongestWait

CoinbaseInv == CoinbaseTypes /\ DelaysCountFlaps

LEMMA BackoffFromInvariant ==
  CoinbaseInv => BackoffCountsFlaps
BY DEF CoinbaseInv, DelaysCountFlaps, BackoffCountsFlaps, Delay, LongestWait

LEMMA InitCoinbaseInv ==
  ASSUME NEW on \in SUBSET Streams, NEW bounds, CoinbaseInit(on, bounds)
  PROVE  CoinbaseInv
<1>1. CoinbaseTypes
  BY CoinbaseConstants, EmptySeq DEF CoinbaseInit, CoinbaseTypes, Phases, NoAge
<1>2. DelaysCountFlaps
  BY CoinbaseConstants, DelayDoubles DEF CoinbaseInit, DelaysCountFlaps
<1> QED BY <1>1, <1>2 DEF CoinbaseInv

(* A step that only moves streams from place to place, and not to a wait.  *)
LEMMA MovesKeepBackoff ==
  ASSUME CoinbaseInv,
         UNCHANGED <<cur, flaps, waited>>,
         phase' \in [Streams -> Phases],
         \A s \in Streams : phase'[s] = "waiting" => phase[s] = "waiting",
         left' \in [Streams -> Nat],
         \A s \in Streams : left'[s] <= left[s] \/ left'[s] = DialTimeout,
         age' \in [Streams -> NoAge..Stable],
         statusCh' \in Seq(BOOLEAN), Len(statusCh') <= 1
  PROVE  CoinbaseInv'
<1>1. CoinbaseTypes'
  BY DEF CoinbaseInv, CoinbaseTypes
<1>2. \A s \in Streams : left'[s] <= LongestWait
  <2>1. ASSUME NEW s \in Streams PROVE left'[s] <= LongestWait
    <3>1. left[s] \in Nat /\ left'[s] \in Nat /\ left[s] <= LongestWait
      BY DEF CoinbaseInv, CoinbaseTypes, DelaysCountFlaps
    <3>2. left'[s] <= left[s] \/ left'[s] = DialTimeout
      OBVIOUS
    <3>3. LongestWait \in Nat /\ DialTimeout \in Nat /\ DialTimeout <= LongestWait
      BY CoinbaseConstants
    <3> QED BY <3>1, <3>2, <3>3
  <2> QED BY <2>1
<1>3. DelaysCountFlaps'
  BY <1>2 DEF CoinbaseInv, DelaysCountFlaps, Delay, LongestWait
<1> QED BY <1>1, <1>3 DEF CoinbaseInv

LEMMA StatusKept ==
  ASSUME CoinbaseInv, NEW s \in Streams, NEW up \in BOOLEAN, NotifyStatus(s, up)
  PROVE  statusCh' \in Seq(BOOLEAN) /\ Len(statusCh') <= 1
<1> DEFINE one == <<up>>
<1>1. one \in Seq(BOOLEAN) /\ Len(one) <= 1
  <2>1. Len(one) = 1
    OBVIOUS
  <2>2. Len(one) <= 1
    BY <2>1
  <2> QED BY <2>2
<1>2. statusCh \in Seq(BOOLEAN) /\ Len(statusCh) <= 1
  BY DEF CoinbaseInv, CoinbaseTypes
<1>3. statusCh' = one \/ statusCh' = statusCh
  BY DEF NotifyStatus
<1> HIDE DEF one
<1>4. CASE statusCh' = one
  BY <1>1, <1>4
<1>5. CASE statusCh' = statusCh
  BY <1>2, <1>5
<1> QED BY <1>3, <1>4, <1>5

LEMMA SessionKeepsCoinbase ==
  ASSUME CoinbaseInv, NEW s \in Streams,
         \/ Dialed(s) \/ Establish(s) \/ DialFails(s) \/ DialTimesOut(s) \/ SessionEnds(s)
         \/ Redial(s) \/ StreamReturns(s)
  PROVE  CoinbaseInv'
<1> USE DEF Phases
<1>0. CoinbaseTypes /\ NoAge \in NoAge..Stable /\ 0 \in NoAge..Stable /\ DialTimeout \in Nat
  BY CoinbaseConstants DEF CoinbaseInv, NoAge
<1>1. CASE Establish(s)
  <2>1. statusCh' \in Seq(BOOLEAN) /\ Len(statusCh') <= 1
    BY <1>1, StatusKept DEF Establish
  <2>2. /\ phase' \in [Streams -> Phases] /\ age' \in [Streams -> NoAge..Stable] /\ left' = left
        /\ \A r \in Streams : phase'[r] = "waiting" => phase[r] = "waiting"
        /\ UNCHANGED <<cur, flaps, waited>>
    BY <1>0, <1>1 DEF Establish, CoinbaseTypes
  <2> QED BY <1>0, <2>1, <2>2, MovesKeepBackoff DEF CoinbaseTypes
<1>2. CASE DialFails(s)
  <2>1. /\ phase' \in [Streams -> Phases] /\ age' \in [Streams -> NoAge..Stable] /\ left' = left
        /\ \A r \in Streams : phase'[r] = "waiting" => phase[r] = "waiting"
        /\ UNCHANGED <<cur, flaps, waited, statusCh>>
    BY <1>0, <1>2 DEF DialFails, CoinbaseTypes
  <2> QED BY <1>0, <2>1, MovesKeepBackoff DEF CoinbaseTypes
<1>3. CASE DialTimesOut(s)
  BY <1>2, <1>3 DEF DialTimesOut
<1>4. CASE SessionEnds(s)
  <2>1. /\ phase' \in [Streams -> Phases] /\ UNCHANGED <<age, left, cur, flaps, waited, statusCh>>
        /\ \A r \in Streams : phase'[r] = "waiting" => phase[r] = "waiting"
    BY <1>0, <1>4 DEF SessionEnds, CoinbaseTypes
  <2> QED BY <1>0, <2>1, MovesKeepBackoff DEF CoinbaseTypes
<1>5. CASE Redial(s)
  <2>1. /\ phase' \in [Streams -> Phases] /\ age' \in [Streams -> NoAge..Stable]
        /\ left' \in [Streams -> Nat]
        /\ \A r \in Streams : left'[r] <= left[r] \/ left'[r] = DialTimeout
        /\ \A r \in Streams : phase'[r] = "waiting" => phase[r] = "waiting"
        /\ UNCHANGED <<cur, flaps, waited, statusCh>>
    BY <1>0, <1>5 DEF Redial, CoinbaseTypes
  <2> QED BY <1>0, <2>1, MovesKeepBackoff DEF CoinbaseTypes
<1>6. CASE StreamReturns(s)
  <2>1. /\ phase' \in [Streams -> Phases] /\ UNCHANGED <<age, left, cur, flaps, waited, statusCh>>
        /\ \A r \in Streams : phase'[r] = "waiting" => phase[r] = "waiting"
    BY <1>0, <1>6 DEF StreamReturns, CoinbaseTypes
  <2> QED BY <1>0, <2>1, MovesKeepBackoff DEF CoinbaseTypes
<1>7. CASE Dialed(s)
  <2>1. /\ phase' \in [Streams -> Phases] /\ left' \in [Streams -> Nat]
        /\ \A r \in Streams : left'[r] <= left[r]
        /\ \A r \in Streams : phase'[r] = "waiting" => phase[r] = "waiting"
        /\ UNCHANGED <<age, cur, flaps, waited, statusCh>>
    BY <1>0, <1>7 DEF Dialed, CoinbaseTypes
  <2> QED BY <1>0, <2>1, MovesKeepBackoff DEF CoinbaseTypes
<1> QED BY <1>1, <1>2, <1>3, <1>4, <1>5, <1>6, <1>7

(* After a session that lasted the count starts again, at this failure.    *)
LEMMA BackOffKeepsCoinbase ==
  ASSUME CoinbaseInv, NEW s \in Streams, BackOff(s)
  PROVE  CoinbaseInv'
<1>1. CoinbaseTypes /\ DelaysCountFlaps
  BY DEF CoinbaseInv
<1>2. PICK n \in Jittered(Observe(s).wait) : left' = [left EXCEPT ![s] = n]
  BY DEF BackOff
<1>3. flaps[s] \in Nat /\ cur[s] = Delay(flaps[s]) /\ cur[s] \in ReconnectMin..ReconnectMax
  BY <1>1 DEF CoinbaseTypes, DelaysCountFlaps
<1> DEFINE w == Observe(s).wait
           x == Observe(s).next
           f == IF Lasted(s) THEN 1 ELSE flaps[s] + 1
<1>4. /\ f \in Nat /\ f >= 1 /\ w = Delay(f - 1) /\ x = Delay(f)
      /\ w \in ReconnectMin..ReconnectMax /\ x \in ReconnectMin..ReconnectMax
  <2>1. x = Min({2 * w, ReconnectMax}) /\ w = IF Lasted(s) THEN ReconnectMin ELSE cur[s]
    BY DEF Observe
  <2>2. f \in Nat /\ f >= 1 /\ f - 1 = (IF Lasted(s) THEN 0 ELSE flaps[s]) /\ (f - 1) + 1 = f
    BY <1>3
  <2>3. w = Delay(f - 1)
    BY <1>3, <2>1, <2>2, DelayDoubles
  <2> HIDE DEF f, w, x
  <2>4. f - 1 \in Nat
    BY <2>2
  <2>5. Delay(f - 1) \in ReconnectMin..ReconnectMax /\ Min({2 * Delay(f - 1), ReconnectMax}) = Delay((f - 1) + 1)
    BY <2>4, DelayDoubles
  <2>6. Delay(f) \in ReconnectMin..ReconnectMax
    BY <2>2, DelayDoubles
  <2> QED BY <2>1, <2>2, <2>3, <2>5, <2>6
<1>5. /\ phase' = [phase EXCEPT ![s] = "waiting"] /\ waited' = [waited EXCEPT ![s] = w]
      /\ cur' = [cur EXCEPT ![s] = x] /\ flaps' = [flaps EXCEPT ![s] = f] /\ age' = age
      /\ NotifyStatus(s, FALSE)
  BY DEF BackOff
<1>6. n \in (w - Jitter)..(w + Jitter) /\ n >= 0
  BY <1>2 DEF Jittered
<1> HIDE DEF w, x, f
<1>7. n \in Nat /\ n <= LongestWait
  BY <1>4, <1>6, CoinbaseConstants
<1>8. statusCh' \in Seq(BOOLEAN) /\ Len(statusCh') <= 1
  BY <1>5, StatusKept
<1>9. CoinbaseTypes'
  <2>1. waited' \in [Streams -> Nat] /\ w \in Nat
    BY <1>1, <1>4, <1>5, CoinbaseConstants DEF CoinbaseTypes
  <2>2. phase' \in [Streams -> Phases]
    BY <1>1, <1>5 DEF CoinbaseTypes, Phases
  <2>3. /\ left' \in [Streams -> Nat] /\ cur' \in [Streams -> ReconnectMin..ReconnectMax]
        /\ flaps' \in [Streams -> Nat] /\ age' \in [Streams -> NoAge..Stable]
    BY <1>1, <1>2, <1>4, <1>5, <1>7 DEF CoinbaseTypes
  <2> QED BY <1>8, <2>1, <2>2, <2>3 DEF CoinbaseTypes
<1>10. ASSUME NEW r \in Streams
       PROVE  /\ cur'[r] = Delay(flaps'[r])
              /\ phase'[r] = "waiting" => flaps'[r] >= 1 /\ waited'[r] = Delay(flaps'[r] - 1)
              /\ left'[r] <= LongestWait
  <2>1. CASE r = s
    BY <1>1, <1>2, <1>4, <1>5, <1>7, <2>1 DEF CoinbaseTypes
  <2>2. CASE r # s
    BY <1>1, <1>2, <1>5, <2>2 DEF CoinbaseTypes, DelaysCountFlaps
  <2> QED BY <2>1, <2>2
<1>11. DelaysCountFlaps'
  BY <1>10 DEF DelaysCountFlaps, Delay, LongestWait
<1> QED BY <1>9, <1>11 DEF CoinbaseInv

LEMMA PumpKeepsCoinbase ==
  ASSUME CoinbaseInv, PumpStatus
  PROVE  CoinbaseInv'
<1>1. <<>> \in Seq(BOOLEAN) /\ Len(<<>>) = 0
  BY EmptySeq
<1>2. /\ statusCh' = <<>> /\ UNCHANGED <<phase, left, cur, age, flaps, waited>>
  BY DEF PumpStatus
<1> QED BY <1>1, <1>2, MovesKeepBackoff DEF CoinbaseInv, CoinbaseTypes

LEMMA TickKeepsCoinbase ==
  ASSUME CoinbaseInv, CoinbaseTick
  PROVE  CoinbaseInv'
<1>1. CoinbaseTypes
  BY DEF CoinbaseInv
<1>2. /\ left' = [s \in Streams |-> Step(left[s], 0)]
      /\ age' = [s \in Streams |-> IF phase[s] = "live" THEN Capped(age[s] + 1) ELSE age[s]]
      /\ UNCHANGED <<phase, cur, statusCh, flaps, waited>>
  BY DEF CoinbaseTick
<1>3. left' \in [Streams -> Nat] /\ \A s \in Streams : left'[s] <= left[s]
  BY <1>1, <1>2 DEF CoinbaseTypes, Step
<1>4. ASSUME NEW s \in Streams PROVE Capped(age[s] + 1) \in NoAge..Stable
  <2>1. age[s] + 1 \in Int /\ age[s] + 1 >= NoAge /\ Stable \in Nat
    BY <1>1, CoinbaseConstants DEF CoinbaseTypes, NoAge
  <2>2. Capped(age[s] + 1) = IF age[s] + 1 <= Stable THEN age[s] + 1 ELSE Stable
    BY <2>1, MinOfTwo DEF Capped
  <2> QED BY <2>1, <2>2 DEF NoAge
<1>5. age' \in [Streams -> NoAge..Stable]
  BY <1>1, <1>2, <1>4 DEF CoinbaseTypes
<1> QED BY <1>1, <1>2, <1>3, <1>5, MovesKeepBackoff DEF CoinbaseTypes

(* What else happens at a stream leaves its delays alone.                  *)
LEMMA OtherwiseCoinbaseKept ==
  ASSUME CoinbaseInv, UNCHANGED <<phase, left, cur, age, statusCh, flaps, waited>>
  PROVE  CoinbaseInv'
BY DEF CoinbaseInv, CoinbaseTypes, DelaysCountFlaps, Delay, LongestWait

(***************************************************************************)
(* The Yahoo client: whose turn it is, and what its poll has spent.        *)
(***************************************************************************)
Places == {"off", "idle", "lock", "page", "crumb", "begin", "gate", "token", "flying", "asleep",
           "next", "ended"}
Busy == {"gate", "token", "flying", "asleep"}
Cycling == Busy \cup {"next"}

YahooTypes ==
  /\ at \in [Callers -> Places]
  /\ todo = [c \in Callers |-> todo[c]]
  /\ attempt \in [Callers -> 1..MaxAttempts]
  /\ tokens \in 0..Burst
  /\ crumbs \in Nat /\ crumb \in 0..crumbs
  /\ Len(yahooCh) <= 1
  /\ healthy \in BOOLEAN /\ failures \in 0..UnhealthyAfter
  /\ cooling \in 0..CooldownMax
  /\ fetcher \in Callers \cup {"nobody"}
  /\ spent \in Nat

(* What is left of a cycle: the charts that stand for a batch that failed, *)
(* then the batches that were not tried yet; and what that may cost.       *)
Line(c, b) == [i \in 1..(c + b) |-> IF i <= c THEN "chart" ELSE "batch"]
BatchCost == MaxAttempts * (1 + MaxChartFallbacks)
LineCost(c, b) == c * MaxAttempts + b * BatchCost
CycleCost == Batches * MaxAttempts * (1 + MaxChartFallbacks)

(* The attempts of the request in hand, which its cost includes.           *)
Tried ==
  IF at["poll"] = "flying" THEN attempt["poll"]
  ELSE IF at["poll"] \in {"gate", "token", "asleep"} THEN attempt["poll"] - 1
  ELSE 0

CycleInv ==
  /\ at["poll"] = "next" => attempt["poll"] = 1
  /\ at["poll"] \in Busy => todo["poll"] # <<>>
  /\ at["poll"] \in Cycling =>
       \E c \in Nat, b \in Nat :
         todo["poll"] = Line(c, b) /\ spent - Tried + LineCost(c, b) <= CycleCost
  /\ spent <= CycleCost

YahooInv == YahooTypes /\ ClientConsistent /\ CycleInv

LEMMA YahooConstants ==
  /\ {"poll", "chart"} = Callers
  /\ Batches \in Nat \ {0} /\ BatchSymbols \in Nat \ {0} /\ MaxAttempts \in Nat \ {0}
  /\ Burst \in Nat \ {0} /\ UnhealthyAfter \in Nat \ {0}
  /\ MaxChartFallbacks \in Nat /\ Cooldown \in Nat /\ CooldownMax \in Nat
  /\ RetryAfters \subseteq Nat
BY YahooAssumption

LEMMA LineProperties ==
  ASSUME NEW c \in Nat, NEW b \in Nat
  PROVE  /\ Line(c, b) \in Seq({"chart", "batch"}) /\ Len(Line(c, b)) = c + b
         /\ \A i \in 1..(c + b) : Line(c, b)[i] = IF i <= c THEN "chart" ELSE "batch"
         /\ Line(c, b) # <<>> <=> c + b > 0
<1>1. Line(c, b) \in Seq({"chart", "batch"}) /\ Len(Line(c, b)) = c + b
  BY DEF Line
<1>2. \A i \in 1..(c + b) : Line(c, b)[i] = IF i <= c THEN "chart" ELSE "batch"
  BY DEF Line
<1>3. Line(c, b) # <<>> <=> c + b > 0
  <2>1. Line(c, b) = <<>> => c + b = 0
    BY <1>1, EmptySeq
  <2>2. Line(c, b) # <<>> => c + b > 0
    BY <1>1, EmptySeq
  <2> QED BY <2>1, <2>2
<1> QED BY <1>1, <1>2, <1>3

(* The first request is a chart while there is one, and a batch then.      *)
LEMMA LineHeadTail ==
  ASSUME NEW c \in Nat, NEW b \in Nat, Line(c, b) # <<>>
  PROVE  \/ c > 0 /\ Head(Line(c, b)) = "chart" /\ Tail(Line(c, b)) = Line(c - 1, b)
         \/ c = 0 /\ b > 0 /\ Head(Line(c, b)) = "batch" /\ Tail(Line(c, b)) = Line(0, b - 1)
<1>1. c + b > 0
  BY LineProperties
<1> DEFINE s == Line(c, b)
           t == Tail(s)
<1>2. /\ s \in Seq({"chart", "batch"}) /\ Len(s) = c + b /\ s # <<>>
      /\ \A i \in 1..(c + b) : s[i] = IF i <= c THEN "chart" ELSE "batch"
  BY LineProperties
<1> HIDE DEF s
<1>3. /\ t \in Seq({"chart", "batch"}) /\ Len(t) = c + b - 1
      /\ \A i \in 1..(c + b - 1) : t[i] = s[i + 1]
      /\ Head(s) = s[1]
  BY <1>2, HeadTailProperties
<1> HIDE DEF t
<1>4. ASSUME NEW d \in Nat, NEW e \in Nat, d + e = c + b - 1, d = IF c > 0 THEN c - 1 ELSE 0
      PROVE  t = Line(d, e)
  <2>1. /\ Line(d, e) \in Seq({"chart", "batch"}) /\ Len(Line(d, e)) = c + b - 1
        /\ \A i \in 1..(c + b - 1) : Line(d, e)[i] = IF i <= d THEN "chart" ELSE "batch"
    BY <1>4, LineProperties
  <2>2. ASSUME NEW i \in 1..(c + b - 1) PROVE t[i] = Line(d, e)[i]
    <3>1. i + 1 \in 1..(c + b) /\ (i + 1 <= c <=> i <= d)
      BY <1>4
    <3> QED BY <1>2, <1>3, <2>1, <3>1
  <2> QED BY <1>3, <2>1, <2>2, SeqEqual
<1>5. CASE c > 0
  <2>1. c - 1 \in Nat /\ (c - 1) + b = c + b - 1
    BY <1>5
  <2>2. t = Line(c - 1, b)
    BY <1>4, <1>5, <2>1
  <2>3. s[1] = "chart"
    BY <1>1, <1>2, <1>5
  <2> QED BY <1>3, <1>5, <2>2, <2>3 DEF s, t
<1>6. CASE c = 0
  <2>1. b - 1 \in Nat /\ b > 0 /\ 0 + (b - 1) = c + b - 1
    BY <1>1, <1>6
  <2>2. t = Line(0, b - 1)
    BY <1>4, <1>6, <2>1
  <2>3. s[1] = "batch"
    BY <1>1, <1>2, <1>6
  <2> QED BY <1>3, <1>6, <2>1, <2>2, <2>3 DEF s, t
<1> QED BY <1>5, <1>6

(* Charts in the place of a batch.                                         *)
LEMMA FallbackLine ==
  ASSUME NEW b \in Nat
  PROVE  \E k \in 0..MaxChartFallbacks : Fallback(Line(0, b)) = Line(k, b)
<1> DEFINE k == Min({BatchSymbols, MaxChartFallbacks})
           s == [i \in 1..k |-> "chart"]
<1>1. k \in Nat /\ k <= MaxChartFallbacks
  BY YahooConstants, MinOfTwo
<1> HIDE DEF k
<1>2. s \in Seq({"chart", "batch"}) /\ Len(s) = k /\ \A i \in 1..k : s[i] = "chart"
  BY <1>1
<1>3. /\ Line(0, b) \in Seq({"chart", "batch"}) /\ Len(Line(0, b)) = b
      /\ \A i \in 1..b : Line(0, b)[i] = "batch"
  <2>1. /\ Line(0, b) \in Seq({"chart", "batch"}) /\ Len(Line(0, b)) = 0 + b
        /\ \A i \in 1..(0 + b) : Line(0, b)[i] = IF i <= 0 THEN "chart" ELSE "batch"
    BY LineProperties
  <2> QED BY <2>1
<1>4. /\ Line(k, b) \in Seq({"chart", "batch"}) /\ Len(Line(k, b)) = k + b
      /\ \A i \in 1..(k + b) : Line(k, b)[i] = IF i <= k THEN "chart" ELSE "batch"
  BY <1>1, LineProperties
<1> HIDE DEF s
<1> DEFINE t == s \o Line(0, b)
<1>5. /\ t \in Seq({"chart", "batch"}) /\ Len(t) = k + b
      /\ \A i \in 1..(k + b) : t[i] = IF i <= k THEN s[i] ELSE Line(0, b)[i - k]
  <2> DEFINE r == Line(0, b)
  <2>1. r \in Seq({"chart", "batch"}) /\ Len(r) = b
    BY <1>3
  <2> HIDE DEF r
  <2>2. /\ s \o r \in Seq({"chart", "batch"}) /\ Len(s \o r) = Len(s) + Len(r)
        /\ \A i \in 1..(Len(s) + Len(r)) : (s \o r)[i] = IF i <= Len(s) THEN s[i] ELSE r[i - Len(s)]
    BY <1>2, <2>1, ConcatProperties
  <2>3. /\ s \o r \in Seq({"chart", "batch"}) /\ Len(s \o r) = k + b
        /\ \A i \in 1..(k + b) : (s \o r)[i] = IF i <= k THEN s[i] ELSE r[i - k]
    BY <1>2, <2>1, <2>2
  <2> QED BY <2>3 DEF r, t
<1> HIDE DEF t
<1>6. ASSUME NEW i \in 1..(k + b) PROVE t[i] = Line(k, b)[i]
  <2>1. CASE i <= k
    BY <1>1, <1>2, <1>4, <1>5, <2>1
  <2>2. CASE i > k
    <3>1. i - k \in 1..b
      BY <1>1, <2>2
    <3> QED BY <1>1, <1>3, <1>4, <1>5, <2>2, <3>1
  <2> QED BY <1>1, <2>1, <2>2
<1>7. t = Line(k, b)
  BY <1>4, <1>5, <1>6, SeqEqual
<1>8. Fallback(Line(0, b)) = t
  BY DEF t, s, k, Fallback
<1> QED BY <1>1, <1>7, <1>8

(* What a request that is over leaves to be spent.                         *)
LEMMA CostOfLine ==
  ASSUME NEW c \in Nat, NEW b \in Nat
  PROVE  /\ LineCost(c, b) \in Nat
         /\ c > 0 => LineCost(c, b) = LineCost(c - 1, b) + MaxAttempts
         /\ b > 0 => \A k \in 0..MaxChartFallbacks :
                       LineCost(k, b - 1) + MaxAttempts <= LineCost(0, b)
         /\ LineCost(0, Batches) = CycleCost
<1> DEFINE A == MaxAttempts
           F == MaxChartFallbacks
           W == BatchCost
<1>1. A \in Nat /\ F \in Nat /\ Batches \in Nat
  BY YahooConstants
<1>2. W = A * (1 + F) /\ W \in Nat
  BY <1>1 DEF BatchCost
<1>3. W = A + F * A
  BY <1>1, <1>2
<1> HIDE DEF A, F, W
<1>4. LineCost(c, b) = c * A + b * W
  BY DEF LineCost, A, W
<1>5. LineCost(c, b) \in Nat
  BY <1>1, <1>2, <1>4
<1>6. ASSUME c > 0 PROVE LineCost(c, b) = LineCost(c - 1, b) + A
  <2>1. LineCost(c - 1, b) = (c - 1) * A + b * W
    BY DEF LineCost, A, W
  <2>2. (c - 1) * A = c * A - A
    BY <1>1
  <2>3. c * A \in Nat /\ b * W \in Nat
    BY <1>1, <1>2
  <2> QED BY <1>1, <1>4, <2>1, <2>2, <2>3
<1>7. ASSUME b > 0, NEW k \in 0..F PROVE LineCost(k, b - 1) + A <= LineCost(0, b)
  <2>1. LineCost(k, b - 1) = k * A + (b - 1) * W /\ LineCost(0, b) = 0 * A + b * W
    BY DEF LineCost, A, W
  <2>2. (b - 1) * W = b * W - W /\ 0 * A = 0
    BY <1>1, <1>2
  <2>3. k * A <= F * A
    BY <1>1
  <2>4. k * A \in Nat /\ b * W \in Nat /\ F * A \in Nat
    BY <1>1, <1>2
  <2> QED BY <1>1, <1>2, <1>3, <2>1, <2>2, <2>3, <2>4
<1>8. LineCost(0, Batches) = CycleCost
  <2>1. LineCost(0, Batches) = 0 * A + Batches * W /\ CycleCost = Batches * A * (1 + F)
    BY DEF LineCost, CycleCost, A, F, W
  <2>2. Batches * A * (1 + F) = Batches * (A * (1 + F))
    BY <1>1
  <2> QED BY <1>1, <1>2, <2>1, <2>2
<1> QED BY <1>5, <1>6, <1>7, <1>8 DEF A, F

LEMMA InitYahooInv ==
  ASSUME NEW on \in SUBSET Callers, NEW bounds, YahooInit(on, bounds)
  PROVE  YahooInv
<1>1. YahooTypes
  BY YahooConstants DEF YahooInit, YahooTypes, Places
<1>2. ClientConsistent
  BY YahooConstants DEF YahooInit, ClientConsistent
<1>3. CycleInv
  <2>1. CycleCost \in Nat
    BY YahooConstants, CostOfLine
  <2> QED BY <2>1, YahooConstants DEF YahooInit, CycleInv, Cycling, Busy
<1> QED BY <1>1, <1>2, <1>3 DEF YahooInv

(* Steps that leave the poll where it is, or take it out of its requests.  *)
LEMMA CycleKept ==
  ASSUME CycleInv, at'["poll"] = at["poll"], todo'["poll"] = todo["poll"],
         attempt'["poll"] = attempt["poll"], spent' = spent
  PROVE  CycleInv'
BY DEF CycleInv, Tried, Line, LineCost, BatchCost, CycleCost, Busy, Cycling

LEMMA CycleAway ==
  ASSUME YahooTypes, CycleInv, NEW c \in Callers, NEW place \in Places \ Cycling, Goes(c, place),
         UNCHANGED <<todo, attempt, spent>>
  PROVE  CycleInv'
<1>1. CASE c = "poll"
  <2>1. at'["poll"] \notin Cycling
    BY <1>1 DEF Goes, YahooTypes
  <2> QED BY <2>1 DEF CycleInv, Busy, Cycling, CycleCost
<1>2. CASE c # "poll"
  <2>1. at'["poll"] = at["poll"]
    BY <1>2, YahooConstants DEF Goes, YahooTypes
  <2> QED BY <2>1, CycleKept
<1> QED BY <1>1, <1>2

(* Steps of a caller that does not hold the session.                       *)
LEMMA ClientMoves ==
  ASSUME YahooTypes, ClientConsistent, NEW c \in Callers, NEW place, Goes(c, place),
         at[c] \notin {"page", "crumb"}, fetcher' = fetcher, crumb' \in {crumb, 0},
         healthy' <=> failures' < UnhealthyAfter, cooling' <= CooldownMax
  PROVE  ClientConsistent'
<1>1. fetcher # "nobody" => fetcher \in Callers /\ fetcher # c /\ at'[fetcher] = at[fetcher]
  BY DEF YahooTypes, ClientConsistent, Goes
<1> QED BY <1>1 DEF ClientConsistent

LEMMA ClientKept ==
  ASSUME ClientConsistent, UNCHANGED <<at, fetcher, crumb>>,
         healthy' <=> failures' < UnhealthyAfter, cooling' <= CooldownMax
  PROVE  ClientConsistent'
BY DEF ClientConsistent

LEMMA LockSessionKeepsYahoo ==
  ASSUME YahooInv, NEW c \in Callers, LockSession(c)
  PROVE  YahooInv'
<1>0. YahooTypes /\ ClientConsistent /\ CycleInv
  BY DEF YahooInv
<1>1. PICK place \in {"begin", "page"} :
        /\ Goes(c, place)
        /\ \/ fetcher' = fetcher
           \/ place = "page" /\ crumb = 0 /\ fetcher' = c
  BY DEF LockSession, Opened
<1>2. /\ at[c] = "lock" /\ UNCHANGED <<todo, attempt, crumb, crumbs, tokens, cooling, spent>>
      /\ UNCHANGED <<healthy, failures, yahooCh>>
  BY DEF LockSession, gateVars, healthVars, boundVars
<1>3. YahooTypes'
  BY <1>0, <1>1, <1>2 DEF YahooTypes, Goes, Places
<1>4. ClientConsistent'
  <2>1. CASE fetcher' = fetcher
    BY <1>0, <1>1, <1>2, <2>1, ClientMoves DEF ClientConsistent
  <2>2. CASE place = "page" /\ crumb = 0 /\ fetcher' = c
    BY <1>0, <1>1, <1>2, <2>2 DEF ClientConsistent, YahooTypes, Goes
  <2> QED BY <1>1, <2>1, <2>2
<1>5. CycleInv'
  BY <1>0, <1>1, <1>2, CycleAway DEF Places, Cycling, Busy
<1> QED BY <1>3, <1>4, <1>5 DEF YahooInv

LEMMA FetchCrumbKeepsYahoo ==
  ASSUME YahooInv, NEW c \in Callers, FetchCrumb(c)
  PROVE  YahooInv'
<1>0. YahooTypes /\ ClientConsistent /\ CycleInv
  BY DEF YahooInv
<1>1. PICK place \in {"begin", "crumb"} :
        /\ Goes(c, place)
        /\ \/ place = "crumb" /\ UNCHANGED <<fetcher, crumb, crumbs>>
           \/ fetcher' = "nobody" /\ crumbs' = crumbs + 1 /\ crumb' = crumbs + 1
           \/ fetcher' = "nobody" /\ UNCHANGED <<crumb, crumbs>>
  BY DEF FetchCrumb, Opened, sessionMuVars
<1>2. /\ fetcher = c /\ UNCHANGED <<todo, attempt, tokens, cooling, spent, healthy, failures, yahooCh>>
  BY DEF FetchCrumb, gateVars, healthVars, boundVars
<1>3. YahooTypes'
  BY <1>0, <1>1, <1>2 DEF YahooTypes, Goes, Places
<1>4. ClientConsistent'
  BY <1>0, <1>1, <1>2, YahooConstants DEF ClientConsistent, YahooTypes, Goes
<1>5. CycleInv'
  BY <1>0, <1>1, <1>2, CycleAway DEF Places, Cycling, Busy
<1> QED BY <1>3, <1>4, <1>5 DEF YahooInv

LEMMA BeginKeepsYahoo ==
  ASSUME YahooInv, NEW c \in Callers, Begin(c)
  PROVE  YahooInv'
<1>0. YahooTypes /\ ClientConsistent /\ CycleInv
  BY DEF YahooInv
<1>1. /\ at[c] = "begin" /\ Goes(c, "gate") /\ attempt' = [attempt EXCEPT ![c] = 1]
      /\ todo' = [todo EXCEPT ![c] = IF c = "poll" THEN [b \in 1..Batches |-> "batch"]
                                     ELSE <<"history">>]
      /\ spent' = (IF c = "poll" THEN 0 ELSE spent)
      /\ UNCHANGED <<fetcher, crumb, crumbs, tokens, cooling, healthy, failures, yahooCh>>
  BY DEF Begin, sessionMuVars, gateVars, healthVars
<1>2. YahooTypes'
  <2>1. /\ at' \in [Callers -> Places] /\ attempt' \in [Callers -> 1..MaxAttempts] /\ spent' \in Nat
    BY <1>0, <1>1, YahooConstants DEF YahooTypes, Goes, Places
  <2>2. todo' = [k \in Callers |-> todo'[k]]
    BY <1>0, <1>1 DEF YahooTypes
  <2> QED BY <1>0, <1>1, <2>1, <2>2 DEF YahooTypes
<1>3. ClientConsistent'
  BY <1>0, <1>1, ClientMoves DEF ClientConsistent
<1>4. CycleInv'
  <2>1. CASE c = "poll"
    <3>1. at'["poll"] = "gate" /\ attempt'["poll"] = 1 /\ spent' = 0
      BY <1>0, <1>1, <2>1, YahooConstants DEF YahooTypes, Goes
    <3>2. todo'["poll"] = Line(0, Batches)
      <4>1. todo'["poll"] = [b \in 1..Batches |-> "batch"]
        BY <1>0, <1>1, <2>1 DEF YahooTypes
      <4>2. Line(0, Batches) = [b \in 1..Batches |-> "batch"]
        BY YahooConstants DEF Line
      <4> QED BY <4>1, <4>2
    <3>3. Line(0, Batches) # <<>>
      BY YahooConstants, LineProperties
    <3>4. LineCost(0, Batches) = CycleCost /\ CycleCost \in Nat
      BY YahooConstants, CostOfLine
    <3>5. Tried' = 0
      BY <3>1 DEF Tried
    <3>6. spent' - Tried' + LineCost(0, Batches) <= CycleCost
      BY <3>1, <3>4, <3>5
    <3>7. \E k \in Nat, b \in Nat : todo'["poll"] = Line(k, b) /\ spent' - Tried' + LineCost(k, b) <= CycleCost
      BY <3>2, <3>6, YahooConstants
    <3> QED BY <3>1, <3>2, <3>3, <3>4, <3>7 DEF CycleInv, Line, LineCost, BatchCost, CycleCost, Tried
  <2>2. CASE c # "poll"
    BY <1>0, <1>1, <2>2, CycleKept, YahooConstants DEF YahooTypes, Goes
  <2> QED BY <2>1, <2>2
<1> QED BY <1>2, <1>3, <1>4 DEF YahooInv

(* Steps of the gate: what was tried, and is to be tried, stays.           *)
LEMMA CycleProceeds ==
  ASSUME YahooTypes, CycleInv, at["poll"] \in Busy, at'["poll"] \in Busy,
         todo'["poll"] = todo["poll"], spent' \in Nat, spent' <= CycleCost,
         spent' - Tried' = spent - Tried
  PROVE  CycleInv'
<1>1. PICK c \in Nat, b \in Nat :
        todo["poll"] = Line(c, b) /\ spent - Tried + LineCost(c, b) <= CycleCost
  BY DEF CycleInv, Cycling
<1>2. \E k \in Nat, n \in Nat :
        todo'["poll"] = Line(k, n) /\ spent' - Tried' + LineCost(k, n) <= CycleCost
  BY <1>1
<1> QED BY <1>2 DEF CycleInv, Busy, Line, LineCost, BatchCost, CycleCost

LEMMA GateKeepsYahoo ==
  ASSUME YahooInv, NEW c \in Callers, PassCooldown(c) \/ SleepIsOver(c)
  PROVE  YahooInv'
<1>0. YahooTypes /\ ClientConsistent /\ CycleInv
  BY DEF YahooInv
<1>1. PICK place \in {"token", "gate"} : Goes(c, place)
  BY DEF PassCooldown, SleepIsOver
<1>2. /\ at[c] \in {"gate", "asleep"}
      /\ UNCHANGED <<todo, attempt, fetcher, crumb, crumbs, tokens, cooling, spent, healthy, failures,
                     yahooCh>>
  BY DEF PassCooldown, SleepIsOver, sessionMuVars, gateVars, healthVars, boundVars
<1>3. YahooTypes'
  BY <1>0, <1>1, <1>2 DEF YahooTypes, Goes, Places
<1>4. ClientConsistent'
  BY <1>0, <1>1, <1>2, ClientMoves DEF ClientConsistent
<1>5. CycleInv'
  <2>1. CASE c = "poll"
    <3>1. at'["poll"] = place
      BY <1>0, <1>1, <2>1 DEF YahooTypes, Goes
    <3>2. Tried' = Tried
      BY <1>2, <2>1, <3>1 DEF Tried
    <3> QED BY <1>0, <1>2, <2>1, <3>1, <3>2, CycleProceeds DEF Busy, YahooTypes, CycleInv
  <2>2. CASE c # "poll"
    BY <1>0, <1>1, <1>2, <2>2, CycleKept, YahooConstants DEF YahooTypes, Goes
  <2> QED BY <2>1, <2>2
<1> QED BY <1>3, <1>4, <1>5 DEF YahooInv

LEMMA TakeTokenKeepsYahoo ==
  ASSUME YahooInv, NEW c \in Callers, TakeToken(c)
  PROVE  YahooInv'
<1>0. YahooTypes /\ ClientConsistent /\ CycleInv
  BY DEF YahooInv
<1>1. /\ at[c] = "token" /\ tokens > 0 /\ tokens' = tokens - 1 /\ Goes(c, "flying")
      /\ spent' = (IF c = "poll" THEN spent + 1 ELSE spent)
      /\ UNCHANGED <<todo, attempt, fetcher, crumb, crumbs, cooling, healthy, failures, yahooCh>>
  BY DEF TakeToken, sessionMuVars, healthVars
<1>2. YahooTypes'
  <2>1. at' \in [Callers -> Places]
    BY <1>0, <1>1 DEF YahooTypes, Goes, Places
  <2>2. tokens' \in 0..Burst
    <3>1. tokens \in 0..Burst /\ Burst \in Nat
      BY <1>0, YahooConstants DEF YahooTypes
    <3>2. tokens > 0 /\ tokens' = tokens - 1
      BY <1>1
    <3> QED BY <3>1, <3>2
  <2>3. spent' \in Nat
    <3>1. spent \in Nat /\ spent + 1 \in Nat
      BY <1>0 DEF YahooTypes
    <3> QED BY <1>1, <3>1
  <2> QED BY <1>0, <1>1, <2>1, <2>2, <2>3 DEF YahooTypes
<1>3. ClientConsistent'
  BY <1>0, <1>1, ClientMoves DEF ClientConsistent
<1>4. CycleInv'
  <2>1. CASE c = "poll"
    <3>1. at'["poll"] = "flying" /\ attempt["poll"] \in 1..MaxAttempts /\ spent \in Nat
      BY <1>0, <1>1, <2>1 DEF YahooTypes, Goes
    <3>2. Tried' = attempt["poll"] /\ Tried = attempt["poll"] - 1
      BY <1>1, <2>1, <3>1 DEF Tried
    <3>3. spent' = spent + 1 /\ spent' - Tried' = spent - Tried
      BY <1>1, <2>1, <3>1, <3>2
    <3>4. PICK k \in Nat, b \in Nat :
            /\ todo["poll"] = Line(k, b) /\ Line(k, b) # <<>>
            /\ spent - Tried + LineCost(k, b) <= CycleCost
      BY <1>0, <1>1, <2>1 DEF CycleInv, Cycling, Busy
    <3>5. LineCost(k, b) \in Nat /\ LineCost(k, b) >= MaxAttempts
      <4>1. k + b > 0
        BY <3>4, LineProperties
      <4>2. CASE k > 0
        <5>1. LineCost(k, b) \in Nat /\ LineCost(k, b) = LineCost(k - 1, b) + MaxAttempts
          BY <4>2, CostOfLine
        <5>2. k - 1 \in Nat
          BY <4>2
        <5>3. LineCost(k - 1, b) \in Nat
          BY <5>2, CostOfLine
        <5> QED BY <5>1, <5>3, YahooConstants
      <4>3. CASE k = 0 /\ b > 0
        <5>1. LineCost(k, b) \in Nat /\ LineCost(0, b - 1) + MaxAttempts <= LineCost(0, b)
          BY <4>3, CostOfLine, YahooConstants
        <5>2. b - 1 \in Nat
          BY <4>3
        <5>3. LineCost(0, b - 1) \in Nat
          BY <5>2, CostOfLine
        <5> QED BY <4>3, <5>1, <5>3, YahooConstants
      <4> QED BY <4>1, <4>2, <4>3
    <3>6. spent' <= CycleCost
      <4>1. CycleCost \in Nat /\ MaxAttempts \in Nat
        BY YahooConstants, CostOfLine
      <4> QED BY <3>1, <3>2, <3>3, <3>4, <3>5, <4>1
    <3> QED BY <1>0, <1>1, <2>1, <3>1, <3>3, <3>6, CycleProceeds DEF Busy
  <2>2. CASE c # "poll"
    BY <1>0, <1>1, <2>2, CycleKept, YahooConstants DEF YahooTypes, Goes
  <2> QED BY <2>1, <2>2
<1> QED BY <1>2, <1>3, <1>4 DEF YahooInv

(* The ceiling holds of every cooldown that is asked for.                  *)
LEMMA PenaltyBounded ==
  ASSUME cooling \in 0..CooldownMax, NEW asked \in RetryAfters, NEW n \in Nat \ {0}
  PROVE  Penalize(asked, n) \in 0..CooldownMax
<1> DEFINE d == IF asked > 0 THEN asked ELSE Cooldown * 2 ^ (n - 1)
           m == Min({d, CooldownMax})
<1>1. d \in Nat
  <2> DEFINE p == 2 ^ (n - 1)
  <2>1. p \in Nat
    BY PowerDoubles
  <2> HIDE DEF p
  <2>2. Cooldown * p \in Nat /\ asked \in Nat
    BY <2>1, YahooConstants
  <2> QED BY <2>2 DEF p
<1>2. Penalize(asked, n) = Max({cooling, m})
  BY DEF Penalize
<1> HIDE DEF d
<1>3. m = (IF d <= CooldownMax THEN d ELSE CooldownMax)
  BY <1>1, MinOfTwo, YahooConstants
<1> HIDE DEF m
<1>4. m \in 0..CooldownMax
  BY <1>1, <1>3, YahooConstants
<1>5. Max({cooling, m}) = IF cooling >= m THEN cooling ELSE m
  BY <1>4, MaxOfTwo
<1> QED BY <1>2, <1>4, <1>5

(* The outcome of a request that is over leaves one less in the line.      *)
LEMMA OverKeepsCycle ==
  ASSUME YahooTypes, CycleInv, at["poll"] = "flying", NEW outcome, Over("poll", outcome),
         spent' = spent
  PROVE  CycleInv'
<1>1. /\ todo["poll"] # <<>> /\ spent <= CycleCost /\ spent \in Nat
      /\ attempt["poll"] \in 1..MaxAttempts /\ Tried = attempt["poll"]
      /\ "poll" \in Callers
  BY YahooConstants DEF CycleInv, Busy, YahooTypes, Tried
<1>2. PICK c \in Nat, b \in Nat :
        todo["poll"] = Line(c, b) /\ spent - Tried + LineCost(c, b) <= CycleCost
  BY DEF CycleInv, Cycling, Busy
<1>3. at'["poll"] = "next" /\ attempt'["poll"] = 1
  BY <1>1 DEF Over, Goes, YahooTypes
<1> DEFINE rest == Tail(Line(c, b))
<1> DEFINE lost == outcome \notin {"ok", "empty"}
<1>4. todo'["poll"] = IF Head(Line(c, b)) = "batch" /\ lost THEN Fallback(rest) ELSE rest
  BY <1>1, <1>2 DEF Over, YahooTypes
<1> HIDE DEF lost
<1>5. PICK k \in Nat, n \in Nat :
        todo'["poll"] = Line(k, n) /\ LineCost(k, n) + MaxAttempts <= LineCost(c, b)
  <2>1. CASE c > 0 /\ Head(Line(c, b)) = "chart" /\ Tail(Line(c, b)) = Line(c - 1, b)
    <3>0. rest = Line(c - 1, b) /\ Head(Line(c, b)) # "batch"
      BY <2>1
    <3> HIDE DEF rest
    <3>1. c - 1 \in Nat /\ todo'["poll"] = Line(c - 1, b)
      BY <1>4, <2>1, <3>0
    <3>2. LineCost(c, b) = LineCost(c - 1, b) + MaxAttempts /\ LineCost(c - 1, b) \in Nat
      BY <2>1, <3>1, CostOfLine
    <3>3. LineCost(c - 1, b) + MaxAttempts <= LineCost(c, b)
      BY <3>2, YahooConstants
    <3> QED BY <3>1, <3>3
  <2>2. CASE c = 0 /\ b > 0 /\ Head(Line(c, b)) = "batch" /\ Tail(Line(c, b)) = Line(0, b - 1)
    <3>1. b - 1 \in Nat
      BY <2>2
    <3>2. PICK k \in 0..MaxChartFallbacks : Fallback(Line(0, b - 1)) = Line(k, b - 1)
      BY <3>1, FallbackLine
    <3>3. PICK j \in 0..MaxChartFallbacks : todo'["poll"] = Line(j, b - 1)
      <4>1. 0 \in 0..MaxChartFallbacks
        BY YahooConstants
      <4> QED BY <1>4, <2>2, <3>2, <4>1
    <3>4. LineCost(j, b - 1) + MaxAttempts <= LineCost(0, b)
      BY <2>2, CostOfLine
    <3>5. j \in Nat
      BY YahooConstants
    <3> QED BY <2>2, <3>1, <3>3, <3>4, <3>5
  <2> QED BY <1>1, <1>2, <2>1, <2>2, LineHeadTail
<1>6. spent' - 0 + LineCost(k, n) <= CycleCost
  <2>1. LineCost(k, n) \in Nat /\ LineCost(c, b) \in Nat /\ CycleCost \in Nat
    <3>1. LineCost(0, Batches) \in Nat /\ LineCost(0, Batches) = CycleCost
      BY CostOfLine, YahooConstants
    <3> QED BY <3>1, CostOfLine
  <2> QED BY <1>1, <1>2, <1>5, <2>1, YahooConstants
<1>7. Tried' = 0
  BY <1>3 DEF Tried
<1>8. \E i \in Nat, j \in Nat : todo'["poll"] = Line(i, j) /\ spent' - Tried' + LineCost(i, j) <= CycleCost
  BY <1>5, <1>6, <1>7
<1> QED BY <1>1, <1>3, <1>8 DEF CycleInv, Busy, Line, LineCost, BatchCost, CycleCost

LEMMA AnswerKeepsYahoo ==
  ASSUME YahooInv, NEW c \in Callers, NEW outcome \in Outcomes, Answer(c, outcome)
  PROVE  YahooInv'
<1>0. YahooTypes /\ ClientConsistent /\ CycleInv
  BY DEF YahooInv
<1>1. at[c] = "flying" /\ attempt[c] \in 1..MaxAttempts /\ UNCHANGED <<fetcher, crumbs, tokens, spent>>
  BY <1>0 DEF Answer, YahooTypes
<1>2. cooling' \in 0..CooldownMax
  <2>1. CASE outcome = "limited"
    <3>1. PICK asked \in RetryAfters : cooling' = Penalize(asked, attempt[c])
      BY <2>1 DEF Answer
    <3> QED BY <1>0, <1>1, <3>1, PenaltyBounded DEF YahooTypes
  <2>2. CASE outcome # "limited"
    BY <1>0, <2>2 DEF Answer, YahooTypes
  <2> QED BY <2>1, <2>2
<1>3. CASE TriesAgain(c, outcome)
  <2>1. /\ Goes(c, "asleep") /\ attempt' = [attempt EXCEPT ![c] = @ + 1] /\ attempt[c] < MaxAttempts
        /\ UNCHANGED <<todo, crumb, healthy, failures, yahooCh>>
    BY <1>3 DEF Answer, TriesAgain, healthVars
  <2>2. YahooTypes'
    <3>1. at' \in [Callers -> Places]
      BY <1>0, <2>1 DEF YahooTypes, Goes, Places
    <3>2. attempt' \in [Callers -> 1..MaxAttempts]
      <4>1. attempt[c] + 1 \in 1..MaxAttempts
        BY <1>1, <2>1, YahooConstants
      <4> QED BY <1>0, <2>1, <4>1 DEF YahooTypes
    <3> QED BY <1>0, <1>1, <1>2, <2>1, <3>1, <3>2 DEF YahooTypes
  <2>3. ClientConsistent'
    BY <1>0, <1>1, <1>2, <2>1, ClientMoves DEF ClientConsistent
  <2>4. CycleInv'
    <3>1. CASE c = "poll"
      <4>1. at'["poll"] = "asleep" /\ attempt'["poll"] = attempt["poll"] + 1 /\ attempt["poll"] \in Nat
        BY <1>0, <1>1, <2>1, <3>1 DEF YahooTypes, Goes
      <4>2. Tried' = Tried
        BY <1>1, <3>1, <4>1 DEF Tried
      <4> QED BY <1>0, <1>1, <2>1, <3>1, <4>1, <4>2, CycleProceeds DEF Busy, YahooTypes, CycleInv
    <3>2. CASE c # "poll"
      BY <1>0, <1>1, <2>1, <3>2, CycleKept, YahooConstants DEF YahooTypes, Goes
    <3> QED BY <3>1, <3>2
  <2> QED BY <2>2, <2>3, <2>4 DEF YahooInv
<1>4. CASE ~TriesAgain(c, outcome)
  <2>1. Over(c, outcome)
    BY <1>4 DEF Answer
  <2>2. \/ MarkHealthy(c) \/ MarkFailure(c) \/ UNCHANGED healthVars
    BY <1>4 DEF Answer
  <2>3. /\ healthy' \in BOOLEAN /\ failures' \in 0..UnhealthyAfter /\ yahooCh' = yahooCh
        /\ healthy' <=> failures' < UnhealthyAfter
    <3>1. CASE MarkHealthy(c)
      BY <3>1, YahooConstants DEF MarkHealthy
    <3>2. CASE MarkFailure(c)
      <4>1. failures' = IF failures + 1 <= UnhealthyAfter THEN failures + 1 ELSE UnhealthyAfter
        <5>1. failures' = Min({failures + 1, UnhealthyAfter})
          BY <3>2 DEF MarkFailure
        <5>2. failures + 1 \in Int /\ UnhealthyAfter \in Int
          BY <1>0, YahooConstants DEF YahooTypes
        <5> QED BY <5>1, <5>2, MinOfTwo
      <4>2. healthy' = (healthy /\ failures' < UnhealthyAfter) /\ yahooCh' = yahooCh
        BY <3>2 DEF MarkFailure
      <4>0. failures \in 0..UnhealthyAfter /\ UnhealthyAfter \in Nat
        BY <1>0, YahooConstants DEF YahooTypes
      <4>3. failures' \in 0..UnhealthyAfter
        BY <4>0, <4>1
      <4>4. failures' < UnhealthyAfter => failures < UnhealthyAfter
        BY <4>0, <4>1
      <4> QED BY <1>0, <4>2, <4>3, <4>4 DEF ClientConsistent
    <3>3. CASE UNCHANGED healthVars
      BY <1>0, <3>3 DEF healthVars, YahooTypes, ClientConsistent
    <3> QED BY <2>2, <3>1, <3>2, <3>3
  <2>4. /\ Goes(c, "next") /\ attempt' = [attempt EXCEPT ![c] = 1] /\ crumb' \in {crumb, 0}
        /\ todo' = [todo EXCEPT ![c] = IF Head(@) = "batch" /\ outcome \notin {"ok", "empty"}
                                       THEN Fallback(Tail(todo[c])) ELSE Tail(todo[c])]
    BY <2>1 DEF Over
  <2>5. YahooTypes'
    <3>1. todo' = [k \in Callers |-> todo'[k]]
      BY <1>0, <2>4 DEF YahooTypes
    <3>0. /\ at \in [Callers -> Places] /\ attempt \in [Callers -> 1..MaxAttempts]
          /\ 1 \in 1..MaxAttempts /\ "next" \in Places
      BY <1>0, YahooConstants DEF YahooTypes, Places
    <3>2. at' \in [Callers -> Places] /\ attempt' \in [Callers -> 1..MaxAttempts]
      BY <2>4, <3>0 DEF Goes
    <3>3. crumb' \in 0..crumbs
      BY <1>0, <2>4 DEF YahooTypes
    <3> QED BY <1>0, <1>1, <1>2, <2>3, <3>1, <3>2, <3>3 DEF YahooTypes
  <2>6. ClientConsistent'
    BY <1>0, <1>1, <1>2, <2>3, <2>4, ClientMoves
  <2>7. CycleInv'
    <3>1. CASE c = "poll"
      BY <1>0, <1>1, <2>1, <3>1, OverKeepsCycle
    <3>2. CASE c # "poll"
      BY <1>0, <1>1, <2>4, <3>2, CycleKept, YahooConstants DEF YahooTypes, Goes
    <3> QED BY <3>1, <3>2
  <2> QED BY <2>5, <2>6, <2>7 DEF YahooInv
<1> QED BY <1>3, <1>4

(* A change of health on its way to the screen.                            *)
LEMMA ReportKeepsYahoo ==
  ASSUME YahooInv,
         \/ \E c \in Callers : Report(c)
         \/ PumpYahooStatus
         \/ UNCHANGED <<callVars, sessionMuVars, gateVars, healthVars, spent>>
  PROVE  YahooInv'
<1>0. YahooTypes /\ ClientConsistent /\ CycleInv
  BY DEF YahooInv
<1>1. /\ UNCHANGED <<at, todo, attempt, fetcher, crumb, crumbs, cooling, tokens, healthy, failures, spent>>
      /\ \/ yahooCh' = yahooCh \/ yahooCh' = <<>>
         \/ \E c \in Callers : yahooCh' = <<report[c]>>
  BY DEF Report, PumpYahooStatus, callVars, sessionMuVars, gateVars, healthVars, boundVars
<1>2. Len(yahooCh') <= 1
  <2>1. Len(<<>>) <= 1 /\ \A x : Len(<<x>>) <= 1
    OBVIOUS
  <2> QED BY <1>0, <1>1, <2>1 DEF YahooTypes
<1>3. YahooTypes'
  BY <1>0, <1>1, <1>2 DEF YahooTypes
<1>4. ClientConsistent'
  BY <1>0, <1>1, ClientKept DEF ClientConsistent
<1>5. CycleInv'
  BY <1>0, <1>1, CycleKept
<1> QED BY <1>3, <1>4, <1>5 DEF YahooInv

LEMMA ContinueKeepsYahoo ==
  ASSUME YahooInv, NEW c \in Callers, Continue(c)
  PROVE  YahooInv'
<1>0. YahooTypes /\ ClientConsistent /\ CycleInv
  BY DEF YahooInv
<1>1. /\ at[c] = "next" /\ Goes(c, IF todo[c] = <<>> THEN "idle" ELSE "gate")
      /\ UNCHANGED <<todo, attempt, fetcher, crumb, crumbs, cooling, tokens, healthy, failures, yahooCh,
                     spent>>
  BY DEF Continue, sessionMuVars, gateVars, healthVars, boundVars
<1>2. YahooTypes'
  BY <1>0, <1>1 DEF YahooTypes, Goes, Places
<1>3. ClientConsistent'
  BY <1>0, <1>1, ClientMoves DEF ClientConsistent
<1>4. CycleInv'
  <2>1. CASE c # "poll"
    BY <1>0, <1>1, <2>1, CycleKept, YahooConstants DEF YahooTypes, Goes
  <2>2. CASE todo[c] = <<>>
    BY <1>0, <1>1, <2>2, CycleAway DEF Places, Cycling, Busy
  <2>3. CASE c = "poll" /\ todo[c] # <<>>
    <3>1. at'["poll"] = "gate" /\ attempt["poll"] = 1
      BY <1>0, <1>1, <2>3 DEF YahooTypes, Goes, CycleInv
    <3>2. Tried' = 0 /\ Tried = 0
      BY <1>1, <2>3, <3>1 DEF Tried
    <3>3. PICK k \in Nat, b \in Nat :
            todo["poll"] = Line(k, b) /\ spent - Tried + LineCost(k, b) <= CycleCost
      BY <1>0, <1>1, <2>3 DEF CycleInv, Cycling
    <3>4. spent' - Tried' + LineCost(k, b) <= CycleCost
      BY <1>1, <3>2, <3>3
    <3>5. \E i \in Nat, j \in Nat : todo'["poll"] = Line(i, j) /\ spent' - Tried' + LineCost(i, j) <= CycleCost
      BY <1>1, <3>3, <3>4
    <3> QED BY <1>0, <1>1, <2>3, <3>1, <3>5 DEF CycleInv, Busy, Line, LineCost, BatchCost, CycleCost
  <2> QED BY <2>1, <2>2, <2>3
<1> QED BY <1>2, <1>3, <1>4 DEF YahooInv

(* A cycle or a chart begins, or a caller stops: none is in a request.     *)
LEMMA OutsideKeepsYahoo ==
  ASSUME YahooInv, NEW c \in Callers, NEW place \in {"begin", "lock", "ended"}, Goes(c, place),
         at[c] \in {"idle", "lock", "begin", "gate", "token", "asleep", "next"},
         UNCHANGED <<todo, attempt, sessionMuVars, gateVars, healthVars, spent>>
  PROVE  YahooInv'
<1>0. YahooTypes /\ ClientConsistent /\ CycleInv
  BY DEF YahooInv
<1>1. UNCHANGED <<todo, attempt, fetcher, crumb, crumbs, cooling, tokens, healthy, failures, yahooCh, spent>>
  BY DEF sessionMuVars, gateVars, healthVars
<1>2. YahooTypes'
  BY <1>0, <1>1 DEF YahooTypes, Goes, Places
<1>3. ClientConsistent'
  BY <1>0, <1>1, ClientMoves DEF ClientConsistent
<1>4. CycleInv'
  BY <1>0, <1>1, CycleAway DEF Places, Cycling, Busy
<1> QED BY <1>2, <1>3, <1>4 DEF YahooInv

LEMMA YahooTickKeepsYahoo ==
  ASSUME YahooInv, YahooTick
  PROVE  YahooInv'
<1>0. YahooTypes /\ ClientConsistent /\ CycleInv
  BY DEF YahooInv
<1>1. /\ cooling' = (IF cooling > 0 THEN cooling - 1 ELSE 0) /\ tokens' = Min({tokens + 1, Burst})
      /\ UNCHANGED <<at, todo, attempt, fetcher, crumb, crumbs, healthy, failures, yahooCh, spent>>
  BY DEF YahooTick, sessionMuVars, healthVars
<1>2. cooling' \in 0..CooldownMax
  BY <1>0, <1>1, YahooConstants DEF YahooTypes
<1>3. tokens' \in 0..Burst
  <2>1. tokens + 1 \in Int /\ Burst \in Int
    BY <1>0, YahooConstants DEF YahooTypes
  <2>2. tokens' = IF tokens + 1 <= Burst THEN tokens + 1 ELSE Burst
    BY <1>1, <2>1, MinOfTwo
  <2> QED BY <1>0, <2>2, YahooConstants DEF YahooTypes
<1>4. YahooTypes'
  BY <1>0, <1>1, <1>2, <1>3 DEF YahooTypes
<1>5. ClientConsistent'
  BY <1>0, <1>1, <1>2, ClientKept DEF ClientConsistent
<1>6. CycleInv'
  BY <1>0, <1>1, CycleKept
<1> QED BY <1>4, <1>5, <1>6 DEF YahooInv

(***************************************************************************)
(* The book: what is under way is what the server did next.                *)
(***************************************************************************)
Changes(a, b) ==
  {[level |-> l, size |-> b[l]] : l \in {x \in Sides \X Prices : b[x] # a[x]}}
Entries == [level : Sides \X Prices, size : Sizes \cup {0}]
Messages == [seq : Nat \ {0}, type : {"snapshot", "update"}, updates : SUBSET Entries]
BookViews == [seq : Nat \ {0}, levels : Book]

BookTypes ==
  /\ served \in Seq(Book) /\ served # <<>>
  /\ told \in 0..Len(served)
  /\ transit \in Seq(Messages)
  /\ lastSeq \in 0..Len(served)
  /\ bookCh \in Seq(BookViews) /\ shown \in BookViews \cup {NoBook}

(* The number read last before the i-th message under way is read.         *)
ReadBefore(i, msgs, before) == IF i = 1 THEN before ELSE msgs[i - 1].seq

(* What a message says of the server's books, to a reader at the one before. *)
Carries(msg, before, books) ==
  /\ msg.seq <= Len(books)
  /\ msg.type = "snapshot" => msg.updates = Levels(books[msg.seq])
  /\ msg.type = "update" =>
       before # 0 /\ msg.seq = before + 1 /\ msg.updates = Changes(books[before], books[msg.seq])

InStep ==
  /\ book = IF lastSeq = 0 THEN NoLevels ELSE served[lastSeq]
  /\ \A i \in 1..Len(transit) : Carries(transit[i], ReadBefore(i, transit, lastSeq), served)
  /\ told = ReadBefore(Len(transit) + 1, transit, lastSeq)

ViewServed(v) == v.seq <= Len(served) /\ v.levels = served[v.seq]
ViewsServed ==
  /\ \A i \in 1..Len(bookCh) : ViewServed(bookCh[i])
  /\ shown # NoBook => ViewServed(shown)

BookInv == BookTypes /\ InStep /\ ViewsServed

LEMMA LeastSize ==
  Min(Sizes) \in Sizes
<1>1. \E x \in Sizes : \A y \in Sizes : ~ (<<y, x>> \in OpToRel(<, Nat))
  <2>1. Sizes \subseteq Nat /\ Sizes # {}
    BY BookAssumption
  <2> QED BY <2>1, NatLessThanWellFounded, WFMin
<1>2. PICK x \in Sizes : \A y \in Sizes : ~ (<<y, x>> \in OpToRel(<, Nat))
  BY <1>1
<1>3. \A y \in Sizes : x <= y
  <2>1. Sizes \subseteq Nat
    BY BookAssumption
  <2>2. ASSUME NEW y \in Sizes PROVE x <= y
    <3>1. ~ (<<y, x>> \in OpToRel(<, Nat)) /\ x \in Nat /\ y \in Nat
      BY <1>2, <2>1
    <3>2. ~ (y < x)
      BY <3>1 DEF OpToRel
    <3>3. x \in Nat /\ y \in Nat
      BY <2>1
    <3> QED BY <3>2, <3>3
  <2> QED BY <2>2
<1> QED BY <1>3 DEF Min

LEMMA BookConstants ==
  /\ Sizes \subseteq Nat \ {0} /\ Sizes # {} /\ BookDepth \in Nat /\ Throttle \in Nat
  /\ NoLevels \in Book /\ 0 \in Sizes \cup {0}
BY BookAssumption DEF NoLevels, Book

SizesFor(updates, l) == {u.size : u \in {x \in updates : x.level = l}}

LEMMA ChooseOnly ==
  ASSUME NEW n
  PROVE  (CHOOSE m \in {n} : TRUE) = n
OBVIOUS

(* A snapshot applied to any book is the server's.                         *)
LEMMA SnapshotApplies ==
  ASSUME NEW b, NEW s \in Book, NEW msg, msg.type = "snapshot", msg.updates = Levels(s)
  PROVE  ApplyL2(b, msg) = s
<1>1. ApplyL2(b, msg) =
        [l \in Sides \X Prices |->
           IF SizesFor(msg.updates, l) = {} THEN NoLevels[l]
           ELSE CHOOSE n \in SizesFor(msg.updates, l) : TRUE]
  BY DEF ApplyL2, SizesFor
<1>2. ASSUME NEW l \in Sides \X Prices
      PROVE  (IF SizesFor(msg.updates, l) = {} THEN NoLevels[l]
              ELSE CHOOSE n \in SizesFor(msg.updates, l) : TRUE) = s[l]
  <2>1. CASE s[l] = 0
    <3>1. SizesFor(msg.updates, l) = {}
      BY <2>1 DEF SizesFor, Levels
    <3> QED BY <2>1, <3>1 DEF NoLevels
  <2>2. CASE s[l] # 0
    <3>1. SizesFor(msg.updates, l) = {s[l]}
      <4>1. [level |-> l, size |-> s[l]] \in msg.updates
        BY <2>2 DEF Levels
      <4>2. \A u \in msg.updates : u.level = l => u.size = s[l]
        BY DEF Levels
      <4> QED BY <4>1, <4>2 DEF SizesFor
    <3> QED BY <3>1, ChooseOnly
  <2> QED BY <2>1, <2>2
<1>3. ApplyL2(b, msg) = [l \in Sides \X Prices |-> s[l]]
  BY <1>1, <1>2
<1> QED BY <1>3 DEF Book

(* The server's next changes applied to its book are its next book.        *)
LEMMA ChangesApply ==
  ASSUME NEW b \in Book, NEW s \in Book,
         NEW msg, msg.type = "update", msg.updates = Changes(b, s)
  PROVE  ApplyL2(b, msg) = s
<1>1. msg.updates = {[level |-> l, size |-> s[l]] : l \in {x \in Sides \X Prices : s[x] # b[x]}}
  BY DEF Changes
<1>2. ApplyL2(b, msg) =
        [l \in Sides \X Prices |->
           IF SizesFor(msg.updates, l) = {} THEN b[l]
           ELSE CHOOSE m \in SizesFor(msg.updates, l) : TRUE]
  BY DEF ApplyL2, SizesFor
<1>3. ASSUME NEW l \in Sides \X Prices
      PROVE  (IF SizesFor(msg.updates, l) = {} THEN b[l]
              ELSE CHOOSE m \in SizesFor(msg.updates, l) : TRUE) = s[l]
  <2>1. CASE s[l] = b[l]
    <3>1. SizesFor(msg.updates, l) = {}
      BY <1>1, <2>1 DEF SizesFor
    <3> QED BY <2>1, <3>1
  <2>2. CASE s[l] # b[l]
    <3>1. SizesFor(msg.updates, l) = {s[l]}
      <4>1. [level |-> l, size |-> s[l]] \in msg.updates
        BY <1>1, <2>2
      <4>2. \A u \in msg.updates : u.level = l => u.size = s[l]
        BY <1>1
      <4> QED BY <4>1, <4>2 DEF SizesFor
    <3> QED BY <3>1, ChooseOnly
  <2> QED BY <2>1, <2>2
<1>4. ApplyL2(b, msg) = [l \in Sides \X Prices |-> s[l]]
  BY <1>2, <1>3
<1> QED BY <1>4 DEF Book

(* What messages and views say of the books so far stays true of more.     *)
LEMMA MoreBooks ==
  ASSUME NEW s \in Seq(Book), NEW x \in Book
  PROVE  /\ \A msg \in Messages, before \in Nat :
              Carries(msg, before, s) => Carries(msg, before, Append(s, x))
         /\ \A v \in BookViews :
              v.seq <= Len(s) /\ v.levels = s[v.seq] =>
                v.seq <= Len(Append(s, x)) /\ v.levels = Append(s, x)[v.seq]
<1> DEFINE t == Append(s, x)
<1>1. Len(s) \in Nat /\ Len(t) = Len(s) + 1 /\ \A i \in 1..Len(s) : t[i] = s[i]
  BY AppendProperties, LenProperties
<1> HIDE DEF t
<1>2. ASSUME NEW msg \in Messages, NEW before \in Nat, Carries(msg, before, s)
      PROVE  Carries(msg, before, t)
  <2>1. msg.seq \in 1..Len(s) /\ t[msg.seq] = s[msg.seq] /\ msg.seq <= Len(t)
    BY <1>1, <1>2 DEF Carries, Messages
  <2>2. msg.type = "update" => before \in 1..Len(s) /\ t[before] = s[before]
    BY <1>1, <1>2, <2>1 DEF Carries
  <2> QED BY <1>2, <2>1, <2>2 DEF Carries
<1>3. ASSUME NEW v \in BookViews, v.seq <= Len(s), v.levels = s[v.seq]
      PROVE  v.seq <= Len(t) /\ v.levels = t[v.seq]
  <2>1. v.seq \in 1..Len(s)
    BY <1>1, <1>3 DEF BookViews
  <2> QED BY <1>1, <1>3, <2>1
<1> QED BY <1>2, <1>3 DEF t

LEMMA BookFromInvariant ==
  BookInv => BookIsServers
<1> SUFFICES ASSUME BookInv, NEW b \in (ToSet(bookCh) \cup {shown}) \ {NoBook}
             PROVE  b.seq \in 1..Len(served) /\ b.levels = served[b.seq]
  BY DEF BookIsServers
<1>0. BookTypes /\ ViewsServed
  BY DEF BookInv
<1>1. Len(served) \in Nat
  BY <1>0, LenProperties DEF BookTypes
<1>2. b \in BookViews /\ ViewServed(b)
  <2>1. CASE b = shown
    BY <1>0, <2>1 DEF BookTypes, ViewsServed
  <2>2. CASE b \in ToSet(bookCh)
    <3>1. PICK i \in 1..Len(bookCh) : b = bookCh[i]
      BY <1>0, <2>2, LenProperties DEF ToSet, BookTypes
    <3> QED BY <1>0, <3>1, ElementOfSeq DEF BookTypes, ViewsServed
  <2> QED BY <2>1, <2>2
<1> QED BY <1>1, <1>2 DEF BookViews, ViewServed

(* What is under way is in step when what is left alone is.                *)
LEMMA OtherwiseBookKept ==
  ASSUME BookInv, UNCHANGED <<served, told, transit, book, lastSeq, bookCh, shown>>
  PROVE  BookInv'
BY DEF BookInv, BookTypes, InStep, Carries, ReadBefore, Changes, ViewsServed, ViewServed, Levels,
       NoBook, BookViews, Book, NoLevels, Messages, Entries

LEMMA InitBookInv ==
  ASSUME BookInit
  PROVE  BookInv
<1> DEFINE first == [level \in Sides \X Prices |-> Min(Sizes)]
<1>1. first \in Book
  BY LeastSize DEF Book
<1>2. served = <<first>>
  BY DEF BookInit
<1> HIDE DEF first
<1>3. served \in Seq(Book) /\ served # <<>> /\ Len(served) = 1
  BY <1>1, <1>2
<1>4. /\ told = 0 /\ transit = <<>> /\ book = NoLevels /\ lastSeq = 0 /\ bookCh = <<>>
      /\ shown = NoBook
  BY DEF BookInit, Unseen
<1>5. BookTypes
  BY <1>3, <1>4, EmptySeq DEF BookTypes
<1>6. Len(transit) = 0 /\ Len(bookCh) = 0
  BY <1>4, EmptySeq
<1>7. InStep
  BY <1>4, <1>6 DEF InStep, ReadBefore
<1>8. ViewsServed
  BY <1>4, <1>6 DEF ViewsServed
<1> QED BY <1>5, <1>7, <1>8 DEF BookInv

LEMMA ReadBeforeType ==
  ASSUME BookTypes, NEW i \in 1..(Len(transit) + 1)
  PROVE  ReadBefore(i, transit, lastSeq) \in Nat
<1>1. Len(transit) \in Nat /\ Len(served) \in Nat
  BY LenProperties DEF BookTypes
<1>2. CASE i = 1
  BY <1>1, <1>2 DEF ReadBefore, BookTypes
<1>3. CASE i # 1
  <2>1. i - 1 \in 1..Len(transit)
    BY <1>1, <1>3
  <2>2. transit[i - 1] \in Messages
    BY <2>1, ElementOfSeq DEF BookTypes
  <2> QED BY <1>3, <2>2 DEF ReadBefore, Messages
<1> QED BY <1>2, <1>3

(* One more change leaves the earlier books as they were.                  *)
LEMMA TradeKeepsBook ==
  ASSUME BookInv, Trade
  PROVE  BookInv'
<1>0. BookTypes /\ InStep /\ ViewsServed
  BY DEF BookInv
<1>1. PICK level \in Sides \X Prices : \E size \in Sizes \cup {0} :
        served' = Append(served, [Last(served) EXCEPT ![level] = size])
  BY DEF Trade
<1>2. PICK size \in Sizes \cup {0} :
        served' = Append(served, [Last(served) EXCEPT ![level] = size])
  BY <1>1
<1> DEFINE next == [Last(served) EXCEPT ![level] = size]
<1>3. Len(served) \in Nat /\ Len(served) > 0 /\ Last(served) \in Book
  <2>1. Len(served) \in Nat /\ Len(served) > 0
    BY <1>0, EmptySeq DEF BookTypes
  <2> QED BY <1>0, <2>1, ElementOfSeq DEF BookTypes, Last
<1>4. next \in Book
  BY <1>3 DEF Book
<1>5. served' = Append(served, next)
  BY <1>2
<1> HIDE DEF next
<1>6. /\ served' \in Seq(Book) /\ served' # <<>> /\ Len(served') = Len(served) + 1
      /\ \A i \in 1..Len(served) : served'[i] = served[i]
  BY <1>0, <1>4, <1>5, AppendProperties DEF BookTypes
<1>7. UNCHANGED <<told, transit, book, lastSeq, bookCh, shown>>
  BY DEF Trade
<1>8. BookTypes'
  BY <1>0, <1>3, <1>6, <1>7 DEF BookTypes, Messages, Entries, BookViews, Book, NoBook, NoLevels
<1>10. ASSUME NEW i \in 1..Len(transit)
       PROVE  Carries(transit[i], ReadBefore(i, transit, lastSeq), served')
  <2>1. Carries(transit[i], ReadBefore(i, transit, lastSeq), served) /\ transit[i] \in Messages
    BY <1>0, ElementOfSeq DEF InStep, BookTypes
  <2>2. ReadBefore(i, transit, lastSeq) \in Nat
    BY <1>0, ReadBeforeType, LenProperties DEF BookTypes
  <2> QED BY <1>0, <1>4, <1>5, <2>1, <2>2, MoreBooks DEF BookTypes
<1>11. InStep'
  <2>1. Len(transit) \in Nat /\ lastSeq \in 0..Len(served)
    BY <1>0, LenProperties DEF BookTypes
  <2>2. book' = IF lastSeq' = 0 THEN NoLevels ELSE served'[lastSeq']
    BY <1>0, <1>3, <1>6, <1>7, <2>1 DEF InStep
  <2>3. told' = ReadBefore(Len(transit') + 1, transit', lastSeq')
    BY <1>0, <1>7 DEF InStep
  <2>4. \A i \in 1..Len(transit') : Carries(transit'[i], ReadBefore(i, transit', lastSeq'), served')
    BY <1>7, <1>10
  <2> QED BY <2>2, <2>3, <2>4 DEF InStep
<1>12. ViewsServed'
  <2>1. \A i \in 1..Len(bookCh) : bookCh[i] \in BookViews
    BY <1>0, ElementOfSeq DEF BookTypes
  <2>2. shown # NoBook => shown \in BookViews
    BY <1>0 DEF BookTypes
  <2>3. NoBook' = NoBook
    BY DEF NoBook, NoLevels
  <2> QED BY <1>0, <1>4, <1>5, <1>7, <2>1, <2>2, <2>3, MoreBooks DEF ViewsServed, ViewServed, BookTypes
<1> QED BY <1>8, <1>11, <1>12 DEF BookInv

LEMMA ReadBeforeAppend ==
  ASSUME NEW s \in Seq(Messages), NEW m \in Messages, NEW before
  PROVE  /\ \A i \in 1..(Len(s) + 1) : ReadBefore(i, Append(s, m), before) = ReadBefore(i, s, before)
         /\ ReadBefore(Len(s) + 2, Append(s, m), before) = m.seq
<1> DEFINE t == Append(s, m)
<1>1. /\ Len(s) \in Nat /\ \A i \in 1..Len(s) : t[i] = s[i]
      /\ t[Len(s) + 1] = m
  BY AppendProperties, LenProperties
<1> HIDE DEF t
<1>2. ASSUME NEW i \in 1..(Len(s) + 1) PROVE ReadBefore(i, t, before) = ReadBefore(i, s, before)
  <2>1. CASE i = 1
    BY <2>1 DEF ReadBefore
  <2>2. CASE i # 1
    <3>1. i - 1 \in 1..Len(s)
      BY <1>1, <2>2
    <3> QED BY <1>1, <2>2, <3>1 DEF ReadBefore
  <2> QED BY <2>1, <2>2
<1>3. ReadBefore(Len(s) + 2, t, before) = m.seq
  <2>1. Len(s) + 2 # 1 /\ Len(s) + 2 - 1 = Len(s) + 1
    BY <1>1
  <2> QED BY <1>1, <2>1 DEF ReadBefore
<1> QED BY <1>2, <1>3 DEF t

LEMMA ReadBeforeTail ==
  ASSUME NEW s \in Seq(Messages), s # <<>>, NEW before
  PROVE  \A i \in 1..Len(s) :
           ReadBefore(i, Tail(s), Head(s).seq) = ReadBefore(i + 1, s, before)
<1> DEFINE t == Tail(s)
<1>1. /\ Len(s) \in Nat /\ Len(t) = Len(s) - 1 /\ \A i \in 1..Len(t) : t[i] = s[i + 1]
      /\ Head(s) = s[1]
  BY HeadTailProperties, LenProperties
<1> HIDE DEF t
<1>2. ASSUME NEW i \in 1..Len(s) PROVE ReadBefore(i, t, s[1].seq) = ReadBefore(i + 1, s, before)
  <2>0. i + 1 # 1 /\ (i + 1) - 1 = i
    OBVIOUS
  <2>1. CASE i = 1
    BY <2>0, <2>1 DEF ReadBefore
  <2>2. CASE i # 1
    <3>1. i - 1 \in 1..Len(t) /\ (i - 1) + 1 = i
      BY <1>1, <2>2
    <3>2. t[i - 1] = s[i]
      BY <1>1, <3>1
    <3> QED BY <2>0, <2>2, <3>2 DEF ReadBefore
  <2> QED BY <2>1, <2>2
<1> QED BY <1>1, <1>2 DEF t

(* The server tells a session of its next change, or of all of its book.   *)
LEMMA TellKeepsBook ==
  ASSUME BookInv, Tell
  PROVE  BookInv'
<1>0. BookTypes /\ InStep /\ ViewsServed
  BY DEF BookInv
<1>1. /\ Len(served) \in Nat /\ Len(transit) \in Nat /\ Len(served) > 0
      /\ told \in Nat /\ told < Len(served)
      /\ UNCHANGED <<served, book, lastSeq, bookCh, shown>>
      /\ \A i \in 1..Len(served) : served[i] \in Book
  BY <1>0, LenProperties, EmptySeq, ElementOfSeq DEF Tell, BookTypes
<1>2. PICK m : /\ m \in Messages /\ Carries(m, told, served)
               /\ transit' = Append(transit, m) /\ told' = m.seq
  <2>1. ASSUME told # Unseen, told' = told + 1,
               transit' = Append(transit, [seq |-> told + 1, type |-> "update",
                                           updates |-> Changes(served[told], served[told + 1])])
        PROVE  \E m : /\ m \in Messages /\ Carries(m, told, served)
                      /\ transit' = Append(transit, m) /\ told' = m.seq
    <3> DEFINE n == told + 1
               u == Changes(served[told], served[told + 1])
               m == [seq |-> n, type |-> "update", updates |-> u]
    <3>1. n \in Nat \ {0} /\ n <= Len(served) /\ told # 0 /\ told \in 1..Len(served) /\ n \in 1..Len(served)
      BY <1>1, <2>1 DEF Unseen
    <3>2. u \in SUBSET Entries
      BY <1>1, <3>1 DEF Changes, Entries, Book
    <3> HIDE DEF u
    <3>3. m \in Messages
      BY <3>1, <3>2 DEF Messages
    <3>4. Carries(m, told, served)
      BY <1>1, <3>1 DEF Carries, u
    <3> QED BY <2>1, <3>3, <3>4 DEF u
  <2>2. ASSUME told' = Len(served),
               transit' = Append(transit, [seq |-> Len(served), type |-> "snapshot",
                                           updates |-> Levels(Last(served))])
        PROVE  \E m : /\ m \in Messages /\ Carries(m, told, served)
                      /\ transit' = Append(transit, m) /\ told' = m.seq
    <3> DEFINE n == Len(served)
               u == Levels(Last(served))
               m == [seq |-> n, type |-> "snapshot", updates |-> u]
    <3>1. n \in Nat \ {0} /\ n \in 1..Len(served) /\ Last(served) = served[n] /\ served[n] \in Book
      BY <1>1 DEF Last
    <3>2. u \in SUBSET Entries
      BY <3>1 DEF Levels, Entries, Book
    <3>3. u = Levels(served[n])
      BY <3>1
    <3> HIDE DEF u
    <3>4. m \in Messages
      BY <3>1, <3>2 DEF Messages
    <3>5. Carries(m, told, served)
      BY <3>1, <3>3 DEF Carries
    <3> QED BY <2>2, <3>4, <3>5 DEF u
  <2>3. \/ /\ told # Unseen /\ told' = told + 1
           /\ transit' = Append(transit, [seq |-> told + 1, type |-> "update",
                                          updates |-> Changes(served[told], served[told + 1])])
        \/ /\ told' = Len(served)
           /\ transit' = Append(transit, [seq |-> Len(served), type |-> "snapshot",
                                          updates |-> Levels(Last(served))])
    BY DEF Tell, Changes
  <2> QED BY <2>1, <2>2, <2>3
<1>3. m.seq \in 1..Len(served)
  BY <1>1, <1>2 DEF Carries, Messages
<1>4. /\ transit' \in Seq(Messages) /\ Len(transit') = Len(transit) + 1
      /\ \A i \in 1..Len(transit) : transit'[i] = transit[i]
      /\ transit'[Len(transit) + 1] = m
  BY <1>0, <1>2, AppendProperties DEF BookTypes
<1>5. BookTypes'
  BY <1>0, <1>1, <1>2, <1>3, <1>4 DEF BookTypes, Messages, Entries, BookViews, Book, NoBook, NoLevels
<1>6. /\ \A i \in 1..(Len(transit) + 1) :
           ReadBefore(i, transit', lastSeq) = ReadBefore(i, transit, lastSeq)
      /\ ReadBefore(Len(transit) + 2, transit', lastSeq) = m.seq
  BY <1>0, <1>2, ReadBeforeAppend DEF BookTypes
<1>7. ASSUME NEW i \in 1..Len(transit')
      PROVE  Carries(transit'[i], ReadBefore(i, transit', lastSeq), served)
  <2>1. CASE i \in 1..Len(transit)
    BY <1>0, <1>4, <1>6, <2>1 DEF InStep
  <2>2. CASE i = Len(transit) + 1
    BY <1>0, <1>1, <1>2, <1>4, <1>6, <2>2 DEF InStep
  <2> QED BY <1>1, <1>4, <2>1, <2>2
<1>8. InStep'
  <2>1. told' = ReadBefore(Len(transit') + 1, transit', lastSeq')
    BY <1>1, <1>2, <1>4, <1>6
  <2> QED BY <1>0, <1>1, <1>7, <2>1 DEF InStep, NoLevels
<1>9. ViewsServed'
  BY <1>0, <1>1 DEF ViewsServed, ViewServed, NoBook, NoLevels
<1> QED BY <1>5, <1>8, <1>9 DEF BookInv

(* A reader that is told in order has the server's book of that moment.    *)
LEMMA ReadBookKeepsBook ==
  ASSUME BookInv, ReadBook
  PROVE  BookInv'
<1>0. BookTypes /\ InStep /\ ViewsServed
  BY DEF BookInv
<1> DEFINE m == Head(transit)
<1>1. /\ transit # <<>> /\ transit' = Tail(transit) /\ lastSeq' = m.seq
      /\ book' = ApplyL2(book, m) /\ UNCHANGED <<served, told, shown>>
      /\ bookCh' = bookCh \/ bookCh' = Append(bookCh, [seq |-> lastSeq', levels |-> book'])
  BY DEF ReadBook
<1>2. /\ Len(transit) \in Nat \ {0} /\ m = transit[1] /\ m \in Messages
      /\ transit' \in Seq(Messages) /\ Len(transit') = Len(transit) - 1
      /\ \A i \in 1..Len(transit') : transit'[i] = transit[i + 1]
      /\ Len(served) \in Nat /\ lastSeq \in 0..Len(served)
  BY <1>0, <1>1, HeadTailProperties, EmptySeq, LenProperties DEF BookTypes
<1>3. Carries(m, lastSeq, served)
  <2>1. Carries(transit[1], ReadBefore(1, transit, lastSeq), served)
    BY <1>0, <1>2 DEF InStep
  <2> QED BY <1>2, <2>1 DEF ReadBefore
<1>4. \A i \in 1..Len(transit) :
        ReadBefore(i, transit', lastSeq') = ReadBefore(i + 1, transit, lastSeq)
  BY <1>0, <1>1, ReadBeforeTail DEF BookTypes
<1> HIDE DEF m
<1>5. m.seq \in 1..Len(served) /\ served[m.seq] \in Book
  BY <1>0, <1>2, <1>3, ElementOfSeq DEF Carries, Messages, BookTypes
<1>6. book' = served[m.seq]
  <2>1. CASE m.type = "snapshot"
    BY <1>1, <1>3, <1>5, <2>1, SnapshotApplies DEF Carries
  <2>2. CASE m.type = "update"
    <3>1. lastSeq # 0 /\ m.seq = lastSeq + 1 /\ m.updates = Changes(served[lastSeq], served[m.seq])
      BY <1>3, <2>2 DEF Carries
    <3>2. book = served[lastSeq] /\ lastSeq \in 1..Len(served)
      BY <1>0, <1>2, <3>1 DEF InStep
    <3>3. served[lastSeq] \in Book
      BY <1>0, <3>2, ElementOfSeq DEF BookTypes
    <3> QED BY <1>1, <1>5, <2>2, <3>1, <3>2, <3>3, ChangesApply
  <2> QED BY <1>2, <2>1, <2>2 DEF Messages
<1> DEFINE v == [seq |-> m.seq, levels |-> served[m.seq]]
<1>7. v \in BookViews /\ v.seq = m.seq /\ v.levels = served[m.seq]
  BY <1>5 DEF BookViews
<1>8. bookCh' = bookCh \/ bookCh' = Append(bookCh, v)
  BY <1>1, <1>6
<1> HIDE DEF v
<1>9. bookCh' \in Seq(BookViews) /\ \A i \in 1..Len(bookCh') : ViewServed(bookCh'[i])
  <2>1. bookCh \in Seq(BookViews) /\ \A i \in 1..Len(bookCh) : ViewServed(bookCh[i])
    BY <1>0 DEF BookTypes, ViewsServed
  <2>2. ViewServed(v)
    BY <1>5, <1>7 DEF ViewServed
  <2>3. CASE bookCh' = Append(bookCh, v)
    <3>1. /\ Append(bookCh, v) \in Seq(BookViews) /\ Len(Append(bookCh, v)) = Len(bookCh) + 1
          /\ Len(bookCh) \in Nat
          /\ \A i \in 1..Len(bookCh) : Append(bookCh, v)[i] = bookCh[i]
          /\ Append(bookCh, v)[Len(bookCh) + 1] = v
      BY <1>7, <2>1, AppendProperties, LenProperties
    <3> QED BY <2>1, <2>2, <2>3, <3>1
  <2> QED BY <1>8, <2>1, <2>3
<1>10. BookTypes'
  BY <1>0, <1>1, <1>2, <1>5, <1>9 DEF BookTypes, Messages, Entries, BookViews, Book, NoBook, NoLevels
<1>11. InStep'
  <2>1. book' = IF lastSeq' = 0 THEN NoLevels ELSE served'[lastSeq']
    BY <1>1, <1>5, <1>6
  <2>2. ASSUME NEW i \in 1..Len(transit')
        PROVE  Carries(transit'[i], ReadBefore(i, transit', lastSeq'), served')
    <3>1. i \in 1..Len(transit) /\ i + 1 \in 1..Len(transit)
      BY <1>2
    <3>2. Carries(transit[i + 1], ReadBefore(i + 1, transit, lastSeq), served)
      BY <1>0, <3>1 DEF InStep
    <3> QED BY <1>1, <1>2, <1>4, <3>1, <3>2
  <2>3. told' = ReadBefore(Len(transit') + 1, transit', lastSeq')
    <3>1. Len(transit') + 1 \in 1..Len(transit) /\ (Len(transit') + 1) + 1 = Len(transit) + 1
      BY <1>2
    <3> QED BY <1>0, <1>1, <1>4, <3>1 DEF InStep
  <2> QED BY <2>1, <2>2, <2>3 DEF InStep, NoLevels
<1>12. ViewsServed'
  BY <1>0, <1>1, <1>9 DEF ViewsServed, ViewServed, NoBook, NoLevels
<1> QED BY <1>10, <1>11, <1>12 DEF BookInv

LEMMA ShowKeepsBook ==
  ASSUME BookInv, Show
  PROVE  BookInv'
<1>0. BookTypes /\ InStep /\ ViewsServed
  BY DEF BookInv
<1>1. /\ bookCh # <<>> /\ shown' = Head(bookCh) /\ bookCh' = Tail(bookCh)
      /\ UNCHANGED <<served, told, transit, book, lastSeq>>
  BY DEF Show
<1>2. /\ Len(bookCh) \in Nat \ {0} /\ shown' = bookCh[1] /\ shown' \in BookViews
      /\ bookCh' \in Seq(BookViews) /\ Len(bookCh') = Len(bookCh) - 1
      /\ \A i \in 1..Len(bookCh') : bookCh'[i] = bookCh[i + 1]
  BY <1>0, <1>1, HeadTailProperties, EmptySeq DEF BookTypes
<1>3. BookTypes'
  BY <1>0, <1>1, <1>2 DEF BookTypes, Messages, Entries, BookViews, Book, NoBook, NoLevels
<1>4. InStep'
  BY <1>0, <1>1 DEF InStep, NoLevels
<1>5. ViewsServed'
  <2>1. \A i \in 1..Len(bookCh') : i + 1 \in 1..Len(bookCh)
    BY <1>2
  <2>2. \A i \in 1..Len(bookCh') : ViewServed(bookCh'[i])
    BY <1>0, <1>2, <2>1 DEF ViewsServed
  <2>3. ViewServed(shown')
    BY <1>0, <1>2 DEF ViewsServed
  <2> QED BY <1>1, <2>2, <2>3 DEF ViewsServed, ViewServed
<1> QED BY <1>3, <1>4, <1>5 DEF BookInv

LEMMA BookStartsKeepsBook ==
  ASSUME BookInv, BookStarts
  PROVE  BookInv'
<1>0. BookTypes /\ InStep /\ ViewsServed
  BY DEF BookInv
<1>1. /\ told' = 0 /\ transit' = <<>> /\ book' = NoLevels /\ lastSeq' = 0
      /\ UNCHANGED <<served, bookCh, shown>>
  BY DEF BookStarts, Unseen
<1>2. Len(served) \in Nat /\ Len(transit') = 0 /\ transit' \in Seq(Messages)
  BY <1>0, <1>1, LenProperties, EmptySeq DEF BookTypes
<1>3. BookTypes'
  BY <1>0, <1>1, <1>2 DEF BookTypes, Messages, Entries, BookViews, Book, NoBook, NoLevels
<1>4. InStep'
  BY <1>1, <1>2 DEF InStep, NoLevels, ReadBefore
<1>5. ViewsServed'
  BY <1>0, <1>1 DEF ViewsServed, ViewServed, NoBook, NoLevels
<1> QED BY <1>3, <1>4, <1>5 DEF BookInv

(***************************************************************************)
(* All the feeds.                                                          *)
(***************************************************************************)
LEMMA InitRecordingInv ==
  ASSUME NEW on \in SUBSET Providers, NEW isRecorded \in BOOLEAN, NEW bounds,
         RecordingInit(on, isRecorded, bounds)
  PROVE  RecordingInv
<1>1. <<>> \in Seq(FeedQuotes) /\ Len(<<>>) = 0 /\ ToSet(<<>>) = {}
  BY EmptySeq DEF ToSet
<1>2. OutDepth \in Nat /\ TeeDepth \in Nat
  BY RecordingAssumption
<1>3. /\ recorded = isRecorded /\ cancelled = FALSE /\ returned = {} /\ sinkOpen = recorded
      /\ sent = [p \in Providers |-> 0] /\ tee = [p \in Providers |-> <<>>]
      /\ hand = [p \in Providers |-> NoQuote] /\ copying = (IF recorded THEN on ELSE {})
      /\ file = <<>> /\ unwritten = {} /\ out = <<>> /\ delivered = <<>>
  BY DEF RecordingInit
<1>4. RecordingTypes
  <2> DEFINE none == <<>>
  <2>1. none \in Seq(FeedQuotes) /\ Len(none) = 0
    BY <1>1
  <2>2. file = none /\ out = none /\ delivered = none /\ tee = [p \in Providers |-> none]
    BY <1>3
  <2> HIDE DEF none
  <2>3. /\ tee \in [Providers -> Seq(FeedQuotes)] /\ Len(out) <= OutDepth
        /\ \A p \in Providers : Len(tee[p]) <= TeeDepth
    BY <1>2, <2>1, <2>2
  <2>4. sent \in [Providers -> Nat] /\ hand \in [Providers -> FeedQuotes \cup {NoQuote}]
    BY <1>3
  <2>5. recorded \in BOOLEAN /\ cancelled \in BOOLEAN /\ sinkOpen \in BOOLEAN
    BY <1>3
  <2>6. returned \subseteq Providers /\ copying \subseteq Providers
    BY <1>3
  <2> QED BY <1>3, <2>1, <2>2, <2>3, <2>4, <2>5, <2>6 DEF RecordingTypes
<1>5. CaptureCovers
  BY <1>1, <1>3 DEF CaptureCovers
<1>6. FileAscends /\ TeeAscends
  BY <1>1, <1>3 DEF FileAscends, TeeAscends
<1> QED BY <1>4, <1>5, <1>6 DEF RecordingInv

(* The invariant of the feeds: each keeps its own, whatever the others do. *)
FeedsIInv == RecordingInv /\ CoinbaseInv /\ BookInv /\ YahooInv

LEMMA FeedsInvFromInvariant ==
  FeedsIInv => FeedsInv
<1> SUFFICES ASSUME FeedsIInv PROVE FeedsInv
  OBVIOUS
<1>1. RecordingInv /\ CoinbaseInv /\ BookInv /\ YahooInv
  BY DEF FeedsIInv
<1>2. BackoffCountsFlaps
  BY <1>1, BackoffFromInvariant
<1>3. CycleIsBounded /\ ClientConsistent
  BY <1>1 DEF YahooInv, CycleInv, CycleIsBounded, CycleCost
<1>4. book \in Book
  <2>1. lastSeq \in 0..Len(served) /\ Len(served) \in Nat /\ \A i \in 1..Len(served) : served[i] \in Book
    BY <1>1, LenProperties, ElementOfSeq DEF BookInv, BookTypes
  <2>2. book = IF lastSeq = 0 THEN NoLevels ELSE served[lastSeq]
    BY <1>1 DEF BookInv, InStep
  <2> QED BY <2>1, <2>2, BookConstants
<1>5. FeedsTypeOK
  <2>1. /\ recorded \in BOOLEAN /\ cancelled \in BOOLEAN /\ sinkOpen \in BOOLEAN
        /\ returned \subseteq Providers /\ copying \subseteq Providers
        /\ sent \in [Providers -> Nat]
        /\ Len(out) <= OutDepth /\ \A p \in Providers : Len(tee[p]) <= TeeDepth
    BY <1>1 DEF RecordingInv, RecordingTypes
  <2>2. /\ phase \in [Streams -> {"off", "dialing", "subscribing", "live", "down", "waiting", "ended"}]
        /\ cur \in [Streams -> ReconnectMin..ReconnectMax]
        /\ age \in [Streams -> NoAge..Stable]
        /\ Len(statusCh) <= 1
    BY <1>1 DEF CoinbaseInv, CoinbaseTypes, Phases
  <2>3. told \in 0..Len(served)
    BY <1>1 DEF BookInv, BookTypes
  <2>4. /\ Len(yahooCh) <= 1 /\ attempt \in [Callers -> 1..MaxAttempts]
        /\ tokens \in 0..Burst /\ crumb \in 0..crumbs
    BY <1>1 DEF YahooInv, YahooTypes
  <2> QED BY <1>4, <2>1, <2>2, <2>3, <2>4 DEF FeedsTypeOK
<1> QED BY <1>2, <1>3, <1>5 DEF FeedsInv

LEMMA FeedsInitially ==
  FeedsInit => FeedsIInv
<1> SUFFICES ASSUME FeedsInit PROVE FeedsIInv
  OBVIOUS
<1>1. PICK plan \in Plans :
        /\ RecordingInit(Subscriptions(plan), plan.recorded, plan.bounds)
        /\ CoinbaseInit(plan.streams, plan.bounds)
        /\ YahooInit(plan.callers, plan.bounds)
  BY DEF FeedsInit
<1>2. /\ plan.streams \in SUBSET Streams /\ plan.callers \in SUBSET Callers
      /\ plan.recorded \in BOOLEAN /\ Subscriptions(plan) \in SUBSET Providers
  BY FeedsAssumption DEF Subscriptions
<1>3. RecordingInv
  BY <1>1, <1>2, InitRecordingInv
<1>4. CoinbaseInv
  BY <1>1, <1>2, InitCoinbaseInv
<1>5. YahooInv
  BY <1>1, <1>2, InitYahooInv
<1>6. BookInv
  BY InitBookInv DEF FeedsInit
<1> QED BY <1>3, <1>4, <1>5, <1>6 DEF FeedsIInv

(* A component that a step leaves alone keeps its part.                    *)
LEMMA RecordingAlone ==
  RecordingInv /\ UNCHANGED recordingVars => RecordingInv'
<1> SUFFICES ASSUME RecordingInv, UNCHANGED recordingVars PROVE RecordingInv'
  OBVIOUS
<1>1. UNCHANGED <<recorded, cancelled, returned, sent, tee, hand, copying, sinkOpen, file, unwritten, out,
                  delivered>>
  BY DEF recordingVars
<1>2. cancelled \in BOOLEAN /\ sinkOpen \in BOOLEAN /\ returned \subseteq Providers
  BY DEF RecordingInv, RecordingTypes
<1> QED BY <1>1, <1>2, OtherwiseRecordingKept

LEMMA CoinbaseAlone ==
  CoinbaseInv /\ UNCHANGED coinbaseVars => CoinbaseInv'
BY OtherwiseCoinbaseKept DEF coinbaseVars, sessionVars

LEMMA BookAlone ==
  BookInv /\ UNCHANGED bookVars => BookInv'
BY OtherwiseBookKept DEF bookVars

LEMMA YahooAlone ==
  YahooInv /\ UNCHANGED yahooVars => YahooInv'
BY ReportKeepsYahoo DEF yahooVars, boundVars

LEMMA ReturnsKeepsRecording ==
  ASSUME RecordingInv, NEW p \in Providers, Returns(p)
  PROVE  RecordingInv'
<1>1. cancelled \in BOOLEAN /\ sinkOpen \in BOOLEAN /\ returned \subseteq Providers
  BY DEF RecordingInv, RecordingTypes
<1> QED BY <1>1, OtherwiseRecordingKept DEF Returns, copierVars

LEMMA CoinbaseSteps ==
  ASSUME FeedsIInv, NEW s \in Streams,
         \/ Session(s)
         \/ Connect(s)
         \/ AtCoinbase(Dialed(s)) \/ AtCoinbase(DialFails(s))
         \/ AtCoinbase(Disturb(s)) \/ AtCoinbase(Pong(s))
  PROVE  FeedsIInv'
<1>0. RecordingInv /\ CoinbaseInv /\ BookInv /\ YahooInv
  BY DEF FeedsIInv
<1>1. CASE \/ AtCoinbase(DialTimesOut(s)) \/ AtCoinbase(SessionEnds(s)) \/ AtCoinbase(BackOff(s))
           \/ AtCoinbase(Redial(s)) \/ AtCoinbase(Dialed(s)) \/ AtCoinbase(DialFails(s))
  <2>1. CoinbaseInv'
    BY <1>0, <1>1, SessionKeepsCoinbase, BackOffKeepsCoinbase DEF AtCoinbase
  <2>2. UNCHANGED <<recordingVars, bookVars, yahooVars>>
    BY <1>1 DEF AtCoinbase
  <2> QED BY <1>0, <2>1, <2>2, RecordingAlone, BookAlone, YahooAlone DEF FeedsIInv
<1>2. CASE \/ AtCoinbase(SendPing(s)) \/ AtCoinbase(PingFails(s)) \/ AtCoinbase(Disturb(s))
           \/ AtCoinbase(Pong(s))
  <2>1. UNCHANGED <<phase, left, cur, age, statusCh, flaps, waited>>
    BY <1>2 DEF AtCoinbase, SendPing, PingFails, Disturb, Pong
  <2>2. UNCHANGED <<recordingVars, bookVars, yahooVars>>
    BY <1>2 DEF AtCoinbase
  <2> QED BY <1>0, <2>1, <2>2, OtherwiseCoinbaseKept, RecordingAlone, BookAlone, YahooAlone DEF FeedsIInv
<1>3. CASE StreamEnds(s)
  <2>1. CoinbaseInv'
    BY <1>0, <1>3, SessionKeepsCoinbase DEF StreamEnds
  <2>2. RecordingInv'
    BY <1>0, <1>3, ReturnsKeepsRecording, RecordingAlone, FeedsAssumption DEF StreamEnds
  <2>3. UNCHANGED <<bookVars, yahooVars>>
    BY <1>3 DEF StreamEnds
  <2> QED BY <1>0, <2>1, <2>2, <2>3, BookAlone, YahooAlone DEF FeedsIInv
<1>4. CASE Connect(s)
  <2>1. CoinbaseInv'
    BY <1>0, <1>4, SessionKeepsCoinbase DEF Connect
  <2>2. BookInv'
    BY <1>0, <1>4, BookStartsKeepsBook, BookAlone DEF Connect
  <2>3. UNCHANGED <<recordingVars, yahooVars>>
    BY <1>4 DEF Connect
  <2> QED BY <1>0, <2>1, <2>2, <2>3, RecordingAlone, YahooAlone DEF FeedsIInv
<1> QED BY <1>1, <1>2, <1>3, <1>4 DEF Session

LEMMA StreamSteps ==
  ASSUME FeedsIInv,
         \/ \E k \in 1..2 : AtCoinbase(Frame(k))
         \/ AtCoinbase(PumpStatus)
         \/ AtBook(Trade) \/ AtBook(Tell) \/ AtBook(ReadBook) \/ AtBook(Show)
  PROVE  FeedsIInv'
<1>0. RecordingInv /\ CoinbaseInv /\ BookInv /\ YahooInv
  BY DEF FeedsIInv
<1>1. CASE \E k \in 1..2 : AtCoinbase(Frame(k))
  <2>1. UNCHANGED <<phase, left, cur, age, statusCh, flaps, waited>>
    BY <1>1 DEF AtCoinbase, Frame
  <2>2. UNCHANGED <<recordingVars, bookVars, yahooVars>>
    BY <1>1 DEF AtCoinbase
  <2> QED BY <1>0, <2>1, <2>2, OtherwiseCoinbaseKept, RecordingAlone, BookAlone, YahooAlone DEF FeedsIInv
<1>2. CASE AtCoinbase(PumpStatus)
  BY <1>0, <1>2, PumpKeepsCoinbase, RecordingAlone, BookAlone, YahooAlone DEF FeedsIInv, AtCoinbase
<1>3. CASE AtBook(Trade) \/ AtBook(Tell) \/ AtBook(ReadBook) \/ AtBook(Show)
  <2>1. BookInv'
    BY <1>0, <1>3, TradeKeepsBook, TellKeepsBook, ReadBookKeepsBook, ShowKeepsBook DEF AtBook
  <2>2. UNCHANGED <<recordingVars, coinbaseVars, yahooVars>>
    BY <1>3 DEF AtBook
  <2> QED BY <1>0, <2>1, <2>2, RecordingAlone, CoinbaseAlone, YahooAlone DEF FeedsIInv
<1> QED BY <1>1, <1>2, <1>3

LEMMA CallerKeepsYahoo ==
  ASSUME YahooInv, NEW c \in Callers, Caller(c)
  PROVE  YahooInv'
BY LockSessionKeepsYahoo, FetchCrumbKeepsYahoo, BeginKeepsYahoo, GateKeepsYahoo, TakeTokenKeepsYahoo,
   ContinueKeepsYahoo, AnswerKeepsYahoo DEF Caller

LEMMA YahooSteps ==
  ASSUME FeedsIInv,
         \/ \E c \in Callers : YahooCaller(c)
         \/ AtYahoo(NextCycle) \/ AtYahoo(OpenChart) \/ AtYahoo(PumpYahooStatus)
  PROVE  FeedsIInv'
<1>0. RecordingInv /\ CoinbaseInv /\ BookInv /\ YahooInv
  BY DEF FeedsIInv
<1>1. ASSUME NEW c \in Callers, CallerEnds(c)
      PROVE  FeedsIInv'
  <2>1. YahooInv'
    BY <1>0, <1>1, OutsideKeepsYahoo DEF CallerEnds, CallerStops
  <2>2. RecordingInv'
    BY <1>0, <1>1, ReturnsKeepsRecording, RecordingAlone, FeedsAssumption DEF CallerEnds
  <2>3. UNCHANGED <<coinbaseVars, bookVars>>
    BY <1>1 DEF CallerEnds
  <2> QED BY <1>0, <2>1, <2>2, <2>3, CoinbaseAlone, BookAlone DEF FeedsIInv
<1>2. CASE \/ \E c \in Callers : AtYahoo(Caller(c)) \/ AtYahoo(Report(c))
           \/ AtYahoo(NextCycle) \/ AtYahoo(OpenChart) \/ AtYahoo(PumpYahooStatus)
  <2>1. ASSUME NextCycle PROVE YahooInv'
    <3>1. /\ Goes("poll", "begin") /\ at["poll"] = "idle"
          /\ UNCHANGED <<todo, attempt, sessionMuVars, gateVars, healthVars, spent>>
      BY <2>1 DEF NextCycle
    <3> QED BY <1>0, <3>1, OutsideKeepsYahoo, YahooConstants
  <2>2. ASSUME OpenChart PROVE YahooInv'
    <3>1. /\ Goes("chart", "lock") /\ at["chart"] = "idle"
          /\ UNCHANGED <<todo, attempt, sessionMuVars, gateVars, healthVars, spent>>
      BY <2>2 DEF OpenChart
    <3> QED BY <1>0, <3>1, OutsideKeepsYahoo, YahooConstants
  <2>3. YahooInv'
    BY <1>0, <1>2, <2>1, <2>2, CallerKeepsYahoo, ReportKeepsYahoo DEF AtYahoo
  <2>4. UNCHANGED <<recordingVars, coinbaseVars, bookVars>>
    BY <1>2 DEF AtYahoo
  <2> QED BY <1>0, <2>3, <2>4, RecordingAlone, CoinbaseAlone, BookAlone DEF FeedsIInv
<1> QED BY <1>1, <1>2 DEF YahooCaller

LEMMA RecordingSteps ==
  ASSUME FeedsIInv,
         \/ Quote
         \/ \E p \in Providers : Copier(p)
         \/ AtRecording(HubTakes) \/ AtRecording(Cancel) \/ AtRecording(CloseSink)
  PROVE  FeedsIInv'
<1>0. RecordingInv /\ CoinbaseInv /\ BookInv /\ YahooInv
  BY DEF FeedsIInv
<1>1. CASE SendQuote /\ UNCHANGED <<bookVars, yahooVars>>
  <2>1. RecordingInv'
    BY <1>0, <1>1, SendKeepsRecording, FeedsAssumption DEF SendQuote
  <2>2. CoinbaseInv'
    BY <1>0, <1>1, OtherwiseCoinbaseKept DEF SendQuote, sessionVars
  <2> QED BY <1>0, <1>1, <2>1, <2>2, BookAlone, YahooAlone DEF FeedsIInv
<1>2. CASE SendYahooQuote /\ UNCHANGED <<coinbaseVars, bookVars>>
  <2>1. RecordingInv'
    BY <1>0, <1>2, SendKeepsRecording, FeedsAssumption DEF SendYahooQuote
  <2>2. YahooInv'
    BY <1>0, <1>2, ReportKeepsYahoo DEF SendYahooQuote
  <2> QED BY <1>0, <1>2, <2>1, <2>2, CoinbaseAlone, BookAlone DEF FeedsIInv
<1>3. CASE \/ \E p \in Providers : Copier(p)
           \/ AtRecording(HubTakes) \/ AtRecording(Cancel) \/ AtRecording(CloseSink)
  <2>1. /\ \/ \E p \in Providers : Copy(p) \/ Forward(p) \/ CopierEnds(p)
           \/ HubTakes \/ Cancel \/ CloseSink
        /\ UNCHANGED <<coinbaseVars, bookVars, yahooVars>>
    BY <1>3 DEF AtRecording, Copier
  <2>2. ASSUME Cancel \/ CloseSink PROVE RecordingInv'
    <3>1. cancelled \in BOOLEAN /\ sinkOpen \in BOOLEAN /\ returned \subseteq Providers
      BY <1>0 DEF RecordingInv, RecordingTypes
    <3> QED BY <1>0, <2>2, <3>1, OtherwiseRecordingKept DEF Cancel, CloseSink, copierVars
  <2>3. RecordingInv'
    BY <1>0, <2>1, <2>2, CopyKeepsRecording, ForwardKeepsRecording, CopierEndsKeepsRecording,
       HubTakesKeepsRecording
  <2> QED BY <1>0, <2>1, <2>3, CoinbaseAlone, BookAlone, YahooAlone DEF FeedsIInv
<1> QED BY <1>1, <1>2, <1>3 DEF Quote

LEMMA FeedsStep ==
  ASSUME FeedsIInv, [FeedsNext]_feedsVars
  PROVE  FeedsIInv'
<1>0. RecordingInv /\ CoinbaseInv /\ BookInv /\ YahooInv
  BY DEF FeedsIInv
<1>1. CASE Tick
  <2>1. CoinbaseInv' /\ YahooInv'
    BY <1>0, <1>1, TickKeepsCoinbase, YahooTickKeepsYahoo DEF Tick
  <2>2. BookInv'
    BY <1>0, <1>1, OtherwiseBookKept DEF Tick, BookTick
  <2>3. RecordingInv'
    BY <1>0, <1>1, RecordingAlone DEF Tick
  <2> QED BY <2>1, <2>2, <2>3 DEF FeedsIInv
<1>2. CASE UNCHANGED feedsVars
  BY <1>0, <1>2, RecordingAlone, CoinbaseAlone, BookAlone, YahooAlone DEF feedsVars, FeedsIInv
<1>3. CASE FeedsNext /\ ~Tick
  BY <1>3, CoinbaseSteps, StreamSteps, YahooSteps, RecordingSteps DEF FeedsNext
<1> QED BY <1>1, <1>2, <1>3

LEMMA FeedsAlwaysIInv ==
  FeedsSpec => []FeedsIInv
<1>1. FeedsInit => FeedsIInv
  BY FeedsInitially
<1>2. FeedsIInv /\ [FeedsNext]_feedsVars => FeedsIInv'
  BY FeedsStep
<1> QED BY <1>1, <1>2, PTL DEF FeedsSpec

(* However long the feeds run: no channel holds more than it may, a stream *)
(* waits as long as its failures since a session that lasted call for, a   *)
(* cycle of the poll never costs more requests than its batches' retries   *)
(* and their few charts, and the client's health, cooldown and session     *)
(* agree with what it did.                                                 *)
THEOREM FeedsAlwaysSound ==
  FeedsSpec => []FeedsInv
<1>1. FeedsIInv => FeedsInv
  BY FeedsInvFromInvariant
<1> QED BY <1>1, FeedsAlwaysIInv, PTL

(* What the hub has, or is about to get, of a recorded run is in the       *)
(* capture unless its write failed, and each provider's quotes are there   *)
(* in the order of their sending.                                          *)
THEOREM CaptureAlwaysLeads ==
  FeedsSpec => []CaptureLeadsDelivery
<1>1. FeedsIInv => CaptureLeadsDelivery
  BY CaptureFromInvariant DEF FeedsIInv
<1> QED BY <1>1, FeedsAlwaysIInv, PTL

(* A book on screen, or on its way there, is one that the server had, at   *)
(* the sequence number that it carries.                                    *)
THEOREM BookAlwaysServers ==
  FeedsSpec => []BookIsServers
<1>1. FeedsIInv => BookIsServers
  BY BookFromInvariant DEF FeedsIInv
<1> QED BY <1>1, FeedsAlwaysIInv, PTL

=============================================================================
