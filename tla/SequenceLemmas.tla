--------------------------- MODULE SequenceLemmas ---------------------------
(***************************************************************************)
(* Facts about sequences that the proofs of the hub, the broadcaster and   *)
(* the notifier queues share: what a step of a hand-off queue does to the  *)
(* sequence made of what its consumer has in hand and what still waits.    *)
(***************************************************************************)
EXTENDS Sequences, Integers, TLAPS, SequenceTheorems

(* The RemoveAt of SequencesExt under a name of its own: a module of mkt   *)
(* that has an action Remove cannot extend SequencesExt.                   *)
Without(s, k) == SubSeq(s, 1, k - 1) \o SubSeq(s, k + 1, Len(s))

LEMMA WithoutProperties ==
  ASSUME NEW S, NEW s \in Seq(S), NEW k \in 1..Len(s)
  PROVE  /\ Without(s, k) \in Seq(S)
         /\ Len(Without(s, k)) = Len(s) - 1
         /\ \A i \in 1..(Len(s) - 1) :
              Without(s, k)[i] = IF i < k THEN s[i] ELSE s[i + 1]
<1> DEFINE a == SubSeq(s, 1, k - 1)
           b == SubSeq(s, k + 1, Len(s))
<1>0. Len(s) \in Nat /\ \A i \in 1..Len(s) : s[i] \in S
  BY LenProperties, ElementOfSeq
<1>1. /\ a \in Seq(S) /\ Len(a) = k - 1
      /\ \A i \in 1..(k - 1) : a[i] = s[i]
  <2>1. k - 1 \in Int /\ 1 \in Int /\ \A i \in 1..(k - 1) : s[i] \in S
    BY <1>0
  <2>2. /\ a \in Seq(S) /\ Len(a) = IF 1 <= k - 1 THEN (k - 1) - 1 + 1 ELSE 0
        /\ \A i \in 1..((k - 1) - 1 + 1) : a[i] = s[1 + i - 1]
    BY <2>1, SubSeqProperties
  <2> HIDE DEF a
  <2> QED BY <1>0, <2>2
<1>2. /\ b \in Seq(S) /\ Len(b) = Len(s) - k
      /\ \A i \in 1..(Len(s) - k) : b[i] = s[k + i]
  <2>1. k + 1 \in Int /\ Len(s) \in Int /\ \A i \in (k + 1)..Len(s) : s[i] \in S
    BY <1>0
  <2>2. /\ b \in Seq(S) /\ Len(b) = IF k + 1 <= Len(s) THEN Len(s) - (k + 1) + 1 ELSE 0
        /\ \A i \in 1..(Len(s) - (k + 1) + 1) : b[i] = s[(k + 1) + i - 1]
    BY <2>1, SubSeqProperties
  <2> HIDE DEF b
  <2> QED BY <1>0, <2>2
<1>3. Without(s, k) = a \o b
  BY DEF Without
<1> HIDE DEF a, b
<1>4. /\ a \o b \in Seq(S) /\ Len(a \o b) = Len(a) + Len(b)
      /\ \A i \in 1..(Len(a) + Len(b)) :
           (a \o b)[i] = IF i <= Len(a) THEN a[i] ELSE b[i - Len(a)]
  BY <1>1, <1>2, ConcatProperties
<1>5. Len(a) + Len(b) = Len(s) - 1
  BY <1>0, <1>1, <1>2
<1>6. ASSUME NEW i \in 1..(Len(s) - 1)
      PROVE  (a \o b)[i] = IF i < k THEN s[i] ELSE s[i + 1]
  <2>1. CASE i < k
    <3>1. i \in 1..(k - 1) /\ i <= Len(a) /\ i \in 1..(Len(a) + Len(b))
      BY <1>0, <1>1, <1>5, <2>1
    <3> QED BY <1>1, <1>4, <2>1, <3>1
  <2>2. CASE ~(i < k)
    <3>1. /\ i - (k - 1) \in 1..(Len(s) - k) /\ ~(i <= k - 1) /\ k + (i - (k - 1)) = i + 1
          /\ i \in 1..(Len(a) + Len(b))
      BY <1>0, <1>5, <2>2
    <3> QED BY <1>1, <1>2, <1>4, <2>2, <3>1
  <2> QED BY <2>1, <2>2
<1> QED BY <1>3, <1>4, <1>5, <1>6

(* The queue that loses the new message stays as it was. *)
LEMMA RemoveNewest ==
  ASSUME NEW S, NEW s \in Seq(S), NEW x \in S
  PROVE  Without(Append(s, x), Len(s) + 1) = s
<1>1. /\ Append(s, x) \in Seq(S) /\ Len(Append(s, x)) = Len(s) + 1 /\ Len(s) \in Nat
      /\ \A i \in 1..Len(s) : Append(s, x)[i] = s[i]
  BY AppendProperties, LenProperties
<1> DEFINE t == Append(s, x)
<1> HIDE DEF t
<1>2. Len(s) + 1 \in 1..Len(t)
  BY <1>1 DEF t
<1>3. /\ Without(t, Len(s) + 1) \in Seq(S)
      /\ Len(Without(t, Len(s) + 1)) = Len(t) - 1
      /\ \A i \in 1..(Len(t) - 1) :
           Without(t, Len(s) + 1)[i] = IF i < Len(s) + 1 THEN t[i] ELSE t[i + 1]
  BY <1>1, <1>2, WithoutProperties DEF t
<1>4. \A i \in 1..Len(s) : Without(t, Len(s) + 1)[i] = s[i]
  BY <1>1, <1>3 DEF t
<1>5. Len(Without(t, Len(s) + 1)) = Len(s)
  BY <1>1, <1>3 DEF t
<1>6. s = Without(t, Len(s) + 1)
  BY <1>3, <1>4, <1>5, SeqEqual
<1> QED BY <1>6 DEF t

(* a in the consumer's hands, b waiting: the oldest of b makes room for x. *)
LEMMA RemoveOldestWaiting ==
  ASSUME NEW S, NEW a \in Seq(S), NEW b \in Seq(S), NEW x \in S, b # <<>>
  PROVE  Without(Append(a \o b, x), Len(a) + 1) = a \o Append(Tail(b), x)
<1>1. /\ a \o b \in Seq(S) /\ Len(a \o b) = Len(a) + Len(b)
      /\ \A i \in 1..(Len(a) + Len(b)) :
           (a \o b)[i] = IF i <= Len(a) THEN a[i] ELSE b[i - Len(a)]
  BY ConcatProperties
<1>2. Len(a) \in Nat /\ Len(b) \in Nat /\ Len(b) > 0
  BY LenProperties, EmptySeq
<1>3. /\ Tail(b) \in Seq(S) /\ Len(Tail(b)) = Len(b) - 1
      /\ \A i \in 1..Len(Tail(b)) : Tail(b)[i] = b[i + 1]
  BY HeadTailProperties
<1>4. /\ Append(a \o b, x) \in Seq(S) /\ Len(Append(a \o b, x)) = Len(a) + Len(b) + 1
      /\ \A i \in 1..(Len(a) + Len(b)) : Append(a \o b, x)[i] = (a \o b)[i]
      /\ Append(a \o b, x)[Len(a) + Len(b) + 1] = x
  BY <1>1, AppendProperties
<1>5. /\ Append(Tail(b), x) \in Seq(S) /\ Len(Append(Tail(b), x)) = Len(b)
      /\ \A i \in 1..(Len(b) - 1) : Append(Tail(b), x)[i] = b[i + 1]
      /\ Append(Tail(b), x)[Len(b)] = x
  <2>1. /\ Append(Tail(b), x) \in Seq(S) /\ Len(Append(Tail(b), x)) = Len(Tail(b)) + 1
        /\ \A i \in 1..Len(Tail(b)) : Append(Tail(b), x)[i] = Tail(b)[i]
        /\ Append(Tail(b), x)[Len(Tail(b)) + 1] = x
    BY <1>3, AppendProperties
  <2>2. Len(Tail(b)) + 1 = Len(b)
    BY <1>2, <1>3
  <2> QED BY <1>3, <2>1, <2>2
<1> DEFINE s == Append(a \o b, x)
           t == Append(Tail(b), x)
           na == Len(a)
           nb == Len(b)
<1>6. /\ a \o t \in Seq(S) /\ Len(a \o t) = Len(a) + Len(t)
      /\ \A i \in 1..(Len(a) + Len(t)) :
           (a \o t)[i] = IF i <= Len(a) THEN a[i] ELSE t[i - Len(a)]
  BY <1>5, ConcatProperties
<1>7. Len(a) + 1 \in 1..Len(s)
  BY <1>2, <1>4
<1> HIDE DEF s, t
<1>8. /\ Without(s, Len(a) + 1) \in Seq(S) /\ Len(Without(s, Len(a) + 1)) = Len(s) - 1
      /\ \A i \in 1..(Len(s) - 1) :
           Without(s, Len(a) + 1)[i] = IF i < Len(a) + 1 THEN s[i] ELSE s[i + 1]
  BY <1>4, <1>7, WithoutProperties DEF s
<1>9. /\ Len(s) = na + nb + 1 /\ Len(t) = nb /\ na \in Nat /\ nb \in Nat /\ nb > 0
      /\ \A i \in 1..(na + nb) : s[i] = IF i <= na THEN a[i] ELSE b[i - na]
      /\ s[na + nb + 1] = x
      /\ \A i \in 1..(nb - 1) : t[i] = b[i + 1]
      /\ t[nb] = x
  BY <1>1, <1>2, <1>4, <1>5 DEF s, t
<1> HIDE DEF na, nb
<1>10. ASSUME NEW i \in 1..(na + nb)
       PROVE  Without(s, na + 1)[i] = (a \o t)[i]
  <2>1. Without(s, na + 1)[i] = IF i < na + 1 THEN s[i] ELSE s[i + 1]
    BY <1>8, <1>9 DEF na
  <2>2. (a \o t)[i] = IF i <= na THEN a[i] ELSE t[i - na]
    BY <1>6, <1>9 DEF na
  <2>3. CASE i <= na
    BY <1>9, <2>1, <2>2, <2>3
  <2>4. CASE na < i /\ i < na + nb
    <3>1. /\ i + 1 \in 1..(na + nb) /\ ~(i + 1 <= na) /\ (i + 1) - na = (i - na) + 1
          /\ i - na \in 1..(nb - 1) /\ ~(i <= na) /\ ~(i < na + 1)
      BY <1>9, <2>4
    <3>2. s[i + 1] = b[(i - na) + 1] /\ t[i - na] = b[(i - na) + 1]
      BY <1>9, <3>1
    <3> QED BY <2>1, <2>2, <3>1, <3>2
  <2>5. CASE i = na + nb
    <3>1. i + 1 = na + nb + 1 /\ i - na = nb /\ ~(i <= na) /\ ~(i < na + 1)
      BY <1>9, <2>5
    <3> QED BY <1>9, <2>1, <2>2, <3>1
  <2>6. i <= na \/ (na < i /\ i < na + nb) \/ i = na + nb
    BY <1>9
  <2> QED BY <2>3, <2>4, <2>5, <2>6
<1>11. Len(Without(s, na + 1)) = na + nb /\ Len(a \o t) = na + nb
  BY <1>6, <1>8, <1>9 DEF na
<1>12. Without(s, na + 1) = a \o t
  BY <1>6, <1>8, <1>10, <1>11, SeqEqual DEF na
<1> QED BY <1>12 DEF s, t, na

(* The first of a goes, b follows. *)
LEMMA ConcatHeadTail ==
  ASSUME NEW S, NEW a \in Seq(S), NEW b \in Seq(S), a # <<>>
  PROVE  a \o b # <<>> /\ Head(a \o b) = Head(a) /\ Tail(a \o b) = Tail(a) \o b
<1>1. /\ a \o b \in Seq(S) /\ Len(a \o b) = Len(a) + Len(b)
      /\ \A i \in 1..(Len(a) + Len(b)) :
           (a \o b)[i] = IF i <= Len(a) THEN a[i] ELSE b[i - Len(a)]
  BY ConcatProperties
<1>2. Len(a) \in Nat /\ Len(b) \in Nat /\ Len(a) > 0
  BY LenProperties, EmptySeq
<1>3. a \o b # <<>>
  BY <1>1, <1>2, EmptySeq
<1>4. Head(a \o b) = (a \o b)[1] /\ Head(a) = a[1]
  BY <1>1
<1>5. /\ Tail(a) \in Seq(S) /\ Len(Tail(a)) = Len(a) - 1
      /\ \A i \in 1..Len(Tail(a)) : Tail(a)[i] = a[i + 1]
  BY HeadTailProperties
<1>6. /\ Tail(a) \o b \in Seq(S) /\ Len(Tail(a) \o b) = Len(Tail(a)) + Len(b)
      /\ \A i \in 1..(Len(Tail(a)) + Len(b)) :
           (Tail(a) \o b)[i] = IF i <= Len(Tail(a)) THEN Tail(a)[i] ELSE b[i - Len(Tail(a))]
  BY <1>5, ConcatProperties
<1> DEFINE c == a \o b
<1> HIDE DEF c
<1>7. /\ Tail(c) \in Seq(S) /\ Len(Tail(c)) = Len(c) - 1
      /\ \A i \in 1..Len(Tail(c)) : Tail(c)[i] = c[i + 1]
  BY <1>1, <1>3, HeadTailProperties DEF c
<1>8. Len(Tail(c)) = Len(Tail(a) \o b)
  BY <1>1, <1>2, <1>5, <1>6, <1>7 DEF c
<1>9. ASSUME NEW i \in 1..Len(Tail(c)) PROVE Tail(c)[i] = (Tail(a) \o b)[i]
  <2>1. /\ i \in Nat /\ i + 1 \in 1..(Len(a) + Len(b))
        /\ i \in 1..(Len(Tail(a)) + Len(b)) /\ Len(Tail(a)) = Len(a) - 1
    BY <1>1, <1>2, <1>5, <1>6, <1>7, <1>8 DEF c
  <2>2. Tail(c)[i] = IF i + 1 <= Len(a) THEN a[i + 1] ELSE b[(i + 1) - Len(a)]
    BY <1>1, <1>7, <2>1 DEF c
  <2>3. CASE i + 1 <= Len(a)
    <3>1. i \in 1..Len(Tail(a)) /\ i <= Len(Tail(a))
      BY <1>2, <2>1, <2>3
    <3> QED BY <1>5, <1>6, <2>1, <2>2, <2>3, <3>1
  <2>4. CASE ~(i + 1 <= Len(a))
    <3>1. ~(i <= Len(Tail(a))) /\ i - Len(Tail(a)) = (i + 1) - Len(a)
      BY <1>2, <2>1, <2>4
    <3> QED BY <1>6, <2>1, <2>2, <2>4, <3>1
  <2> QED BY <2>3, <2>4
<1>10. Tail(c) = Tail(a) \o b
  BY <1>6, <1>7, <1>8, <1>9, SeqEqual
<1>11. (a \o b)[1] = a[1]
  BY <1>1, <1>2
<1> QED BY <1>3, <1>4, <1>10, <1>11 DEF c

(* What is in hand stays when what waits is thrown away. *)
LEMMA ConcatKeepFirst ==
  ASSUME NEW S, NEW a \in Seq(S), NEW b \in Seq(S)
  PROVE  SubSeq(a \o b, 1, Len(a)) = a
<1>1. CASE a = <<>>
  BY <1>1, SubSeqEmpty, EmptySeq
<1>2. CASE a # <<>>
  <2>1. Len(a) \in 1..Len(a) /\ 1 \in 1..Len(a)
    BY <1>2, EmptySeq
  <2>2. SubSeq(a \o b, 1, Len(a)) = SubSeq(a, 1, Len(a))
    BY <2>1, SubSeqOfConcat1
  <2> QED BY <2>2, SubSeqFull
<1> QED BY <1>1, <1>2

(* The new message goes last. *)
LEMMA ConcatAppend ==
  ASSUME NEW S, NEW a \in Seq(S), NEW b \in Seq(S), NEW x \in S
  PROVE  a \o Append(b, x) = Append(a \o b, x)
<1>1. Append(b, x) = b \o <<x>> /\ <<x>> \in Seq(S)
  BY AppendIsConcat
<1>2. a \o b \in Seq(S)
  BY ConcatProperties
<1>3. Append(a \o b, x) = (a \o b) \o <<x>>
  BY <1>2, AppendIsConcat
<1> QED BY <1>1, <1>3, ConcatAssociative

(* A message passes from what waits into an empty hand. *)
LEMMA HeadThenTail ==
  ASSUME NEW S, NEW s \in Seq(S), s # <<>>
  PROVE  <<Head(s)>> \o Tail(s) = s
<1>1. Len(s) \in Nat /\ Len(s) > 0
  BY EmptySeq
<1>2. /\ Head(s) \in S /\ Tail(s) \in Seq(S) /\ Len(Tail(s)) = Len(s) - 1
      /\ \A i \in 1..Len(Tail(s)) : Tail(s)[i] = s[i + 1]
  BY HeadTailProperties
<1> DEFINE h == <<Head(s)>>
           t == Tail(s)
<1>3. /\ h \in Seq(S) /\ Len(h) = 1 /\ h[1] = s[1]
      /\ t \in Seq(S) /\ Len(t) = Len(s) - 1
      /\ \A i \in 1..Len(t) : t[i] = s[i + 1]
  BY <1>1, <1>2
<1> HIDE DEF h, t
<1>4. /\ h \o t \in Seq(S) /\ Len(h \o t) = Len(h) + Len(t)
      /\ \A i \in 1..(Len(h) + Len(t)) :
           (h \o t)[i] = IF i <= Len(h) THEN h[i] ELSE t[i - Len(h)]
  <2>1. h \in Seq(S) /\ t \in Seq(S)
    BY <1>3
  <2> QED BY <2>1, ConcatProperties
<1>5. Len(h \o t) = Len(s)
  BY <1>1, <1>3, <1>4
<1>6. ASSUME NEW i \in 1..Len(s) PROVE s[i] = (h \o t)[i]
  <2>1. CASE i = 1
    BY <1>1, <1>3, <1>4, <1>5, <2>1
  <2>2. CASE i # 1
    <3>1. i - 1 \in 1..Len(t) /\ ~(i <= Len(h)) /\ (i - 1) + 1 = i /\ i \in 1..(Len(h) + Len(t))
      BY <1>1, <1>3, <2>2
    <3> QED BY <1>3, <1>4, <3>1
  <2> QED BY <2>1, <2>2
<1>7. s = h \o t
  BY <1>4, <1>5, <1>6, SeqEqual
<1> QED BY <1>7 DEF h, t

LEMMA SingletonSeq ==
  ASSUME NEW S, NEW s \in Seq(S), Len(s) = 1
  PROVE  s = <<Head(s)>> /\ Tail(s) = <<>>
<1>1. s # <<>>
  BY EmptySeq
<1>2. Head(s) \in S /\ Tail(s) \in Seq(S) /\ Len(Tail(s)) = 0
  BY <1>1, HeadTailProperties
<1>3. Tail(s) = <<>>
  BY <1>2, EmptySeq
<1>4. <<Head(s)>> \o <<>> = <<Head(s)>>
  BY <1>2, ConcatEmptySeq
<1> QED BY <1>1, <1>3, <1>4, HeadThenTail

(***************************************************************************)
(* Numbering a sequence of message numbers from another origin.            *)
(***************************************************************************)
Shifted(s, k) == [i \in 1..Len(s) |-> s[i] - k]

LEMMA ShiftedProperties ==
  ASSUME NEW s \in Seq(Int), NEW k \in Int
  PROVE  /\ Shifted(s, k) \in Seq(Int)
         /\ Len(Shifted(s, k)) = Len(s)
         /\ \A i \in 1..Len(s) : Shifted(s, k)[i] = s[i] - k
<1>1. Len(s) \in Nat /\ \A i \in 1..Len(s) : s[i] \in Int
  BY LenProperties, ElementOfSeq
<1>2. Shifted(s, k) \in [1..Len(s) -> Int]
  BY <1>1 DEF Shifted
<1>3. Shifted(s, k) \in Seq(Int)
  BY <1>1, <1>2
<1>4. DOMAIN Shifted(s, k) = 1..Len(s)
  BY DEF Shifted
<1>5. Len(Shifted(s, k)) = Len(s)
  <2>1. DOMAIN Shifted(s, k) = 1..Len(Shifted(s, k)) /\ Len(Shifted(s, k)) \in Nat
    BY <1>3, LenProperties
  <2> QED BY <1>1, <1>4, <2>1
<1> QED BY <1>3, <1>5 DEF Shifted

LEMMA ShiftedAppend ==
  ASSUME NEW s \in Seq(Int), NEW x \in Int, NEW k \in Int
  PROVE  Shifted(Append(s, x), k) = Append(Shifted(s, k), x - k)
<1> DEFINE t == Append(s, x)
           a == Shifted(t, k)
           r == Shifted(s, k)
           b == Append(r, x - k)
<1>1. /\ t \in Seq(Int) /\ Len(t) = Len(s) + 1 /\ Len(s) \in Nat
      /\ \A i \in 1..Len(s) : t[i] = s[i]
      /\ t[Len(s) + 1] = x
  BY AppendProperties, LenProperties
<1> HIDE DEF t
<1>2. /\ r \in Seq(Int) /\ Len(r) = Len(s) /\ \A i \in 1..Len(s) : r[i] = s[i] - k
  BY ShiftedProperties
<1>3. /\ a \in Seq(Int) /\ Len(a) = Len(t) /\ \A i \in 1..Len(t) : a[i] = t[i] - k
  BY <1>1, ShiftedProperties
<1> HIDE DEF r, a
<1>4. /\ b \in Seq(Int) /\ Len(b) = Len(r) + 1
      /\ \A i \in 1..Len(r) : b[i] = r[i]
      /\ b[Len(r) + 1] = x - k
  <2>1. x - k \in Int
    OBVIOUS
  <2> QED BY <1>2, <2>1, AppendProperties
<1> HIDE DEF b
<1>5. ASSUME NEW i \in 1..Len(a) PROVE a[i] = b[i]
  <2>1. CASE i \in 1..Len(s)
    BY <1>1, <1>2, <1>3, <1>4, <2>1
  <2>2. CASE i = Len(s) + 1
    BY <1>1, <1>2, <1>3, <1>4, <2>2
  <2> QED BY <1>1, <1>3, <2>1, <2>2
<1>6. a = b
  <2>1. Len(a) = Len(b)
    BY <1>1, <1>2, <1>3, <1>4
  <2> QED BY <1>3, <1>4, <1>5, <2>1, SeqEqual
<1> QED BY <1>6 DEF a, b, r, t

LEMMA ShiftedHeadTail ==
  ASSUME NEW s \in Seq(Int), NEW k \in Int, s # <<>>
  PROVE  /\ Shifted(s, k) # <<>>
         /\ Head(Shifted(s, k)) = Head(s) - k
         /\ Tail(Shifted(s, k)) = Shifted(Tail(s), k)
<1> DEFINE r == Shifted(s, k)
           t == Tail(s)
           a == Tail(r)
           b == Shifted(t, k)
<1>1. Len(s) \in Nat /\ Len(s) > 0
  BY EmptySeq
<1>2. /\ r \in Seq(Int) /\ Len(r) = Len(s) /\ \A i \in 1..Len(s) : r[i] = s[i] - k
  BY ShiftedProperties
<1>3. /\ t \in Seq(Int) /\ Len(t) = Len(s) - 1 /\ \A i \in 1..Len(t) : t[i] = s[i + 1]
  BY HeadTailProperties
<1> HIDE DEF r, t
<1>4. r # <<>> /\ Head(r) = r[1] /\ Head(s) = s[1] /\ r[1] = s[1] - k
  <2>1. r # <<>>
    BY <1>1, <1>2, EmptySeq
  <2>2. r[1] = s[1] - k
    BY <1>1, <1>2
  <2>3. Head(r) = r[1]
    BY <1>2
  <2>4. Head(s) = s[1]
    OBVIOUS
  <2> QED BY <2>1, <2>2, <2>3, <2>4
<1>5. /\ a \in Seq(Int) /\ Len(a) = Len(r) - 1 /\ \A i \in 1..Len(a) : a[i] = r[i + 1]
  BY <1>2, <1>4, HeadTailProperties
<1>6. /\ b \in Seq(Int) /\ Len(b) = Len(t) /\ \A i \in 1..Len(t) : b[i] = t[i] - k
  BY <1>3, ShiftedProperties
<1> HIDE DEF a, b
<1>7. ASSUME NEW i \in 1..Len(a) PROVE a[i] = b[i]
  <2>1. i \in 1..Len(t) /\ i + 1 \in 1..Len(s)
    BY <1>1, <1>2, <1>3, <1>5
  <2> QED BY <1>2, <1>3, <1>5, <1>6, <2>1
<1>8. a = b
  <2>1. Len(a) = Len(b)
    BY <1>2, <1>3, <1>5, <1>6
  <2> QED BY <1>5, <1>6, <1>7, <2>1, SeqEqual
<1> QED BY <1>4, <1>8 DEF a, b, r, t

LEMMA ShiftedSubSeq ==
  ASSUME NEW s \in Seq(Int), NEW k \in Int, NEW n \in 0..Len(s)
  PROVE  Shifted(SubSeq(s, 1, n), k) = SubSeq(Shifted(s, k), 1, n)
<1> DEFINE r == Shifted(s, k)
           t == SubSeq(s, 1, n)
           a == Shifted(t, k)
           b == SubSeq(r, 1, n)
<1>0. Len(s) \in Nat /\ n \in Nat /\ \A i \in 1..Len(s) : s[i] \in Int
  BY LenProperties, ElementOfSeq
<1>1. /\ r \in Seq(Int) /\ Len(r) = Len(s) /\ \A i \in 1..Len(s) : r[i] = s[i] - k
  BY ShiftedProperties
<1> HIDE DEF r
<1>2. /\ t \in Seq(Int) /\ Len(t) = n /\ \A i \in 1..n : t[i] = s[i]
  <2>1. \A i \in 1..n : s[i] \in Int
    BY <1>0
  <2>2. /\ t \in Seq(Int) /\ Len(t) = (IF 1 <= n THEN n - 1 + 1 ELSE 0)
        /\ \A i \in 1..(n - 1 + 1) : t[i] = s[1 + i - 1]
    BY <1>0, <2>1, SubSeqProperties
  <2> HIDE DEF t
  <2> QED BY <1>0, <2>2
<1>3. /\ b \in Seq(Int) /\ Len(b) = n /\ \A i \in 1..n : b[i] = r[i]
  <2>1. \A i \in 1..n : r[i] \in Int
    BY <1>0, <1>1
  <2>2. /\ b \in Seq(Int) /\ Len(b) = (IF 1 <= n THEN n - 1 + 1 ELSE 0)
        /\ \A i \in 1..(n - 1 + 1) : b[i] = r[1 + i - 1]
    BY <1>0, <2>1, SubSeqProperties
  <2> HIDE DEF b
  <2> QED BY <1>0, <2>2
<1> HIDE DEF t, b
<1>4. /\ a \in Seq(Int) /\ Len(a) = Len(t) /\ \A i \in 1..Len(t) : a[i] = t[i] - k
  BY <1>2, ShiftedProperties
<1> HIDE DEF a
<1>5. a = b
  <2>1. Len(a) = Len(b)
    BY <1>2, <1>3, <1>4
  <2>2. ASSUME NEW i \in 1..Len(a) PROVE a[i] = b[i]
    <3>1. i \in 1..n /\ i \in 1..Len(s)
      BY <1>0, <1>2, <1>4
    <3> QED BY <1>1, <1>2, <1>3, <1>4, <3>1
  <2> QED BY <1>3, <1>4, <2>1, <2>2, SeqEqual
<1> QED BY <1>5 DEF a, b, r, t

LEMMA ShiftedWithout ==
  ASSUME NEW s \in Seq(Int), NEW k \in Int, NEW n \in 1..Len(s)
  PROVE  Shifted(Without(s, n), k) = Without(Shifted(s, k), n)
<1> DEFINE r == Shifted(s, k)
           t == Without(s, n)
           a == Shifted(t, k)
           b == Without(r, n)
<1>0. Len(s) \in Nat /\ n \in Nat
  BY LenProperties
<1>1. /\ r \in Seq(Int) /\ Len(r) = Len(s) /\ \A i \in 1..Len(s) : r[i] = s[i] - k
  BY ShiftedProperties
<1> HIDE DEF r
<1>2. /\ t \in Seq(Int) /\ Len(t) = Len(s) - 1
      /\ \A i \in 1..(Len(s) - 1) : t[i] = IF i < n THEN s[i] ELSE s[i + 1]
  BY WithoutProperties
<1>3. /\ b \in Seq(Int) /\ Len(b) = Len(r) - 1
      /\ \A i \in 1..(Len(r) - 1) : b[i] = IF i < n THEN r[i] ELSE r[i + 1]
  BY <1>1, WithoutProperties
<1> HIDE DEF t, b
<1>4. /\ a \in Seq(Int) /\ Len(a) = Len(t) /\ \A i \in 1..Len(t) : a[i] = t[i] - k
  BY <1>2, ShiftedProperties
<1> HIDE DEF a
<1>5. ASSUME NEW i \in 1..Len(a) PROVE a[i] = b[i]
  <2>1. i \in 1..(Len(s) - 1) /\ i \in 1..Len(s) /\ i + 1 \in 1..Len(s)
    BY <1>0, <1>2, <1>4
  <2> QED BY <1>1, <1>2, <1>3, <1>4, <2>1
<1>6. Len(a) = Len(b)
  BY <1>1, <1>2, <1>3, <1>4
<1>7. a = b
  BY <1>3, <1>4, <1>5, <1>6, SeqEqual
<1> QED BY <1>7 DEF a, b, r, t

=============================================================================
