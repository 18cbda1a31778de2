----------------------------- MODULE LossyFifo -----------------------------
(***************************************************************************)
(* What every hand-off queue of mkt promises its consumer, whatever the    *)
(* queue is made of.  Each consumer has one; its messages are named by the *)
(* order in which they were offered to it: 1, 2, 3, ...  A queue may lose  *)
(* a message (and then counts it), but it delivers the others at most once *)
(* and in the order offered, and once closed it only winds down.           *)
(*                                                                         *)
(* The hub's observer queues and dispatch channel, the broadcaster's       *)
(* per-session rings and the notifier queues implement this module; they   *)
(* differ in which message they lose.                                      *)
(***************************************************************************)
EXTENDS SequencesExt, SequenceLemmas

CONSTANT Consumers

VARIABLES             \* of each consumer:
  offered,     \* how many messages producers have handed over
  pending,     \* accepted and not yet delivered, oldest first
  received,    \* delivered to the consumer, oldest first
  lost,        \* how many were lost to a full queue, and counted
  discarded,   \* how many were thrown away when the queue was closed
  open         \* FALSE once the queue has been closed

vars == <<offered, pending, received, lost, discarded, open>>

Init ==
  /\ offered = [c \in Consumers |-> 0]
  /\ pending = [c \in Consumers |-> <<>>]
  /\ received = [c \in Consumers |-> <<>>]
  /\ lost = [c \in Consumers |-> 0]
  /\ discarded = [c \in Consumers |-> 0]
  /\ open = [c \in Consumers |-> TRUE]

(* The queue takes the new message, or takes it and loses one: the oldest  *)
(* that is still evictable, or the new one itself (k = Len(pending) + 1).  *)
Accepts(c) ==
  /\ pending'[c] = Append(pending[c], offered[c] + 1)
  /\ lost'[c] = lost[c]

Loses(c, k) ==
  /\ pending'[c] = RemoveAt(Append(pending[c], offered[c] + 1), k)
  /\ lost'[c] = lost[c] + 1

Offer(c) ==
  /\ open[c]
  /\ offered'[c] = offered[c] + 1
  /\ Accepts(c) \/ \E k \in 1..(Len(pending[c]) + 1) : Loses(c, k)
  /\ UNCHANGED <<received[c], discarded[c], open[c]>>

Deliver(c) ==
  /\ pending[c] # <<>>
  /\ received'[c] = Append(received[c], Head(pending[c]))
  /\ pending'[c] = Tail(pending[c])
  /\ UNCHANGED <<offered[c], lost[c], discarded[c], open[c]>>

(* Closing keeps at most what the consumer had already taken in hand. *)
Close(c) ==
  /\ open[c]
  /\ ~open'[c]
  /\ \E n \in 0..Len(pending[c]) :
       /\ pending'[c] = SubSeq(pending[c], 1, n)
       /\ discarded'[c] = discarded[c] + (Len(pending[c]) - n)
  /\ UNCHANGED <<offered[c], received[c], lost[c]>>

Idle(c) ==
  UNCHANGED <<offered[c], pending[c], received[c], lost[c], discarded[c], open[c]>>

(* One step of the program may move several queues. *)
Next == \A c \in Consumers : Offer(c) \/ Deliver(c) \/ Close(c) \/ Idle(c)

Spec == Init /\ [][Next]_vars

-----------------------------------------------------------------------------

(* received followed by pending is strictly increasing: nothing overtakes,  *)
(* nothing is delivered twice.                                              *)
Ordered ==
  \A c \in Consumers :
    /\ \A i, j \in 1..Len(received[c]) : i < j => received[c][i] < received[c][j]
    /\ \A i, j \in 1..Len(pending[c]) : i < j => pending[c][i] < pending[c][j]
    /\ \A i \in 1..Len(received[c]), j \in 1..Len(pending[c]) :
         received[c][i] < pending[c][j]

(* Every message offered is delivered, pending, counted as lost, or was    *)
(* discarded by Close: none vanishes silently.                             *)
Accounted ==
  \A c \in Consumers :
    offered[c] = Len(received[c]) + Len(pending[c]) + lost[c] + discarded[c]

-----------------------------------------------------------------------------
(* What keeps that: all messages are among those offered so far, so that   *)
(* the next one is beyond them.                                            *)
Increasing(s) == \A i, j \in 1..Len(s) : i < j => s[i] < s[j]
Ledger(p, r, n) ==
  /\ p \in Seq(Nat) /\ r \in Seq(Nat) /\ Increasing(p) /\ Increasing(r)
  /\ \A i \in 1..Len(r), j \in 1..Len(p) : r[i] < p[j]
  /\ \A i \in 1..Len(r) : r[i] <= n
  /\ \A i \in 1..Len(p) : p[i] <= n
Ledgers ==
  /\ \A c \in Consumers :
       /\ {offered[c], lost[c], discarded[c]} \subseteq Nat
       /\ Ledger(pending[c], received[c], offered[c])
  /\ Accounted

LEMMA LedgerAccepts ==
  ASSUME NEW p, NEW r, NEW n \in Nat, Ledger(p, r, n)
  PROVE  Ledger(Append(p, n + 1), r, n + 1) /\ Len(Append(p, n + 1)) = Len(p) + 1
<1> DEFINE q == Append(p, n + 1)
<1>1. q \in Seq(Nat) /\ Len(q) = Len(p) + 1 /\ Len(p) \in Nat
      /\ (\A i \in 1..Len(p) : q[i] = p[i]) /\ q[Len(p) + 1] = n + 1
  BY AppendProperties, LenProperties DEF Ledger
<1> HIDE DEF q
<1>2. \A i \in 1..Len(p) : p[i] \in Nat /\ p[i] <= n
  BY ElementOfSeq DEF Ledger
<1>3. \A i \in 1..Len(r) : r[i] \in Nat /\ r[i] <= n
  BY ElementOfSeq DEF Ledger
<1>4. ASSUME NEW i \in 1..Len(q), NEW j \in 1..Len(q), i < j PROVE q[i] < q[j]
  <2>1. i \in 1..Len(p) /\ i \in Nat /\ j \in Nat
    BY <1>1, <1>4
  <2>2. CASE j \in 1..Len(p)
    BY <1>1, <1>4, <2>1, <2>2 DEF Ledger, Increasing
  <2>3. CASE j = Len(p) + 1
    <3>1. q[i] = p[i] /\ p[i] \in Nat /\ p[i] <= n
      BY <1>1, <1>2, <2>1
    <3>2. q[j] = n + 1
      BY <1>1, <2>3
    <3>3. QED
      BY <3>1, <3>2
  <2>4. QED
    BY <1>1, <2>2, <2>3
<1>5. ASSUME NEW i \in 1..Len(r), NEW j \in 1..Len(q) PROVE r[i] < q[j]
  <2>1. CASE j \in 1..Len(p)
    BY <1>1, <2>1 DEF Ledger
  <2>2. CASE j = Len(p) + 1
    BY <1>1, <1>3, <2>2
  <2>3. QED
    BY <1>1, <2>1, <2>2
<1>6. \A i \in 1..Len(r) : r[i] <= n + 1
  BY <1>3
<1>7. ASSUME NEW i \in 1..Len(q) PROVE q[i] <= n + 1
  <2>1. CASE i \in 1..Len(p)
    BY <1>1, <1>2, <2>1
  <2>2. CASE i = Len(p) + 1
    BY <1>1, <2>2
  <2>3. QED
    BY <1>1, <2>1, <2>2
<1>8. Ledger(q, r, n + 1)
  BY <1>1, <1>4, <1>5, <1>6, <1>7 DEF Ledger, Increasing
<1>9. QED
  BY <1>1, <1>8 DEF q

LEMMA LedgerLoses ==
  ASSUME NEW p, NEW r, NEW n \in Nat, Ledger(p, r, n), NEW k \in 1..Len(p)
  PROVE  Ledger(RemoveAt(p, k), r, n) /\ Len(RemoveAt(p, k)) = Len(p) - 1
<1> DEFINE q == RemoveAt(p, k)
<1>1. p \in Seq(Nat) /\ r \in Seq(Nat) /\ Len(p) \in Nat
  BY LenProperties DEF Ledger
<1>2. q \in Seq(Nat) /\ Len(q) = Len(p) - 1
      /\ \A i \in 1..(Len(p) - 1) : q[i] = IF i < k THEN p[i] ELSE p[i + 1]
  BY <1>1, WithoutProperties DEF RemoveAt, Without
<1>0. k \in Nat /\ k >= 1 /\ k <= Len(p) /\ Len(q) = Len(p) - 1
  BY <1>1, <1>2
<1> HIDE DEF q
<1>3. ASSUME NEW i \in 1..Len(q) PROVE \E m \in 1..Len(p) : q[i] = p[m]
  <2>1. i \in 1..Len(p) /\ i + 1 \in 1..Len(p) /\ i \in 1..(Len(p) - 1)
    BY <1>0, <1>1
  <2>2. q[i] = p[i] \/ q[i] = p[i + 1]
    BY <1>2, <2>1
  <2>3. QED
    BY <2>1, <2>2
<1>4. ASSUME NEW i \in 1..Len(q), NEW j \in 1..Len(q), i < j PROVE q[i] < q[j]
  <2>1. i \in Nat /\ j \in Nat /\ i \in 1..(Len(p) - 1) /\ j \in 1..(Len(p) - 1)
    BY <1>0, <1>1
  <2>2. /\ i \in 1..Len(p) /\ i + 1 \in 1..Len(p) /\ j \in 1..Len(p) /\ j + 1 \in 1..Len(p)
        /\ i < j + 1 /\ i + 1 < j + 1
    BY <1>0, <1>1, <1>4, <2>1
  <2>3. q[i] = (IF i < k THEN p[i] ELSE p[i + 1]) /\ q[j] = IF j < k THEN p[j] ELSE p[j + 1]
    BY <1>2, <2>1
  <2>4. i >= k => j >= k
    BY <1>0, <1>4, <2>1
  <2>5. p[i] < p[j] /\ p[i] < p[j + 1] /\ p[i + 1] < p[j + 1]
    BY <1>4, <2>2 DEF Ledger, Increasing
  <2>6. QED
    BY <1>0, <2>1, <2>3, <2>4, <2>5
<1>5. \A i \in 1..Len(r), j \in 1..Len(q) : r[i] < q[j]
  BY <1>3 DEF Ledger
<1>6. \A i \in 1..Len(q) : q[i] <= n
  BY <1>3 DEF Ledger
<1>7. Ledger(q, r, n)
  BY <1>2, <1>4, <1>5, <1>6 DEF Ledger, Increasing
<1>8. QED
  BY <1>2, <1>7 DEF q

LEMMA LedgerDelivers ==
  ASSUME NEW p, NEW r, NEW n \in Nat, Ledger(p, r, n), p # <<>>
  PROVE  /\ Ledger(Tail(p), Append(r, Head(p)), n)
         /\ Len(Tail(p)) = Len(p) - 1 /\ Len(Append(r, Head(p))) = Len(r) + 1
<1> DEFINE q == Tail(p)
           s == Append(r, Head(p))
<1>1. p \in Seq(Nat) /\ r \in Seq(Nat) /\ Len(p) \in Nat /\ Len(p) >= 1 /\ Len(r) \in Nat
  BY LenProperties, EmptySeq DEF Ledger
<1>2. q \in Seq(Nat) /\ Len(q) = Len(p) - 1 /\ (\A i \in 1..Len(q) : q[i] = p[i + 1]) /\ Head(p) = p[1]
  BY <1>1, HeadTailProperties
<1>3. p[1] \in Nat
  BY <1>1, ElementOfSeq
<1>4. s \in Seq(Nat) /\ Len(s) = Len(r) + 1 /\ (\A i \in 1..Len(r) : s[i] = r[i]) /\ s[Len(r) + 1] = p[1]
  BY <1>1, <1>2, <1>3, AppendProperties
<1> HIDE DEF q, s
<1>5. \A j \in 1..Len(q) : j + 1 \in 1..Len(p) /\ p[1] < p[j + 1] /\ q[j] = p[j + 1]
  BY <1>1, <1>2 DEF Ledger, Increasing
<1>6. \A i \in 1..Len(r) : r[i] < p[1] /\ s[i] = r[i]
  BY <1>1, <1>4 DEF Ledger
<1>7. Increasing(q)
  <2>1. ASSUME NEW i \in 1..Len(q), NEW j \in 1..Len(q), i < j PROVE q[i] < q[j]
    <3>1. i + 1 \in 1..Len(p) /\ j + 1 \in 1..Len(p) /\ i + 1 < j + 1
      BY <1>1, <1>2, <2>1
    <3>2. QED
      BY <1>5, <3>1 DEF Ledger, Increasing
  <2>2. QED
    BY <2>1 DEF Increasing
<1>8. Increasing(s)
  <2>1. ASSUME NEW i \in 1..Len(s), NEW j \in 1..Len(s), i < j PROVE s[i] < s[j]
    <3>1. i \in 1..Len(r)
      BY <1>1, <1>4, <2>1
    <3>2. CASE j \in 1..Len(r)
      BY <1>6, <2>1, <3>1, <3>2 DEF Ledger, Increasing
    <3>3. CASE j = Len(r) + 1
      BY <1>4, <1>6, <3>1, <3>3
    <3>4. QED
      BY <1>1, <1>4, <3>2, <3>3
  <2>2. QED
    BY <2>1 DEF Increasing
<1>9. ASSUME NEW i \in 1..Len(s), NEW j \in 1..Len(q) PROVE s[i] < q[j]
  <2>1. CASE i \in 1..Len(r)
    BY <1>5, <1>6, <2>1 DEF Ledger
  <2>2. CASE i = Len(r) + 1
    BY <1>4, <1>5, <2>2
  <2>3. QED
    BY <1>1, <1>4, <2>1, <2>2
<1>10. ASSUME NEW i \in 1..Len(s) PROVE s[i] <= n
  <2>1. CASE i \in 1..Len(r)
    BY <1>6, <2>1 DEF Ledger
  <2>2. CASE i = Len(r) + 1
    <3>1. 1 \in 1..Len(p)
      BY <1>1
    <3>2. QED
      BY <1>4, <2>2, <3>1 DEF Ledger
  <2>3. QED
    BY <1>1, <1>4, <2>1, <2>2
<1>11. \A i \in 1..Len(q) : q[i] <= n
  BY <1>5 DEF Ledger
<1>12. Ledger(q, s, n)
  BY <1>2, <1>4, <1>7, <1>8, <1>9, <1>10, <1>11 DEF Ledger
<1>13. QED
  BY <1>2, <1>4, <1>12 DEF q, s

LEMMA LedgerCloses ==
  ASSUME NEW p, NEW r, NEW n \in Nat, Ledger(p, r, n), NEW k \in 0..Len(p)
  PROVE  Ledger(SubSeq(p, 1, k), r, n) /\ Len(SubSeq(p, 1, k)) = k
<1> DEFINE q == SubSeq(p, 1, k)
<1>1. p \in Seq(Nat) /\ Len(p) \in Nat
  BY LenProperties DEF Ledger
<1>2. q \in Seq(Nat) /\ Len(q) = k /\ \A i \in 1..k : q[i] = p[i]
  BY <1>1
<1> HIDE DEF q
<1>3. \A i \in 1..k : i \in 1..Len(p)
  BY <1>1
<1>4. Ledger(q, r, n)
  BY <1>2, <1>3 DEF Ledger, Increasing
<1>5. QED
  BY <1>2, <1>4 DEF q

LEMMA LedgersStep ==
  ASSUME Ledgers, Next
  PROVE  Ledgers'
<1> SUFFICES ASSUME NEW c \in Consumers
             PROVE  /\ {offered'[c], lost'[c], discarded'[c]} \subseteq Nat
                    /\ Ledger(pending'[c], received'[c], offered'[c])
                    /\ offered'[c] = Len(received'[c]) + Len(pending'[c]) + lost'[c] + discarded'[c]
  BY DEF Ledgers, Accounted
<1> DEFINE p == pending[c]
           r == received[c]
           n == offered[c]
           l == lost[c]
           d == discarded[c]
           lp == Len(p)
           lr == Len(r)
<1>1. Ledger(p, r, n) /\ n \in Nat /\ l \in Nat /\ d \in Nat /\ n = lr + lp + l + d
  BY DEF Ledgers, Accounted
<1>2. lp \in Nat /\ lr \in Nat
  BY <1>1, LenProperties DEF Ledger
<1>3. Offer(c) \/ Deliver(c) \/ Close(c) \/ Idle(c)
  BY DEF Next
<1>4. CASE Offer(c)
  <2>1. offered'[c] = n + 1 /\ received'[c] = r /\ discarded'[c] = d
    BY <1>4 DEF Offer
  <2>2. Ledger(Append(p, n + 1), r, n + 1) /\ Len(Append(p, n + 1)) = lp + 1
    BY <1>1, LedgerAccepts
  <2>3. CASE Accepts(c)
    <3>1. Ledger(pending'[c], r, n + 1) /\ Len(pending'[c]) = lp + 1 /\ lost'[c] = l
      BY <2>2, <2>3 DEF Accepts
    <3> HIDE DEF p, r, n, l, d, lp, lr
    <3>2. n + 1 = lr + (lp + 1) + l + d /\ n + 1 \in Nat
      BY <1>1, <1>2
    <3>3. QED
      BY <1>1, <2>1, <3>1, <3>2 DEF lr
  <2>4. ASSUME NEW k \in 1..(lp + 1), Loses(c, k)
        PROVE  /\ Ledger(pending'[c], r, n + 1) /\ Len(pending'[c]) = lp /\ lost'[c] = l + 1
    <3> DEFINE q == Append(p, n + 1)
    <3>1. pending'[c] = RemoveAt(q, k) /\ lost'[c] = l + 1
      BY <2>4 DEF Loses
    <3>2. Ledger(q, r, n + 1) /\ Len(q) = lp + 1
      BY <2>2
    <3> HIDE DEF p, r, n, l, d, lp, lr, q
    <3>3. k \in 1..Len(q) /\ n + 1 \in Nat
      BY <1>1, <3>2
    <3>4. Ledger(RemoveAt(q, k), r, n + 1) /\ Len(RemoveAt(q, k)) = Len(q) - 1
      BY <3>2, <3>3, LedgerLoses
    <3>5. (lp + 1) - 1 = lp
      BY <1>2
    <3>6. QED
      BY <3>1, <3>2, <3>4, <3>5
  <2>5. CASE \E k \in 1..(lp + 1) : Loses(c, k)
    <3>1. Ledger(pending'[c], r, n + 1) /\ Len(pending'[c]) = lp /\ lost'[c] = l + 1
      BY <2>4, <2>5
    <3> HIDE DEF p, r, n, l, d, lp, lr
    <3>2. n + 1 = lr + lp + (l + 1) + d /\ n + 1 \in Nat /\ l + 1 \in Nat
      BY <1>1, <1>2
    <3>3. QED
      BY <1>1, <2>1, <3>1, <3>2 DEF lr
  <2>6. QED
    BY <1>4, <2>3, <2>5 DEF Offer
<1>5. CASE Deliver(c)
  <2>1. p # <<>> /\ received'[c] = Append(r, Head(p)) /\ pending'[c] = Tail(p)
        /\ offered'[c] = n /\ lost'[c] = l /\ discarded'[c] = d
    BY <1>5 DEF Deliver
  <2>2. Ledger(Tail(p), Append(r, Head(p)), n) /\ Len(Tail(p)) = lp - 1 /\ Len(Append(r, Head(p))) = lr + 1
    BY <1>1, <2>1, LedgerDelivers
  <2> HIDE DEF p, r, n, l, d, lp, lr
  <2>3. n = (lr + 1) + (lp - 1) + l + d
    BY <1>1, <1>2
  <2>4. QED
    BY <1>1, <2>1, <2>2, <2>3
<1>6. CASE Close(c)
  <2>1. PICK k \in 0..lp : pending'[c] = SubSeq(p, 1, k) /\ discarded'[c] = d + (lp - k)
    BY <1>6 DEF Close
  <2>2. offered'[c] = n /\ received'[c] = r /\ lost'[c] = l
    BY <1>6 DEF Close
  <2>3. Ledger(SubSeq(p, 1, k), r, n) /\ Len(SubSeq(p, 1, k)) = k
    BY <1>1, LedgerCloses
  <2> HIDE DEF p, r, n, l, d, lp, lr
  <2>4. d + (lp - k) \in Nat /\ n = lr + k + l + (d + (lp - k))
    BY <1>1, <1>2
  <2>5. QED
    BY <1>1, <2>1, <2>2, <2>3, <2>4 DEF lr
<1>7. CASE Idle(c)
  BY <1>1, <1>7 DEF Idle
<1>8. QED
  BY <1>3, <1>4, <1>5, <1>6, <1>7

(* A queue that implements this module delivers in the order offered and   *)
(* at most once, whatever it loses and whenever it is closed, and counts   *)
(* everything that is not delivered.                                       *)
THEOREM FifosAreSound == Spec => [](Ordered /\ Accounted)
<1>1. Init => Ledgers
  <2>1. Ledger(<<>>, <<>>, 0)
    BY EmptySeq DEF Ledger, Increasing
  <2>2. Len(<<>>) = 0
    BY EmptySeq
  <2>3. QED
    BY <2>1, <2>2 DEF Init, Ledgers, Accounted
<1>2. Ledgers /\ [Next]_vars => Ledgers'
  <2>1. Ledgers /\ UNCHANGED vars => Ledgers'
    BY DEF vars, Ledgers, Accounted
  <2>2. QED
    BY <2>1, LedgersStep
<1>3. Ledgers => Ordered /\ Accounted
  BY DEF Ledgers, Ledger, Increasing, Ordered
<1>4. QED
  BY <1>1, <1>2, <1>3, PTL DEF Spec
=============================================================================
