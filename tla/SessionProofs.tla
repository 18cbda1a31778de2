---------------------------- MODULE SessionProofs ----------------------------
(***************************************************************************)
(* Proofs about the sessions.  For any producers, any sessions that come   *)
(* and go, and any queue size: what the broadcaster hands to each.  And    *)
(* for any watchlist and any order of keys, clicks and answers: what a     *)
(* session's dashboard draws under which title and what has the keys.      *)
(***************************************************************************)
EXTENDS Broadcast, Dashboard, SequenceLemmas, FiniteSetTheorems

(***************************************************************************)
(* The inductive invariant: whom a Send has still to visit stays           *)
(* registered while it holds b.mu; and what is where of the messages that  *)
(* each session was offered.                                               *)
(***************************************************************************)
Locking ==
  \A p \in Producers :
    /\ todo[p] \subseteq Registered
    /\ p \notin sending => todo[p] = {}

Untouched(s) ==
  /\ pushed[s] = <<>> /\ queue[s] = <<>> /\ handing[s] = <<>> /\ handled[s] = <<>>
  /\ drops[s] = 0 /\ discarded[s] = 0 /\ pump[s] = "none"

Balance(s) ==
  Len(pushed[s]) = Len(handled[s]) + Len(handing[s]) + Len(queue[s]) + drops[s] + discarded[s]

Newest(s) ==
  phase[s] # "stopped" =>
    \A i \in 1..Len(queue[s]) : queue[s][i] = Len(pushed[s]) - Len(queue[s]) + i

Hand(s) ==
  /\ pump[s] = "sending" => Len(handing[s]) = 1
  /\ pump[s] # "sending" => handing[s] = <<>>

Book(s) ==
  /\ phase[s] = "new" => Untouched(s)
  /\ Hand(s)
  /\ Balance(s)
  /\ Newest(s)

Books == \A s \in Sessions : Book(s)

IInv == TypeOK /\ Locking /\ Books

-----------------------------------------------------------------------------

(* The ring: what its slots hold, read from the head, is a queue.          *)

LEMMA SlotArithmetic ==
  /\ QueueSize \in Nat \ {0}
  /\ \A a \in 0..(2 * QueueSize - 1) : Slot(a) = IF a < QueueSize THEN a ELSE a - QueueSize
<1>1. QueueSize \in Nat \ {0}
  BY BroadcastAssumption DEF BroadcastAssumption
<1>2. ASSUME NEW a \in 0..(QueueSize - 1) PROVE a % QueueSize = a
  BY <1>1
<1>3. ASSUME NEW a \in QueueSize..(2 * QueueSize - 1) PROVE a % QueueSize = a - QueueSize
  BY <1>1
<1>4. ASSUME NEW a \in 0..(2 * QueueSize - 1)
      PROVE  Slot(a) = IF a < QueueSize THEN a ELSE a - QueueSize
  <2>1. a \in 0..(QueueSize - 1) \/ a \in QueueSize..(2 * QueueSize - 1)
    BY <1>1
  <2>2. a \in 0..(QueueSize - 1) => a < QueueSize
    BY <1>1
  <2>3. a \in QueueSize..(2 * QueueSize - 1) => ~(a < QueueSize)
    BY <1>1
  <2> QED BY <1>2, <1>3, <2>1, <2>2, <2>3 DEF Slot
<1> QED BY <1>1, <1>4

LEMMA WaitingIsQueue ==
  ASSUME NEW b \in [Slots -> Nat], NEW h \in Slots, NEW n \in 0..QueueSize
  PROVE  /\ Waiting(b, h, n) \in Seq(Nat) /\ Len(Waiting(b, h, n)) = n
         /\ \A i \in 1..n : /\ Slot(h + (i - 1)) \in Slots
                            /\ Waiting(b, h, n)[i] = b[Slot(h + (i - 1))]
<1>1. ASSUME NEW i \in 1..n PROVE Slot(h + (i - 1)) \in Slots
  BY SlotArithmetic DEF Slots
<1>2. Waiting(b, h, n) \in [1..n -> Nat] /\ n \in Nat
  BY <1>1, SlotArithmetic DEF Waiting
<1>3. \A i \in 1..n : Waiting(b, h, n)[i] = b[Slot(h + (i - 1))]
  BY DEF Waiting
<1> QED BY <1>1, <1>2, <1>3

Changed(b, k, v) == [b EXCEPT ![k] = v]

LEMMA ChangedProperties ==
  ASSUME NEW b \in [Slots -> Nat], NEW k \in Slots, NEW v \in Nat
  PROVE  /\ Changed(b, k, v) \in [Slots -> Nat]
         /\ Changed(b, k, v)[k] = v
         /\ \A j \in Slots : j # k => Changed(b, k, v)[j] = b[j]
BY DEF Changed

(* A message written behind the newest is appended. *)
LEMMA WriteAppends ==
  ASSUME NEW b \in [Slots -> Nat], NEW h \in Slots, NEW n \in 0..(QueueSize - 1), NEW v \in Nat
  PROVE  /\ Slot(h + n) \in Slots
         /\ Waiting(Changed(b, Slot(h + n), v), h, n + 1) = Append(Waiting(b, h, n), v)
<1> DEFINE c == Changed(b, Slot(h + n), v)
           old == Waiting(b, h, n)
           new == Waiting(c, h, n + 1)
<1>1. /\ Slot(h + n) \in Slots
      /\ \A i \in 1..n : Slot(h + (i - 1)) # Slot(h + n) /\ Slot(h + (i - 1)) \in Slots
      /\ n \in 0..QueueSize /\ n + 1 \in 0..QueueSize /\ n \in Nat
  BY SlotArithmetic DEF Slots
<1>2. /\ c \in [Slots -> Nat] /\ c[Slot(h + n)] = v
      /\ \A k \in Slots : k # Slot(h + n) => c[k] = b[k]
  <2>1. Slot(h + n) \in Slots
    BY <1>1
  <2>2. /\ Slot(h + n) \in DOMAIN b /\ DOMAIN b = Slots
        /\ \A j \in Slots : b[j] \in Nat
    BY <2>1
  <2> QED BY <2>1, <2>2 DEF Changed
<1> HIDE DEF c
<1>3. old \in Seq(Nat) /\ Len(old) = n /\ \A i \in 1..n : old[i] = b[Slot(h + (i - 1))]
  BY <1>1, WaitingIsQueue
<1>4. new \in Seq(Nat) /\ Len(new) = n + 1 /\ \A i \in 1..(n + 1) : new[i] = c[Slot(h + (i - 1))]
  BY <1>1, <1>2, WaitingIsQueue
<1> HIDE DEF old, new
<1>5. \A i \in 1..n : new[i] = old[i]
  <2>1. \A i \in 1..n : i \in 1..(n + 1)
    BY <1>1
  <2> QED BY <1>1, <1>2, <1>3, <1>4, <2>1
<1>6. new[n + 1] = v
  <2>1. (n + 1) - 1 = n /\ n + 1 \in 1..(n + 1)
    BY <1>1
  <2> QED BY <1>2, <1>4, <2>1
<1>7. /\ Append(old, v) \in Seq(Nat) /\ Len(Append(old, v)) = n + 1
      /\ \A i \in 1..n : Append(old, v)[i] = old[i]
      /\ Append(old, v)[n + 1] = v
  BY <1>3, AppendProperties
<1>8. \A i \in 1..(n + 1) : i \in 1..n \/ i = n + 1
  BY <1>1
<1>9. new = Append(old, v)
  BY <1>4, <1>5, <1>6, <1>7, <1>8, SeqEqual
<1> QED BY <1>1, <1>9 DEF old, new, c

(* The message of the head slot is the queue's first; without it the rest  *)
(* begins a slot further.                                                  *)
LEMMA TakeIsTail ==
  ASSUME NEW b \in [Slots -> Nat], NEW h \in Slots, NEW n \in 1..QueueSize
  PROVE  /\ Waiting(b, h, n) # <<>>
         /\ Head(Waiting(b, h, n)) = b[h]
         /\ Slot(h + 1) \in Slots
         /\ Waiting(Changed(b, h, 0), Slot(h + 1), n - 1) = Tail(Waiting(b, h, n))
<1> DEFINE c == Changed(b, h, 0)
           old == Waiting(b, h, n)
           new == Waiting(c, Slot(h + 1), n - 1)
<1>1. /\ Slot(h + 1) \in Slots /\ Slot(h + 0) = h /\ h \in Nat
      /\ \A i \in 1..(n - 1) : /\ Slot(Slot(h + 1) + (i - 1)) = Slot(h + ((i + 1) - 1))
                               /\ Slot(h + ((i + 1) - 1)) # h
                               /\ Slot(h + ((i + 1) - 1)) \in Slots
                               /\ i + 1 \in 1..n
      /\ n \in 0..QueueSize /\ n - 1 \in 0..QueueSize /\ n \in Nat /\ 1 \in 1..n /\ 1 - 1 = 0
  BY SlotArithmetic DEF Slots
<1>2. c \in [Slots -> Nat] /\ \A k \in Slots : k # h => c[k] = b[k]
  BY ChangedProperties
<1> HIDE DEF c
<1>3. old \in Seq(Nat) /\ Len(old) = n /\ \A i \in 1..n : old[i] = b[Slot(h + (i - 1))]
  BY <1>1, WaitingIsQueue
<1>6. /\ new \in Seq(Nat) /\ Len(new) = n - 1
      /\ \A i \in 1..(n - 1) : new[i] = c[Slot(Slot(h + 1) + (i - 1))]
  BY <1>1, <1>2, WaitingIsQueue
<1> HIDE DEF old, new
<1>4. old # <<>> /\ Head(old) = old[1]
  BY <1>1, <1>3, EmptySeq, HeadTailProperties
<1>5. old[1] = b[h]
  BY <1>1, <1>3
<1>7. \A i \in 1..(n - 1) : new[i] = old[i + 1]
  BY <1>1, <1>2, <1>3, <1>6
<1>8. /\ Tail(old) \in Seq(Nat) /\ Len(Tail(old)) = n - 1
      /\ \A i \in 1..(n - 1) : Tail(old)[i] = old[i + 1]
  BY <1>3, <1>4, HeadTailProperties
<1>9. new = Tail(old)
  BY <1>6, <1>7, <1>8, SeqEqual
<1> QED BY <1>1, <1>4, <1>5, <1>9 DEF old, new, c

(* In a full ring the slot after the newest is the one of the oldest: the  *)
(* new message takes it when the head has moved on.                        *)
LEMMA EvictAppendsToTail ==
  ASSUME NEW b \in [Slots -> Nat], NEW h \in Slots, NEW v \in Nat
  PROVE  /\ Slot(Slot(h + 1) + (QueueSize - 1)) \in Slots
         /\ Slot(h + 1) \in Slots
         /\ Waiting(Changed(b, Slot(Slot(h + 1) + (QueueSize - 1)), v), Slot(h + 1), QueueSize)
              = Append(Tail(Waiting(b, h, QueueSize)), v)
<1> DEFINE n == QueueSize
           c == Changed(b, h, 0)
<1>1. /\ n \in 1..QueueSize /\ n - 1 \in 0..(QueueSize - 1) /\ (n - 1) + 1 = QueueSize
      /\ Slot(h + 1) \in Slots /\ Slot(Slot(h + 1) + (n - 1)) = h
  BY SlotArithmetic DEF Slots
<1>2. c \in [Slots -> Nat]
  BY ChangedProperties
<1>3. Waiting(c, Slot(h + 1), n - 1) = Tail(Waiting(b, h, n))
  BY <1>1, TakeIsTail
<1>4. Changed(c, h, v) = Changed(b, h, v)
  BY DEF Changed
<1> HIDE DEF c
<1>5. Waiting(Changed(c, Slot(Slot(h + 1) + (n - 1)), v), Slot(h + 1), (n - 1) + 1)
        = Append(Waiting(c, Slot(h + 1), n - 1), v)
  BY <1>1, <1>2, WriteAppends
<1> QED BY <1>1, <1>3, <1>4, <1>5

RingsTyped ==
  /\ buf \in [Sessions -> [Slots -> Nat]]
  /\ head \in [Sessions -> Slots]
  /\ count \in [Sessions -> 0..QueueSize]

(* The queues that the rings are. *)
LEMMA RingsAreQueues ==
  ASSUME RingsTyped
  PROVE  /\ queue \in [Sessions -> Seq(Nat)]
         /\ \A s \in Sessions : /\ queue[s] = Waiting(buf[s], head[s], count[s])
                                /\ Len(queue[s]) = count[s]
                                /\ count[s] \in 0..QueueSize
<1>1. ASSUME NEW s \in Sessions
      PROVE  /\ queue[s] = Waiting(buf[s], head[s], count[s])
             /\ queue[s] \in Seq(Nat) /\ Len(queue[s]) = count[s]
             /\ count[s] \in 0..QueueSize
  <2>1. buf[s] \in [Slots -> Nat] /\ head[s] \in Slots /\ count[s] \in 0..QueueSize
    BY DEF RingsTyped
  <2>2. queue[s] = Waiting(buf[s], head[s], count[s])
    BY DEF queue
  <2> QED BY <2>1, <2>2, WaitingIsQueue
<1>2. queue = [s \in Sessions |-> queue[s]]
  BY DEF queue
<1> QED BY <1>1, <1>2

LEMMA RingsFrame ==
  ASSUME UNCHANGED ringVars
  PROVE  queue' = queue
BY DEF ringVars, queue

(* What the operations on the ring of s do to its queue, and to no other.  *)
LEMMA ClearRing ==
  ASSUME RingsTyped, NEW s \in Sessions, Clear(s)
  PROVE  RingsTyped' /\ queue' = [queue EXCEPT ![s] = <<>>]
<1>1. 0 \in Slots /\ 0 \in 0..QueueSize /\ [i \in Slots |-> 0] \in [Slots -> Nat]
  BY SlotArithmetic DEF Slots
<1>2. RingsTyped'
  BY <1>1 DEF RingsTyped, Clear
<1>3. Waiting([i \in Slots |-> 0], 0, 0) = <<>>
  BY DEF Waiting
<1>4. queue' = [queue EXCEPT ![s] = <<>>]
  BY <1>3 DEF RingsTyped, Clear, queue
<1> QED BY <1>2, <1>4

LEMMA TakeRing ==
  ASSUME RingsTyped, NEW s \in Sessions, TakeOldest(s), count[s] > 0
  PROVE  /\ RingsTyped' /\ queue[s] # <<>> /\ Head(queue[s]) = buf[s][head[s]]
         /\ queue' = [queue EXCEPT ![s] = Tail(@)]
<1> DEFINE c == Changed(buf[s], head[s], 0)
<1>1. /\ buf[s] \in [Slots -> Nat] /\ head[s] \in Slots /\ count[s] \in 1..QueueSize
      /\ count[s] - 1 \in 0..QueueSize
  BY SlotArithmetic DEF RingsTyped
<1>2. /\ queue[s] # <<>> /\ Head(queue[s]) = buf[s][head[s]] /\ Slot(head[s] + 1) \in Slots
      /\ Waiting(c, Slot(head[s] + 1), count[s] - 1) = Tail(queue[s])
  <2>1. queue[s] = Waiting(buf[s], head[s], count[s])
    BY RingsAreQueues
  <2>2. ASSUME NEW b \in [Slots -> Nat], NEW h \in Slots, NEW n \in 1..QueueSize,
               b = buf[s], h = head[s], n = count[s]
        PROVE  /\ queue[s] # <<>> /\ Head(queue[s]) = b[h] /\ Slot(h + 1) \in Slots
               /\ Waiting(Changed(b, h, 0), Slot(h + 1), n - 1) = Tail(queue[s])
    <3>1. queue[s] = Waiting(b, h, n)
      BY <2>1, <2>2
    <3> QED BY <3>1, TakeIsTail
  <2> QED BY <1>1, <2>2
<1>3. /\ buf' = [buf EXCEPT ![s] = c]
      /\ head' = [head EXCEPT ![s] = Slot(head[s] + 1)]
      /\ count' = [count EXCEPT ![s] = count[s] - 1]
  BY DEF TakeOldest, Changed
<1>4. c \in [Slots -> Nat]
  BY <1>1, ChangedProperties, SlotArithmetic
<1> HIDE DEF c
<1>5. RingsTyped'
  BY <1>1, <1>2, <1>3, <1>4 DEF RingsTyped
<1>6. queue' = [queue EXCEPT ![s] = Tail(queue[s])]
  BY <1>2, <1>3 DEF RingsTyped, queue
<1> QED BY <1>2, <1>5, <1>6

LEMMA QueuedRing ==
  ASSUME RingsTyped, NEW s \in Sessions, Queued(s), Len(pushed[s]) \in Nat
  PROVE  /\ RingsTyped'
         /\ \/ /\ Len(queue[s]) < QueueSize
               /\ queue' = [queue EXCEPT ![s] = Append(@, Len(pushed[s]) + 1)]
               /\ drops' = drops
            \/ /\ Len(queue[s]) = QueueSize
               /\ queue' = [queue EXCEPT ![s] = Append(Tail(@), Len(pushed[s]) + 1)]
               /\ drops' = [drops EXCEPT ![s] = @ + 1]
<1> DEFINE v == Len(pushed[s]) + 1
           b == buf[s]
           h == head[s]
           n == count[s]
<1>1. /\ b \in [Slots -> Nat] /\ h \in Slots /\ n \in 0..QueueSize /\ v \in Nat
      /\ queue[s] = Waiting(b, h, n) /\ Len(queue[s]) = n
      /\ QueueSize \in Nat \ {0}
  BY RingsAreQueues, SlotArithmetic DEF RingsTyped
<1>2. ASSUME NEW o \in Slots, NEW m \in 0..(QueueSize - 1), Write(s, o, m), Slot(o + m) \in Slots,
             NEW d, d = Changed(b, Slot(o + m), v)
      PROVE  RingsTyped' /\ queue' = [queue EXCEPT ![s] = Waiting(d, o, m + 1)]
  <2>1. /\ buf' = [buf EXCEPT ![s] = d]
        /\ head' = [head EXCEPT ![s] = o] /\ count' = [count EXCEPT ![s] = m + 1]
    BY <1>2 DEF Write, Changed
  <2> HIDE DEF b, v
  <2>2. d \in [Slots -> Nat] /\ m + 1 \in 0..QueueSize
    BY <1>1, <1>2, ChangedProperties
  <2>3. RingsTyped'
    BY <1>2, <2>1, <2>2 DEF RingsTyped
  <2>4. queue' = [queue EXCEPT ![s] = Waiting(d, o, m + 1)]
    BY <2>1 DEF RingsTyped, queue
  <2> QED BY <2>3, <2>4
<1>3. CASE Full(s)
  <2> DEFINE o == Slot(h + 1)
             m == QueueSize - 1
             d == Changed(b, Slot(o + m), v)
  <2>1. /\ n = QueueSize /\ Write(s, o, m)
        /\ drops' = [drops EXCEPT ![s] = @ + 1]
    BY <1>3 DEF Queued, Full
  <2>2. m \in 0..(QueueSize - 1) /\ m + 1 = QueueSize
    BY <1>1
  <2>3. d = Changed(b, Slot(o + m), v)
    OBVIOUS
  <2> HIDE DEF b, h, v, n, d
  <2>4. o \in Slots /\ Slot(o + m) \in Slots
        /\ Waiting(d, o, QueueSize) = Append(Tail(Waiting(b, h, QueueSize)), v)
    BY <1>1, <2>3, EvictAppendsToTail
  <2>5. RingsTyped' /\ queue' = [queue EXCEPT ![s] = Append(Tail(queue[s]), v)]
    <3> HIDE DEF o, m
    <3>1. RingsTyped' /\ queue' = [queue EXCEPT ![s] = Waiting(d, o, m + 1)]
      BY <1>2, <2>1, <2>2, <2>3, <2>4
    <3> QED BY <1>1, <2>1, <2>2, <2>4, <3>1
  <2> QED BY <1>1, <2>1, <2>5 DEF v
<1>4. CASE ~Full(s)
  <2> DEFINE d == Changed(b, Slot(h + n), v)
  <2>1. /\ n # QueueSize /\ Write(s, h, n) /\ drops' = drops
    BY <1>4 DEF Queued, Full
  <2>2. d = Changed(b, Slot(h + n), v)
    OBVIOUS
  <2> HIDE DEF b, h, v, n, d
  <2>3. n \in 0..(QueueSize - 1) /\ n < QueueSize
    BY <1>1, <2>1
  <2>4. Slot(h + n) \in Slots /\ Waiting(d, h, n + 1) = Append(Waiting(b, h, n), v)
    BY <1>1, <2>2, <2>3, WriteAppends
  <2>5. RingsTyped' /\ queue' = [queue EXCEPT ![s] = Append(queue[s], v)]
    <3>1. RingsTyped' /\ queue' = [queue EXCEPT ![s] = Waiting(d, h, n + 1)]
      BY <1>1, <1>2, <2>1, <2>2, <2>3, <2>4
    <3> QED BY <1>1, <2>4, <3>1
  <2> QED BY <1>1, <2>1, <2>3, <2>5 DEF v
<1> QED BY <1>3, <1>4

-----------------------------------------------------------------------------

LEMMA InitIInv == Init => IInv
<1> SUFFICES ASSUME Init PROVE IInv
  OBVIOUS
<1>1. TypeOK
  BY EmptySeq, BroadcastAssumption DEF Init, TypeOK, BroadcastAssumption, Slots
<1>2. Locking
  BY DEF Init, Locking
<1>3. \A s \in Sessions : queue[s] = <<>>
  BY DEF Init, queue, Waiting
<1>4. Books
  BY <1>3, EmptySeq DEF Init, Books, Book, Untouched, Hand, Balance, Newest
<1> QED BY <1>1, <1>2, <1>4 DEF IInv

LEMMA SessionTypes ==
  ASSUME TypeOK, NEW s \in Sessions
  PROVE  /\ pushed[s] \in Seq(Producers \X Nat) /\ Len(pushed[s]) \in Nat
         /\ queue[s] \in Seq(Nat) /\ Len(queue[s]) \in Nat /\ Len(queue[s]) <= QueueSize
         /\ handing[s] \in Seq(Nat) /\ Len(handing[s]) \in Nat
         /\ handled[s] \in Seq(Nat) /\ Len(handled[s]) \in Nat
         /\ drops[s] \in Nat /\ discarded[s] \in Nat
         /\ QueueSize \in Nat \ {0}
<1>1. RingsTyped
  BY DEF TypeOK, RingsTyped
<1>2. queue[s] \in Seq(Nat) /\ Len(queue[s]) \in Nat /\ Len(queue[s]) <= QueueSize
  BY <1>1, RingsAreQueues, SlotArithmetic
<1> QED BY <1>2, LenProperties, BroadcastAssumption DEF TypeOK, BroadcastAssumption

-----------------------------------------------------------------------------
(* What each action does, session by session.                              *)

Same(s) ==
  /\ phase'[s] = phase[s] /\ pushed'[s] = pushed[s] /\ queue'[s] = queue[s]
  /\ drops'[s] = drops[s] /\ discarded'[s] = discarded[s] /\ pump'[s] = pump[s]
  /\ handing'[s] = handing[s] /\ handled'[s] = handled[s]

(* The sessions that a step leaves alone. *)
LEMMA Bystanders ==
  ASSUME TypeOK, NEW x \in Sessions, NEW s \in Sessions, s # x,
         \/ Add(x) \/ RemoveSession(x) \/ Stop(x) \/ Pump(x) \/ HandOffReturns(x)
         \/ \E p \in Producers : Push(p, x)
  PROVE  Same(s)
<1> USE DEF subVars, ringVars, sendVars, regVars, pumpVars
<1>1. /\ DOMAIN phase = Sessions /\ DOMAIN pushed = Sessions
      /\ DOMAIN buf = Sessions /\ DOMAIN head = Sessions /\ DOMAIN count = Sessions
      /\ DOMAIN drops = Sessions /\ DOMAIN discarded = Sessions /\ DOMAIN pump = Sessions
      /\ DOMAIN handing = Sessions /\ DOMAIN handled = Sessions
  BY DEF TypeOK
<1> DEFINE Apart ==
             /\ phase'[s] = phase[s] /\ pushed'[s] = pushed[s]
             /\ buf'[s] = buf[s] /\ head'[s] = head[s] /\ count'[s] = count[s]
             /\ drops'[s] = drops[s] /\ discarded'[s] = discarded[s] /\ pump'[s] = pump[s]
             /\ handing'[s] = handing[s] /\ handled'[s] = handled[s]
<1>2. ASSUME Add(x) \/ RemoveSession(x) PROVE Apart
  BY <1>1, <1>2 DEF Add, RemoveSession
<1>3. ASSUME Stop(x) PROVE Apart
  BY <1>1, <1>3 DEF Stop, Clear
<1>4. ASSUME Pump(x) PROVE Apart
  BY <1>1, <1>4 DEF Pump, PumpParks, PumpNext, TakeOldest, PumpExits
<1>5. ASSUME HandOffReturns(x) PROVE Apart
  BY <1>1, <1>5 DEF HandOffReturns
<1>6. ASSUME NEW p \in Producers, Push(p, x) PROVE Apart
  BY <1>1, <1>6 DEF Push, Queued, Write
<1>7. Apart
  <2> HIDE DEF Apart
  <2> QED BY <1>2, <1>3, <1>4, <1>5, <1>6
<1>8. queue'[s] = queue[s]
  BY <1>7 DEF queue
<1> QED BY <1>7, <1>8 DEF Same

LEMMA FrameBook ==
  ASSUME NEW s \in Sessions, Book(s), Same(s)
  PROVE  Book(s)'
BY DEF Book, Same, Untouched, Hand, Balance, Newest

-----------------------------------------------------------------------------
(* Type correctness.                                                       *)

(* A push: the message is the newest of a queue no longer than allowed.    *)
LEMMA PushStep ==
  ASSUME IInv, NEW p \in Producers, NEW s \in Sessions, Push(p, s)
  PROVE  /\ phase[s] = "registered"
         /\ pushed' = [pushed EXCEPT ![s] = Append(@, <<p, sent[p]>>)]
         /\ pushed'[s] \in Seq(Producers \X Nat)
         /\ Len(pushed'[s]) = Len(pushed[s]) + 1
         /\ RingsTyped' /\ queue'[s] \in Seq(Nat)
         /\ \/ /\ Len(queue[s]) < QueueSize
               /\ queue' = [queue EXCEPT ![s] = Append(@, Len(pushed[s]) + 1)]
               /\ Len(queue'[s]) = Len(queue[s]) + 1
               /\ drops' = drops
            \/ /\ Len(queue[s]) = QueueSize /\ queue[s] # <<>>
               /\ queue' = [queue EXCEPT ![s] = Append(Tail(@), Len(pushed[s]) + 1)]
               /\ Len(queue'[s]) = Len(queue[s])
               /\ drops' = [drops EXCEPT ![s] = @ + 1]
         /\ pump' = [pump EXCEPT ![s] = Woken(s)]
         /\ todo' = [todo EXCEPT ![p] = @ \ {s}]
         /\ UNCHANGED <<regVars, sent, sending, discarded, handing, handled>>
<1>0. /\ phase[s] = "registered"
      /\ s \in todo[p]
  BY DEF IInv, Locking, Push, Registered
<1>1. /\ pushed \in [Sessions -> Seq(Producers \X Nat)] /\ queue \in [Sessions -> Seq(Nat)]
      /\ <<p, sent[p]>> \in Producers \X Nat /\ RingsTyped
  <2>1. RingsTyped
    BY DEF IInv, TypeOK, RingsTyped
  <2> QED BY <2>1, RingsAreQueues DEF IInv, TypeOK
<1>2. /\ pushed[s] \in Seq(Producers \X Nat) /\ Len(pushed[s]) \in Nat
      /\ queue[s] \in Seq(Nat) /\ Len(queue[s]) \in Nat /\ Len(queue[s]) <= QueueSize
      /\ QueueSize \in Nat \ {0}
  BY SessionTypes DEF IInv
<1>3. /\ pushed' = [pushed EXCEPT ![s] = Append(@, <<p, sent[p]>>)]
      /\ Queued(s)
      /\ pump' = [pump EXCEPT ![s] = Woken(s)]
      /\ todo' = [todo EXCEPT ![p] = @ \ {s}]
      /\ UNCHANGED <<regVars, sent, sending, discarded, handing, handled>>
  BY <1>0 DEF Push
<1>4. pushed'[s] \in Seq(Producers \X Nat) /\ Len(pushed'[s]) = Len(pushed[s]) + 1
  BY <1>1, <1>2, <1>3, AppendProperties
<1>5. Len(pushed[s]) + 1 \in Nat
  BY <1>2
<1>6. /\ RingsTyped'
      /\ \/ /\ Len(queue[s]) < QueueSize
            /\ queue' = [queue EXCEPT ![s] = Append(@, Len(pushed[s]) + 1)]
            /\ drops' = drops
         \/ /\ Len(queue[s]) = QueueSize
            /\ queue' = [queue EXCEPT ![s] = Append(Tail(@), Len(pushed[s]) + 1)]
            /\ drops' = [drops EXCEPT ![s] = @ + 1]
  BY <1>1, <1>2, <1>3, QueuedRing
<1>7. CASE /\ Len(queue[s]) < QueueSize
           /\ queue' = [queue EXCEPT ![s] = Append(@, Len(pushed[s]) + 1)]
           /\ drops' = drops
  <2>1. queue'[s] = Append(queue[s], Len(pushed[s]) + 1)
    BY <1>1, <1>7
  <2>2. queue'[s] \in Seq(Nat) /\ Len(queue'[s]) = Len(queue[s]) + 1
    BY <1>2, <1>5, <2>1, AppendProperties
  <2> QED BY <1>0, <1>3, <1>4, <1>6, <1>7, <2>2
<1>8. CASE /\ Len(queue[s]) = QueueSize
           /\ queue' = [queue EXCEPT ![s] = Append(Tail(@), Len(pushed[s]) + 1)]
           /\ drops' = [drops EXCEPT ![s] = @ + 1]
  <2>1. queue[s] # <<>> /\ queue'[s] = Append(Tail(queue[s]), Len(pushed[s]) + 1)
    BY <1>1, <1>2, <1>8, EmptySeq
  <2>2. Tail(queue[s]) \in Seq(Nat) /\ Len(Tail(queue[s])) = Len(queue[s]) - 1
    BY <1>2, <2>1, HeadTailProperties
  <2>3. queue'[s] \in Seq(Nat) /\ Len(queue'[s]) = Len(Tail(queue[s])) + 1
    BY <1>5, <2>1, <2>2, AppendProperties
  <2>4. Len(queue'[s]) = Len(queue[s])
    BY <1>2, <2>2, <2>3
  <2> QED BY <1>0, <1>3, <1>4, <1>6, <1>8, <2>1, <2>3, <2>4
<1> QED BY <1>6, <1>7, <1>8

LEMMA NextTypeOK ==
  ASSUME IInv, [Next]_vars
  PROVE  TypeOK'
<1> USE DEF regVars, sendVars, subVars, ringVars, pumpVars
<1>0. TypeOK /\ QueueSize \in Nat \ {0} /\ RingsTyped
  BY BroadcastAssumption DEF IInv, BroadcastAssumption, TypeOK, RingsTyped
<1>1. ASSUME NEW p \in Producers, Send(p) \/ SendReturns(p) PROVE TypeOK'
  <2>1. sent \in [Producers -> Nat] /\ sending \subseteq Producers /\ todo \in [Producers -> SUBSET Sessions]
    BY <1>0 DEF TypeOK
  <2>2. sent' \in [Producers -> Nat]
    BY <1>1, <2>1 DEF Send, SendReturns
  <2>3. sending' \in SUBSET Producers
    BY <1>1, <2>1 DEF Send, SendReturns
  <2>4. todo' \in [Producers -> SUBSET Sessions]
    BY <1>1, <2>1 DEF Send, SendReturns, Registered
  <2>5. UNCHANGED <<regVars, subVars, pumpVars>>
    BY <1>1 DEF Send, SendReturns
  <2> QED BY <1>0, <2>2, <2>3, <2>4, <2>5 DEF TypeOK
<1>2. ASSUME NEW p \in Producers, NEW s \in Sessions, Push(p, s) PROVE TypeOK'
  <2>1. /\ UNCHANGED <<regVars, sent, sending, discarded, handing, handled>>
        /\ todo' = [todo EXCEPT ![p] = @ \ {s}]
        /\ pump' = [pump EXCEPT ![s] = Woken(s)]
    BY <1>2, PushStep
  <2>2. pushed' \in [Sessions -> Seq(Producers \X Nat)]
    <3>1. pushed' = [pushed EXCEPT ![s] = Append(@, <<p, sent[p]>>)] /\ pushed'[s] \in Seq(Producers \X Nat)
      BY <1>2, PushStep
    <3> QED BY <1>0, <3>1 DEF TypeOK
  <2>3. RingsTyped'
    BY <1>2, PushStep
  <2>4. drops' \in [Sessions -> Nat]
    <3>1. drops' = drops \/ drops' = [drops EXCEPT ![s] = @ + 1]
      BY <1>2, PushStep
    <3>2. drops \in [Sessions -> Nat]
      BY <1>0 DEF TypeOK
    <3> QED BY <3>1, <3>2
  <2>5. pump' \in [Sessions -> {"none", "next", "parked", "sending", "exited"}]
    BY <1>0, <2>1 DEF TypeOK, Woken
  <2> QED BY <1>0, <2>1, <2>2, <2>3, <2>4, <2>5 DEF TypeOK, RingsTyped
<1>3. ASSUME NEW s \in Sessions, Add(s) \/ RemoveSession(s) PROVE TypeOK'
  <2>1. /\ joined \in [Sessions -> [Producers -> Nat]] /\ sent \in [Producers -> Nat]
        /\ retired \in Nat /\ drops[s] \in Nat
        /\ phase \in [Sessions -> {"new", "registered", "removed", "stopped"}]
        /\ pump \in [Sessions -> {"none", "next", "parked", "sending", "exited"}]
    BY <1>0 DEF TypeOK
  <2>2. joined' \in [Sessions -> [Producers -> Nat]] /\ retired' \in Nat
    BY <1>3, <2>1 DEF Add, RemoveSession
  <2>3. /\ phase' \in [Sessions -> {"new", "registered", "removed", "stopped"}]
        /\ pump' \in [Sessions -> {"none", "next", "parked", "sending", "exited"}]
    BY <1>3, <2>1 DEF Add, RemoveSession
  <2>4. UNCHANGED <<sendVars, subVars, handing, handled>>
    BY <1>3 DEF Add, RemoveSession
  <2> QED BY <1>0, <2>2, <2>3, <2>4 DEF TypeOK
<1>4. ASSUME NEW s \in Sessions, Stop(s) PROVE TypeOK'
  <2>1. count[s] \in Nat
    BY <1>0 DEF RingsTyped
  <2>2. RingsTyped'
    BY <1>0, <1>4, ClearRing DEF Stop
  <2>3. /\ phase \in [Sessions -> {"new", "registered", "removed", "stopped"}]
        /\ pump \in [Sessions -> {"none", "next", "parked", "sending", "exited"}]
        /\ discarded \in [Sessions -> Nat]
    BY <1>0 DEF TypeOK
  <2>4. phase' \in [Sessions -> {"new", "registered", "removed", "stopped"}]
    BY <1>4, <2>3 DEF Stop
  <2>5. pump' \in [Sessions -> {"none", "next", "parked", "sending", "exited"}]
    BY <1>4, <2>3 DEF Stop, Woken
  <2>6. discarded' \in [Sessions -> Nat]
    BY <1>4, <2>1, <2>3 DEF Stop
  <2>7. UNCHANGED <<retired, joined, sendVars, pushed, drops, handing, handled>>
    BY <1>4 DEF Stop
  <2> QED BY <1>0, <2>2, <2>4, <2>5, <2>6, <2>7 DEF TypeOK, RingsTyped, sendVars
<1>5. ASSUME NEW s \in Sessions, PumpNext(s) PROVE TypeOK'
  <2>1. RingsTyped'
    BY <1>0, <1>5, TakeRing DEF PumpNext
  <2>2. buf[s][head[s]] \in Nat
    BY <1>0 DEF RingsTyped
  <2>3. <<buf[s][head[s]]>> \in Seq(Nat)
    BY <2>2
  <2>4. handing' = [handing EXCEPT ![s] = <<buf[s][head[s]]>>]
    BY <1>5 DEF PumpNext
  <2>5. handing' \in [Sessions -> Seq(Nat)]
    BY <1>0, <2>3, <2>4 DEF TypeOK
  <2> QED BY <1>0, <1>5, <2>1, <2>5 DEF PumpNext, TypeOK, RingsTyped
<1>6. ASSUME NEW s \in Sessions, HandOffReturns(s) PROVE TypeOK'
  <2>1. handled[s] \o handing[s] \in Seq(Nat) /\ <<>> \in Seq(Nat)
    BY <1>0, SessionTypes, ConcatProperties, EmptySeq
  <2> QED BY <1>0, <1>6, <2>1 DEF HandOffReturns, TypeOK
<1>7. ASSUME NEW s \in Sessions, PumpParks(s) \/ PumpExits(s) PROVE TypeOK'
  BY <1>0, <1>7 DEF PumpParks, PumpExits, TypeOK
<1>8. CASE UNCHANGED vars
  BY <1>0, <1>8 DEF TypeOK, vars
<1> QED
  BY <1>1, <1>2, <1>3, <1>4, <1>5, <1>6, <1>7, <1>8 DEF Next, Visit, Pump

-----------------------------------------------------------------------------
(* While a Send is under way nobody is added or removed.                   *)

LEMMA NextLocking ==
  ASSUME IInv, [Next]_vars
  PROVE  Locking'
<1> USE DEF regVars, sendVars, subVars, pumpVars, Registered
<1>0. TypeOK /\ Locking
  BY DEF IInv
<1>1. ASSUME NEW p \in Producers, Send(p) \/ SendReturns(p) PROVE Locking'
  <2>1. /\ sending' \subseteq sending \cup {p} /\ sending \subseteq sending' \cup {p}
        /\ phase' = phase /\ todo \in [Producers -> SUBSET Sessions]
    BY <1>0, <1>1 DEF Send, SendReturns, TypeOK
  <2>2. \A q \in Producers : q # p => todo'[q] = todo[q] /\ (q \in sending' <=> q \in sending)
    BY <1>1, <2>1 DEF Send, SendReturns
  <2>3. \/ todo'[p] = Registered /\ p \in sending'
        \/ todo'[p] = {}
    BY <1>1, <2>1 DEF Send, SendReturns
  <2> QED BY <1>0, <2>1, <2>2, <2>3 DEF Locking
<1>2. ASSUME NEW p \in Producers, NEW s \in Sessions, Push(p, s) PROVE Locking'
  BY <1>0, <1>2 DEF Push, TypeOK, Locking
<1>3. ASSUME NEW s \in Sessions, Add(s) \/ RemoveSession(s) PROVE Locking'
  <2>1. \A p \in Producers : todo[p] = {}
    BY <1>0, <1>3 DEF Add, RemoveSession, Unlocked, Locking
  <2> QED BY <1>3, <2>1 DEF Add, RemoveSession, Locking
<1>4. ASSUME NEW s \in Sessions, Stop(s) PROVE Locking'
  <2>1. \A x \in Sessions : phase[x] = "registered" => phase'[x] = "registered"
    BY <1>0, <1>4 DEF Stop, TypeOK
  <2> QED BY <1>0, <1>4, <2>1 DEF Stop, Locking
<1>5. CASE UNCHANGED <<phase, sending, todo>>
  BY <1>0, <1>5 DEF Locking
<1> QED
  BY <1>1, <1>2, <1>3, <1>4, <1>5
  DEF Next, Visit, Pump, PumpParks, PumpNext, PumpExits, HandOffReturns, vars

-----------------------------------------------------------------------------
(* The books of the sessions.                                              *)

LEMMA NextBooks ==
  ASSUME IInv, [Next]_vars
  PROVE  Books'
<1> USE DEF regVars, sendVars, subVars, pumpVars
<1>0. TypeOK /\ Locking /\ Books /\ RingsTyped
  BY DEF IInv, TypeOK, RingsTyped
<1>1. ASSUME NEW p \in Producers, Send(p) \/ SendReturns(p) PROVE Books'
  <2>1. queue' = queue
    BY <1>1, RingsFrame DEF Send, SendReturns
  <2> QED BY <1>0, <1>1, <2>1, FrameBook DEF Send, SendReturns, Books, Same
<1>2. CASE UNCHANGED vars
  <2>1. queue' = queue
    BY <1>2, RingsFrame DEF vars
  <2> QED BY <1>0, <1>2, <2>1, FrameBook DEF vars, Books, Same
<1>3. ASSUME NEW s \in Sessions,
             \/ Add(s) \/ RemoveSession(s) \/ Stop(s) \/ Pump(s) \/ HandOffReturns(s)
             \/ \E p \in Producers : Push(p, s)
      PROVE  Books'
  <2>0. \A x \in Sessions : x # s => Book(x)'
    BY <1>0, <1>3, Bystanders, FrameBook DEF Books
  <2> SUFFICES Book(s)'
    BY <2>0 DEF Books
  <2>1. /\ Book(s)
        /\ pushed[s] \in Seq(Producers \X Nat) /\ Len(pushed[s]) \in Nat
        /\ queue[s] \in Seq(Nat) /\ Len(queue[s]) \in Nat /\ Len(queue[s]) <= QueueSize
        /\ handing[s] \in Seq(Nat) /\ Len(handing[s]) \in Nat
        /\ handled[s] \in Seq(Nat) /\ Len(handled[s]) \in Nat
        /\ drops[s] \in Nat /\ discarded[s] \in Nat
        /\ QueueSize \in Nat \ {0}
    BY <1>0, SessionTypes DEF Books
  <2> DEFINE np == Len(pushed[s])
             nq == Len(queue[s])
             nh == Len(handing[s])
             nd == Len(handled[s])
  <2>n. np \in Nat /\ nq \in Nat /\ nh \in Nat /\ nd \in Nat /\ drops[s] \in Nat /\ discarded[s] \in Nat
    BY <2>1
  <2>b. np = nd + nh + nq + drops[s] + discarded[s]
    BY <2>1 DEF Book, Balance
  <2>2. CASE Add(s) \/ RemoveSession(s) \/ PumpParks(s) \/ PumpExits(s)
    <3>1. /\ UNCHANGED <<pushed, queue, drops, discarded, handing, handled>>
          /\ phase'[s] # "new" \/ (phase'[s] = phase[s] /\ phase[s] # "new")
          /\ (phase'[s] = "stopped" <=> phase[s] = "stopped")
          /\ (pump[s] # "sending" /\ pump'[s] # "sending") \/ pump'[s] = pump[s]
      <4>1. queue' = queue
        BY <2>2, RingsFrame DEF Add, RemoveSession, PumpParks, PumpExits
      <4> QED
        BY <1>0, <2>1, <2>2, <4>1
        DEF Add, RemoveSession, PumpParks, PumpExits, TypeOK, Book, Untouched
    <3> QED BY <2>1, <3>1 DEF Book, Hand, Balance, Newest
  <2>3. CASE Stop(s)
    <3>1. /\ queue'[s] = <<>> /\ discarded'[s] = discarded[s] + Len(queue[s])
          /\ phase'[s] = "stopped" /\ pump'[s] = Woken(s)
          /\ UNCHANGED <<pushed, drops, handing, handled>>
      <4>1. queue' = [queue EXCEPT ![s] = <<>>]
        BY <1>0, <2>3, ClearRing DEF Stop
      <4>2. queue \in [Sessions -> Seq(Nat)] /\ count[s] = Len(queue[s])
        BY <1>0, RingsAreQueues
      <4> QED BY <1>0, <2>3, <4>1, <4>2 DEF Stop, TypeOK
    <3>2. Balance(s)'
      <4>1. /\ Len(pushed'[s]) = np /\ Len(handled'[s]) = nd /\ Len(handing'[s]) = nh
            /\ Len(queue'[s]) = 0 /\ drops'[s] = drops[s] /\ discarded'[s] = discarded[s] + nq
        BY <3>1, EmptySeq
      <4> HIDE DEF np, nq, nh, nd
      <4>2. np = nd + nh + 0 + drops[s] + (discarded[s] + nq)
        BY <2>n, <2>b
      <4> QED BY <4>1, <4>2 DEF Balance
    <3> QED BY <2>1, <3>1, <3>2 DEF Book, Hand, Newest, Woken
  <2>4. CASE PumpNext(s)
    <3>1. /\ pump[s] = "next" /\ queue[s] # <<>> /\ phase[s] # "stopped"
          /\ handing'[s] = <<Head(queue[s])>> /\ queue'[s] = Tail(queue[s])
          /\ pump'[s] = "sending"
          /\ UNCHANGED <<phase, pushed, drops, discarded, handled>>
      <4>1. /\ queue[s] # <<>> /\ Head(queue[s]) = buf[s][head[s]]
            /\ queue' = [queue EXCEPT ![s] = Tail(@)]
        BY <1>0, <2>4, TakeRing DEF PumpNext
      <4>2. queue \in [Sessions -> Seq(Nat)]
        BY <1>0, RingsAreQueues
      <4> QED BY <1>0, <2>4, <4>1, <4>2 DEF PumpNext, TypeOK
    <3>2. /\ Len(queue'[s]) = Len(queue[s]) - 1
          /\ \A i \in 1..Len(queue'[s]) : queue'[s][i] = queue[s][i + 1]
          /\ Len(queue[s]) > 0
      BY <2>1, <3>1, HeadTailProperties, EmptySeq
    <3>3. phase[s] # "new" /\ Len(handing[s]) = 0 /\ Len(handing'[s]) = 1
      BY <2>1, <3>1, EmptySeq DEF Book, Untouched, Hand
    <3>4. Balance(s)'
      <4>1. /\ Len(pushed'[s]) = np /\ Len(handled'[s]) = nd /\ Len(handing'[s]) = 1 /\ nh = 0
            /\ Len(queue'[s]) = nq - 1 /\ drops'[s] = drops[s] /\ discarded'[s] = discarded[s]
        BY <3>1, <3>2, <3>3
      <4> HIDE DEF np, nq, nh, nd
      <4>2. np = nd + 1 + (nq - 1) + drops[s] + discarded[s]
        BY <2>n, <2>b, <4>1
      <4> QED BY <4>1, <4>2 DEF Balance
    <3>5. Newest(s)'
      <4>1. ASSUME NEW i \in 1..Len(queue'[s])
            PROVE  queue'[s][i] = Len(pushed[s]) - Len(queue'[s]) + i
        <5>1. i + 1 \in 1..Len(queue[s])
          BY <2>1, <3>2
        <5>2. queue[s][i + 1] = Len(pushed[s]) - Len(queue[s]) + (i + 1)
          BY <2>1, <3>1, <5>1 DEF Book, Newest
        <5>3. np - nq + (i + 1) = np - (nq - 1) + i
          <6> HIDE DEF np, nq
          <6> QED BY <2>n
        <5> QED BY <3>2, <5>2, <5>3
      <4> QED BY <3>1, <4>1 DEF Newest
    <3> QED BY <3>1, <3>3, <3>4, <3>5 DEF Book, Hand
  <2>5. CASE HandOffReturns(s)
    <3>1. /\ pump[s] = "sending" /\ handled'[s] = handled[s] \o handing[s]
          /\ handing'[s] = <<>> /\ pump'[s] = "next"
          /\ UNCHANGED <<phase, pushed, queue, drops, discarded>>
      <4>1. queue' = queue
        BY <2>5, RingsFrame DEF HandOffReturns
      <4> QED BY <1>0, <2>5, <4>1 DEF HandOffReturns, TypeOK
    <3>2. Len(handled'[s]) = Len(handled[s]) + Len(handing[s]) /\ Len(handing'[s]) = 0
      BY <2>1, <3>1, ConcatProperties, EmptySeq
    <3>3. Balance(s)'
      <4>1. /\ Len(pushed'[s]) = np /\ Len(handled'[s]) = nd + nh /\ Len(handing'[s]) = 0
            /\ Len(queue'[s]) = nq /\ drops'[s] = drops[s] /\ discarded'[s] = discarded[s]
        BY <3>1, <3>2
      <4> HIDE DEF np, nq, nh, nd
      <4>2. np = (nd + nh) + 0 + nq + drops[s] + discarded[s]
        BY <2>n, <2>b
      <4> QED BY <4>1, <4>2 DEF Balance
    <3>4. phase[s] # "new"
      BY <2>1, <3>1 DEF Book, Untouched
    <3> QED BY <2>1, <3>1, <3>3, <3>4 DEF Book, Hand, Newest
  <2>6. CASE \E p \in Producers : Push(p, s)
    <3>1. PICK p \in Producers : Push(p, s)
      BY <2>6
    <3>2. /\ phase'[s] = "registered" /\ phase[s] = "registered"
          /\ Len(pushed'[s]) = Len(pushed[s]) + 1
          /\ pump'[s] = Woken(s)
          /\ discarded' = discarded /\ handing' = handing /\ handled' = handled
      <4>1. /\ phase[s] = "registered" /\ Len(pushed'[s]) = Len(pushed[s]) + 1
            /\ pump' = [pump EXCEPT ![s] = Woken(s)]
            /\ UNCHANGED <<regVars, sent, sending, discarded, handing, handled>>
        BY <3>1, PushStep
      <4> HIDE DEF np, nq, nh, nd
      <4> QED BY <1>0, <4>1 DEF TypeOK
    <3>3. \/ /\ queue'[s] = Append(queue[s], Len(pushed[s]) + 1)
             /\ Len(queue'[s]) = Len(queue[s]) + 1 /\ drops'[s] = drops[s]
          \/ /\ queue'[s] = Append(Tail(queue[s]), Len(pushed[s]) + 1) /\ queue[s] # <<>>
             /\ Len(queue'[s]) = Len(queue[s]) /\ drops'[s] = drops[s] + 1
      <4>1. queue \in [Sessions -> Seq(Nat)] /\ drops \in [Sessions -> Nat]
        BY <1>0, RingsAreQueues DEF TypeOK
      <4>2. \/ /\ queue' = [queue EXCEPT ![s] = Append(@, Len(pushed[s]) + 1)]
               /\ Len(queue'[s]) = Len(queue[s]) + 1 /\ drops' = drops
            \/ /\ queue' = [queue EXCEPT ![s] = Append(Tail(@), Len(pushed[s]) + 1)]
               /\ queue[s] # <<>>
               /\ Len(queue'[s]) = Len(queue[s]) /\ drops' = [drops EXCEPT ![s] = @ + 1]
        BY <3>1, PushStep
      <4> HIDE DEF np, nq, nh, nd
      <4> QED BY <4>1, <4>2
    <3>4. Balance(s)'
      <4>1. /\ Len(pushed'[s]) = np + 1 /\ Len(handled'[s]) = nd /\ Len(handing'[s]) = nh
            /\ discarded'[s] = discarded[s]
            /\ \/ Len(queue'[s]) = nq + 1 /\ drops'[s] = drops[s]
               \/ Len(queue'[s]) = nq /\ drops'[s] = drops[s] + 1
        BY <3>2, <3>3
      <4> HIDE DEF np, nq, nh, nd
      <4>2. /\ np + 1 = nd + nh + (nq + 1) + drops[s] + discarded[s]
            /\ np + 1 = nd + nh + nq + (drops[s] + 1) + discarded[s]
        BY <2>n, <2>b
      <4> QED BY <4>1, <4>2 DEF Balance
    <3>5. Newest(s)'
      <4>0. Len(pushed[s]) + 1 \in Nat
        BY <2>1
      <4>1. CASE /\ queue'[s] = Append(queue[s], Len(pushed[s]) + 1)
                 /\ Len(queue'[s]) = Len(queue[s]) + 1
        <5>1. /\ \A i \in 1..Len(queue[s]) : queue'[s][i] = queue[s][i]
              /\ queue'[s][Len(queue[s]) + 1] = Len(pushed[s]) + 1
          BY <2>1, <4>0, <4>1, AppendProperties
        <5>2. \A i \in 1..Len(queue[s]) : queue[s][i] = Len(pushed[s]) - Len(queue[s]) + i
          BY <2>1, <3>2 DEF Book, Newest
        <5>3. ASSUME NEW i \in 1..Len(queue'[s])
              PROVE  queue'[s][i] = Len(pushed'[s]) - Len(queue'[s]) + i
          <6>0. Len(pushed'[s]) = np + 1 /\ Len(queue'[s]) = nq + 1
            BY <3>2, <4>1
          <6> HIDE DEF np, nq
          <6>1. i \in 1..nq \/ i = nq + 1
            BY <2>n, <6>0
          <6>2. /\ (np + 1) - (nq + 1) + i = np - nq + i
                /\ np - nq + (nq + 1) = np + 1
            BY <2>n, <6>0
          <6> QED BY <5>1, <5>2, <6>0, <6>1, <6>2 DEF np, nq
        <5> QED BY <5>3 DEF Newest
      <4>2. CASE /\ queue'[s] = Append(Tail(queue[s]), Len(pushed[s]) + 1) /\ queue[s] # <<>>
                 /\ Len(queue'[s]) = Len(queue[s])
        <5> DEFINE t == Tail(queue[s])
        <5>0. /\ t \in Seq(Nat) /\ Len(t) = Len(queue[s]) - 1
              /\ \A i \in 1..Len(t) : t[i] = queue[s][i + 1]
          BY <2>1, <4>2, HeadTailProperties
        <5> HIDE DEF t
        <5>1. /\ \A i \in 1..Len(t) : queue'[s][i] = t[i]
              /\ queue'[s][Len(t) + 1] = Len(pushed[s]) + 1
          BY <4>0, <4>2, <5>0, AppendProperties DEF t
        <5>2. \A i \in 1..Len(queue[s]) : queue[s][i] = Len(pushed[s]) - Len(queue[s]) + i
          BY <2>1, <3>2 DEF Book, Newest
        <5>3. ASSUME NEW i \in 1..Len(queue'[s])
              PROVE  queue'[s][i] = Len(pushed'[s]) - Len(queue'[s]) + i
          <6>0. Len(pushed'[s]) = np + 1 /\ Len(queue'[s]) = nq /\ Len(t) = nq - 1
            BY <3>2, <4>2, <5>0
          <6> HIDE DEF np, nq
          <6>1. i \in 1..(nq - 1) \/ i = nq
            BY <2>n, <6>0
          <6>2. /\ (np + 1) - nq + i = np - nq + (i + 1)
                /\ (np + 1) - nq + nq = np + 1
                /\ (nq - 1) + 1 = nq
                /\ i \in 1..(nq - 1) => i + 1 \in 1..nq
            BY <2>n, <6>0
          <6>3. CASE i \in 1..(nq - 1)
            <7>1. queue'[s][i] = queue[s][i + 1]
              BY <5>0, <5>1, <6>0, <6>3
            <7>2. queue[s][i + 1] = np - nq + (i + 1)
              BY <5>2, <6>2, <6>3 DEF np, nq
            <7> QED BY <6>0, <6>2, <7>1, <7>2
          <6>4. CASE i = nq
            <7>1. queue'[s][i] = np + 1
              BY <5>1, <6>0, <6>2, <6>4 DEF np
            <7> QED BY <6>0, <6>2, <6>4, <7>1
          <6> QED BY <6>1, <6>3, <6>4
        <5> QED BY <5>3 DEF Newest
      <4> QED BY <3>3, <4>1, <4>2
    <3> QED BY <2>1, <3>2, <3>4, <3>5 DEF Book, Hand, Woken
  <2> QED BY <1>3, <2>2, <2>3, <2>4, <2>5, <2>6 DEF Pump
<1> QED BY <1>1, <1>2, <1>3 DEF Next, Visit

LEMMA SpecIInv == Spec => []IInv
<1>1. IInv /\ [Next]_vars => IInv'
  BY NextTypeOK, NextLocking, NextBooks DEF IInv
<1> QED BY InitIInv, <1>1, PTL DEF Spec

(* push, broadcast.go:196: whoever sends, and whenever the pump takes, what *)
(* waits for a live session is the newest of what it was offered.          *)
THEOREM NewestAlwaysKept == Spec => []NewestKept
<1>1. IInv => NewestKept
  BY DEF IInv, Books, Book, Newest, NewestKept
<1> QED BY <1>1, SpecIInv, PTL

-----------------------------------------------------------------------------
(* What is dropped is counted, by whoever has left as by who is there.     *)

Counted ==
  /\ IsFiniteSet(Evictions(Sessions))
  /\ retired + Cardinality(Evictions(Registered)) = Cardinality(Evictions(Sessions))

LEMMA EvictionsElements ==
  ASSUME NEW some
  PROVE  \A x : x \in Evictions(some) <=> \E s \in some : \E k \in 1..drops[s] : x = <<s, k>>
BY DEF Evictions

(* A session that leaves takes its count along. *)
LEMMA RemoveCounted ==
  ASSUME IInv, Counted, NEW s \in Sessions, RemoveSession(s)
  PROVE  Counted'
<1> DEFINE Mine == {s} \X (1..drops[s])
           Rest == Registered \ {s}
<1>1. /\ drops' = drops /\ retired' = retired + drops[s] /\ Registered' = Rest
      /\ s \in Registered /\ drops[s] \in Nat /\ retired \in Nat
  BY DEF RemoveSession, Registered, IInv, TypeOK, subVars
<1>2. Evictions(Registered) = Evictions(Rest) \cup Mine
  BY <1>1 DEF Evictions
<1>3. Evictions(Rest) \cap Mine = {}
  BY EvictionsElements
<1>4. IsFiniteSet(Evictions(Rest)) /\ IsFiniteSet(Mine)
  <2>1. Evictions(Rest) \subseteq Evictions(Sessions) /\ Mine \subseteq Evictions(Sessions)
    BY EvictionsElements DEF Registered
  <2> QED BY <2>1, FS_Subset DEF Counted
<1>5. Cardinality(Mine) = drops[s]
  <2>1. IsFiniteSet(1..drops[s]) /\ Cardinality(1..drops[s]) = drops[s]
    <3>1. \A n \in Nat : IsFiniteSet(1..n) /\ Cardinality(1..n) = n
      BY FS_Interval
    <3> QED BY <1>1, <3>1
  <2>2. IsFiniteSet({s}) /\ Cardinality({s}) = 1
    BY FS_Singleton
  <2>3. Cardinality(Mine) = Cardinality({s}) * Cardinality(1..drops[s])
    BY <2>1, <2>2, FS_Product
  <2> QED BY <1>1, <2>1, <2>2, <2>3
<1> HIDE DEF Mine, Rest
<1>6. Cardinality(Evictions(Registered)) = Cardinality(Evictions(Rest)) + drops[s]
  <2>1. Cardinality(Evictions(Rest) \cap Mine) = 0
    BY <1>3, FS_EmptySet
  <2>2. Cardinality(Evictions(Rest)) \in Nat
    BY <1>4, FS_CardinalityType
  <2>3. Cardinality(Evictions(Rest) \cup Mine)
          = Cardinality(Evictions(Rest)) + Cardinality(Mine) - Cardinality(Evictions(Rest) \cap Mine)
    BY <1>4, FS_Union
  <2> QED BY <1>1, <1>2, <1>5, <2>1, <2>2, <2>3
<1>7. Evictions(Sessions)' = Evictions(Sessions) /\ Evictions(Registered)' = Evictions(Rest)
  BY <1>1 DEF Evictions
<1>8. Cardinality(Evictions(Rest)) \in Nat
  BY <1>4, FS_CardinalityType
<1> QED BY <1>1, <1>6, <1>7, <1>8 DEF Counted

(* A full queue loses one message more, of a session that is there. *)
LEMMA DropCounted ==
  ASSUME IInv, Counted, NEW s \in Registered, phase' = phase, retired' = retired,
         drops' = [drops EXCEPT ![s] = @ + 1]
  PROVE  Counted'
<1> DEFINE e == <<s, drops[s] + 1>>
           Later(some) == UNION {{x} \X (1..drops'[x]) : x \in some}
           R == Evictions(Registered)
           A == Evictions(Sessions)
<1>1. /\ Registered' = Registered /\ s \in Sessions /\ drops \in [Sessions -> Nat]
      /\ drops'[s] = drops[s] + 1 /\ \A x \in Sessions : x # s => drops'[x] = drops[x]
  BY DEF Registered, IInv, TypeOK
<1>2. ASSUME NEW some \in {Registered, Sessions}
      PROVE  Later(some) = Evictions(some) \cup {e} /\ e \notin Evictions(some)
  <2>1. s \in some /\ some \subseteq Sessions
    BY <1>1 DEF Registered
  <2>2. ASSUME NEW x \in some, NEW k \in 1..drops'[x]
        PROVE  <<x, k>> \in Evictions(some) \cup {e}
    <3>1. CASE k \in 1..drops[x]
      BY <3>1, EvictionsElements
    <3>2. CASE k \notin 1..drops[x]
      <4>1. x = s /\ k = drops[s] + 1
        BY <1>1, <2>1, <3>2
      <4> QED BY <4>1
    <3> QED BY <3>1, <3>2
  <2>3. ASSUME NEW x \in some, NEW k \in 1..drops[x]
        PROVE  k \in 1..drops'[x]
    BY <1>1, <2>1
  <2>4. drops[s] + 1 \in 1..drops'[s]
    BY <1>1
  <2>5. Later(some) = Evictions(some) \cup {e}
    <3>1. \A x : x \in Later(some) <=> \E a \in some : \E k \in 1..drops'[a] : x = <<a, k>>
      OBVIOUS
    <3> HIDE DEF Later
    <3> QED BY <2>1, <2>2, <2>3, <2>4, <3>1, EvictionsElements
  <2>6. e \notin Evictions(some)
    <3> SUFFICES ASSUME e \in Evictions(some) PROVE FALSE
      OBVIOUS
    <3>1. drops[s] + 1 \in 1..drops[s]
      BY EvictionsElements
    <3> QED BY <1>1, <3>1
  <2> QED BY <2>5, <2>6
<1>3. IsFiniteSet(Evictions(Registered)) /\ IsFiniteSet(Evictions(Sessions))
  <2>1. Evictions(Registered) \subseteq Evictions(Sessions)
    BY EvictionsElements DEF Registered
  <2> QED BY <2>1, FS_Subset DEF Counted
<1>4. Evictions(Registered)' = Later(Registered) /\ Evictions(Sessions)' = Later(Sessions)
  BY <1>1 DEF Evictions
<1>5. /\ Later(Registered) = R \cup {e} /\ e \notin R /\ IsFiniteSet(R)
      /\ Later(Sessions) = A \cup {e} /\ e \notin A /\ IsFiniteSet(A)
  BY <1>2, <1>3
<1>6. retired \in Nat /\ retired + Cardinality(R) = Cardinality(A)
  BY DEF Counted, IInv, TypeOK
<1> HIDE DEF e, Later, R, A
<1>7. /\ Cardinality(R \cup {e}) = Cardinality(R) + 1
      /\ IsFiniteSet(A \cup {e}) /\ Cardinality(A \cup {e}) = Cardinality(A) + 1
      /\ Cardinality(R) \in Nat /\ Cardinality(A) \in Nat
  BY <1>5, FS_AddElement, FS_CardinalityType
<1>8. retired + Cardinality(R \cup {e}) = Cardinality(A \cup {e})
  BY <1>6, <1>7
<1> QED BY <1>4, <1>5, <1>7, <1>8 DEF Counted

LEMMA NextCounted ==
  ASSUME IInv, Counted, [Next]_vars
  PROVE  Counted'
<1> USE DEF regVars, sendVars, subVars, pumpVars
<1>1. ASSUME NEW s \in Sessions, RemoveSession(s) PROVE Counted'
  BY <1>1, RemoveCounted
<1>2. ASSUME NEW p \in Producers, NEW s \in Sessions, Push(p, s) PROVE Counted'
  <2>1. /\ s \in Registered /\ phase' = phase /\ retired' = retired
        /\ drops' = drops \/ drops' = [drops EXCEPT ![s] = @ + 1]
    BY <1>2, PushStep DEF Registered
  <2>2. CASE drops' = drops
    BY <2>1, <2>2 DEF Counted, Evictions, Registered
  <2> QED BY <2>1, <2>2, DropCounted
<1>3. ASSUME NEW s \in Sessions, Add(s) PROVE Counted'
  <2>1. /\ Registered' = Registered \cup {s} /\ drops[s] = 0 /\ drops' = drops /\ retired' = retired
    BY <1>3 DEF Add, Registered, IInv, TypeOK, Books, Book, Untouched
  <2>2. Evictions(Registered)' = Evictions(Registered)
    BY <2>1 DEF Evictions
  <2> QED BY <2>1, <2>2 DEF Counted, Evictions
<1>4. ASSUME NEW s \in Sessions, Stop(s) PROVE Counted'
  <2>1. Registered' = Registered /\ drops' = drops /\ retired' = retired
    BY <1>4 DEF Stop, Registered, IInv, TypeOK
  <2> QED BY <2>1 DEF Counted, Evictions
<1>5. CASE UNCHANGED <<phase, drops, retired>>
  BY <1>5 DEF Counted, Evictions, Registered
<1> QED
  BY <1>1, <1>2, <1>3, <1>4, <1>5
  DEF Next, Visit, Send, SendReturns, Pump, PumpParks, PumpNext, PumpExits, HandOffReturns, vars

(* Every message a session was offered is handled, in hand, queued, dropped *)
(* or discarded, and Drops (broadcast.go:136) tells every drop there was,  *)
(* of live and of removed sessions, however Sends and Removes interleave.  *)
THEOREM QueuesAlwaysSound == Spec => []QueuesSound
<1>1. Init => Counted
  <2> SUFFICES ASSUME Init PROVE Counted
    OBVIOUS
  <2>1. Evictions(Sessions) = {} /\ Evictions(Registered) = {}
    BY EvictionsElements DEF Init, Registered
  <2> QED BY <2>1, FS_EmptySet DEF Init, Counted
<1>2. IInv /\ Counted /\ [Next]_vars => Counted'
  BY NextCounted
<1>3. IInv /\ Counted => QueuesSound
  BY DEF IInv, Books, Book, Balance, Counted, QueuesSound, DropsAccounted
<1> QED BY <1>1, <1>2, <1>3, SpecIInv, PTL DEF Spec

-----------------------------------------------------------------------------
(* No message is skipped.                                                  *)

Due(s, p) == sent[p] - (IF s \in todo[p] THEN 1 ELSE 0)

Increasing(s, p) ==
  \A i, j \in Offered(s, p) : i < j => pushed[s][i][2] < pushed[s][j][2]

Stream(s, p) ==
  /\ joined[s][p] <= Due(s, p)
  /\ {pushed[s][i][2] : i \in Offered(s, p)} = (joined[s][p] + 1)..Due(s, p)
  /\ Increasing(s, p)

Streams == \A s \in Registered, p \in Producers : Stream(s, p)

LEMMA FrameStream ==
  ASSUME NEW s \in Sessions, NEW p \in Producers, Stream(s, p),
         pushed'[s] = pushed[s], joined'[s] = joined[s], Due(s, p)' = Due(s, p)
  PROVE  Stream(s, p)'
BY DEF Stream, Increasing, Offered

(* The message that a Send of p hands to s is the next one due there. *)
LEMMA PushStream ==
  ASSUME IInv, Streams, NEW q \in Producers, NEW s \in Sessions, Push(q, s), NEW p \in Producers
  PROVE  Stream(s, p)'
<1>0. /\ s \in Registered /\ Stream(s, p)
      /\ pushed[s] \in Seq(Producers \X Nat) /\ Len(pushed[s]) \in Nat
      /\ sent[p] \in Nat /\ sent[q] \in Nat /\ joined[s][p] \in Nat
      /\ <<q, sent[q]>> \in Producers \X Nat
  <2>1. s \in Registered
    BY PushStep DEF Registered
  <2>2. sent[p] \in Nat /\ sent[q] \in Nat /\ joined[s][p] \in Nat
    BY DEF IInv, TypeOK
  <2>3. pushed[s] \in Seq(Producers \X Nat) /\ Len(pushed[s]) \in Nat
    BY SessionTypes DEF IInv
  <2> QED BY <2>1, <2>2, <2>3 DEF Streams
<1>1. /\ pushed'[s] = Append(pushed[s], <<q, sent[q]>>)
      /\ joined' = joined /\ sent' = sent
      /\ s \in todo[q] /\ todo' = [todo EXCEPT ![q] = @ \ {s}]
  BY PushStep DEF IInv, TypeOK, Push, regVars
<1> DEFINE n == Len(pushed[s]) + 1
           old == pushed[s]
           new == pushed'[s]
<1>2. /\ Len(new) = n /\ n \in Nat /\ \A i \in 1..Len(old) : new[i] = old[i]
      /\ new[n] = <<q, sent[q]>>
  BY <1>0, <1>1, AppendProperties
<1>3. /\ \A i \in 1..Len(old) : i \in 1..n /\ i < n
      /\ \A i \in 1..n : i \in 1..Len(old) \/ i = n
      /\ n \in 1..n /\ n \notin 1..Len(old)
  BY <1>0
<1>4. Offered(s, p) = {i \in 1..Len(old) : old[i][1] = p}
  BY DEF Offered
<1>5. Offered(s, p)' = {i \in 1..n : new[i][1] = p}
  BY <1>2 DEF Offered
<1> HIDE DEF n, new, old
<1>6. CASE p # q
  <2>1. Offered(s, p)' = Offered(s, p)
    BY <1>2, <1>3, <1>4, <1>5, <1>6
  <2>2. \A i \in Offered(s, p) : new[i] = old[i]
    BY <1>2, <1>4
  <2>3. Due(s, p)' = Due(s, p)
    BY <1>1, <1>6 DEF Due, IInv, TypeOK
  <2>4. {new[i][2] : i \in Offered(s, p)'} = {old[i][2] : i \in Offered(s, p)}
    BY <2>1, <2>2
  <2>5. joined'[s][p] <= Due(s, p)'
        /\ {new[i][2] : i \in Offered(s, p)'} = (joined'[s][p] + 1)..Due(s, p)'
    BY <1>0, <1>1, <2>3, <2>4 DEF Stream, old
  <2>6. \A i, j \in Offered(s, p)' : i < j => new[i][2] < new[j][2]
    <3>1. \A i, j \in Offered(s, p) : i < j => old[i][2] < old[j][2]
      BY <1>0 DEF Stream, Increasing, old
    <3> QED BY <2>1, <2>2, <3>1
  <2> QED BY <2>5, <2>6 DEF Stream, Increasing, new
<1>7. CASE p = q
  <2>1. Offered(s, p)' = Offered(s, p) \cup {n} /\ n \notin Offered(s, p)
    BY <1>2, <1>3, <1>4, <1>5, <1>7
  <2>2. /\ \A i \in Offered(s, p) : new[i] = old[i] /\ i < n
        /\ new[n][2] = sent[p]
    BY <1>2, <1>3, <1>4, <1>7
  <2>3. Due(s, p) = sent[p] - 1 /\ Due(s, p)' = sent[p] - 0
    BY <1>1, <1>7 DEF Due, IInv, TypeOK
  <2>4. joined[s][p] <= sent[p] - 1
    BY <1>0, <2>3 DEF Stream
  <2>5. {old[i][2] : i \in Offered(s, p)} = (joined[s][p] + 1)..(sent[p] - 1)
    BY <1>0, <2>3 DEF Stream, old
  <2>6. {new[i][2] : i \in Offered(s, p)'} = (joined[s][p] + 1)..sent[p]
    <3>1. {new[i][2] : i \in Offered(s, p)'} = {old[i][2] : i \in Offered(s, p)} \cup {sent[p]}
      BY <2>1, <2>2
    <3>2. ((joined[s][p] + 1)..(sent[p] - 1)) \cup {sent[p]} = (joined[s][p] + 1)..sent[p]
      BY <1>0, <2>4
    <3> QED BY <2>5, <3>1, <3>2
  <2>7. \A i \in Offered(s, p) : old[i][2] < sent[p]
    <3>1. \A i \in Offered(s, p) : old[i][2] \in (joined[s][p] + 1)..(sent[p] - 1)
      BY <2>5
    <3> QED BY <1>0, <3>1
  <2>8. \A i, j \in Offered(s, p)' : i < j => new[i][2] < new[j][2]
    <3> SUFFICES ASSUME NEW i \in Offered(s, p)', NEW j \in Offered(s, p)', i < j
                 PROVE  new[i][2] < new[j][2]
      OBVIOUS
    <3>1. i \in 1..n /\ j \in 1..n /\ i # n
      BY <1>2, <1>3, <1>5
    <3>2. i \in Offered(s, p)
      BY <2>1, <3>1
    <3>3. CASE j = n
      BY <2>2, <2>7, <3>2, <3>3
    <3>4. CASE j # n
      <4>1. j \in Offered(s, p)
        BY <2>1, <3>4
      <4> QED BY <1>0, <2>2, <3>2, <4>1 DEF Stream, Increasing, old
    <3> QED BY <3>3, <3>4
  <2>9. joined[s][p] <= sent[p] - 0 /\ sent[p] - 0 = sent[p]
    BY <1>0, <2>4
  <2> QED BY <1>1, <2>3, <2>6, <2>8, <2>9 DEF Stream, Increasing, new
<1> QED BY <1>6, <1>7

LEMMA NextStreams ==
  ASSUME IInv, Streams, [Next]_vars
  PROVE  Streams'
<1> USE DEF regVars, sendVars, subVars, pumpVars
<1> SUFFICES ASSUME NEW s \in Registered', NEW p \in Producers PROVE Stream(s, p)'
  BY DEF Streams
<1>0. s \in Sessions /\ sent \in [Producers -> Nat]
  BY DEF Registered, IInv, TypeOK
<1>1. ASSUME NEW q \in Producers, Send(q) PROVE Stream(s, p)'
  <2>1. s \in Registered /\ UNCHANGED <<pushed, joined>>
    BY <1>1 DEF Send, Registered
  <2>2. Due(s, p)' = Due(s, p)
    <3>1. CASE p = q
      <4>1. s \notin todo[p] /\ s \in todo'[p] /\ sent'[p] = sent[p] + 1
        BY <1>0, <1>1, <2>1, <3>1 DEF Send, IInv, Locking, TypeOK
      <4> QED BY <1>0, <4>1 DEF Due
    <3>2. CASE p # q
      BY <1>1, <3>2 DEF Send, Due, IInv, TypeOK
    <3> QED BY <3>1, <3>2
  <2> QED BY <1>0, <2>1, <2>2, FrameStream DEF Streams
<1>2. ASSUME NEW q \in Producers, NEW x \in Sessions, Push(q, x) PROVE Stream(s, p)'
  <2>1. CASE s = x
    BY <1>2, <2>1, PushStream
  <2>2. CASE s # x
    <3>0. /\ pushed' = [pushed EXCEPT ![x] = Append(@, <<q, sent[q]>>)]
          /\ todo' = [todo EXCEPT ![q] = @ \ {x}]
          /\ phase' = phase /\ joined' = joined /\ sent' = sent
      BY <1>2, PushStep DEF regVars
    <3>1. s \in Registered /\ pushed'[s] = pushed[s] /\ joined' = joined
      <4>1. pushed \in [Sessions -> Seq(Producers \X Nat)]
        BY DEF IInv, TypeOK
      <4> QED BY <1>0, <2>2, <3>0, <4>1 DEF Registered
    <3>2. sent' = sent /\ (s \in todo'[p] <=> s \in todo[p])
      <4>1. todo \in [Producers -> SUBSET Sessions]
        BY DEF IInv, TypeOK
      <4> QED BY <2>2, <3>0, <4>1
    <3>3. Due(s, p)' = Due(s, p)
      BY <3>2 DEF Due
    <3> QED BY <1>0, <3>1, <3>3, FrameStream DEF Streams
  <2> QED BY <2>1, <2>2
<1>3. ASSUME NEW x \in Sessions, Add(x) PROVE Stream(s, p)'
  <2>0. \A q \in Producers : todo[q] = {}
    BY <1>3 DEF Add, Unlocked, IInv, Locking
  <2>1. CASE s = x
    <3>1. /\ pushed'[s] = <<>> /\ joined'[s] = sent /\ sent' = sent /\ todo' = todo
      BY <1>3, <2>1 DEF Add, IInv, TypeOK, Books, Book, Untouched
    <3>2. Due(s, p)' = sent[p] - 0
      BY <2>0, <3>1 DEF Due
    <3>3. Offered(s, p)' = {}
      BY <3>1, EmptySeq DEF Offered
    <3>4. (sent[p] + 1)..(sent[p] - 0) = {} /\ sent[p] <= sent[p] - 0
      BY <1>0
    <3> QED BY <3>1, <3>2, <3>3, <3>4 DEF Stream, Increasing
  <2>2. CASE s # x
    <3>1. s \in Registered /\ pushed' = pushed /\ joined'[s] = joined[s] /\ Due(s, p)' = Due(s, p)
      BY <1>0, <1>3, <2>2 DEF Add, Registered, Due, IInv, TypeOK
    <3> QED BY <1>0, <3>1, FrameStream DEF Streams
  <2> QED BY <2>1, <2>2
<1>4. ASSUME NEW x \in Sessions, RemoveSession(x) \/ Stop(x) PROVE Stream(s, p)'
  <2>1. s \in Registered /\ UNCHANGED <<pushed, joined, sent, todo>>
    BY <1>0, <1>4 DEF RemoveSession, Stop, Registered, IInv, TypeOK
  <2> QED BY <1>0, <2>1, FrameStream DEF Streams, Due
<1>5. CASE UNCHANGED <<phase, pushed, joined, sent, todo>>
  BY <1>0, <1>5, FrameStream DEF Streams, Due, Registered
<1> QED
  BY <1>1, <1>2, <1>3, <1>4, <1>5
  DEF Next, Visit, SendReturns, Pump, PumpParks, PumpNext, PumpExits, HandOffReturns, vars

(* Of every producer a session is offered each message since it was added, *)
(* once and in order: a Send that races an Add or a Remove never half      *)
(* serves the one that comes or goes (Send holds b.mu throughout).         *)
THEOREM NoneEverSkipped == Spec => []NoneSkipped
<1>1. Init => Streams
  BY DEF Init, Streams, Registered
<1>2. IInv /\ Streams /\ [Next]_vars => Streams'
  BY NextStreams
<1>3. Streams => NoneSkipped
  BY DEF Streams, Stream, Increasing, Due, NoneSkipped
<1> QED BY <1>1, <1>2, <1>3, SpecIInv, PTL DEF Spec

-----------------------------------------------------------------------------
(* Refinement: each session's queue is a LossyFifo.                        *)

LEMMA PushFeed ==
  ASSUME IInv, NEW p \in Producers, NEW s \in Sessions, Push(p, s)
  PROVE  SessionFeeds!Offer(s)
<1> DEFINE a == handing[s]
           b == queue[s]
           x == Len(pushed[s]) + 1
<1>1. /\ a \in Seq(Nat) /\ b \in Seq(Nat) /\ x \in Nat /\ Len(a) \in Nat /\ Len(b) \in Nat
      /\ drops \in [Sessions -> Nat] /\ queue \in [Sessions -> Seq(Nat)]
  <2>1. RingsTyped
    BY DEF IInv, TypeOK, RingsTyped
  <2>2. queue \in [Sessions -> Seq(Nat)]
    BY <2>1, RingsAreQueues
  <2>3. drops \in [Sessions -> Nat] /\ TypeOK
    BY DEF IInv, TypeOK
  <2>4. /\ a \in Seq(Nat) /\ b \in Seq(Nat) /\ Len(a) \in Nat /\ Len(b) \in Nat
        /\ Len(pushed[s]) \in Nat
    BY <2>3, SessionTypes
  <2> QED BY <2>2, <2>3, <2>4
<1>2. /\ phase[s] = "registered" /\ phase' = phase
      /\ handing' = handing /\ handled' = handled /\ discarded' = discarded
      /\ Len(pushed'[s]) = x
  BY PushStep DEF regVars
<1>3. \/ /\ queue'[s] = Append(b, x) /\ drops'[s] = drops[s]
      \/ /\ b # <<>> /\ queue'[s] = Append(Tail(b), x) /\ drops'[s] = drops[s] + 1
  BY <1>1, PushStep
<1>s. a = handing[s] /\ b = queue[s] /\ x = Len(pushed[s]) + 1
  OBVIOUS
<1> HIDE DEF a, b, x
<1>4. CASE queue'[s] = Append(b, x) /\ drops'[s] = drops[s]
  <2>1. a \o Append(b, x) = Append(a \o b, x)
    BY <1>1, ConcatAppend
  <2>2. SessionFeeds!Accepts(s)
    BY <1>2, <1>4, <1>s, <2>1 DEF SessionFeeds!Accepts
  <2> QED BY <1>2, <1>s, <2>2 DEF SessionFeeds!Offer
<1>5. CASE b # <<>> /\ queue'[s] = Append(Tail(b), x) /\ drops'[s] = drops[s] + 1
  <2>1. a \o Append(Tail(b), x) = Without(Append(a \o b, x), Len(a) + 1)
    BY <1>1, <1>5, RemoveOldestWaiting
  <2>2. Len(a) + 1 \in 1..(Len(a \o b) + 1)
    <3>1. Len(a \o b) = Len(a) + Len(b)
      BY <1>1, ConcatProperties
    <3> QED BY <1>1, <3>1
  <2>3. PICK k \in 1..(Len(handing[s] \o queue[s]) + 1) : k = Len(a) + 1
    BY <1>s, <2>2
  <2>4. SessionFeeds!Loses(s, k)
    BY <1>2, <1>5, <1>s, <2>1, <2>3 DEF SessionFeeds!Loses, SessionFeeds!RemoveAt, Without
  <2>5. \E j \in 1..(Len(handing[s] \o queue[s]) + 1) : SessionFeeds!Loses(s, j)
    BY <2>4
  <2>6. phase[s] # "stopped" /\ phase'[s] # "stopped" /\ Len(pushed'[s]) = Len(pushed[s]) + 1
    BY <1>2, <1>s
  <2> QED BY <1>2, <2>5, <2>6 DEF SessionFeeds!Offer
<1> QED BY <1>3, <1>4, <1>5

LEMMA HandOffFeed ==
  ASSUME IInv, NEW s \in Sessions, HandOffReturns(s)
  PROVE  SessionFeeds!Deliver(s)
<1> DEFINE a == handing[s]
           b == queue[s]
           g == handled[s]
<1>1. /\ a \in Seq(Nat) /\ b \in Seq(Nat) /\ g \in Seq(Nat)
      /\ handing \in [Sessions -> Seq(Nat)] /\ handled \in [Sessions -> Seq(Nat)]
  BY SessionTypes DEF IInv, TypeOK
<1>2. Len(a) = 1
  BY DEF IInv, Books, Book, Hand, HandOffReturns
<1>3. /\ handing'[s] = <<>> /\ handled'[s] = g \o a /\ queue'[s] = b
      /\ UNCHANGED <<pushed, drops, discarded, phase>>
  <2>1. queue' = queue
    BY RingsFrame DEF HandOffReturns, subVars
  <2> QED BY <1>1, <2>1 DEF HandOffReturns, regVars, sendVars, subVars
<1>s. a = handing[s] /\ b = queue[s] /\ g = handled[s]
  OBVIOUS
<1> HIDE DEF a, b, g
<1>4. a # <<>> /\ a = <<Head(a)>> /\ Tail(a) = <<>>
  BY <1>1, <1>2, SingletonSeq, EmptySeq
<1>5. a \o b # <<>> /\ Head(a \o b) = Head(a) /\ Tail(a \o b) = Tail(a) \o b
  BY <1>1, <1>4, ConcatHeadTail
<1>6. Head(a) \in Nat
  BY <1>1, <1>4, HeadTailProperties
<1>7. g \o a = Append(g, Head(a))
  BY <1>1, <1>4, <1>6, AppendIsConcat
<1>8. handled'[s] = Append(handled[s], Head(handing[s] \o queue[s]))
  BY <1>3, <1>5, <1>7, <1>s
<1>9. handing'[s] \o queue'[s] = Tail(handing[s] \o queue[s])
  BY <1>3, <1>4, <1>5, <1>s
<1>10. handing[s] \o queue[s] # <<>>
  BY <1>5, <1>s
<1> QED BY <1>3, <1>8, <1>9, <1>10 DEF SessionFeeds!Deliver

LEMMA StopSession ==
  ASSUME IInv, NEW s \in Sessions, Stop(s)
  PROVE  SessionFeeds!Close(s)
<1> DEFINE a == handing[s]
           b == queue[s]
           n == Len(a)
<1>1. /\ a \in Seq(Nat) /\ b \in Seq(Nat) /\ Len(a) \in Nat /\ Len(b) \in Nat
      /\ queue \in [Sessions -> Seq(Nat)] /\ discarded \in [Sessions -> Nat]
      /\ phase \in [Sessions -> {"new", "registered", "removed", "stopped"}]
      /\ RingsTyped /\ count[s] = Len(b)
  <2>1. RingsTyped
    BY DEF IInv, TypeOK, RingsTyped
  <2>2. queue \in [Sessions -> Seq(Nat)] /\ count[s] = Len(b)
    BY <2>1, RingsAreQueues
  <2> QED BY <2>1, <2>2, SessionTypes DEF IInv, TypeOK
<1>2. /\ queue'[s] = <<>> /\ discarded'[s] = discarded[s] + Len(b)
      /\ phase[s] # "stopped" /\ phase'[s] = "stopped"
      /\ UNCHANGED <<pushed, handing, handled, drops>>
  <2>1. queue' = [queue EXCEPT ![s] = <<>>]
    BY <1>1, ClearRing DEF Stop
  <2> QED BY <1>1, <2>1 DEF Stop
<1>s. a = handing[s] /\ b = queue[s] /\ n = Len(a)
  OBVIOUS
<1> HIDE DEF a, b
<1>3. SubSeq(a \o b, 1, n) = a /\ a \o <<>> = a
  BY <1>1, ConcatKeepFirst, ConcatEmptySeq
<1>4. Len(a \o b) = n + Len(b)
  BY <1>1, ConcatProperties
<1> HIDE DEF n
<1>5. n \in 0..Len(a \o b) /\ Len(a \o b) - n = Len(b)
  BY <1>1, <1>4, <1>s
<1>6. \E m \in 0..Len(handing[s] \o queue[s]) :
        /\ handing'[s] \o queue'[s] = SubSeq(handing[s] \o queue[s], 1, m)
        /\ discarded'[s] = discarded[s] + (Len(handing[s] \o queue[s]) - m)
  BY <1>2, <1>3, <1>5, <1>s
<1> QED BY <1>2, <1>6 DEF SessionFeeds!Close

LEMMA PumpNextFeed ==
  ASSUME IInv, NEW s \in Sessions, PumpNext(s)
  PROVE  SessionFeeds!Idle(s)
<1>1. /\ queue[s] \in Seq(Nat) /\ queue[s] # <<>> /\ handing[s] = <<>>
      /\ handing \in [Sessions -> Seq(Nat)] /\ queue \in [Sessions -> Seq(Nat)]
      /\ buf[s][head[s]] = Head(queue[s]) /\ queue' = [queue EXCEPT ![s] = Tail(@)]
  <2>1. RingsTyped
    BY DEF IInv, TypeOK, RingsTyped
  <2>2. /\ queue[s] # <<>> /\ buf[s][head[s]] = Head(queue[s])
        /\ queue' = [queue EXCEPT ![s] = Tail(@)]
    BY <2>1, TakeRing DEF PumpNext
  <2> QED BY <2>1, <2>2, SessionTypes, RingsAreQueues DEF IInv, TypeOK, Books, Book, Hand, PumpNext
<1>2. /\ handing'[s] = <<Head(queue[s])>> /\ queue'[s] = Tail(queue[s])
      /\ UNCHANGED <<pushed, handled, drops, discarded, phase>>
  BY <1>1 DEF PumpNext, regVars
<1>3. <<Head(queue[s])>> \o Tail(queue[s]) = queue[s] /\ <<>> \o queue[s] = queue[s]
  <2>1. \A q \in Seq(Nat) : q # <<>> => <<Head(q)>> \o Tail(q) = q
    BY HeadThenTail
  <2>2. \A q \in Seq(Nat) : <<>> \o q = q
    BY ConcatEmptySeq
  <2> QED BY <1>1, <2>1, <2>2
<1> QED BY <1>1, <1>2, <1>3 DEF SessionFeeds!Idle

LEMMA SessionStep ==
  ASSUME IInv, [Next]_vars, NEW s \in Sessions
  PROVE  \/ SessionFeeds!Offer(s) \/ SessionFeeds!Deliver(s)
         \/ SessionFeeds!Close(s) \/ SessionFeeds!Idle(s)
<1>1. ASSUME NEW x \in Sessions,
             \/ Stop(x) \/ Pump(x) \/ HandOffReturns(x) \/ Add(x) \/ RemoveSession(x)
             \/ \E p \in Producers : Push(p, x)
      PROVE  \/ SessionFeeds!Offer(s) \/ SessionFeeds!Deliver(s)
             \/ SessionFeeds!Close(s) \/ SessionFeeds!Idle(s)
  <2>1. CASE x = s
    <3>1. CASE \E p \in Producers : Push(p, x)
      BY <2>1, <3>1, PushFeed
    <3>2. CASE HandOffReturns(x)
      BY <2>1, <3>2, HandOffFeed
    <3>3. CASE Stop(x)
      BY <2>1, <3>3, StopSession
    <3>4. CASE PumpNext(x)
      BY <2>1, <3>4, PumpNextFeed
    <3>5. CASE PumpParks(x) \/ PumpExits(x) \/ Add(x) \/ RemoveSession(x)
      <4>1. phase'[s] # "stopped" <=> phase[s] # "stopped"
        BY <2>1, <3>5 DEF PumpParks, PumpExits, Add, RemoveSession, IInv, TypeOK, regVars
      <4>2. UNCHANGED <<pushed, queue, handing, handled, drops, discarded>>
        <5>1. queue' = queue
          BY <3>5, RingsFrame DEF PumpParks, PumpExits, Add, RemoveSession, subVars
        <5> QED BY <3>5, <5>1 DEF PumpParks, PumpExits, Add, RemoveSession, subVars, pumpVars
      <4> QED BY <4>1, <4>2 DEF SessionFeeds!Idle
    <3> QED BY <1>1, <3>1, <3>2, <3>3, <3>4, <3>5 DEF Pump
  <2>2. CASE x # s
    <3>1. Same(s)
      BY <1>1, <2>2, Bystanders DEF IInv
    <3> QED BY <3>1 DEF Same, SessionFeeds!Idle
  <2> QED BY <2>1, <2>2
<1>2. CASE UNCHANGED <<regVars, subVars, pumpVars>>
  <2>1. queue' = queue
    BY <1>2, RingsFrame DEF subVars
  <2> QED BY <1>2, <2>1 DEF SessionFeeds!Idle, regVars, subVars, pumpVars
<1> QED
  BY <1>1, <1>2 DEF Next, Visit, Send, SendReturns, vars

(* A session handles what it was offered in order and at most once, loses  *)
(* only from a full queue, and counts what it loses; once stopped it may   *)
(* finish the message in hand and no other (push, next, stop).             *)
THEOREM SessionQueuesAreLossyFifos == Spec => QueuesAreLossyFifos
<1>1. Init => SessionFeeds!Init
  <2> SUFFICES ASSUME Init PROVE SessionFeeds!Init
    OBVIOUS
  <2>1. <<>> \o <<>> = <<>>
    BY ConcatEmptySeq, EmptySeq
  <2>2. \A s \in Sessions : queue[s] = <<>>
    BY DEF Init, queue, Waiting
  <2> QED BY <2>1, <2>2, EmptySeq DEF Init, SessionFeeds!Init
<1>2. IInv /\ [Next]_vars => [SessionFeeds!Next]_SessionFeeds!vars
  BY SessionStep DEF SessionFeeds!Next
<1>3. Spec => SessionFeeds!Spec
  BY <1>1, <1>2, SpecIInv, PTL DEF Spec, SessionFeeds!Spec
<1> QED BY <1>3 DEF QueuesAreLossyFifos

(* So what a session has handled, has in hand and has waiting is in the    *)
(* order it was offered, nothing twice; and what it was offered is there,  *)
(* or counted as dropped, or was thrown away by stop.                      *)
THEOREM SessionsInOrderAndAccounted ==
  Spec => [](SessionFeeds!Ordered /\ SessionFeeds!Accounted)
BY SessionQueuesAreLossyFifos, SessionFeeds!FifosAreSound, PTL DEF QueuesAreLossyFifos

-----------------------------------------------------------------------------
(***************************************************************************)
(* The dashboard.  What each of its parts is.                              *)
(***************************************************************************)
AppType ==
  [tab : Tabs, palette : BOOLEAN, search : BOOLEAN, help : BOOLEAN, dialog : BOOLEAN,
   prompt : BOOLEAN, alertsConfirming : BOOLEAN, over : BOOLEAN]
Named == Symbols \cup {"none"}
DetailType == [active : BOOLEAN, symbol : Named, quote : Named, book : Named]
StreamType == [symbol : Symbols, running : BOOLEAN]
ChartType ==
  [active : BOOLEAN, symbol : Named, interval : 1..Intervals,
   data : [symbol : Named, interval : 0..Intervals], loading : BOOLEAN, failed : BOOLEAN, menu : BOOLEAN,
   reqSeq : Nat]
CompareTyped(c) ==
  /\ DOMAIN c = {"active", "symbols", "interval", "entries", "loading", "reqSeq"}
  /\ c.active \in BOOLEAN /\ c.symbols \in Seq(Symbols) /\ c.interval \in 1..Intervals
  /\ c.loading \in BOOLEAN /\ c.reqSeq \in Nat /\ (c.active => c.symbols # <<>>)
OptionsType == [symbol : Named, loading : BOOLEAN, chain : Named, failed : BOOLEAN]
CardType == [active : BOOLEAN, loading : BOOLEAN, shown : Named]
LoadType ==
  [of : {"chart", "compare", "card", "options", "detail"}, symbols : Seq(Symbols) \ {<<>>},
   interval : 0..Intervals, seq : Nat, answer : {"none", "ok", "failed"}]

DashboardTypes ==
  /\ app \in AppType /\ detail \in DetailType /\ streams \subseteq StreamType
  /\ chart \in ChartType /\ CompareTyped(compare) /\ card \in CardType /\ options \in OptionsType
  /\ loads \subseteq LoadType /\ inputs \in Nat

(* Of the chart's loads, the one whose answer would be accepted asked for  *)
(* what the header says; so of the comparison's, while it is up.           *)
ChartLoads ==
  \A l \in loads : l.of = "chart" =>
    /\ chart.symbol # "none" /\ l.seq <= chart.reqSeq
    /\ l.seq = chart.reqSeq => l.symbols = <<chart.symbol>> /\ l.interval = chart.interval
CompareLoads ==
  \A l \in loads : l.of = "compare" =>
    /\ l.seq <= compare.reqSeq
    /\ l.seq = compare.reqSeq /\ compare.active => l.symbols = compare.symbols /\ l.interval = compare.interval

(* At most one surface is up, and beneath it no search and no prompt.      *)
OneUp ==
  /\ app.dialog => ~app.help /\ ~card.active /\ ~detail.active /\ ~chart.active /\ ~compare.active
  /\ app.help => ~card.active /\ ~detail.active /\ ~chart.active /\ ~compare.active
  /\ card.active => ~detail.active /\ ~chart.active /\ ~compare.active
  /\ detail.active => ~chart.active /\ ~compare.active
  /\ chart.active => ~compare.active
Covered == app.dialog \/ card.active \/ detail.active \/ chart.active \/ compare.active
KeysTaken ==
  /\ OneUp
  /\ Covered => ~app.search /\ ~app.alertsConfirming
  /\ app.help => ~(app.search /\ app.tab = "Watch") /\ ~app.palette /\ ~app.alertsConfirming

DashboardIInv ==
  /\ DashboardTypes /\ ChartLoads /\ ChartTitled /\ CompareLoads /\ CompareTitled
  /\ BookTitled /\ KeysTaken /\ LoadingAsked

-----------------------------------------------------------------------------
(* Who has the keys.                                                       *)

LEMMA FirstUpIs ==
  ASSUME NEW order, DOMAIN order \subseteq Nat, NEW i \in DOMAIN order,
         Up[order[i]], \A j \in 1..(i - 1) : ~Up[order[j]], 
         \A k \in DOMAIN order : 1 <= k
  PROVE  FirstUp(order) = order[i]
<1> DEFINE P(k) == k \in DOMAIN order /\ Up[order[k]] /\ \A j \in 1..(k - 1) : ~Up[order[j]]
           k == CHOOSE n \in DOMAIN order : Up[order[n]] /\ \A j \in 1..(n - 1) : ~Up[order[j]]
<1>1. k \in DOMAIN order /\ Up[order[k]] /\ \A j \in 1..(k - 1) : ~Up[order[j]]
  OBVIOUS
<1>2. FirstUp(order) = order[k]
  BY DEF FirstUp
<1> HIDE DEF k
<1>3. k \in Nat /\ i \in Nat /\ 1 <= k /\ 1 <= i
  BY <1>1
<1>4. ~(k < i)
  BY <1>1, <1>3
<1>5. ~(i < k)
  BY <1>1, <1>3
<1>6. k = i
  BY <1>3, <1>4, <1>5
<1>7. QED
  BY <1>2, <1>6

LEMMA UpIs ==
  /\ Up["palette"] = app.palette /\ Up["search"] = (app.tab = "Watch" /\ app.search)
  /\ Up["help"] = app.help /\ Up["dialog"] = app.dialog /\ Up["card"] = card.active
  /\ Up["prompt"] = (app.tab = "Alerts" /\ app.alertsConfirming)
  /\ Up["detail"] = detail.active /\ Up["chart"] = chart.active /\ Up["compare"] = compare.active
  /\ Up["tab"] = TRUE
BY DEF Up

LEMMA OrderIs ==
  /\ DOMAIN KeyOrder = 1..10 /\ DOMAIN ViewOrder = 1..8
  /\ KeyOrder[1] = "palette" /\ KeyOrder[2] = "search" /\ KeyOrder[3] = "help" /\ KeyOrder[4] = "dialog"
  /\ KeyOrder[5] = "card" /\ KeyOrder[6] = "prompt" /\ KeyOrder[7] = "detail" /\ KeyOrder[8] = "chart"
  /\ KeyOrder[9] = "compare" /\ KeyOrder[10] = "tab"
  /\ ViewOrder[1] = "chart" /\ ViewOrder[2] = "compare" /\ ViewOrder[3] = "detail" /\ ViewOrder[4] = "help"
  /\ ViewOrder[5] = "card" /\ ViewOrder[6] = "dialog" /\ ViewOrder[7] = "search" /\ ViewOrder[8] = "tab"
BY DEF KeyOrder, ViewOrder

(* A surface that gets the key has none before it up.                      *)
LEMMA KeysAre ==
  ASSUME NEW i \in 1..10, Up[KeyOrder[i]], \A j \in 1..(i - 1) : ~Up[KeyOrder[j]]
  PROVE  KeysGoTo = KeyOrder[i]
<1>1. DOMAIN KeyOrder = 1..10
  BY OrderIs
<1>2. QED
  BY <1>1, FirstUpIs DEF KeysGoTo
LEMMA TopIs ==
  ASSUME NEW i \in 1..8, Up[ViewOrder[i]], \A j \in 1..(i - 1) : ~Up[ViewOrder[j]]
  PROVE  Top = ViewOrder[i]
<1>1. DOMAIN ViewOrder = 1..8
  BY OrderIs
<1>2. QED
  BY <1>1, FirstUpIs DEF Top

(* The orders in full: the first surface that is up.                      *)
LEMMA KeysUnrolled ==
  /\ app.palette => KeysGoTo = "palette"
  /\ ~app.palette /\ (app.tab = "Watch" /\ app.search) => KeysGoTo = "search"
  /\ ~app.palette /\ ~(app.tab = "Watch" /\ app.search) /\ app.help => KeysGoTo = "help"
  /\ ~app.palette /\ ~(app.tab = "Watch" /\ app.search) /\ ~app.help /\ app.dialog => KeysGoTo = "dialog"
  /\ ~app.palette /\ ~(app.tab = "Watch" /\ app.search) /\ ~app.help /\ ~app.dialog
     /\ card.active => KeysGoTo = "card"
  /\ ~app.palette /\ ~(app.tab = "Watch" /\ app.search) /\ ~app.help /\ ~app.dialog /\ ~card.active
     /\ (app.tab = "Alerts" /\ app.alertsConfirming) => KeysGoTo = "prompt"
  /\ ~app.palette /\ ~(app.tab = "Watch" /\ app.search) /\ ~app.help /\ ~app.dialog /\ ~card.active
     /\ ~(app.tab = "Alerts" /\ app.alertsConfirming) /\ detail.active => KeysGoTo = "detail"
  /\ ~app.palette /\ ~(app.tab = "Watch" /\ app.search) /\ ~app.help /\ ~app.dialog /\ ~card.active
     /\ ~(app.tab = "Alerts" /\ app.alertsConfirming) /\ ~detail.active
     /\ chart.active => KeysGoTo = "chart"
  /\ ~app.palette /\ ~(app.tab = "Watch" /\ app.search) /\ ~app.help /\ ~app.dialog /\ ~card.active
     /\ ~(app.tab = "Alerts" /\ app.alertsConfirming) /\ ~detail.active /\ ~chart.active
     /\ compare.active => KeysGoTo = "compare"
  /\ ~app.palette /\ ~(app.tab = "Watch" /\ app.search) /\ ~app.help /\ ~app.dialog /\ ~card.active
     /\ ~(app.tab = "Alerts" /\ app.alertsConfirming) /\ ~detail.active /\ ~chart.active
     /\ ~compare.active => KeysGoTo = "tab"
<1> DEFINE K(i) == Up[KeyOrder[i]]
<1>1. \A i \in 1..10 : K(i) /\ (\A j \in 1..(i - 1) : ~K(j)) => KeysGoTo = KeyOrder[i]
  BY KeysAre
<1>2. /\ K(1) = app.palette
      /\ K(2) = (app.tab = "Watch" /\ app.search)
      /\ K(3) = app.help
      /\ K(4) = app.dialog
      /\ K(5) = card.active
      /\ K(6) = (app.tab = "Alerts" /\ app.alertsConfirming)
      /\ K(7) = detail.active
      /\ K(8) = chart.active
      /\ K(9) = compare.active
      /\ K(10) = TRUE
  BY UpIs, OrderIs
<1> HIDE DEF K
<1>3. K(1) => KeysGoTo = "palette"
  BY <1>1, OrderIs
<1>4. ~K(1) /\ K(2) => KeysGoTo = "search"
  BY <1>1, OrderIs
<1>5. ~K(1) /\ ~K(2) /\ K(3) => KeysGoTo = "help"
  BY <1>1, OrderIs
<1>6. ~K(1) /\ ~K(2) /\ ~K(3) /\ K(4) => KeysGoTo = "dialog"
  BY <1>1, OrderIs
<1>7. ~K(1) /\ ~K(2) /\ ~K(3) /\ ~K(4) /\ K(5) => KeysGoTo = "card"
  BY <1>1, OrderIs
<1>8. ~K(1) /\ ~K(2) /\ ~K(3) /\ ~K(4) /\ ~K(5) /\ K(6) => KeysGoTo = "prompt"
  BY <1>1, OrderIs
<1>9. ~K(1) /\ ~K(2) /\ ~K(3) /\ ~K(4) /\ ~K(5) /\ ~K(6) /\ K(7) => KeysGoTo = "detail"
  BY <1>1, OrderIs
<1>10. ~K(1) /\ ~K(2) /\ ~K(3) /\ ~K(4) /\ ~K(5) /\ ~K(6) /\ ~K(7) /\ K(8) => KeysGoTo = "chart"
  BY <1>1, OrderIs
<1>11. ~K(1) /\ ~K(2) /\ ~K(3) /\ ~K(4) /\ ~K(5) /\ ~K(6) /\ ~K(7) /\ ~K(8) /\ K(9) => KeysGoTo = "compare"
  BY <1>1, OrderIs
<1>12. ~K(1) /\ ~K(2) /\ ~K(3) /\ ~K(4) /\ ~K(5) /\ ~K(6) /\ ~K(7) /\ ~K(8) /\ ~K(9) /\ K(10) => KeysGoTo = "tab"
  BY <1>1, OrderIs
<1>13. QED
  BY <1>2, <1>3, <1>4, <1>5, <1>6, <1>7, <1>8, <1>9, <1>10, <1>11, <1>12

LEMMA TopUnrolled ==
  /\ chart.active => Top = "chart"
  /\ ~chart.active /\ compare.active => Top = "compare"
  /\ ~chart.active /\ ~compare.active /\ detail.active => Top = "detail"
  /\ ~chart.active /\ ~compare.active /\ ~detail.active /\ app.help => Top = "help"
  /\ ~chart.active /\ ~compare.active /\ ~detail.active /\ ~app.help /\ card.active => Top = "card"
  /\ ~chart.active /\ ~compare.active /\ ~detail.active /\ ~app.help /\ ~card.active
     /\ app.dialog => Top = "dialog"
  /\ ~chart.active /\ ~compare.active /\ ~detail.active /\ ~app.help /\ ~card.active /\ ~app.dialog
     /\ (app.tab = "Watch" /\ app.search) => Top = "search"
  /\ ~chart.active /\ ~compare.active /\ ~detail.active /\ ~app.help /\ ~card.active /\ ~app.dialog
     /\ ~(app.tab = "Watch" /\ app.search) => Top = "tab"
<1> DEFINE K(i) == Up[ViewOrder[i]]
<1>1. \A i \in 1..8 : K(i) /\ (\A j \in 1..(i - 1) : ~K(j)) => Top = ViewOrder[i]
  BY TopIs
<1>2. /\ K(1) = chart.active
      /\ K(2) = compare.active
      /\ K(3) = detail.active
      /\ K(4) = app.help
      /\ K(5) = card.active
      /\ K(6) = app.dialog
      /\ K(7) = (app.tab = "Watch" /\ app.search)
      /\ K(8) = TRUE
  BY UpIs, OrderIs
<1> HIDE DEF K
<1>3. K(1) => Top = "chart"
  BY <1>1, OrderIs
<1>4. ~K(1) /\ K(2) => Top = "compare"
  BY <1>1, OrderIs
<1>5. ~K(1) /\ ~K(2) /\ K(3) => Top = "detail"
  BY <1>1, OrderIs
<1>6. ~K(1) /\ ~K(2) /\ ~K(3) /\ K(4) => Top = "help"
  BY <1>1, OrderIs
<1>7. ~K(1) /\ ~K(2) /\ ~K(3) /\ ~K(4) /\ K(5) => Top = "card"
  BY <1>1, OrderIs
<1>8. ~K(1) /\ ~K(2) /\ ~K(3) /\ ~K(4) /\ ~K(5) /\ K(6) => Top = "dialog"
  BY <1>1, OrderIs
<1>9. ~K(1) /\ ~K(2) /\ ~K(3) /\ ~K(4) /\ ~K(5) /\ ~K(6) /\ K(7) => Top = "search"
  BY <1>1, OrderIs
<1>10. ~K(1) /\ ~K(2) /\ ~K(3) /\ ~K(4) /\ ~K(5) /\ ~K(6) /\ ~K(7) /\ K(8) => Top = "tab"
  BY <1>1, OrderIs
<1>11. QED
  BY <1>2, <1>3, <1>4, <1>5, <1>6, <1>7, <1>8, <1>9, <1>10

(* The tab gets a key when nothing is up; and a ":" opens the palette only *)
(* when no help is.                                                        *)
LEMMA KeysFree ==
  /\ KeysGoTo \notin {"palette", "search", "help"} => ~app.palette /\ ~app.help
  /\ KeysGoTo = "tab" => /\ ~app.palette /\ ~app.help /\ ~app.dialog /\ ~card.active
                         /\ ~detail.active /\ ~chart.active /\ ~compare.active
                         /\ ~(app.tab = "Watch" /\ app.search)
BY KeysUnrolled

(* With the keys taken as KeysTaken says, the surface up takes them and is *)
(* drawn on top; with none up, the search does, else the prompt or the tab.*)
LEMMA KeysTakenReach ==
  ASSUME KeysTaken PROVE KeysReachTheTop
<1>1. \A x, y \in {"dialog", "help", "card", "detail", "chart", "compare"} : Up[x] /\ Up[y] => x = y
  BY UpIs, SMTT(60) DEF KeysTaken, OneUp
<1>2. ASSUME ~app.palette PROVE KeysGoTo = Top \/ (KeysGoTo = "prompt" /\ Top = "tab")
  BY <1>2, KeysUnrolled, TopUnrolled DEF KeysTaken, OneUp, Covered
<1>3. QED
  BY <1>1, <1>2 DEF KeysReachTheTop

-----------------------------------------------------------------------------
(* Types.                                                                  *)

LEMMA LoadTyped ==
  ASSUME NEW of \in {"chart", "compare", "card", "options", "detail"}, NEW symbols \in Seq(Symbols), symbols # <<>>,
         NEW interval \in 0..Intervals, NEW seq \in Nat, NEW answer \in {"none", "ok", "failed"}
  PROVE  Load(of, symbols, interval, seq, answer) \in LoadType
BY DEF Load, LoadType

LEMMA OneLoad ==
  ASSUME NEW s \in Symbols
  PROVE  <<s>> \in Seq(Symbols) /\ <<s>> # <<>> /\ <<s>>[1] = s /\ Len(<<s>>) = 1
OBVIOUS

LEMMA SymbolLoad ==
  ASSUME NEW of \in {"card", "options", "detail"}, NEW s \in Symbols, NEW seq \in Nat
  PROVE  Load(of, <<s>>, 0, seq, "none") \in LoadType
<1>1. 0 \in 0..Intervals
  BY DashboardAssumption
<1>2. <<s>> \in Seq(Symbols) /\ <<s>> # <<>>
  BY OneLoad
<1>3. QED
  BY <1>1, <1>2 DEF Load, LoadType

LEMMA FetchHistoryTypes ==
  ASSUME NEW c \in ChartType, c.symbol \in Symbols, loads \subseteq LoadType, FetchHistory(c)
  PROVE  chart' \in ChartType /\ loads' \subseteq LoadType
<1>1. c.reqSeq + 1 \in Nat /\ c.interval \in 0..Intervals
  BY DashboardAssumption DEF ChartType
<1>2. PICK answer \in {"none", "ok"} : Begin(Load("chart", <<c.symbol>>, c.interval, c.reqSeq + 1, answer))
  BY DEF FetchHistory
<1>3. Load("chart", <<c.symbol>>, c.interval, c.reqSeq + 1, answer) \in LoadType
  BY <1>1, LoadTyped, OneLoad
<1>4. loads' \subseteq LoadType
  BY <1>2, <1>3 DEF Begin
<1>5. PICK b \in BOOLEAN : chart' = [c EXCEPT !.reqSeq = c.reqSeq + 1, !.loading = b]
  BY DEF FetchHistory
<1>6. chart' \in ChartType
  BY <1>1, <1>5 DEF ChartType
<1>7. QED
  BY <1>4, <1>6

LEMMA FetchAllTypes ==
  ASSUME NEW c, CompareTyped(c), c.symbols # <<>>, loads \subseteq LoadType, FetchAll(c)
  PROVE  CompareTyped(compare') /\ loads' \subseteq LoadType
<1>1. c.reqSeq + 1 \in Nat /\ c.interval \in 0..Intervals /\ c.symbols \in Seq(Symbols)
  BY DashboardAssumption DEF CompareTyped
<1>2. Load("compare", c.symbols, c.interval, c.reqSeq + 1, "none") \in LoadType
  BY <1>1, LoadTyped
<1>3. compare' = [c EXCEPT !.reqSeq = c.reqSeq + 1, !.loading = TRUE]
      /\ Begin(Load("compare", c.symbols, c.interval, c.reqSeq + 1, "none"))
  BY DEF FetchAll
<1>4. CompareTyped(compare')
  BY <1>1, <1>3 DEF CompareTyped
<1>5. QED
  BY <1>2, <1>3, <1>4 DEF Begin

(* Most keys change nothing but what has the keys.                         *)
AppOnly ==
  \/ KeyInPalette \/ KeyInSearch \/ KeyInHelp \/ OpenPalette \/ KeyInDialog \/ KeyAtPrompt
  \/ Quit \/ OpenHelp \/ SwitchTab \/ OpenDialog \/ StartSearch \/ KeyAtAlerts

LEMMA AppOnlyTypes ==
  ASSUME app \in AppType, AppOnly
  PROVE  app' \in AppType
<1> USE DEF AppType
<1>1. Unarmed \in AppType
  BY DEF Unarmed
<1>2. CASE KeyInPalette
  BY <1>2 DEF KeyInPalette
<1>3. CASE KeyInSearch \/ KeyInHelp \/ OpenPalette \/ KeyInDialog \/ KeyAtPrompt
  BY <1>3 DEF KeyInSearch, KeyInHelp, OpenPalette, KeyInDialog, KeyAtPrompt
<1>4. CASE Quit \/ OpenHelp \/ SwitchTab \/ OpenDialog \/ StartSearch
  BY <1>1, <1>4 DEF Quit, OpenHelp, SwitchTab, OpenDialog, StartSearch
<1>5. CASE KeyAtAlerts
  BY <1>5 DEF KeyAtAlerts
<1>6. QED
  BY <1>2, <1>3, <1>4, <1>5 DEF AppOnly

LEMMA AppOnlyKeeps ==
  ASSUME AppOnly
  PROVE  UNCHANGED <<detail, streams, chart, cache, compare, card, options, loads>> /\ Input
BY DEF AppOnly, KeyInPalette, KeyInSearch, KeyInHelp, OpenPalette, KeyInDialog, KeyAtPrompt, Quit, OpenHelp,
       SwitchTab, OpenDialog, StartSearch, KeyAtAlerts, KeyAt, TabKey

LEMMA UnarmedType ==
  ASSUME app \in AppType PROVE Unarmed \in AppType
BY DEF AppType, Unarmed

LEMMA StopLiveTypes ==
  ASSUME streams \subseteq StreamType
  PROVE  StopLive \subseteq StreamType /\ \A s \in StopLive : ~s.running
BY DEF StopLive, StreamType

LEMMA InputTypes ==
  ASSUME inputs \in Nat, Input PROVE inputs' \in Nat
BY DEF Input

LEMMA FirstOfLoad ==
  ASSUME NEW l \in LoadType PROVE l.symbols[1] \in Symbols /\ l.interval \in 0..Intervals /\ l.symbols \in Seq(Symbols)
<1>1. l.symbols \in Seq(Symbols) /\ l.symbols # <<>> /\ l.interval \in 0..Intervals
  BY DEF LoadType
<1>2. 1 \in 1..Len(l.symbols)
  BY <1>1
<1>3. QED
  BY <1>1, <1>2

LEMMA AnswersTypes ==
  ASSUME DashboardTypes, NEW l \in LoadType, NEW got
  PROVE  /\ ChartAnswered(l) \in ChartType /\ CompareTyped(CompareAnswered(l, got))
         /\ CardAnswered(l) \in CardType /\ OptionsAnswered(l) \in OptionsType
         /\ BookAnswered(l) \in DetailType
<1>1. l.symbols[1] \in Symbols /\ l.interval \in 0..Intervals
  BY FirstOfLoad
<1>2. ChartAnswered(l) \in ChartType
  BY <1>1 DEF DashboardTypes, ChartType, ChartAnswered, Named
<1>3. CompareTyped(CompareAnswered(l, got))
  BY DEF DashboardTypes, CompareTyped, CompareAnswered
<1>4. CardAnswered(l) \in CardType
  BY <1>1 DEF DashboardTypes, CardType, CardAnswered, Named
<1>5. BookAnswered(l) \in DetailType
  BY <1>1 DEF DashboardTypes, DetailType, BookAnswered, BookShown, Named
<1>6. OptionsAnswered(l) \in OptionsType
  BY <1>1 DEF DashboardTypes, OptionsType, OptionsAnswered, Named
<1>7. QED
  BY <1>2, <1>3, <1>4, <1>5, <1>6

(* What each answer does, and to whom.                                     *)
LEMMA RouteIs ==
  ASSUME NEW l, RouteAsyncResult(l)
  PROVE  /\ l.answer # "none" /\ loads' = loads \ {l} /\ UNCHANGED <<app, streams, cache, inputs>>
         /\ chart' = IF l.of = "chart" THEN ChartAnswered(l) ELSE chart
         /\ l.of # "compare" => compare' = compare
         /\ l.of = "compare" => \E got \in SUBSET ToSet(l.symbols) : compare' = CompareAnswered(l, got)
         /\ card' = IF l.of = "card" THEN CardAnswered(l) ELSE card
         /\ options' = IF l.of = "options" THEN OptionsAnswered(l) ELSE options
         /\ detail' = IF l.of = "detail" THEN BookAnswered(l) ELSE detail
BY DEF RouteAsyncResult, AsyncTargets

LEMMA DashboardTypesStep ==
  ASSUME DashboardTypes, [DashboardNext]_dashboardVars
  PROVE  DashboardTypes'
<1>0. /\ app \in AppType /\ detail \in DetailType /\ streams \subseteq StreamType /\ chart \in ChartType
      /\ CompareTyped(compare) /\ card \in CardType /\ options \in OptionsType /\ loads \subseteq LoadType
      /\ inputs \in Nat /\ Unarmed \in AppType
  BY UnarmedType DEF DashboardTypes
<1>1. CASE AppOnly
  BY <1>0, <1>1, AppOnlyTypes, AppOnlyKeeps, InputTypes DEF DashboardTypes
<1>2. CASE CloseDetail
  <2>1. [detail EXCEPT !.active = FALSE] \in DetailType
    BY <1>0 DEF DetailType
  <2>2. QED
    BY <1>0, <1>2, <2>1, StopLiveTypes, InputTypes DEF DashboardTypes, CloseDetail, KeyAt
<1>3. CASE CloseChart \/ IndicatorMenu
  <2>1. [chart EXCEPT !.active = FALSE] \in ChartType /\ [chart EXCEPT !.menu = ~@] \in ChartType
    BY <1>0 DEF ChartType
  <2>2. QED
    BY <1>0, <1>3, <2>1, InputTypes DEF DashboardTypes, CloseChart, IndicatorMenu, ChartKey, KeyAt
<1>4. CASE ChartInterval
  <2>1. PICK i \in 1..Intervals :
          IF chart.symbol = "none" THEN chart' = [chart EXCEPT !.interval = i] /\ UNCHANGED <<cache, loads>>
          ELSE FetchHistory([chart EXCEPT !.interval = i])
    BY <1>4 DEF ChartInterval
  <2>2. [chart EXCEPT !.interval = i] \in ChartType /\ [chart EXCEPT !.interval = i].symbol = chart.symbol
    BY <1>0 DEF ChartType
  <2>3. chart.symbol \in Symbols \cup {"none"}
    BY <1>0 DEF ChartType, Named
  <2>4. chart' \in ChartType /\ loads' \subseteq LoadType
    BY <1>0, <2>1, <2>2, <2>3, FetchHistoryTypes
  <2>5. QED
    BY <1>0, <1>4, <2>4, InputTypes DEF DashboardTypes, ChartInterval, ChartKey
<1>5. CASE CloseCompare
  <2>1. CompareTyped([compare EXCEPT !.active = FALSE])
    BY <1>0 DEF CompareTyped
  <2>2. QED
    BY <1>0, <1>5, <2>1, InputTypes DEF DashboardTypes, CloseCompare, KeyAt
<1>6. CASE CompareInterval
  <2>1. PICK i \in 1..Intervals : FetchAll([compare EXCEPT !.interval = i])
    BY <1>6 DEF CompareInterval
  <2>2. compare.symbols # <<>>
    BY <1>0, <1>6, KeysUnrolled DEF CompareInterval, KeyAt, CompareTyped
  <2>3. CompareTyped([compare EXCEPT !.interval = i]) /\ [compare EXCEPT !.interval = i].symbols = compare.symbols
    BY <1>0 DEF CompareTyped
  <2>4. CompareTyped(compare') /\ loads' \subseteq LoadType
    BY <1>0, <2>1, <2>2, <2>3, FetchAllTypes
  <2>5. QED
    BY <1>0, <1>6, <2>4, InputTypes DEF DashboardTypes, CompareInterval, KeyAt
<1>7. CASE CompareDrop
  <2> DEFINE left == [compare EXCEPT !.symbols = Front(@), !.entries = WithoutSymbol(@, Last(compare.symbols))]
  <2>1. compare.symbols # <<>> /\ app' = Unarmed /\ Input
        /\ UNCHANGED <<detail, streams, chart, cache, card, options>>
        /\ IF left.symbols = <<>> THEN compare' = [left EXCEPT !.active = FALSE] /\ UNCHANGED loads ELSE FetchAll(left)
    BY <1>7 DEF CompareDrop, KeyAt
  <2>2. Front(compare.symbols) \in Seq(Symbols)
    BY <1>0, <2>1 DEF CompareTyped, Front
  <2>3. CASE left.symbols = <<>>
    <3>1. CompareTyped([left EXCEPT !.active = FALSE])
      BY <1>0, <2>2 DEF CompareTyped
    <3>2. QED
      BY <1>0, <2>1, <2>3, <3>1, InputTypes DEF DashboardTypes
  <2>4. CASE left.symbols # <<>>
    <3>1. CompareTyped(left)
      BY <1>0, <2>2, <2>4 DEF CompareTyped
    <3>2. FetchAll(left)
      BY <2>1, <2>4
    <3> HIDE DEF left
    <3>3. CompareTyped(compare') /\ loads' \subseteq LoadType
      BY <1>0, <2>4, <3>1, <3>2, FetchAllTypes
    <3>4. QED
      BY <1>0, <2>1, <3>3, InputTypes DEF DashboardTypes
  <2>5. QED
    BY <2>3, <2>4
<1>8. CASE KeyInCard
  <2>1. [card EXCEPT !.active = FALSE] \in CardType
    BY <1>0 DEF CardType
  <2>2. QED
    BY <1>0, <1>8, <2>1, InputTypes DEF DashboardTypes, KeyInCard, KeyAt
<1>9. CASE OpenDetail
  <2>1. PICK s \in Symbols :
          /\ detail' = [detail EXCEPT !.active = TRUE, !.symbol = s, !.book = "none"]
          /\ streams' = StopLive \cup {[symbol |-> t, running |-> TRUE] : t \in {s} \cap Crypto}
          /\ IF s \in Crypto THEN Begin(Load("detail", <<s>>, 0, inputs, "none")) ELSE UNCHANGED loads
    BY <1>9 DEF OpenDetail
  <2>2. detail' \in DetailType
    BY <1>0, <2>1 DEF DetailType, Named
  <2>3. streams' \subseteq StreamType
    <3>1. [symbol |-> s, running |-> TRUE] \in StreamType
      BY DEF StreamType
    <3>2. StopLive \subseteq StreamType
      BY <1>0, StopLiveTypes
    <3>3. ASSUME NEW x \in streams' PROVE x \in StreamType
      BY <2>1, <3>1, <3>2, <3>3
    <3>4. QED
      BY <3>3
  <2>4. Load("detail", <<s>>, 0, inputs, "none") \in LoadType
    BY <1>0, SymbolLoad
  <2>5. loads' \subseteq LoadType
    BY <1>0, <2>1, <2>4 DEF Begin
  <2>6. QED
    BY <1>0, <1>9, <2>2, <2>3, <2>5, InputTypes DEF DashboardTypes, OpenDetail, WatchKey, TabKey, KeyAt
<1>10. CASE OpenChart
  <2>1. PICK s \in Symbols : FetchHistory([chart EXCEPT !.symbol = s, !.active = TRUE, !.failed = FALSE])
    BY <1>10 DEF OpenChart
  <2> DEFINE c == [chart EXCEPT !.symbol = s, !.active = TRUE, !.failed = FALSE]
  <2>2. c \in ChartType /\ c.symbol \in Symbols
    BY <1>0 DEF ChartType, Named
  <2> HIDE DEF c
  <2>3. chart' \in ChartType /\ loads' \subseteq LoadType
    BY <1>0, <2>1, <2>2, FetchHistoryTypes DEF c
  <2>4. QED
    BY <1>0, <1>10, <2>3, InputTypes DEF DashboardTypes, OpenChart, WatchKey, TabKey, KeyAt
<1>11. CASE AddToCompare
  <2>1. PICK s \in Symbols : compare' = [compare EXCEPT !.symbols = Append(@, s)]
    BY <1>11 DEF AddToCompare
  <2>2. Append(compare.symbols, s) \in Seq(Symbols) /\ Append(compare.symbols, s) # <<>>
    BY <1>0 DEF CompareTyped
  <2>3. CompareTyped(compare')
    BY <1>0, <2>1, <2>2 DEF CompareTyped
  <2>4. QED
    BY <1>0, <1>11, <2>3, InputTypes DEF DashboardTypes, AddToCompare, WatchKey, TabKey, KeyAt
<1>12. CASE OpenCompare
  <2>1. CompareTyped([compare EXCEPT !.active = TRUE]) /\ [compare EXCEPT !.active = TRUE].symbols # <<>>
    BY <1>0, <1>12 DEF CompareTyped, OpenCompare
  <2>2. CompareTyped(compare') /\ loads' \subseteq LoadType
    BY <1>0, <1>12, <2>1, FetchAllTypes DEF OpenCompare
  <2>3. QED
    BY <1>0, <1>12, <2>2, InputTypes DEF DashboardTypes, OpenCompare, WatchKey, TabKey, KeyAt
<1>13. CASE OpenCard
  <2>1. PICK s \in Symbols : card' = [active |-> TRUE, loading |-> TRUE, shown |-> s]
                             /\ Begin(Load("card", <<s>>, 0, inputs, "none"))
    BY <1>13 DEF OpenCard
  <2>2. Load("card", <<s>>, 0, inputs, "none") \in LoadType
    BY <1>0, SymbolLoad
  <2>3. card' \in CardType /\ loads' \subseteq LoadType
    BY <1>0, <2>1, <2>2 DEF Begin, CardType, Named
  <2>4. QED
    BY <1>0, <1>13, <2>3, InputTypes DEF DashboardTypes, OpenCard, WatchKey, TabKey, KeyAt
<1>14. CASE OpenOptions
  <2>1. PICK s \in Symbols : Begin(Load("options", <<s>>, 0, inputs, "none"))
                             /\ options' = [options EXCEPT !.symbol = s, !.loading = TRUE, !.failed = FALSE]
    BY <1>14 DEF OpenOptions
  <2>2. Load("options", <<s>>, 0, inputs, "none") \in LoadType
    BY <1>0, SymbolLoad
  <2>3. loads' \subseteq LoadType
    BY <1>0, <2>1, <2>2 DEF Begin
  <2>4. [Unarmed EXCEPT !.tab = "Options"] \in AppType
    BY <1>0 DEF AppType, Tabs
  <2>5. options' \in OptionsType
    BY <1>0, <2>1 DEF OptionsType, Named
  <2>6. QED
    BY <1>0, <1>14, <2>3, <2>4, <2>5, InputTypes DEF DashboardTypes, OpenOptions, TabKey, KeyAt
<1>15. CASE ClickTab
  <2>1. \A t \in Tabs : [app EXCEPT !.tab = t] \in AppType
    BY <1>0 DEF AppType
  <2>2. [detail EXCEPT !.active = FALSE] \in DetailType
    BY <1>0 DEF DetailType
  <2>3. QED
    BY <1>0, <1>15, <2>1, <2>2, StopLiveTypes, InputTypes DEF DashboardTypes, ClickTab
<1>16. ASSUME NEW l \in loads, Fetched(l) PROVE DashboardTypes'
  <2>1. \A answer \in {"ok", "failed"} : [l EXCEPT !.answer = answer] \in LoadType
    BY <1>0 DEF LoadType
  <2>2. loads' \subseteq LoadType
    BY <1>0, <1>16, <2>1 DEF Fetched
  <2>3. QED
    BY <1>0, <1>16, <2>2 DEF DashboardTypes, Fetched
<1>17. ASSUME NEW l \in loads, RouteAsyncResult(l) PROVE DashboardTypes'
  <2>1. l \in LoadType
    BY <1>0
  <2>2. /\ ChartAnswered(l) \in ChartType /\ \A got : CompareTyped(CompareAnswered(l, got))
        /\ CardAnswered(l) \in CardType /\ OptionsAnswered(l) \in OptionsType /\ BookAnswered(l) \in DetailType
    BY <2>1, AnswersTypes
  <2>3. CompareTyped(compare')
    BY <1>0, <1>17, <2>2, RouteIs
  <2>4. QED
    BY <1>0, <1>17, <2>2, <2>3, RouteIs DEF DashboardTypes
<1>18. ASSUME NEW s \in streams, StreamSends(s) \/ StreamEnds(s) PROVE DashboardTypes'
  <2>1. BookShown(s.symbol) \in DetailType
    BY <1>0 DEF DetailType, BookShown, StreamType, Named
  <2>2. QED
    BY <1>0, <1>18, <2>1 DEF DashboardTypes, StreamSends, StreamEnds
<1>19. ASSUME NEW s \in Symbols, UpdateQuote(s) PROVE DashboardTypes'
  <2>1. [detail EXCEPT !.quote = s] \in DetailType
    BY <1>0 DEF DetailType, Named
  <2>2. QED
    BY <1>0, <1>19, <2>1 DEF DashboardTypes, UpdateQuote
<1>20. CASE UNCHANGED dashboardVars
  BY <1>0, <1>20 DEF DashboardTypes, dashboardVars
<1>21. QED
  BY <1>1, <1>2, <1>3, <1>4, <1>5, <1>6, <1>7, <1>8, <1>9, <1>10, <1>11, <1>12, <1>13, <1>14, <1>15, <1>16,
     <1>17, <1>18, <1>19, <1>20 DEF DashboardNext, Key, AppOnly

-----------------------------------------------------------------------------
(* The chart.                                                              *)

LEMMA ChartKept ==
  ASSUME ChartLoads, ChartTitled,
         chart'.symbol = chart.symbol, chart'.interval = chart.interval, chart'.data = chart.data,
         chart'.loading = chart.loading, chart'.failed = chart.failed, chart'.reqSeq = chart.reqSeq,
         \A l : l.of = "chart" => (l \in loads' <=> l \in loads)
  PROVE  ChartLoads' /\ ChartTitled'
<1>1. ChartLoads'
  BY DEF ChartLoads
<1>2. ChartTitled'
  BY DEF ChartTitled
<1>3. QED
  BY <1>1, <1>2

LEMMA FetchHistoryChart ==
  ASSUME DashboardTypes, ChartLoads, NEW c \in ChartType, c.symbol \in Symbols, c.reqSeq = chart.reqSeq,
         FetchHistory(c)
  PROVE  ChartLoads' /\ ChartTitled'
<1>1. PICK answer \in {"none", "ok"}, b \in BOOLEAN :
        /\ Begin(Load("chart", <<c.symbol>>, c.interval, c.reqSeq + 1, answer))
        /\ chart' = [c EXCEPT !.reqSeq = c.reqSeq + 1, !.loading = b]
        /\ answer = "ok" \/ b
  BY DEF FetchHistory
<1> DEFINE new == Load("chart", <<c.symbol>>, c.interval, c.reqSeq + 1, answer)
<1>2. /\ new.of = "chart" /\ new.symbols = <<c.symbol>> /\ new.interval = c.interval
      /\ new.seq = c.reqSeq + 1 /\ new.answer = answer
  BY DEF Load
<1>3. loads' = loads \cup {new}
  BY <1>1 DEF Begin
<1>4. /\ chart'.symbol = c.symbol /\ chart'.interval = c.interval /\ chart'.reqSeq = c.reqSeq + 1
      /\ chart'.loading = b
  BY <1>1 DEF ChartType
<1> HIDE DEF new
<1>5. c.symbol # "none"
  BY DashboardAssumption
<1>6. c.reqSeq \in Nat
  BY DEF ChartType
<1>7. ASSUME NEW l \in loads', l.of = "chart"
      PROVE  /\ chart'.symbol # "none" /\ l.seq <= chart'.reqSeq
             /\ l.seq = chart'.reqSeq => l.symbols = <<chart'.symbol>> /\ l.interval = chart'.interval
  <2>1. CASE l = new
    BY <1>2, <1>4, <1>5, <1>6, <2>1
  <2>2. CASE l \in loads
    <3>1. l.seq \in Nat /\ l.seq <= c.reqSeq
      BY <1>7, <2>2 DEF ChartLoads, DashboardTypes, LoadType
    <3>2. QED
      BY <1>4, <1>5, <1>6, <3>1
  <2>3. QED
    BY <1>3, <2>1, <2>2
<1>8. ChartLoads'
  BY <1>7 DEF ChartLoads
<1>9. ChartTitled'
  BY <1>1, <1>2, <1>3, <1>4 DEF ChartTitled
<1>10. QED
  BY <1>8, <1>9

LEMMA FetchedChart ==
  ASSUME DashboardTypes, ChartLoads, ChartTitled, NEW l \in loads, Fetched(l)
  PROVE  ChartLoads' /\ ChartTitled'
<1>1. PICK answer \in {"ok", "failed"} : loads' = (loads \ {l}) \cup {[l EXCEPT !.answer = answer]}
  BY DEF Fetched
<1> DEFINE m == [l EXCEPT !.answer = answer]
<1>2. /\ m.of = l.of /\ m.symbols = l.symbols /\ m.interval = l.interval /\ m.seq = l.seq
  BY DEF DashboardTypes, LoadType
<1>3. l.answer = "none" /\ chart' = chart
  BY DEF Fetched
<1> HIDE DEF m
<1>4. \A k \in loads' : k \in loads \/ k = m
  BY <1>1 DEF m
<1>5. ChartLoads'
  BY <1>2, <1>3, <1>4 DEF ChartLoads
<1>6. \A k \in loads : k.answer = "ok" => k \in loads'
  BY <1>1, <1>3
<1>7. ChartTitled'
  BY <1>3, <1>6 DEF ChartTitled
<1>8. QED
  BY <1>5, <1>7

LEMMA RouteChart ==
  ASSUME DashboardTypes, ChartLoads, ChartTitled, NEW l \in loads, RouteAsyncResult(l)
  PROVE  ChartLoads' /\ ChartTitled'
<1>1. l.answer # "none" /\ loads' = loads \ {l} /\ chart' = IF l.of = "chart" THEN ChartAnswered(l) ELSE chart
  BY RouteIs
<1>2. CASE l.of # "chart"
  BY <1>1, <1>2, ChartKept
<1>3. CASE l.of = "chart" /\ ~Accepts(chart, l)
  <2>1. chart' = chart
    BY <1>1, <1>3 DEF ChartAnswered
  <2>2. ChartLoads'
    BY <1>1, <2>1 DEF ChartLoads
  <2>3. \A k \in loads : k.of = "chart" /\ k.seq = chart.reqSeq => k # l
    <3>1. SUFFICES ASSUME l.seq = chart.reqSeq PROVE FALSE
      OBVIOUS
    <3>2. l.symbols = <<chart.symbol>>
      BY <1>3, <3>1 DEF ChartLoads
    <3>3. l.symbols[1] = chart.symbol
      BY <3>2
    <3>4. QED
      BY <1>3, <3>1, <3>3 DEF Accepts
  <2>4. ChartTitled'
    BY <1>1, <2>1, <2>3 DEF ChartTitled
  <2>5. QED
    BY <2>2, <2>4
<1>4. CASE l.of = "chart" /\ Accepts(chart, l)
  <2>1. l.seq = chart.reqSeq /\ l.symbols[1] = chart.symbol /\ l.interval = chart.interval
    BY <1>4 DEF Accepts, ChartLoads
  <2>2. chart \in ChartType
    BY DEF DashboardTypes
  <2>3. CASE l.answer = "ok"
    <3>1. chart' = [chart EXCEPT !.data = [symbol |-> l.symbols[1], interval |-> l.interval],
                                 !.loading = FALSE, !.failed = FALSE]
      BY <1>1, <1>4, <2>3 DEF ChartAnswered
    <3>2. /\ chart'.symbol = chart.symbol /\ chart'.interval = chart.interval /\ chart'.reqSeq = chart.reqSeq
          /\ chart'.data = [symbol |-> chart.symbol, interval |-> chart.interval]
      BY <2>1, <2>2, <3>1 DEF ChartType
    <3>3. ChartLoads'
      BY <1>1, <3>2 DEF ChartLoads
    <3>4. ChartTitled'
      BY <3>2 DEF ChartTitled
    <3>5. QED
      BY <3>3, <3>4
  <2>4. CASE l.answer # "ok"
    <3>1. chart' = [chart EXCEPT !.loading = FALSE, !.failed = TRUE]
      BY <1>1, <1>4, <2>4 DEF ChartAnswered
    <3>2. /\ chart'.symbol = chart.symbol /\ chart'.interval = chart.interval /\ chart'.reqSeq = chart.reqSeq
          /\ chart'.failed
      BY <2>2, <3>1 DEF ChartType
    <3>3. ChartLoads'
      BY <1>1, <3>2 DEF ChartLoads
    <3>4. ChartTitled'
      BY <3>2 DEF ChartTitled
    <3>5. QED
      BY <3>3, <3>4
  <2>5. QED
    BY <2>3, <2>4
<1>5. QED
  BY <1>2, <1>3, <1>4

(* The other surfaces begin loads of their own kind only.                  *)
LEMMA BeginIs ==
  ASSUME NEW of, NEW symbols, NEW interval, NEW seq, NEW answer, Begin(Load(of, symbols, interval, seq, answer))
  PROVE  \A l : l.of # of => (l \in loads' <=> l \in loads)
BY DEF Load, Begin

LEMMA OthersLoad ==
  ASSUME OpenDetail \/ OpenCard \/ OpenOptions
  PROVE  /\ UNCHANGED <<chart, compare>>
         /\ \A l : l.of \in {"chart", "compare"} => (l \in loads' <=> l \in loads)
<1>1. CASE OpenDetail
  <2>1. PICK s : IF s \in Crypto THEN Begin(Load("detail", <<s>>, 0, inputs, "none")) ELSE UNCHANGED loads
    BY <1>1 DEF OpenDetail
  <2>2. UNCHANGED <<chart, compare>>
    BY <1>1 DEF OpenDetail
  <2>3. QED
    BY <2>1, <2>2, BeginIs
<1>2. CASE OpenCard
  <2>1. PICK s : Begin(Load("card", <<s>>, 0, inputs, "none"))
    BY <1>2 DEF OpenCard
  <2>2. QED
    BY <1>2, <2>1, BeginIs DEF OpenCard
<1>3. CASE OpenOptions
  <2>1. PICK s : Begin(Load("options", <<s>>, 0, inputs, "none"))
    BY <1>3 DEF OpenOptions
  <2>2. UNCHANGED <<chart, compare>>
    BY <1>3 DEF OpenOptions
  <2>3. QED
    BY <2>1, <2>2, BeginIs
<1>4. QED
  BY <1>1, <1>2, <1>3

LEMMA FetchAllIs ==
  ASSUME NEW c, FetchAll(c)
  PROVE  /\ compare' = [c EXCEPT !.reqSeq = @ + 1, !.loading = TRUE]
         /\ \A l : l.of = "chart" => (l \in loads' <=> l \in loads)
BY BeginIs DEF FetchAll

LEMMA FetchHistoryLoads ==
  ASSUME NEW c, FetchHistory(c)
  PROVE  \A l : l.of = "compare" => (l \in loads' <=> l \in loads)
BY BeginIs DEF FetchHistory

LEMMA ChartStep ==
  ASSUME DashboardTypes, ChartLoads, ChartTitled, [DashboardNext]_dashboardVars
  PROVE  ChartLoads' /\ ChartTitled'
<1>0. chart \in ChartType
  BY DEF DashboardTypes
<1>1. CASE AppOnly
  BY <1>1, AppOnlyKeeps, ChartKept
<1>2. CASE CloseDetail \/ KeyInCard \/ CloseCompare \/ AddToCompare \/ ClickTab
  <2>1. UNCHANGED <<chart, loads>>
    BY <1>2 DEF CloseDetail, KeyInCard, CloseCompare, AddToCompare, ClickTab
  <2>2. QED
    BY <2>1, ChartKept
<1>3. CASE CloseChart \/ IndicatorMenu
  <2>1. loads' = loads /\ (chart' = [chart EXCEPT !.active = FALSE] \/ chart' = [chart EXCEPT !.menu = ~@])
    BY <1>3 DEF CloseChart, IndicatorMenu
  <2>2. /\ chart'.symbol = chart.symbol /\ chart'.interval = chart.interval /\ chart'.data = chart.data
        /\ chart'.loading = chart.loading /\ chart'.failed = chart.failed /\ chart'.reqSeq = chart.reqSeq
    BY <1>0, <2>1 DEF ChartType
  <2>3. QED
    BY <2>1, <2>2, ChartKept
<1>4. CASE OpenDetail \/ OpenCard \/ OpenOptions
  BY <1>4, OthersLoad, ChartKept
<1>5. CASE CompareInterval \/ CompareDrop \/ OpenCompare
  <2>1. chart' = chart
    BY <1>5 DEF CompareInterval, CompareDrop, OpenCompare
  <2>2. loads' = loads \/ \E c : FetchAll(c)
    BY <1>5 DEF CompareInterval, CompareDrop, OpenCompare
  <2>3. \A l : l.of = "chart" => (l \in loads' <=> l \in loads)
    BY <2>2, FetchAllIs
  <2>4. QED
    BY <2>1, <2>3, ChartKept
<1>6. CASE ChartInterval
  <2>1. PICK i \in 1..Intervals :
          IF chart.symbol = "none" THEN chart' = [chart EXCEPT !.interval = i] /\ UNCHANGED <<cache, loads>>
          ELSE FetchHistory([chart EXCEPT !.interval = i])
    BY <1>6 DEF ChartInterval
  <2> DEFINE c == [chart EXCEPT !.interval = i]
  <2>2. c \in ChartType /\ c.symbol = chart.symbol /\ c.reqSeq = chart.reqSeq
    BY <1>0 DEF ChartType
  <2> HIDE DEF c
  <2>3. CASE chart.symbol = "none"
    <3>1. chart' = c /\ loads' = loads
      BY <2>1, <2>3 DEF c
    <3>2. ChartTitled'
      BY <2>2, <2>3, <3>1 DEF ChartTitled
    <3>3. ChartLoads'
      BY <2>2, <2>3, <3>1 DEF ChartLoads
    <3>4. QED
      BY <3>2, <3>3
  <2>4. CASE chart.symbol # "none"
    <3>1. c.symbol \in Symbols
      BY <1>0, <2>2, <2>4 DEF ChartType, Named
    <3>2. FetchHistory(c)
      BY <2>1, <2>4 DEF c
    <3>3. QED
      BY <2>2, <3>1, <3>2, FetchHistoryChart
  <2>5. QED
    BY <2>3, <2>4
<1>7. CASE OpenChart
  <2>1. PICK s \in Symbols : FetchHistory([chart EXCEPT !.symbol = s, !.active = TRUE, !.failed = FALSE])
    BY <1>7 DEF OpenChart
  <2> DEFINE c == [chart EXCEPT !.symbol = s, !.active = TRUE, !.failed = FALSE]
  <2>2. c \in ChartType /\ c.symbol \in Symbols /\ c.reqSeq = chart.reqSeq
    BY <1>0 DEF ChartType, Named
  <2> HIDE DEF c
  <2>3. QED
    BY <2>1, <2>2, FetchHistoryChart DEF c
<1>8. ASSUME NEW l \in loads, Fetched(l) PROVE ChartLoads' /\ ChartTitled'
  BY <1>8, FetchedChart
<1>9. ASSUME NEW l \in loads, RouteAsyncResult(l) PROVE ChartLoads' /\ ChartTitled'
  BY <1>9, RouteChart
<1>10. ASSUME NEW s, StreamSends(s) \/ StreamEnds(s) \/ UpdateQuote(s) PROVE ChartLoads' /\ ChartTitled'
  <2>1. UNCHANGED <<chart, loads>>
    BY <1>10 DEF StreamSends, StreamEnds, UpdateQuote
  <2>2. QED
    BY <2>1, ChartKept
<1>11. CASE UNCHANGED dashboardVars
  BY <1>11, ChartKept DEF dashboardVars
<1>12. QED
  BY <1>1, <1>2, <1>3, <1>4, <1>5, <1>6, <1>7, <1>8, <1>9, <1>10, <1>11 DEF DashboardNext, Key, AppOnly

-----------------------------------------------------------------------------
(* The comparison.                                                         *)

LEMMA CompareKept ==
  ASSUME CompareLoads, CompareTitled,
         compare'.active => compare.active, compare'.symbols = compare.symbols,
         compare'.interval = compare.interval, compare'.entries = compare.entries,
         compare'.loading = compare.loading, compare'.reqSeq = compare.reqSeq,
         \A l : l.of = "compare" => (l \in loads' <=> l \in loads)
  PROVE  CompareLoads' /\ CompareTitled'
<1>1. CompareLoads'
  BY DEF CompareLoads
<1>2. CompareTitled'
  BY DEF CompareTitled
<1>3. QED
  BY <1>1, <1>2

LEMMA FetchAllCompare ==
  ASSUME DashboardTypes, CompareLoads, NEW c, CompareTyped(c), c.reqSeq = compare.reqSeq, FetchAll(c)
  PROVE  CompareLoads' /\ CompareTitled'
<1> DEFINE new == Load("compare", c.symbols, c.interval, c.reqSeq + 1, "none")
<1>1. compare' = [c EXCEPT !.reqSeq = c.reqSeq + 1, !.loading = TRUE] /\ loads' = loads \cup {new}
  BY DEF FetchAll, Begin
<1>2. /\ new.of = "compare" /\ new.symbols = c.symbols /\ new.interval = c.interval /\ new.seq = c.reqSeq + 1
  BY DEF Load
<1>3. /\ compare'.symbols = c.symbols /\ compare'.interval = c.interval /\ compare'.reqSeq = c.reqSeq + 1
      /\ compare'.loading
  BY <1>1 DEF CompareTyped
<1> HIDE DEF new
<1>4. c.reqSeq \in Nat
  BY DEF CompareTyped
<1>5. ASSUME NEW l \in loads', l.of = "compare"
      PROVE  /\ l.seq <= compare'.reqSeq
             /\ l.seq = compare'.reqSeq /\ compare'.active
                  => l.symbols = compare'.symbols /\ l.interval = compare'.interval
  <2>1. CASE l = new
    BY <1>2, <1>3, <1>4, <2>1
  <2>2. CASE l \in loads
    <3>1. l.seq \in Nat /\ l.seq <= c.reqSeq
      BY <1>5, <2>2 DEF CompareLoads, DashboardTypes, LoadType
    <3>2. QED
      BY <1>3, <1>4, <3>1
  <2>3. QED
    BY <1>1, <2>1, <2>2
<1>6. CompareLoads'
  BY <1>5 DEF CompareLoads
<1>7. CompareTitled'
  BY <1>3 DEF CompareTitled
<1>8. QED
  BY <1>6, <1>7

LEMMA RouteCompare ==
  ASSUME DashboardTypes, CompareLoads, CompareTitled, NEW l \in loads, RouteAsyncResult(l)
  PROVE  CompareLoads' /\ CompareTitled'
<1>1. /\ loads' = loads \ {l}
      /\ l.of # "compare" => compare' = compare
      /\ l.of = "compare" => \E got \in SUBSET ToSet(l.symbols) : compare' = CompareAnswered(l, got)
  BY RouteIs
<1>2. CASE l.of # "compare"
  BY <1>1, <1>2, CompareKept
<1>3. CASE l.of = "compare" /\ l.seq # compare.reqSeq
  <2>1. compare' = compare
    BY <1>1, <1>3 DEF CompareAnswered
  <2>2. CompareLoads'
    BY <1>1, <2>1 DEF CompareLoads
  <2>3. CompareTitled'
    BY <2>1 DEF CompareTitled
  <2>4. QED
    BY <2>2, <2>3
<1>4. CASE l.of = "compare" /\ l.seq = compare.reqSeq
  <2>1. PICK got \in SUBSET ToSet(l.symbols) :
          compare' = [compare EXCEPT !.loading = FALSE, !.entries = Entries(Came(l.symbols, got), l.interval)]
    BY <1>1, <1>4 DEF CompareAnswered
  <2>2. /\ compare'.active = compare.active /\ compare'.symbols = compare.symbols
        /\ compare'.interval = compare.interval /\ compare'.reqSeq = compare.reqSeq
        /\ compare'.entries = Entries(Came(l.symbols, got), l.interval)
    BY <2>1 DEF DashboardTypes, CompareTyped
  <2>3. CompareLoads'
    BY <1>1, <2>2 DEF CompareLoads
  <2>4. compare.active => l.symbols = compare.symbols /\ l.interval = compare.interval
    BY <1>4 DEF CompareLoads
  <2>5. CompareTitled'
    BY <2>2, <2>4 DEF CompareTitled
  <2>6. QED
    BY <2>3, <2>5
<1>5. QED
  BY <1>2, <1>3, <1>4

LEMMA FetchedCompare ==
  ASSUME DashboardTypes, CompareLoads, CompareTitled, NEW l \in loads, Fetched(l)
  PROVE  CompareLoads' /\ CompareTitled'
<1>1. PICK answer \in {"ok", "failed"} : loads' = (loads \ {l}) \cup {[l EXCEPT !.answer = answer]}
  BY DEF Fetched
<1> DEFINE m == [l EXCEPT !.answer = answer]
<1>2. /\ m.of = l.of /\ m.symbols = l.symbols /\ m.interval = l.interval /\ m.seq = l.seq
  BY DEF DashboardTypes, LoadType
<1>3. compare' = compare
  BY DEF Fetched
<1> HIDE DEF m
<1>4. \A k \in loads' : k \in loads \/ k = m
  BY <1>1 DEF m
<1>5. CompareLoads'
  BY <1>2, <1>3, <1>4 DEF CompareLoads
<1>6. CompareTitled'
  BY <1>3 DEF CompareTitled
<1>7. QED
  BY <1>5, <1>6

LEMMA CompareStep ==
  ASSUME DashboardTypes, CompareLoads, CompareTitled, [DashboardNext]_dashboardVars
  PROVE  CompareLoads' /\ CompareTitled'
<1>0. CompareTyped(compare)
  BY DEF DashboardTypes
<1>1. CASE AppOnly
  BY <1>1, AppOnlyKeeps, CompareKept
<1>2. CASE CloseDetail \/ KeyInCard \/ CloseChart \/ IndicatorMenu \/ ClickTab
  <2>1. UNCHANGED <<compare, loads>>
    BY <1>2 DEF CloseDetail, KeyInCard, CloseChart, IndicatorMenu, ClickTab
  <2>2. QED
    BY <2>1, CompareKept
<1>3. CASE CloseCompare
  <2>1. loads' = loads /\ compare' = [compare EXCEPT !.active = FALSE]
    BY <1>3 DEF CloseCompare
  <2>2. /\ compare'.active = FALSE /\ compare'.reqSeq = compare.reqSeq
    BY <1>0, <2>1 DEF CompareTyped
  <2>3. CompareLoads'
    BY <2>1, <2>2 DEF CompareLoads
  <2>4. CompareTitled'
    BY <2>2 DEF CompareTitled
  <2>5. QED
    BY <2>3, <2>4
<1>4. CASE OpenDetail \/ OpenCard \/ OpenOptions
  BY <1>4, OthersLoad, CompareKept
<1>5. CASE ChartInterval \/ OpenChart
  <2>1. compare' = compare
    BY <1>5 DEF ChartInterval, OpenChart
  <2>2. loads' = loads \/ \E c : FetchHistory(c)
    BY <1>5 DEF ChartInterval, OpenChart
  <2>3. \A l : l.of = "compare" => (l \in loads' <=> l \in loads)
    BY <2>2, FetchHistoryLoads
  <2>4. QED
    BY <2>1, <2>3, CompareKept
<1>6. CASE AddToCompare
  <2>1. ~compare.active
    BY <1>6, KeysFree DEF AddToCompare, WatchKey, TabKey, KeyAt
  <2>2. PICK s : loads' = loads /\ compare' = [compare EXCEPT !.symbols = Append(@, s)]
    BY <1>6 DEF AddToCompare
  <2>3. compare'.active = compare.active /\ compare'.reqSeq = compare.reqSeq
    BY <1>0, <2>2 DEF CompareTyped
  <2>4. CompareLoads'
    BY <2>1, <2>2, <2>3 DEF CompareLoads
  <2>5. CompareTitled'
    BY <2>1, <2>3 DEF CompareTitled
  <2>6. QED
    BY <2>4, <2>5
<1>7. CASE CompareInterval
  <2>1. PICK i \in 1..Intervals : FetchAll([compare EXCEPT !.interval = i])
    BY <1>7 DEF CompareInterval
  <2> DEFINE c == [compare EXCEPT !.interval = i]
  <2>2. CompareTyped(c) /\ c.reqSeq = compare.reqSeq
    BY <1>0 DEF CompareTyped
  <2> HIDE DEF c
  <2>3. QED
    BY <2>1, <2>2, FetchAllCompare DEF c
<1>8. CASE CompareDrop
  <2> DEFINE left == [compare EXCEPT !.symbols = Front(@), !.entries = WithoutSymbol(@, Last(compare.symbols))]
  <2>1. /\ compare.symbols # <<>>
        /\ IF left.symbols = <<>> THEN compare' = [left EXCEPT !.active = FALSE] /\ UNCHANGED loads ELSE FetchAll(left)
    BY <1>8 DEF CompareDrop
  <2>2. Front(compare.symbols) \in Seq(Symbols)
    BY <1>0, <2>1 DEF CompareTyped, Front
  <2>3. CASE left.symbols = <<>>
    <3>1. compare'.active = FALSE /\ compare'.reqSeq = compare.reqSeq /\ loads' = loads
      BY <1>0, <2>1, <2>3 DEF CompareTyped
    <3>2. CompareLoads'
      BY <3>1 DEF CompareLoads
    <3>3. CompareTitled'
      BY <3>1 DEF CompareTitled
    <3>4. QED
      BY <3>2, <3>3
  <2>4. CASE left.symbols # <<>>
    <3>1. CompareTyped(left) /\ left.reqSeq = compare.reqSeq
      BY <1>0, <2>2, <2>4 DEF CompareTyped
    <3>2. FetchAll(left)
      BY <2>1, <2>4
    <3> HIDE DEF left
    <3>3. QED
      BY <3>1, <3>2, FetchAllCompare
  <2>5. QED
    BY <2>3, <2>4
<1>9. CASE OpenCompare
  <2> DEFINE c == [compare EXCEPT !.active = TRUE]
  <2>1. CompareTyped(c) /\ c.reqSeq = compare.reqSeq /\ FetchAll(c)
    BY <1>0, <1>9 DEF CompareTyped, OpenCompare
  <2> HIDE DEF c
  <2>2. QED
    BY <2>1, FetchAllCompare
<1>10. ASSUME NEW l \in loads, Fetched(l) PROVE CompareLoads' /\ CompareTitled'
  BY <1>10, FetchedCompare
<1>11. ASSUME NEW l \in loads, RouteAsyncResult(l) PROVE CompareLoads' /\ CompareTitled'
  BY <1>11, RouteCompare
<1>12. ASSUME NEW s, StreamSends(s) \/ StreamEnds(s) \/ UpdateQuote(s) PROVE CompareLoads' /\ CompareTitled'
  <2>1. UNCHANGED <<compare, loads>>
    BY <1>12 DEF StreamSends, StreamEnds, UpdateQuote
  <2>2. QED
    BY <2>1, CompareKept
<1>13. CASE UNCHANGED dashboardVars
  BY <1>13, CompareKept DEF dashboardVars
<1>14. QED
  BY <1>1, <1>2, <1>3, <1>4, <1>5, <1>6, <1>7, <1>8, <1>9, <1>10, <1>11, <1>12, <1>13 DEF DashboardNext, Key, AppOnly

-----------------------------------------------------------------------------
(* The order book.                                                         *)

LEMMA BookStep ==
  ASSUME DashboardTypes, BookTitled, [DashboardNext]_dashboardVars
  PROVE  BookTitled'
<1>0. detail \in DetailType /\ \A s \in StopLive : ~s.running
  BY StopLiveTypes DEF DashboardTypes
<1>1. CASE AppOnly
  BY <1>1, AppOnlyKeeps DEF BookTitled
<1>2. CASE KeyInCard \/ CloseChart \/ ChartInterval \/ CloseCompare \/ CompareInterval \/ CompareDrop
           \/ OpenChart \/ AddToCompare \/ OpenCompare \/ OpenCard \/ OpenOptions \/ IndicatorMenu
  <2>1. UNCHANGED <<detail, streams>>
    BY <1>2 DEF IndicatorMenu, KeyInCard, CloseChart, ChartInterval, CloseCompare, CompareInterval, CompareDrop, OpenChart,
                AddToCompare, OpenCompare, OpenCard, OpenOptions
  <2>2. QED
    BY <2>1 DEF BookTitled
<1>3. CASE CloseDetail \/ ClickTab
  <2>1. detail' = [detail EXCEPT !.active = FALSE] /\ streams' = StopLive
    BY <1>3 DEF CloseDetail, ClickTab
  <2>2. detail'.book = detail.book /\ detail'.symbol = detail.symbol
    BY <1>0, <2>1 DEF DetailType
  <2>3. QED
    BY <1>0, <2>1, <2>2 DEF BookTitled
<1>4. CASE OpenDetail
  <2>1. PICK s \in Symbols :
          /\ detail' = [detail EXCEPT !.active = TRUE, !.symbol = s, !.book = "none"]
          /\ streams' = StopLive \cup {[symbol |-> t, running |-> TRUE] : t \in {s} \cap Crypto}
    BY <1>4 DEF OpenDetail
  <2>2. detail'.book = "none" /\ detail'.symbol = s /\ detail'.active
    BY <1>0, <2>1 DEF DetailType
  <2>3. \A x \in streams' : x.running => x.symbol = s
    BY <1>0, <2>1
  <2>4. QED
    BY <2>2, <2>3 DEF BookTitled
<1>5. ASSUME NEW s, detail' = BookShown(s), streams' \subseteq streams PROVE BookTitled'
  <2>1. detail'.symbol = detail.symbol /\ detail'.active = detail.active /\ detail'.book \in {detail.book, detail.symbol}
    BY <1>0, <1>5 DEF BookShown, DetailType
  <2>2. QED
    BY <1>5, <2>1 DEF BookTitled
<1>6. ASSUME NEW l \in loads, Fetched(l) PROVE BookTitled'
  BY <1>6 DEF Fetched, BookTitled
<1>7. ASSUME NEW l \in loads, RouteAsyncResult(l) PROVE BookTitled'
  <2>1. streams' = streams /\ (detail' = detail \/ detail' = BookShown(l.symbols[1]))
    BY <1>7, RouteIs DEF BookAnswered
  <2>2. QED
    BY <1>5, <2>1 DEF BookTitled
<1>8. ASSUME NEW s \in streams, StreamSends(s) \/ StreamEnds(s) PROVE BookTitled'
  <2>1. CASE StreamSends(s)
    BY <1>5, <2>1 DEF StreamSends, AsyncTargets
  <2>2. CASE StreamEnds(s)
    BY <2>2 DEF StreamEnds, BookTitled
  <2>3. QED
    BY <1>8, <2>1, <2>2
<1>9. ASSUME NEW s, UpdateQuote(s) PROVE BookTitled'
  <2>1. streams' = streams /\ detail' = [detail EXCEPT !.quote = s]
    BY <1>9 DEF UpdateQuote
  <2>2. detail'.symbol = detail.symbol /\ detail'.active = detail.active /\ detail'.book = detail.book
    BY <1>0, <2>1 DEF DetailType
  <2>3. QED
    BY <2>1, <2>2 DEF BookTitled
<1>10. CASE UNCHANGED dashboardVars
  BY <1>10 DEF dashboardVars, BookTitled
<1>11. QED
  BY <1>1, <1>2, <1>3, <1>4, <1>6, <1>7, <1>8, <1>9, <1>10 DEF DashboardNext, Key, AppOnly

-----------------------------------------------------------------------------
(* The keys.  Bare: nothing is up, and the key goes to the tab.            *)

Bare ==
  /\ ~app.palette /\ ~app.help /\ ~app.dialog /\ ~card.active /\ ~detail.active /\ ~chart.active /\ ~compare.active
  /\ ~(app.tab = "Watch" /\ app.search)

LEMMA TabIsBare ==
  ASSUME TabKey PROVE Bare
BY KeysFree DEF TabKey, KeyAt, Bare

(* What loads and answers leave as it was.                                 *)
LEMMA KeysKept ==
  ASSUME KeysTaken, app' = app \/ app' = Unarmed, app \in AppType,
         card'.active => card.active, detail'.active => detail.active,
         chart'.active => chart.active, compare'.active => compare.active
  PROVE  KeysTaken'
<1>1. /\ app'.dialog = app.dialog /\ app'.help = app.help /\ app'.palette = app.palette /\ app'.search = app.search
      /\ app'.tab = app.tab /\ (app'.alertsConfirming => app.alertsConfirming)
  BY DEF Unarmed, AppType
<1>2. QED
  BY <1>1 DEF KeysTaken, OneUp, Covered

(* What opens over a bare tab is alone.                                    *)
LEMMA OneOpens ==
  ASSUME Bare, app \in AppType, app.tab = "Watch", app' = Unarmed,
         ~(card'.active /\ detail'.active), ~(card'.active /\ chart'.active), ~(card'.active /\ compare'.active),
         ~(detail'.active /\ chart'.active), ~(detail'.active /\ compare'.active), ~(chart'.active /\ compare'.active)
  PROVE  KeysTaken'
<1>1. /\ app'.dialog = app.dialog /\ app'.help = app.help /\ app'.palette = app.palette /\ app'.search = app.search
      /\ app'.tab = app.tab /\ ~app'.alertsConfirming
  BY DEF Unarmed, AppType
<1>2. QED
  BY <1>1 DEF Bare, KeysTaken, OneUp, Covered

LEMMA AppOnlyKeys ==
  ASSUME app \in AppType, KeysTaken, AppOnly
  PROVE  KeysTaken'
<1>0. UNCHANGED <<detail, chart, compare, card>>
  BY AppOnlyKeeps
<1>1. CASE KeyInSearch \/ KeyInHelp \/ KeyInDialog \/ KeyAtPrompt \/ Quit
  <2>1. /\ app'.dialog => app.dialog
        /\ app'.help => app.help
        /\ app'.tab = app.tab /\ app'.palette = app.palette
        /\ app'.search => app.search
        /\ app'.alertsConfirming => app.alertsConfirming
    BY <1>1 DEF KeyInSearch, KeyInHelp, KeyInDialog, KeyAtPrompt, Quit, Unarmed, AppType
  <2>2. QED
    BY <1>0, <2>1 DEF KeysTaken, OneUp, Covered
<1>2. CASE KeyInPalette
  <2>1. app.palette
    BY <1>2, KeysUnrolled DEF KeyInPalette, KeyAt
  <2>2. /\ app'.dialog = app.dialog /\ app'.help = app.help
        /\ app'.search = app.search /\ app'.alertsConfirming = app.alertsConfirming
    BY <1>2 DEF KeyInPalette, AppType
  <2>3. QED
    BY <1>0, <2>1, <2>2 DEF KeysTaken, OneUp, Covered
<1>3. CASE OpenPalette
  <2>1. ~app.help
    BY <1>3, KeysFree DEF OpenPalette
  <2>2. /\ app'.dialog = app.dialog /\ app'.help = app.help
        /\ app'.search = app.search /\ app'.alertsConfirming = app.alertsConfirming
    BY <1>3 DEF OpenPalette, AppType
  <2>3. QED
    BY <1>0, <2>1, <2>2 DEF KeysTaken, OneUp, Covered
<1>4. CASE OpenHelp \/ SwitchTab \/ OpenDialog \/ StartSearch \/ KeyAtAlerts
  <2>1. Bare
    BY <1>4, TabIsBare DEF OpenHelp, SwitchTab, OpenDialog, StartSearch, KeyAtAlerts
  <2>2. CASE OpenHelp
    <3>1. /\ app'.dialog = app.dialog /\ app'.palette = app.palette /\ app'.search = app.search
          /\ app'.tab = app.tab /\ ~app'.alertsConfirming
      BY <2>2 DEF OpenHelp, Unarmed, AppType
    <3>2. QED
      BY <1>0, <2>1, <3>1 DEF Bare, KeysTaken, OneUp, Covered
  <2>3. CASE OpenDialog
    <3>1. /\ app'.help = app.help /\ app'.search = app.search
          /\ app'.tab = app.tab /\ ~app'.alertsConfirming /\ app.tab = "Watch"
      BY <2>3 DEF OpenDialog, Unarmed, AppType
    <3>2. QED
      BY <1>0, <2>1, <3>1 DEF Bare, KeysTaken, OneUp, Covered
  <2>4. CASE SwitchTab \/ StartSearch \/ KeyAtAlerts
    <3>1. app'.help = app.help /\ app'.dialog = app.dialog
      BY <2>4 DEF SwitchTab, StartSearch, KeyAtAlerts, Unarmed, AppType
    <3>2. QED
      BY <1>0, <2>1, <3>1 DEF Bare, KeysTaken, OneUp, Covered
  <2>5. QED
    BY <1>4, <2>2, <2>3, <2>4
<1>5. QED
  BY <1>1, <1>2, <1>3, <1>4 DEF AppOnly

LEMMA KeysStep ==
  ASSUME DashboardTypes, KeysTaken, [DashboardNext]_dashboardVars
  PROVE  KeysTaken'
<1>0. app \in AppType /\ detail \in DetailType /\ chart \in ChartType /\ CompareTyped(compare) /\ card \in CardType
  BY DEF DashboardTypes
<1>1. CASE AppOnly
  BY <1>0, <1>1, AppOnlyKeys
<1>2. CASE KeyInCard \/ CloseDetail \/ CloseChart \/ IndicatorMenu \/ CloseCompare
  <2>1. /\ app' = app \/ app' = Unarmed
        /\ card' = card \/ card' = [card EXCEPT !.active = FALSE]
        /\ detail' = detail \/ detail' = [detail EXCEPT !.active = FALSE]
        /\ \/ chart' = chart \/ chart' = [chart EXCEPT !.active = FALSE]
           \/ chart' = [chart EXCEPT !.menu = ~@]
        /\ compare' = compare \/ compare' = [compare EXCEPT !.active = FALSE]
    BY <1>2 DEF KeyInCard, CloseDetail, CloseChart, IndicatorMenu, ChartKey, CloseCompare
  <2>2. /\ card'.active => card.active
        /\ detail'.active => detail.active
        /\ chart'.active => chart.active
        /\ compare'.active => compare.active
    BY <1>0, <2>1 DEF CardType, DetailType, ChartType, CompareTyped
  <2>3. QED
    BY <1>0, <2>1, <2>2, KeysKept
<1>3. CASE ChartInterval
  <2>1. PICK i : chart' = [chart EXCEPT !.interval = i] \/ FetchHistory([chart EXCEPT !.interval = i])
    BY <1>3 DEF ChartInterval
  <2>2. chart'.active = chart.active
    BY <1>0, <2>1 DEF FetchHistory, ChartType
  <2>3. app' = Unarmed /\ UNCHANGED <<detail, compare, card>>
    BY <1>3 DEF ChartInterval, ChartKey
  <2>4. QED
    BY <1>0, <2>2, <2>3, KeysKept
<1>4. CASE CompareInterval
  <2>1. PICK i : FetchAll([compare EXCEPT !.interval = i])
    BY <1>4 DEF CompareInterval
  <2>2. compare'.active = compare.active
    BY <1>0, <2>1 DEF FetchAll, CompareTyped
  <2>3. app' = Unarmed /\ UNCHANGED <<detail, chart, card>>
    BY <1>4 DEF CompareInterval
  <2>4. QED
    BY <1>0, <2>2, <2>3, KeysKept
<1>5. CASE CompareDrop
  <2> DEFINE left == [compare EXCEPT !.symbols = Front(@), !.entries = WithoutSymbol(@, Last(compare.symbols))]
  <2>1. compare' = [left EXCEPT !.active = FALSE] \/ FetchAll(left)
    BY <1>5 DEF CompareDrop
  <2>2. compare'.active => compare.active
    BY <1>0, <2>1 DEF FetchAll, CompareTyped
  <2>3. app' = Unarmed /\ UNCHANGED <<detail, chart, card>>
    BY <1>5 DEF CompareDrop
  <2>4. QED
    BY <1>0, <2>2, <2>3, KeysKept
<1>6. CASE OpenDetail \/ OpenChart \/ OpenCompare \/ OpenCard \/ AddToCompare
  <2>1. Bare /\ app.tab = "Watch" /\ app' = Unarmed
    BY <1>6, TabIsBare DEF OpenDetail, OpenChart, OpenCompare, OpenCard, AddToCompare, WatchKey
  <2>2. CASE OpenDetail
    <3>1. UNCHANGED <<chart, compare, card>>
      BY <2>2 DEF OpenDetail
    <3>2. QED
      BY <1>0, <2>1, <3>1, OneOpens DEF Bare
  <2>3. CASE OpenChart
    <3>1. UNCHANGED <<detail, compare, card>>
      BY <2>3 DEF OpenChart
    <3>2. QED
      BY <1>0, <2>1, <3>1, OneOpens DEF Bare
  <2>4. CASE OpenCompare \/ AddToCompare
    <3>1. UNCHANGED <<detail, chart, card>>
      BY <2>4 DEF OpenCompare, AddToCompare
    <3>2. QED
      BY <1>0, <2>1, <3>1, OneOpens DEF Bare
  <2>5. CASE OpenCard
    <3>1. UNCHANGED <<detail, chart, compare>>
      BY <2>5 DEF OpenCard
    <3>2. QED
      BY <1>0, <2>1, <3>1, OneOpens DEF Bare
  <2>6. QED
    BY <1>6, <2>2, <2>3, <2>4, <2>5
<1>7. CASE OpenOptions
  <2>1. Bare /\ app' = [Unarmed EXCEPT !.tab = "Options"] /\ UNCHANGED <<detail, chart, compare, card>>
    BY <1>7, TabIsBare DEF OpenOptions
  <2>2. app'.help = app.help /\ app'.dialog = app.dialog
    BY <1>0, <2>1 DEF Unarmed, AppType
  <2>3. QED
    BY <2>1, <2>2 DEF Bare, KeysTaken, OneUp, Covered
<1>8. CASE ClickTab
  <2>1. PICK t \in Tabs : app' = [app EXCEPT !.tab = t]
    BY <1>8 DEF ClickTab
  <2>2. /\ ~chart.active /\ ~compare.active /\ ~app.palette /\ ~app.dialog /\ ~card.active /\ ~app.help
        /\ UNCHANGED <<chart, compare, card>> /\ detail' = [detail EXCEPT !.active = FALSE]
    BY <1>8 DEF ClickTab, ModalActive
  <2>3. app'.help = app.help /\ app'.dialog = app.dialog /\ detail'.active = FALSE
    BY <1>0, <2>1, <2>2 DEF AppType, DetailType
  <2>4. QED
    BY <2>2, <2>3 DEF KeysTaken, OneUp, Covered
<1>9. ASSUME NEW l \in loads, Fetched(l) PROVE KeysTaken'
  BY <1>0, <1>9, KeysKept DEF Fetched
<1>10. ASSUME NEW l \in loads, RouteAsyncResult(l) PROVE KeysTaken'
  <2>1. chart'.active = chart.active
    BY <1>0, <1>10, RouteIs DEF ChartAnswered, ChartType
  <2>2. card'.active = card.active
    BY <1>0, <1>10, RouteIs DEF CardAnswered, CardType
  <2>3. detail'.active = detail.active
    BY <1>0, <1>10, RouteIs DEF BookAnswered, BookShown, DetailType
  <2>4. compare'.active = compare.active
    BY <1>0, <1>10, RouteIs DEF CompareAnswered, CompareTyped
  <2>5. app' = app
    BY <1>10, RouteIs
  <2>6. QED
    BY <1>0, <2>1, <2>2, <2>3, <2>4, <2>5, KeysKept
<1>11. ASSUME NEW s, StreamSends(s) \/ StreamEnds(s) \/ UpdateQuote(s) PROVE KeysTaken'
  <2>1. UNCHANGED <<app, chart, compare, card>>
    BY <1>11 DEF StreamSends, StreamEnds, UpdateQuote
  <2>2. detail'.active = detail.active
    BY <1>0, <1>11 DEF StreamSends, StreamEnds, UpdateQuote, BookShown, DetailType
  <2>3. QED
    BY <1>0, <2>1, <2>2, KeysKept
<1>12. CASE UNCHANGED dashboardVars
  BY <1>0, <1>12, KeysKept DEF dashboardVars
<1>13. QED
  BY <1>1, <1>2, <1>3, <1>4, <1>5, <1>6, <1>7, <1>8, <1>9, <1>10, <1>11, <1>12 DEF DashboardNext, Key, AppOnly

-----------------------------------------------------------------------------
(* What says it is loading.                                                *)

LEMMA AskedKept ==
  ASSUME LoadingAsked, loads \subseteq loads',
         chart'.loading => \/ chart.loading /\ chart'.reqSeq = chart.reqSeq /\ chart'.symbol = chart.symbol
                           \/ \E l \in loads' : l.of = "chart" /\ Accepts(chart', l),
         compare'.loading => \/ compare.loading /\ compare'.reqSeq = compare.reqSeq
                             \/ \E l \in loads' : l.of = "compare" /\ l.seq = compare'.reqSeq,
         card'.loading => card.loading \/ \E l \in loads' : l.of = "card",
         options'.loading => options.loading \/ \E l \in loads' : l.of = "options"
  PROVE  LoadingAsked'
<1>1. chart'.loading => \E l \in loads' : l.of = "chart" /\ Accepts(chart', l)
  BY DEF LoadingAsked, Accepts
<1>2. compare'.loading => \E l \in loads' : l.of = "compare" /\ l.seq = compare'.reqSeq
  BY DEF LoadingAsked
<1>3. card'.loading => \E l \in loads' : l.of = "card"
  BY DEF LoadingAsked
<1>4. options'.loading => \E l \in loads' : l.of = "options"
  BY DEF LoadingAsked
<1>5. QED
  BY <1>1, <1>2, <1>3, <1>4 DEF LoadingAsked

LEMMA FetchHistoryAsked ==
  ASSUME NEW c \in ChartType, FetchHistory(c)
  PROVE  loads \subseteq loads' /\ \E l \in loads' : l.of = "chart" /\ Accepts(chart', l)
<1>1. PICK answer, b :
        /\ Begin(Load("chart", <<c.symbol>>, c.interval, c.reqSeq + 1, answer))
        /\ chart' = [c EXCEPT !.reqSeq = c.reqSeq + 1, !.loading = b]
  BY DEF FetchHistory
<1> DEFINE new == Load("chart", <<c.symbol>>, c.interval, c.reqSeq + 1, answer)
<1>2. new.of = "chart" /\ new.symbols = <<c.symbol>> /\ new.seq = c.reqSeq + 1
  BY DEF Load
<1>3. chart'.reqSeq = c.reqSeq + 1 /\ chart'.symbol = c.symbol
  BY <1>1 DEF ChartType
<1>4. loads' = loads \cup {new}
  BY <1>1 DEF Begin
<1> HIDE DEF new
<1>5. Accepts(chart', new)
  BY <1>2, <1>3 DEF Accepts
<1>6. QED
  BY <1>2, <1>4, <1>5

LEMMA FetchAllAsked ==
  ASSUME NEW c, CompareTyped(c), FetchAll(c)
  PROVE  loads \subseteq loads' /\ \E l \in loads' : l.of = "compare" /\ l.seq = compare'.reqSeq
<1> DEFINE new == Load("compare", c.symbols, c.interval, c.reqSeq + 1, "none")
<1>1. compare' = [c EXCEPT !.reqSeq = c.reqSeq + 1, !.loading = TRUE] /\ loads' = loads \cup {new}
  BY DEF FetchAll, Begin
<1>2. new.of = "compare" /\ new.seq = c.reqSeq + 1
  BY DEF Load
<1>3. compare'.reqSeq = c.reqSeq + 1
  BY <1>1 DEF CompareTyped
<1> HIDE DEF new
<1>4. QED
  BY <1>1, <1>2, <1>3

LEMMA FetchedAsked ==
  ASSUME DashboardTypes, LoadingAsked, NEW l \in loads, Fetched(l)
  PROVE  LoadingAsked'
<1>1. PICK answer \in {"ok", "failed"} : loads' = (loads \ {l}) \cup {[l EXCEPT !.answer = answer]}
  BY DEF Fetched
<1> DEFINE m == [l EXCEPT !.answer = answer]
<1>2. m.of = l.of /\ m.symbols = l.symbols /\ m.seq = l.seq
  BY DEF DashboardTypes, LoadType
<1>3. UNCHANGED <<chart, compare, card, options>>
  BY DEF Fetched
<1> HIDE DEF m
<1>4. \A k \in loads : \E n \in loads' : n.of = k.of /\ n.symbols = k.symbols /\ n.seq = k.seq
  BY <1>1, <1>2 DEF m
<1>5. chart.loading => \E n \in loads' : n.of = "chart" /\ Accepts(chart, n)
  BY <1>4 DEF LoadingAsked, Accepts
<1>6. compare.loading => \E n \in loads' : n.of = "compare" /\ n.seq = compare.reqSeq
  BY <1>4 DEF LoadingAsked
<1>7. /\ card.loading => \E n \in loads' : n.of = "card"
      /\ options.loading => \E n \in loads' : n.of = "options"
  BY <1>4 DEF LoadingAsked
<1>8. QED
  BY <1>3, <1>5, <1>6, <1>7 DEF LoadingAsked

(* Only the surface of its kind loses the load, and that surface then has  *)
(* its answer, unless it was not the one it waits for.                     *)
LEMMA RouteAsked ==
  ASSUME DashboardTypes, LoadingAsked, NEW l \in loads, RouteAsyncResult(l)
  PROVE  LoadingAsked'
<1>0. chart \in ChartType /\ CompareTyped(compare) /\ card \in CardType /\ options \in OptionsType
  BY DEF DashboardTypes
<1>1. loads' = loads \ {l}
  BY RouteIs
<1>2. chart'.loading => \E k \in loads' : k.of = "chart" /\ Accepts(chart', k)
  <2>1. CASE l.of = "chart" /\ Accepts(chart, l)
    <3>1. chart'.loading = FALSE
      BY <1>0, <2>1, RouteIs DEF ChartAnswered, ChartType
    <3>2. QED
      BY <3>1
  <2>2. CASE ~(l.of = "chart" /\ Accepts(chart, l))
    <3>1. chart' = chart
      BY <2>2, RouteIs DEF ChartAnswered
    <3>2. QED
      BY <1>1, <2>2, <3>1 DEF LoadingAsked
  <2>3. QED
    BY <2>1, <2>2
<1>3. compare'.loading => \E k \in loads' : k.of = "compare" /\ k.seq = compare'.reqSeq
  <2>1. CASE l.of = "compare" /\ l.seq = compare.reqSeq
    <3>1. PICK got : compare' = CompareAnswered(l, got)
      BY <2>1, RouteIs
    <3>2. compare'.loading = FALSE
      BY <1>0, <2>1, <3>1 DEF CompareAnswered, CompareTyped
    <3>3. QED
      BY <3>2
  <2>2. CASE ~(l.of = "compare" /\ l.seq = compare.reqSeq)
    <3>1. compare' = compare
      BY <2>2, RouteIs DEF CompareAnswered
    <3>2. QED
      BY <1>1, <2>2, <3>1 DEF LoadingAsked
  <2>3. QED
    BY <2>1, <2>2
<1>4. card'.loading => \E k \in loads' : k.of = "card"
  <2>1. CASE l.of = "card"
    <3>1. card'.loading = FALSE
      BY <1>0, <2>1, RouteIs DEF CardAnswered, CardType
    <3>2. QED
      BY <3>1
  <2>2. CASE l.of # "card"
    BY <1>1, <2>2, RouteIs DEF LoadingAsked
  <2>3. QED
    BY <2>1, <2>2
<1>5. options'.loading => \E k \in loads' : k.of = "options"
  <2>1. CASE l.of = "options"
    <3>1. options'.loading = FALSE
      BY <1>0, <2>1, RouteIs DEF OptionsAnswered, OptionsType
    <3>2. QED
      BY <3>1
  <2>2. CASE l.of # "options"
    BY <1>1, <2>2, RouteIs DEF LoadingAsked
  <2>3. QED
    BY <2>1, <2>2
<1>6. QED
  BY <1>2, <1>3, <1>4, <1>5 DEF LoadingAsked

LEMMA AskedStep ==
  ASSUME DashboardTypes, LoadingAsked, [DashboardNext]_dashboardVars
  PROVE  LoadingAsked'
<1>0. chart \in ChartType /\ CompareTyped(compare) /\ card \in CardType /\ options \in OptionsType
  BY DEF DashboardTypes
<1>1. CASE AppOnly
  BY <1>1, AppOnlyKeeps, AskedKept DEF AppOnly, KeyInPalette, KeyInSearch, KeyInHelp, OpenPalette, KeyInDialog,
     KeyAtPrompt, Quit, OpenHelp, SwitchTab, OpenDialog, StartSearch, KeyAtAlerts
<1>2. CASE CloseDetail \/ ClickTab
  <2>1. UNCHANGED <<chart, compare, card, options, loads>>
    BY <1>2 DEF CloseDetail, ClickTab
  <2>2. QED
    BY <2>1, AskedKept
<1>3. CASE KeyInCard
  <2>1. card'.loading = card.loading /\ UNCHANGED <<chart, compare, options, loads>>
    BY <1>0, <1>3 DEF KeyInCard, CardType
  <2>2. QED
    BY <2>1, AskedKept
<1>4. CASE CloseChart \/ IndicatorMenu
  <2>1. /\ chart'.loading = chart.loading /\ chart'.reqSeq = chart.reqSeq /\ chart'.symbol = chart.symbol
        /\ UNCHANGED <<compare, card, options, loads>>
    BY <1>0, <1>4 DEF CloseChart, IndicatorMenu, ChartType
  <2>2. QED
    BY <2>1, AskedKept
<1>5. CASE CloseCompare \/ AddToCompare
  <2>1. compare'.loading = compare.loading /\ compare'.reqSeq = compare.reqSeq
    BY <1>0, <1>5 DEF CloseCompare, AddToCompare, CompareTyped
  <2>2. UNCHANGED <<chart, card, options, loads>>
    BY <1>5 DEF CloseCompare, AddToCompare
  <2>3. QED
    BY <2>1, <2>2, AskedKept
<1>6. CASE ChartInterval
  <2>1. UNCHANGED <<compare, card, options>>
    BY <1>6 DEF ChartInterval
  <2>2. PICK i \in 1..Intervals :
          IF chart.symbol = "none" THEN chart' = [chart EXCEPT !.interval = i] /\ UNCHANGED <<cache, loads>>
          ELSE FetchHistory([chart EXCEPT !.interval = i])
    BY <1>6 DEF ChartInterval
  <2> DEFINE c == [chart EXCEPT !.interval = i]
  <2>3. c \in ChartType /\ c.symbol = chart.symbol /\ c.reqSeq = chart.reqSeq /\ c.loading = chart.loading
    BY <1>0 DEF ChartType
  <2>4. (chart' = c /\ loads' = loads) \/ FetchHistory(c)
    BY <2>2
  <2> HIDE DEF c
  <2>5. CASE chart' = c /\ loads' = loads
    BY <2>1, <2>3, <2>5, AskedKept
  <2>6. CASE FetchHistory(c)
    BY <2>1, <2>3, <2>6, FetchHistoryAsked, AskedKept
  <2>7. QED
    BY <2>4, <2>5, <2>6
<1>7. CASE OpenChart
  <2>1. PICK s \in Symbols : FetchHistory([chart EXCEPT !.symbol = s, !.active = TRUE, !.failed = FALSE])
    BY <1>7 DEF OpenChart
  <2> DEFINE c == [chart EXCEPT !.symbol = s, !.active = TRUE, !.failed = FALSE]
  <2>2. c \in ChartType /\ FetchHistory(c)
    BY <1>0, <2>1 DEF ChartType, Named
  <2> HIDE DEF c
  <2>3. UNCHANGED <<compare, card, options>>
    BY <1>7 DEF OpenChart
  <2>4. QED
    BY <2>2, <2>3, FetchHistoryAsked, AskedKept
<1>8. CASE CompareInterval
  <2>1. PICK i \in 1..Intervals : FetchAll([compare EXCEPT !.interval = i])
    BY <1>8 DEF CompareInterval
  <2> DEFINE c == [compare EXCEPT !.interval = i]
  <2>2. CompareTyped(c) /\ FetchAll(c)
    BY <1>0, <2>1 DEF CompareTyped
  <2> HIDE DEF c
  <2>3. UNCHANGED <<chart, card, options>>
    BY <1>8 DEF CompareInterval
  <2>4. QED
    BY <2>2, <2>3, FetchAllAsked, AskedKept
<1>9. CASE CompareDrop
  <2> DEFINE left == [compare EXCEPT !.symbols = Front(@), !.entries = WithoutSymbol(@, Last(compare.symbols))]
  <2>1. /\ compare.symbols # <<>> /\ UNCHANGED <<chart, card, options>>
        /\ IF left.symbols = <<>> THEN compare' = [left EXCEPT !.active = FALSE] /\ UNCHANGED loads ELSE FetchAll(left)
    BY <1>9 DEF CompareDrop
  <2>2. Front(compare.symbols) \in Seq(Symbols)
    BY <1>0, <2>1 DEF CompareTyped, Front
  <2>3. CASE left.symbols = <<>>
    <3>1. compare'.loading = compare.loading /\ compare'.reqSeq = compare.reqSeq /\ loads' = loads
      BY <1>0, <2>1, <2>3 DEF CompareTyped
    <3>2. QED
      BY <2>1, <3>1, AskedKept
  <2>4. CASE left.symbols # <<>>
    <3>1. CompareTyped(left)
      BY <1>0, <2>2, <2>4 DEF CompareTyped
    <3>2. FetchAll(left)
      BY <2>1, <2>4
    <3> HIDE DEF left
    <3>3. QED
      BY <2>1, <3>1, <3>2, FetchAllAsked, AskedKept
  <2>5. QED
    BY <2>3, <2>4
<1>10. CASE OpenCompare
  <2> DEFINE c == [compare EXCEPT !.active = TRUE]
  <2>1. CompareTyped(c) /\ FetchAll(c)
    BY <1>0, <1>10 DEF CompareTyped, OpenCompare
  <2> HIDE DEF c
  <2>2. UNCHANGED <<chart, card, options>>
    BY <1>10 DEF OpenCompare
  <2>3. QED
    BY <2>1, <2>2, FetchAllAsked, AskedKept
<1>11. CASE OpenDetail
  <2>1. UNCHANGED <<chart, compare, card, options>> /\ loads \subseteq loads'
    BY <1>11 DEF OpenDetail, Begin
  <2>2. QED
    BY <2>1, AskedKept
<1>12. CASE OpenCard
  <2>1. PICK s : Begin(Load("card", <<s>>, 0, inputs, "none"))
    BY <1>12 DEF OpenCard
  <2>2. loads \subseteq loads' /\ \E l \in loads' : l.of = "card"
    <3> DEFINE new == Load("card", <<s>>, 0, inputs, "none")
    <3>1. new.of = "card"
      BY DEF Load
    <3>2. loads' = loads \cup {new}
      BY <2>1 DEF Begin
    <3> HIDE DEF new
    <3>3. QED
      BY <3>1, <3>2
  <2>3. UNCHANGED <<chart, compare, options>>
    BY <1>12 DEF OpenCard
  <2>4. QED
    BY <2>2, <2>3, AskedKept
<1>13. CASE OpenOptions
  <2>1. PICK s : Begin(Load("options", <<s>>, 0, inputs, "none"))
    BY <1>13 DEF OpenOptions
  <2>2. loads \subseteq loads' /\ \E l \in loads' : l.of = "options"
    <3> DEFINE new == Load("options", <<s>>, 0, inputs, "none")
    <3>1. new.of = "options"
      BY DEF Load
    <3>2. loads' = loads \cup {new}
      BY <2>1 DEF Begin
    <3> HIDE DEF new
    <3>3. QED
      BY <3>1, <3>2
  <2>3. UNCHANGED <<chart, compare, card>>
    BY <1>13 DEF OpenOptions
  <2>4. QED
    BY <2>2, <2>3, AskedKept
<1>14. ASSUME NEW l \in loads, Fetched(l) PROVE LoadingAsked'
  BY <1>14, FetchedAsked
<1>15. ASSUME NEW l \in loads, RouteAsyncResult(l) PROVE LoadingAsked'
  BY <1>15, RouteAsked
<1>16. ASSUME NEW s, StreamSends(s) \/ StreamEnds(s) \/ UpdateQuote(s) PROVE LoadingAsked'
  <2>1. UNCHANGED <<chart, compare, card, options, loads>>
    BY <1>16 DEF StreamSends, StreamEnds, UpdateQuote
  <2>2. QED
    BY <2>1, AskedKept
<1>17. CASE UNCHANGED dashboardVars
  BY <1>17, AskedKept DEF dashboardVars
<1>18. QED
  BY <1>1, <1>2, <1>3, <1>4, <1>5, <1>6, <1>7, <1>8, <1>9, <1>10, <1>11, <1>12, <1>13, <1>14, <1>15, <1>16,
     <1>17 DEF DashboardNext, Key, AppOnly

-----------------------------------------------------------------------------

LEMMA DashboardIInvInit == DashboardInit => DashboardIInv
<1> SUFFICES ASSUME DashboardInit PROVE DashboardIInv
  OBVIOUS
<1> USE DEF DashboardInit
<1>1. Intervals \in 1..Intervals /\ NoData \in [symbol : Named, interval : 0..Intervals]
  BY DashboardAssumption DEF NoData, Named
<1>2. app \in AppType /\ detail \in DetailType /\ streams \subseteq StreamType /\ card \in CardType
      /\ options \in OptionsType /\ loads \subseteq LoadType /\ inputs \in Nat
  BY DEF AppType, Tabs, DetailType, Named, CardType, OptionsType
<1>3. chart \in ChartType
  BY <1>1 DEF ChartType, Named
<1>4. CompareTyped(compare)
  BY <1>1 DEF CompareTyped
<1>5. ChartLoads /\ CompareLoads
  BY DEF ChartLoads, CompareLoads
<1>6. ChartTitled /\ CompareTitled /\ BookTitled
  BY DEF ChartTitled, CompareTitled, BookTitled
<1>7. KeysTaken /\ LoadingAsked
  BY DEF KeysTaken, OneUp, Covered, LoadingAsked
<1>8. QED
  BY <1>2, <1>3, <1>4, <1>5, <1>6, <1>7 DEF DashboardIInv, DashboardTypes

(* Whatever the keys, clicks, answers and streams do, in whatever order,   *)
(* and for any watchlist and any number of intervals: what is drawn        *)
(* beneath a title was asked for under that title, what is on top has the  *)
(* keys, and what says it is loading has a load that will end it           *)
(* (accepts, fetchAll, forThisSymbol, handleKey, View, routeAsyncResult).  *)
THEOREM DashboardAlwaysSound == DashboardSpec => []DashboardInv
<1>1. DashboardInit => DashboardIInv
  BY DashboardIInvInit
<1>2. DashboardIInv /\ [DashboardNext]_dashboardVars => DashboardIInv'
  BY DashboardTypesStep, ChartStep, CompareStep, BookStep, KeysStep, AskedStep DEF DashboardIInv
<1>3. DashboardIInv => DashboardInv
  BY KeysTakenReach DEF DashboardIInv, DashboardInv
<1>4. QED
  BY <1>1, <1>2, <1>3, PTL DEF DashboardSpec
=============================================================================
