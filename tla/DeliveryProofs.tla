--------------------------- MODULE DeliveryProofs ---------------------------
(***************************************************************************)
(* Proofs about the delivery of alerts for any destinations, producers,    *)
(* queue depth and timeouts, and for any other process on the history.     *)
(***************************************************************************)
EXTENDS Delivery, SequenceLemmas, FiniteSetTheorems

(***************************************************************************)
(* Adding up a function of the destinations.                               *)
(***************************************************************************)
LEMMA UnitsElements ==
  ASSUME NEW D, NEW f \in [D -> Nat]
  PROVE  \A x : x \in Units(f) <=> \E d \in D : \E k \in 1..f[d] : x = <<d, k>>
BY DEF Units

(* One more of d's is one more in all. *)
LEMMA TotalUp ==
  ASSUME NEW D, NEW f \in [D -> Nat], NEW g \in [D -> Nat], NEW d \in D,
         g = [f EXCEPT ![d] = @ + 1], IsFiniteSet(Units(f))
  PROVE  /\ IsFiniteSet(Units(g))
         /\ Total(f) \in Nat /\ Total(g) = Total(f) + 1
<1> DEFINE u == <<d, g[d]>>
<1>0. g[d] = f[d] + 1 /\ f[d] \in Nat /\ \A x \in D : x # d => g[x] = f[x]
  OBVIOUS
<1>1. u \notin Units(f)
  <2> SUFFICES ASSUME u \in Units(f) PROVE FALSE
    OBVIOUS
  <2>1. g[d] \in 1..f[d]
    BY UnitsElements
  <2> QED BY <1>0, <2>1
<1>2. Units(g) = Units(f) \cup {u}
  <2>1. ASSUME NEW x \in D, NEW k \in 1..g[x] PROVE <<x, k>> \in Units(f) \cup {u}
    <3>1. k \in 1..f[x] \/ (x = d /\ k = g[d])
      BY <1>0
    <3> QED BY <3>1, UnitsElements
  <2>2. ASSUME NEW x \in D, NEW k \in 1..f[x] PROVE k \in 1..g[x]
    BY <1>0
  <2>3. g[d] \in 1..g[d]
    BY <1>0
  <2>4. /\ \A x : x \in Units(f) <=> \E e \in D : \E k \in 1..f[e] : x = <<e, k>>
        /\ \A x : x \in Units(g) <=> \E e \in D : \E k \in 1..g[e] : x = <<e, k>>
    BY UnitsElements
  <2>5. Units(f) \subseteq Units(g) /\ u \in Units(g)
    BY <2>2, <2>3, <2>4
  <2>6. Units(g) \subseteq Units(f) \cup {u}
    <3> SUFFICES ASSUME NEW x \in Units(g) PROVE x \in Units(f) \cup {u}
      OBVIOUS
    <3>1. PICK e \in D : \E k \in 1..g[e] : x = <<e, k>>
      BY <2>4
    <3>2. PICK k \in 1..g[e] : x = <<e, k>>
      BY <3>1
    <3> QED BY <2>1, <3>2
  <2> QED BY <2>5, <2>6
<1> DEFINE U == Units(f)
           V == Units(g)
<1>3. IsFiniteSet(U) /\ u \notin U /\ V = U \cup {u}
  BY <1>1, <1>2
<1> HIDE DEF u, U, V
<1>4. IsFiniteSet(V) /\ Cardinality(V) = Cardinality(U) + 1 /\ Cardinality(U) \in Nat
  BY <1>3, FS_AddElement, FS_CardinalityType
<1> QED BY <1>4 DEF Total, U, V

(* One fewer of d's is one fewer in all. *)
LEMMA TotalDown ==
  ASSUME NEW D, NEW f \in [D -> Nat], NEW g \in [D -> Nat], NEW d \in D,
         f[d] > 0, g = [f EXCEPT ![d] = @ - 1], IsFiniteSet(Units(f))
  PROVE  /\ IsFiniteSet(Units(g))
         /\ Total(g) \in Nat /\ Total(f) = Total(g) + 1
<1>1. f = [g EXCEPT ![d] = @ + 1]
  <2>1. f[d] \in Nat /\ g[d] = f[d] - 1
    OBVIOUS
  <2>2. \A x \in D : f[x] = [g EXCEPT ![d] = @ + 1][x]
    BY <2>1
  <2>3. f = [x \in D |-> f[x]]
    OBVIOUS
  <2>4. [g EXCEPT ![d] = @ + 1] = [x \in D |-> [g EXCEPT ![d] = @ + 1][x]]
    OBVIOUS
  <2> QED BY <2>2, <2>3, <2>4
<1>2. Units(g) \subseteq Units(f)
  <2>1. ASSUME NEW x \in D, NEW k \in 1..g[x] PROVE k \in 1..f[x]
    <3>1. f[x] \in Nat /\ (g[x] = f[x] \/ g[x] = f[x] - 1)
      OBVIOUS
    <3> QED BY <3>1
  <2>2. /\ \A x : x \in Units(f) <=> \E e \in D : \E k \in 1..f[e] : x = <<e, k>>
        /\ \A x : x \in Units(g) <=> \E e \in D : \E k \in 1..g[e] : x = <<e, k>>
    BY UnitsElements
  <2> SUFFICES ASSUME NEW x \in Units(g) PROVE x \in Units(f)
    OBVIOUS
  <2>3. PICK e \in D : \E k \in 1..g[e] : x = <<e, k>>
    BY <2>2
  <2>4. PICK k \in 1..g[e] : x = <<e, k>>
    BY <2>3
  <2> QED BY <2>1, <2>2, <2>4
<1>3. IsFiniteSet(Units(g))
  BY <1>2, FS_Subset
<1> QED BY <1>1, <1>3, TotalUp

LEMMA TotalZero ==
  ASSUME NEW D, NEW f \in [D -> Nat], IsFiniteSet(Units(f)), Total(f) = 0
  PROVE  \A d \in D : f[d] = 0
<1>1. Units(f) = {}
  BY FS_EmptySet DEF Total
<1> SUFFICES ASSUME NEW d \in D, f[d] # 0 PROVE FALSE
  OBVIOUS
<1>2. f[d] \in Nat /\ 1 \in 1..f[d]
  OBVIOUS
<1>3. <<d, 1>> \in Units(f)
  BY <1>2, UnitsElements
<1> QED BY <1>1, <1>3

LEMMA TotalOfZeros ==
  ASSUME NEW D, NEW f \in [D -> Nat], \A d \in D : f[d] = 0
  PROVE  IsFiniteSet(Units(f)) /\ Total(f) = 0
<1>1. Units(f) = {}
  BY UnitsElements
<1> QED BY <1>1, FS_EmptySet DEF Total

(***************************************************************************)
(* The inductive invariant: a producer that has counted an alert in is in  *)
(* the middle of its round; what is counted is held somewhere; every loss  *)
(* was counted.                                                            *)
(***************************************************************************)
Counters == {p \in Producers : counted[p]}

Working == \A p \in Producers : counted[p] => todo[p] # <<>>

Counts ==
  /\ IsFiniteSet(Units(Held)) /\ IsFiniteSet(Units(Lost))
  /\ InflightExact
  /\ DropsExact

IInv == TypeOK /\ Working /\ Counts

LEMMA DestinationTypes ==
  ASSUME TypeOK, NEW d \in Destinations
  PROVE  /\ queue[d] \in Seq(Nat \ {0}) /\ Len(queue[d]) \in Nat /\ Len(queue[d]) <= QueueDepth
         /\ taken[d] \in Seq(Nat \ {0}) /\ Len(taken[d]) \in Nat
         /\ offered[d] \in Nat /\ overflowed[d] \in Nat /\ limited[d] \in Nat
         /\ mark[d] \in Nat /\ left[d] \in Nat
         /\ delivering[d] \in InHand \cup {Idle} /\ delivering[d].posts \in Nat
<1>1. /\ queue[d] \in Seq(Nat \ {0}) /\ Len(queue[d]) <= QueueDepth
      /\ taken[d] \in Seq(Nat \ {0})
  BY DEF TypeOK
<1>2. Len(queue[d]) \in Nat /\ Len(taken[d]) \in Nat
  BY <1>1, LenProperties
<1>3. /\ offered[d] \in Nat /\ overflowed[d] \in Nat /\ limited[d] \in Nat
      /\ mark[d] \in Nat /\ left[d] \in Nat
  BY DEF TypeOK
<1>4. delivering[d] \in InHand \cup {Idle}
  BY DEF TypeOK
<1>5. delivering[d].posts \in Nat
  BY <1>4 DEF InHand, Idle
<1> QED BY <1>1, <1>2, <1>3, <1>4, <1>5

LEMMA HeldLostTypes ==
  ASSUME TypeOK
  PROVE  /\ Held \in [Destinations -> Nat] /\ Lost \in [Destinations -> Nat]
         /\ \A d \in Destinations :
              /\ Held[d] = Len(queue[d]) + (IF Busy(d) THEN 1 ELSE 0)
              /\ Lost[d] = overflowed[d] + limited[d]
<1>1. \A d \in Destinations : /\ Len(queue[d]) + (IF Busy(d) THEN 1 ELSE 0) \in Nat
                              /\ overflowed[d] + limited[d] \in Nat
  <2> SUFFICES ASSUME NEW d \in Destinations
               PROVE  /\ Len(queue[d]) + (IF Busy(d) THEN 1 ELSE 0) \in Nat
                      /\ overflowed[d] + limited[d] \in Nat
    OBVIOUS
  <2>1. Len(queue[d]) \in Nat /\ overflowed[d] \in Nat /\ limited[d] \in Nat
    BY DestinationTypes
  <2> DEFINE b == IF Busy(d) THEN 1 ELSE 0
  <2>2. b \in Nat
    OBVIOUS
  <2> HIDE DEF b
  <2>3. Len(queue[d]) + b \in Nat /\ overflowed[d] + limited[d] \in Nat
    BY <2>1, <2>2
  <2> QED BY <2>3 DEF b
<1> QED BY <1>1 DEF Held, Lost

(* Only finitely many producers can be counting. *)
LEMMA CountersFinite ==
  ASSUME NEW C \in SUBSET Producers
  PROVE  IsFiniteSet(C) /\ Cardinality(C) \in Nat
<1>1. IsFiniteSet({Checker}) /\ IsFiniteSet(Handlers)
  BY FS_Singleton, DeliveryAssumption DEF DeliveryAssumption
<1>2. IsFiniteSet(Producers)
  BY <1>1, FS_Union DEF Producers
<1> QED BY <1>2, FS_Subset, FS_CardinalityType

(* The counts when the sums of the state after a step are known. *)
LEMMA InflightIsHeld ==
  ASSUME IInv
  PROVE  /\ inflight = Total(Held) + Cardinality(Counters) /\ inflight \in Nat
         /\ notifyDrops = Total(Lost) /\ notifyDrops \in Nat
         /\ Cardinality(Counters) \in Nat /\ Total(Held) \in Nat /\ Total(Lost) \in Nat
<1>1. Cardinality(Counters) \in Nat
  BY CountersFinite DEF Counters
<1>2. Total(Held) \in Nat /\ Total(Lost) \in Nat
  BY FS_CardinalityType DEF Total, IInv, Counts
<1> QED BY <1>1, <1>2 DEF IInv, TypeOK, Counts, InflightExact, DropsExact, Counters

-----------------------------------------------------------------------------
(* What the actions that move an alert do.                                 *)

LEMMA CountInStep ==
  ASSUME IInv, NEW p \in Producers, CountIn(p)
  PROVE  /\ todo[p] # <<>> /\ counted' = [counted EXCEPT ![p] = TRUE]
         /\ p \notin Counters /\ Counters' = Counters \cup {p}
         /\ Cardinality(Counters') = Cardinality(Counters) + 1
         /\ inflight' = inflight + 1
<1>1. /\ todo[p] # <<>> /\ counted' = [counted EXCEPT ![p] = TRUE] /\ inflight' = inflight + 1
      /\ p \notin Counters /\ counted \in [Producers -> BOOLEAN]
  BY DEF CountIn, Counters, IInv, TypeOK
<1>2. Counters' = Counters \cup {p}
  BY <1>1 DEF Counters
<1>3. IsFiniteSet(Counters)
  BY CountersFinite DEF Counters
<1> DEFINE C == Counters
           E == Counters'
<1>4. IsFiniteSet(C) /\ p \notin C /\ E = C \cup {p}
  BY <1>1, <1>2, <1>3
<1> HIDE DEF C, E
<1>5. Cardinality(E) = Cardinality(C) + 1
  BY <1>4, FS_AddElement
<1> QED BY <1>1, <1>2, <1>5 DEF C, E

LEMMA SendStep ==
  ASSUME IInv, NEW p \in Producers, Send(p)
  PROVE  LET d == Head(todo[p]) IN
         /\ d \in Destinations /\ todo[p] # <<>>
         /\ todo' = [todo EXCEPT ![p] = Tail(@)] /\ Tail(todo[p]) \in Seq(Destinations)
         /\ counted' = [counted EXCEPT ![p] = FALSE]
         /\ Cardinality(Counters) = Cardinality(Counters') + 1 /\ Cardinality(Counters') \in Nat
         /\ offered' = [offered EXCEPT ![d] = @ + 1]
         /\ \/ /\ Len(queue[d]) < QueueDepth
               /\ queue' = [queue EXCEPT ![d] = Append(@, offered[d] + 1)]
               /\ queue'[d] \in Seq(Nat \ {0}) /\ Len(queue'[d]) = Len(queue[d]) + 1
               /\ UNCHANGED <<inflight, notifyDrops, overflowed>>
            \/ /\ ~(Len(queue[d]) < QueueDepth)
               /\ queue' = queue
               /\ inflight' = inflight - 1 /\ notifyDrops' = notifyDrops + 1
               /\ overflowed' = [overflowed EXCEPT ![d] = @ + 1]
<1> DEFINE d == Head(todo[p])
<1>1. /\ counted[p] /\ QueueOrDrop(d)
      /\ offered' = [offered EXCEPT ![d] = @ + 1]
      /\ counted' = [counted EXCEPT ![p] = FALSE]
      /\ todo' = [todo EXCEPT ![p] = Tail(@)]
  BY DEF Send
<1>2. todo[p] \in Seq(Destinations) /\ todo[p] # <<>> /\ counted \in [Producers -> BOOLEAN]
  BY <1>1 DEF IInv, TypeOK, Working
<1>3. d \in Destinations /\ Tail(todo[p]) \in Seq(Destinations)
  BY <1>2, HeadTailProperties
<1> HIDE DEF d
<1>4. /\ Cardinality(Counters) = Cardinality(Counters') + 1 /\ Cardinality(Counters') \in Nat
  <2> DEFINE C == Counters
             E == Counters'
  <2>1. p \in C /\ E = C \ {p}
    BY <1>1, <1>2 DEF Counters
  <2>2. E \in SUBSET Producers /\ C \in SUBSET Producers
    BY <2>1 DEF Counters
  <2> HIDE DEF C, E
  <2>3. IsFiniteSet(C) /\ Cardinality(C) \in Nat /\ Cardinality(E) \in Nat
    BY <2>2, CountersFinite
  <2>4. Cardinality(E) = Cardinality(C) - 1
    BY <2>1, <2>3, FS_RemoveElement
  <2>5. Cardinality(C) = Cardinality(E) + 1
    BY <2>3, <2>4
  <2> QED BY <2>3, <2>5 DEF C, E
<1>5. CASE Len(queue[d]) < QueueDepth
  <2>1. /\ queue' = [queue EXCEPT ![d] = Append(@, offered[d] + 1)]
        /\ UNCHANGED <<inflight, notifyDrops, overflowed>>
    BY <1>1, <1>5 DEF QueueOrDrop, engineVars
  <2>2. queue \in [Destinations -> Seq(Nat \ {0})] /\ queue[d] \in Seq(Nat \ {0})
        /\ offered[d] + 1 \in Nat \ {0}
    <3>1. queue[d] \in Seq(Nat \ {0}) /\ offered[d] \in Nat
      BY <1>3, DestinationTypes DEF IInv
    <3>2. queue \in [Destinations -> Seq(Nat \ {0})]
      BY DEF IInv, TypeOK
    <3> QED BY <3>1, <3>2
  <2>3. queue'[d] = Append(queue[d], offered[d] + 1)
    BY <1>3, <2>1, <2>2
  <2>4. queue'[d] \in Seq(Nat \ {0}) /\ Len(queue'[d]) = Len(queue[d]) + 1
    BY <2>2, <2>3, AppendProperties
  <2> QED BY <1>1, <1>2, <1>3, <1>4, <1>5, <2>1, <2>4 DEF d
<1>6. CASE ~(Len(queue[d]) < QueueDepth)
  <2>1. /\ queue' = queue
        /\ inflight' = inflight - 1 /\ notifyDrops' = notifyDrops + 1
        /\ overflowed' = [overflowed EXCEPT ![d] = @ + 1]
    BY <1>1, <1>6 DEF QueueOrDrop
  <2> QED BY <1>1, <1>2, <1>3, <1>4, <1>6, <2>1 DEF d
<1> QED BY <1>5, <1>6

LEMMA TakeStep ==
  ASSUME IInv, NEW d \in Destinations, Take(d)
  PROVE  /\ ~Busy(d) /\ queue[d] # <<>>
         /\ queue' = [queue EXCEPT ![d] = Tail(@)]
         /\ queue'[d] \in Seq(Nat \ {0}) /\ Len(queue[d]) = Len(queue'[d]) + 1
         /\ Head(queue[d]) \in Nat \ {0}
         /\ taken' = [taken EXCEPT ![d] = Append(@, Head(queue[d]))]
         /\ taken'[d] \in Seq(Nat \ {0}) /\ Len(taken'[d]) = Len(taken[d]) + 1
         /\ \E k \in Nat :
              /\ delivering' = [delivering EXCEPT ![d] = [n |-> Head(queue[d]), posts |-> k]]
              /\ \/ /\ k = 0 /\ left' = left
                    /\ notifyDrops' = notifyDrops + 1
                    /\ limited' = [limited EXCEPT ![d] = @ + 1]
                 \/ /\ k \in Posts(d)
                    /\ left' = [left EXCEPT ![d] = IF d = History THEN 0 ELSE NotifyTimeout]
                    /\ UNCHANGED <<notifyDrops, limited>>
<1>1. /\ ~Busy(d) /\ queue[d] # <<>>
      /\ queue' = [queue EXCEPT ![d] = Tail(@)]
      /\ taken' = [taken EXCEPT ![d] = Append(@, Head(queue[d]))]
  BY DEF Take
<1>2. /\ queue \in [Destinations -> Seq(Nat \ {0})] /\ taken \in [Destinations -> Seq(Nat \ {0})]
      /\ queue[d] \in Seq(Nat \ {0}) /\ taken[d] \in Seq(Nat \ {0}) /\ Len(queue[d]) \in Nat
  BY DestinationTypes DEF IInv, TypeOK
<1>3. /\ Head(queue[d]) \in Nat \ {0} /\ Tail(queue[d]) \in Seq(Nat \ {0})
      /\ Len(Tail(queue[d])) = Len(queue[d]) - 1
  BY <1>1, <1>2, HeadTailProperties
<1>4. queue'[d] = Tail(queue[d]) /\ taken'[d] = Append(taken[d], Head(queue[d]))
  BY <1>1, <1>2
<1>5. queue'[d] \in Seq(Nat \ {0}) /\ Len(queue[d]) = Len(queue'[d]) + 1
  BY <1>2, <1>3, <1>4
<1>6. taken'[d] \in Seq(Nat \ {0}) /\ Len(taken'[d]) = Len(taken[d]) + 1
  BY <1>2, <1>3, <1>4, AppendProperties
<1>7. Posts(d) \subseteq Nat
  <2>1. conf.ruleWebhooks \in Nat
    BY DestinationsAssumption DEF DestinationsAssumption, IInv, TypeOK
  <2>2. (IF conf.webhookURL THEN 1 ELSE 0) \in Nat
    OBVIOUS
  <2> QED BY <2>1, <2>2 DEF Posts
<1>8. \E k \in Nat :
        /\ delivering' = [delivering EXCEPT ![d] = [n |-> Head(queue[d]), posts |-> k]]
        /\ \/ /\ k = 0 /\ left' = left
              /\ notifyDrops' = notifyDrops + 1
              /\ limited' = [limited EXCEPT ![d] = @ + 1]
           \/ /\ k \in Posts(d)
              /\ left' = [left EXCEPT ![d] = IF d = History THEN 0 ELSE NotifyTimeout]
              /\ UNCHANGED <<notifyDrops, limited>>
  BY <1>7 DEF Take
<1> QED BY <1>1, <1>3, <1>5, <1>6, <1>8

-----------------------------------------------------------------------------
(* Type correctness and the counts.                                        *)

LEMMA InitIInv == Init => IInv
<1> SUFFICES ASSUME Init PROVE IInv
  OBVIOUS
<1>1. TypeOK
  <2>1. FlushTimeout \in Nat /\ QueueDepth \in Nat
    BY DeliveryAssumption DEF DeliveryAssumption
  <2> QED BY <2>1, EmptySeq DEF Init, TypeOK
<1>2. Working
  BY DEF Init, Working
<1>3. \A d \in Destinations : Held[d] = 0 /\ Lost[d] = 0
  BY EmptySeq DEF Init, Held, Lost, Busy
<1>4. /\ IsFiniteSet(Units(Held)) /\ Total(Held) = 0
      /\ IsFiniteSet(Units(Lost)) /\ Total(Lost) = 0
  <2> DEFINE h == Held  l == Lost
  <2>1. h \in [Destinations -> Nat] /\ l \in [Destinations -> Nat]
        /\ \A d \in Destinations : h[d] = 0 /\ l[d] = 0
    BY <1>1, <1>3, HeldLostTypes
  <2> HIDE DEF h, l
  <2>2. IsFiniteSet(Units(h)) /\ Total(h) = 0 /\ IsFiniteSet(Units(l)) /\ Total(l) = 0
    BY <2>1, TotalOfZeros
  <2> QED BY <2>2 DEF h, l
<1>5. {p \in Producers : counted[p]} = {}
  BY DEF Init
<1>6. Cardinality({p \in Producers : counted[p]}) = 0
  BY <1>5, FS_EmptySet
<1>7. Counts
  BY <1>4, <1>6 DEF Init, Counts, InflightExact, DropsExact
<1> QED BY <1>1, <1>2, <1>7 DEF IInv

LEMMA NextTypeOK ==
  ASSUME IInv, [Next]_vars
  PROVE  TypeOK'
<1> USE DEF queueVars, engineVars, producerVars, lossVars, endVars
<1>1. ASSUME NEW k \in 1..2, Check(k) PROVE TypeOK'
  <2>1. Registered(conf) \in Seq(Destinations)
    BY DestinationsAssumption DEF DestinationsAssumption, IInv, TypeOK
  <2>2. Registered(conf) \o Registered(conf) \in Seq(Destinations)
    BY <2>1, ConcatProperties
  <2>3. todo' \in [Producers -> Seq(Destinations)]
    BY <1>1, <2>1, <2>2 DEF Check, IInv, TypeOK
  <2> QED BY <1>1, <2>3 DEF Check, IInv, TypeOK
<1>2. ASSUME NEW h \in Handlers, NEW req \in Requests, Serve(h, req) PROVE TypeOK'
  <2>1. Registered(conf) \in Seq(Destinations) /\ <<>> \in Seq(Destinations)
    BY DestinationsAssumption, EmptySeq DEF DestinationsAssumption, IInv, TypeOK
  <2>2. /\ \/ todo' = [todo EXCEPT ![h] = Registered(conf)]
           \/ todo' = [todo EXCEPT ![h] = <<>>]
        /\ hooks' = hooks \/ hooks' = [hooks EXCEPT !.rejected = @ + 1]
        /\ UNCHANGED <<conf, queueVars, engineVars, counted, offered, lossVars, endVars>>
    BY <1>2 DEF Serve
  <2>3. todo' \in [Producers -> Seq(Destinations)]
    BY <2>1, <2>2 DEF IInv, TypeOK
  <2>4. hooks' \in [accepted : Nat, rejected : Nat]
    <3>1. hooks \in [accepted : Nat, rejected : Nat]
      BY DEF IInv, TypeOK
    <3> QED BY <2>2, <3>1
  <2> QED BY <2>2, <2>3, <2>4 DEF IInv, TypeOK
<1>3. ASSUME NEW p \in Producers, CountIn(p) PROVE TypeOK'
  <2>1. counted \in [Producers -> BOOLEAN] /\ inflight \in Nat
    BY DEF IInv, TypeOK
  <2>2. counted' \in [Producers -> BOOLEAN] /\ inflight' \in Nat
    BY <1>3, <2>1 DEF CountIn
  <2>3. UNCHANGED <<conf, queueVars, notifyDrops, todo, offered, lossVars, hooks, endVars>>
    BY <1>3 DEF CountIn
  <2> QED BY <2>2, <2>3 DEF IInv, TypeOK
<1>4. ASSUME NEW p \in Producers, Send(p) PROVE TypeOK'
  <2> DEFINE d == Head(todo[p])
  <2>1. /\ d \in Destinations /\ todo' = [todo EXCEPT ![p] = Tail(@)]
        /\ Tail(todo[p]) \in Seq(Destinations)
        /\ counted' = [counted EXCEPT ![p] = FALSE] /\ offered' = [offered EXCEPT ![d] = @ + 1]
    BY <1>4, SendStep
  <2>2. \/ /\ Len(queue[d]) < QueueDepth
           /\ queue' = [queue EXCEPT ![d] = Append(@, offered[d] + 1)]
           /\ queue'[d] \in Seq(Nat \ {0}) /\ Len(queue'[d]) = Len(queue[d]) + 1
           /\ UNCHANGED <<inflight, notifyDrops, overflowed>>
        \/ /\ queue' = queue
           /\ inflight' = inflight - 1 /\ notifyDrops' = notifyDrops + 1
           /\ overflowed' = [overflowed EXCEPT ![d] = @ + 1]
           /\ Cardinality(Counters) = Cardinality(Counters') + 1 /\ Cardinality(Counters') \in Nat
    BY <1>4, SendStep
  <2>3. /\ hooks' = hooks \/ hooks' = [hooks EXCEPT !.accepted = @ + 1]
        /\ UNCHANGED <<conf, delivering, left, taken, limited, endVars>>
    BY <1>4 DEF Send
  <2> HIDE DEF d
  <2>4. hooks' \in [accepted : Nat, rejected : Nat]
    <3>1. hooks \in [accepted : Nat, rejected : Nat]
      BY DEF IInv, TypeOK
    <3> QED BY <2>3, <3>1
  <2>5. /\ todo' \in [Producers -> Seq(Destinations)] /\ counted' \in [Producers -> BOOLEAN]
        /\ offered' \in [Destinations -> Nat]
    <3>1. /\ todo \in [Producers -> Seq(Destinations)] /\ counted \in [Producers -> BOOLEAN]
          /\ offered \in [Destinations -> Nat]
      BY DEF IInv, TypeOK
    <3> QED BY <2>1, <3>1
  <2>6. CASE queue' = queue
    <3>1. inflight' \in Nat /\ notifyDrops' \in Nat /\ overflowed' \in [Destinations -> Nat]
      <4>1. /\ inflight = Total(Held) + Cardinality(Counters) /\ notifyDrops \in Nat
            /\ inflight \in Nat /\ Total(Held) \in Nat
        BY InflightIsHeld
      <4>2. overflowed \in [Destinations -> Nat]
        BY DEF IInv, TypeOK
      <4>3. CASE UNCHANGED <<inflight, notifyDrops, overflowed>>
        BY <4>1, <4>2, <4>3
      <4>4. CASE /\ inflight' = inflight - 1 /\ notifyDrops' = notifyDrops + 1
                 /\ overflowed' = [overflowed EXCEPT ![d] = @ + 1]
                 /\ Cardinality(Counters) = Cardinality(Counters') + 1 /\ Cardinality(Counters') \in Nat
        <5> DEFINE c == Cardinality(Counters)
                   e == Cardinality(Counters')
                   t == Total(Held)
        <5>1. inflight = t + c /\ c = e + 1 /\ e \in Nat /\ t \in Nat
          BY <4>1, <4>4
        <5> HIDE DEF c, e, t
        <5>2. inflight' \in Nat
          BY <4>4, <5>1
        <5>3. notifyDrops' \in Nat
          BY <4>1, <4>4
        <5>4. overflowed' \in [Destinations -> Nat]
          <6>1. overflowed' = [overflowed EXCEPT ![d] = @ + 1]
            BY <4>4
          <6> QED BY <2>1, <4>2, <6>1
        <5> QED BY <5>2, <5>3, <5>4
      <4> QED BY <2>2, <4>3, <4>4
    <3> QED BY <2>3, <2>4, <2>5, <2>6, <3>1 DEF IInv, TypeOK
  <2>7. CASE queue' # queue
    <3>1. /\ Len(queue[d]) < QueueDepth
          /\ queue' = [queue EXCEPT ![d] = Append(@, offered[d] + 1)]
          /\ queue'[d] \in Seq(Nat \ {0}) /\ Len(queue'[d]) = Len(queue[d]) + 1
          /\ UNCHANGED <<inflight, notifyDrops, overflowed>>
      BY <2>2, <2>7
    <3>2. queue \in [Destinations -> Seq(Nat \ {0})]
      BY DEF IInv, TypeOK
    <3>3. queue' \in [Destinations -> Seq(Nat \ {0})]
      BY <2>1, <3>1, <3>2
    <3>4. \A x \in Destinations : Len(queue'[x]) <= QueueDepth
      <4> SUFFICES ASSUME NEW x \in Destinations PROVE Len(queue'[x]) <= QueueDepth
        OBVIOUS
      <4>1. CASE x # d
        BY <2>1, <3>1, <3>2, <4>1 DEF IInv, TypeOK
      <4>2. CASE x = d
        <5>1. Len(queue[d]) \in Nat /\ QueueDepth \in Nat
          BY <2>1, DestinationTypes, DeliveryAssumption DEF DeliveryAssumption, IInv
        <5> QED BY <3>1, <4>2, <5>1
      <4> QED BY <4>1, <4>2
    <3> QED BY <2>3, <2>4, <2>5, <3>1, <3>3, <3>4 DEF IInv, TypeOK
  <2> QED BY <2>6, <2>7
<1>5. ASSUME NEW d \in Destinations, Take(d) PROVE TypeOK'
  <2>1. /\ queue' = [queue EXCEPT ![d] = Tail(@)] /\ queue'[d] \in Seq(Nat \ {0})
        /\ Len(queue[d]) = Len(queue'[d]) + 1
        /\ taken' = [taken EXCEPT ![d] = Append(@, Head(queue[d]))]
        /\ taken'[d] \in Seq(Nat \ {0})
    BY <1>5, TakeStep
  <2>2. PICK k \in Nat :
          /\ delivering' = [delivering EXCEPT ![d] = [n |-> Head(queue[d]), posts |-> k]]
          /\ \/ /\ k = 0 /\ left' = left
                /\ notifyDrops' = notifyDrops + 1
                /\ limited' = [limited EXCEPT ![d] = @ + 1]
             \/ /\ k \in Posts(d)
                /\ left' = [left EXCEPT ![d] = IF d = History THEN 0 ELSE NotifyTimeout]
                /\ UNCHANGED <<notifyDrops, limited>>
    BY <1>5, TakeStep
  <2>3. Head(queue[d]) \in Nat \ {0}
    BY <1>5, TakeStep
  <2>4. delivering' \in [Destinations -> InHand \cup {Idle}]
    BY <2>2, <2>3 DEF IInv, TypeOK, InHand
  <2>5. left' \in [Destinations -> Nat]
    <3>1. (IF d = History THEN 0 ELSE NotifyTimeout) \in Nat /\ left \in [Destinations -> Nat]
      BY DeliveryAssumption DEF DeliveryAssumption, IInv, TypeOK
    <3> QED BY <2>2, <3>1
  <2>6. notifyDrops' \in Nat /\ limited' \in [Destinations -> Nat]
    <3>1. notifyDrops \in Nat /\ limited \in [Destinations -> Nat]
      BY DEF IInv, TypeOK
    <3> QED BY <2>2, <3>1
  <2>7. queue' \in [Destinations -> Seq(Nat \ {0})] /\ taken' \in [Destinations -> Seq(Nat \ {0})]
    BY <2>1 DEF IInv, TypeOK
  <2>8. \A x \in Destinations : Len(queue'[x]) <= QueueDepth
    <3> SUFFICES ASSUME NEW x \in Destinations PROVE Len(queue'[x]) <= QueueDepth
      OBVIOUS
    <3>1. CASE x # d
      <4>1. queue'[x] = queue[x]
        BY <2>1, <3>1 DEF IInv, TypeOK
      <4> QED BY <4>1, DestinationTypes DEF IInv
    <3>2. CASE x = d
      <4>1. Len(queue[d]) <= QueueDepth /\ QueueDepth \in Nat /\ Len(queue[d]) \in Nat
        BY DestinationTypes, DeliveryAssumption DEF DeliveryAssumption, IInv
      <4>2. Len(queue'[d]) \in Nat
        BY <2>1, LenProperties
      <4> QED BY <2>1, <3>2, <4>1, <4>2
    <3> QED BY <3>1, <3>2
  <2>9. UNCHANGED <<conf, inflight, todo, counted, offered, overflowed, hooks, phase, flushLeft, mark>>
    BY <1>5 DEF Take
  <2> QED BY <2>4, <2>5, <2>6, <2>7, <2>8, <2>9 DEF IInv, TypeOK
<1>6. ASSUME NEW d \in Destinations, Answer(d) \/ Deadline(d) PROVE TypeOK'
  <2>1. delivering[d] \in InHand
    BY <1>6, DestinationTypes DEF Answer, Deadline, IInv, Idle
  <2>2. delivering' \in [Destinations -> InHand \cup {Idle}]
    <3>1. delivering \in [Destinations -> InHand \cup {Idle}]
      BY DEF IInv, TypeOK
    <3>2. PICK k \in Nat : delivering' = [delivering EXCEPT ![d].posts = k]
      <4>1. delivering[d].posts \in Nat /\ delivering[d].posts > 0
        BY <1>6, <2>1 DEF Answer, Deadline, InHand
      <4>2. \/ delivering' = [delivering EXCEPT ![d].posts = delivering[d].posts - 1]
            \/ delivering' = [delivering EXCEPT ![d].posts = 0]
        BY <1>6, <3>1 DEF Answer, Deadline
      <4> QED BY <4>1, <4>2
    <3>3. [delivering[d] EXCEPT !.posts = k] \in InHand
      BY <2>1, <3>2 DEF InHand
    <3>4. delivering' = [delivering EXCEPT ![d] = [delivering[d] EXCEPT !.posts = k]]
      BY <3>1, <3>2
    <3> QED BY <3>1, <3>3, <3>4
  <2> QED BY <1>6, <2>2 DEF Answer, Deadline, IInv, TypeOK
<1>7. ASSUME NEW d \in Destinations, Settle(d) PROVE TypeOK'
  <2>1. inflight' \in Nat
    <3>1. Busy(d) /\ inflight' = inflight - 1
      BY <1>7 DEF Settle
    <3>2. Held[d] > 0
      <4>1. Len(queue[d]) \in Nat /\ Held[d] = Len(queue[d]) + 1
        BY <3>1, DestinationTypes, HeldLostTypes DEF IInv
      <4> QED BY <4>1
    <3>3. Total(Held) # 0
      BY <3>2, HeldLostTypes, TotalZero DEF IInv, Counts
    <3> QED BY <3>1, <3>3, InflightIsHeld
  <2> QED BY <1>7, <2>1 DEF Settle, IInv, TypeOK
<1>8. CASE HistoryNotify
  <2>1. History \in Destinations
    BY DestinationsAssumption DEF DestinationsAssumption
  <2>2. delivering[History] \in InHand
    BY <1>8, <2>1, DestinationTypes DEF HistoryNotify, IInv, Idle
  <2>3. delivering' = delivering \/ delivering' = [delivering EXCEPT ![History].posts = 0]
    BY <1>8 DEF HistoryNotify
  <2>4. delivering' \in [Destinations -> InHand \cup {Idle}]
    <3>1. delivering \in [Destinations -> InHand \cup {Idle}]
      BY DEF IInv, TypeOK
    <3>2. [delivering[History] EXCEPT !.posts = 0] \in InHand
      BY <2>2 DEF InHand
    <3>3. CASE delivering' = [delivering EXCEPT ![History] = [delivering[History] EXCEPT !.posts = 0]]
      BY <2>1, <3>1, <3>2, <3>3
    <3> QED BY <2>3, <3>1, <3>3
  <2> QED BY <1>8, <2>4 DEF HistoryNotify, IInv, TypeOK
<1>9. CASE Shared
  BY <1>9 DEF Shared, IInv, TypeOK
<1>10. CASE Tick
  <2>1. left' \in [Destinations -> Nat]
    <3>1. left \in [Destinations -> Nat]
      BY DEF IInv, TypeOK
    <3>2. ASSUME NEW d \in Destinations PROVE (IF left[d] > 0 THEN left[d] - 1 ELSE 0) \in Nat
      BY <3>1
    <3> QED BY <1>10, <3>2 DEF Tick
  <2>2. flushLeft' \in Nat
    <3>1. flushLeft \in Nat
      BY DEF IInv, TypeOK
    <3> QED BY <1>10, <3>1 DEF Tick
  <2> QED BY <1>10, <2>1, <2>2 DEF Tick, IInv, TypeOK
<1>11. CASE End
  BY <1>11 DEF End, Stop, StartFlush, FlushDone, FlushGivesUp, Exit, IInv, TypeOK
<1>12. CASE UNCHANGED vars
  BY <1>12 DEF vars, IInv, TypeOK
<1> QED
  BY <1>1, <1>2, <1>3, <1>4, <1>5, <1>6, <1>7, <1>8, <1>9, <1>10, <1>11, <1>12
  DEF Next, Produce, Pump

LEMMA NextWorking ==
  ASSUME IInv, [Next]_vars
  PROVE  Working'
<1> USE DEF queueVars, engineVars, producerVars, lossVars, endVars
<1> SUFFICES ASSUME NEW q \in Producers, counted'[q] PROVE todo'[q] # <<>>
  BY DEF Working
<1>0. todo \in [Producers -> Seq(Destinations)] /\ counted \in [Producers -> BOOLEAN]
  BY DEF IInv, TypeOK
<1>1. ASSUME NEW k \in 1..2, Check(k) PROVE todo'[q] # <<>>
  BY <1>0, <1>1 DEF Check, IInv, Working
<1>2. ASSUME NEW h \in Handlers, NEW req \in Requests, Serve(h, req) PROVE todo'[q] # <<>>
  <2>1. /\ \/ todo' = [todo EXCEPT ![h] = Registered(conf)]
           \/ todo' = [todo EXCEPT ![h] = <<>>]
        /\ todo[h] = <<>> /\ counted' = counted
    BY <1>2 DEF Serve
  <2>2. q # h /\ todo[q] # <<>>
    BY <2>1 DEF IInv, Working
  <2> QED BY <1>0, <2>1, <2>2
<1>3. ASSUME NEW p \in Producers, CountIn(p) PROVE todo'[q] # <<>>
  BY <1>0, <1>3 DEF CountIn, IInv, Working
<1>4. ASSUME NEW p \in Producers, Send(p) PROVE todo'[q] # <<>>
  BY <1>0, <1>4, SendStep DEF IInv, Working
<1>5. CASE UNCHANGED <<todo, counted>>
  BY <1>5 DEF IInv, Working
<1> QED
  BY <1>1, <1>2, <1>3, <1>4, <1>5
  DEF Next, Produce, Pump, End, Take, Answer, Deadline, Settle, HistoryNotify, Shared, Tick,
      Stop, StartFlush, FlushDone, FlushGivesUp, Exit, vars

(* A delivery that goes on stays in hand. *)
LEMMA HandStays ==
  ASSUME IInv, [Next]_vars, NEW d \in Destinations,
         HistoryNotify \/ \E x \in Destinations : Answer(x) \/ Deadline(x)
  PROVE  (Busy(d)' <=> Busy(d)) /\ delivering'[d].n = delivering[d].n
<1>0. delivering \in [Destinations -> InHand \cup {Idle}]
  BY DEF IInv, TypeOK
<1>1. ASSUME NEW x \in Destinations, NEW k, delivering[x].posts > 0,
             delivering' = [delivering EXCEPT ![x].posts = k]
      PROVE  (Busy(d)' <=> Busy(d)) /\ delivering'[d].n = delivering[d].n
  <2>1. delivering[x] \in InHand
    BY <1>0, <1>1 DEF Idle
  <2>2. /\ delivering[x].n \in Nat \ {0}
        /\ delivering'[x] = [delivering[x] EXCEPT !.posts = k]
        /\ \A y \in Destinations : y # x => delivering'[y] = delivering[y]
    BY <1>0, <1>1, <2>1 DEF InHand
  <2>3. delivering'[x].n = delivering[x].n
    BY <2>1, <2>2 DEF InHand
  <2>4. delivering'[x] # Idle /\ delivering[x] # Idle
    BY <2>2, <2>3 DEF Idle
  <2> QED BY <2>2, <2>3, <2>4 DEF Busy
<1>2. CASE delivering' = delivering
  BY <1>2 DEF Busy
<1>3. CASE HistoryNotify
  <2>1. /\ delivering[History].posts > 0 /\ History \in Destinations
        /\ delivering' = delivering \/ delivering' = [delivering EXCEPT ![History].posts = 0]
    BY <1>3, DestinationsAssumption DEF HistoryNotify, DestinationsAssumption
  <2> QED BY <1>1, <1>2, <2>1
<1>4. ASSUME NEW x \in Destinations, Answer(x) \/ Deadline(x)
      PROVE  (Busy(d)' <=> Busy(d)) /\ delivering'[d].n = delivering[d].n
  <2>1. /\ delivering[x].posts > 0
        /\ \/ delivering' = [delivering EXCEPT ![x].posts = delivering[x].posts - 1]
           \/ delivering' = [delivering EXCEPT ![x].posts = 0]
    BY <1>0, <1>4 DEF Answer, Deadline
  <2> QED BY <1>1, <2>1
<1> QED BY <1>3, <1>4

(* How a step changes what is held and what is lost, as functions. *)
LEMMA HeldSame ==
  ASSUME \A d \in Destinations : Len(queue'[d]) = Len(queue[d]) /\ (Busy(d)' <=> Busy(d))
  PROVE  Held' = Held
BY DEF Held

LEMMA LostSame ==
  ASSUME UNCHANGED <<overflowed, limited>>
  PROVE  Lost' = Lost
BY DEF Lost

LEMMA LostOneMore ==
  ASSUME TypeOK, TypeOK', NEW d \in Destinations,
         \/ overflowed' = [overflowed EXCEPT ![d] = @ + 1] /\ limited' = limited
         \/ limited' = [limited EXCEPT ![d] = @ + 1] /\ overflowed' = overflowed,
         IsFiniteSet(Units(Lost))
  PROVE  /\ IsFiniteSet(Units(Lost')) /\ Total(Lost) \in Nat /\ Total(Lost') = Total(Lost) + 1
<1> DEFINE f == Lost
           g == Lost'
<1>1. /\ f \in [Destinations -> Nat] /\ g \in [Destinations -> Nat]
      /\ \A x \in Destinations : /\ f[x] = overflowed[x] + limited[x]
                                 /\ g[x] = overflowed'[x] + limited'[x]
  <2>1. \A x \in Destinations : overflowed'[x] + limited'[x] \in Nat
    <3>1. overflowed' \in [Destinations -> Nat] /\ limited' \in [Destinations -> Nat]
      BY DEF TypeOK
    <3> QED BY <3>1
  <2> QED BY <2>1, HeldLostTypes DEF Lost
<1>2. overflowed \in [Destinations -> Nat] /\ limited \in [Destinations -> Nat]
  BY DEF TypeOK
<1>3. \A x \in Destinations : g[x] = IF x = d THEN f[x] + 1 ELSE f[x]
  <2> SUFFICES ASSUME NEW x \in Destinations PROVE g[x] = IF x = d THEN f[x] + 1 ELSE f[x]
    OBVIOUS
  <2>1. overflowed[x] \in Nat /\ limited[x] \in Nat
    BY <1>2
  <2> HIDE DEF f, g
  <2> QED BY <1>1, <1>2, <2>1
<1> HIDE DEF f, g
<1>4. g = [f EXCEPT ![d] = @ + 1]
  BY <1>1, <1>3
<1>5. IsFiniteSet(Units(f))
  BY DEF f
<1>6. IsFiniteSet(Units(g)) /\ Total(f) \in Nat /\ Total(g) = Total(f) + 1
  <2>1. f \in [Destinations -> Nat] /\ g \in [Destinations -> Nat]
    BY <1>1
  <2>2. \A h, k \in [Destinations -> Nat] :
          k = [h EXCEPT ![d] = @ + 1] /\ IsFiniteSet(Units(h)) =>
            IsFiniteSet(Units(k)) /\ Total(h) \in Nat /\ Total(k) = Total(h) + 1
    BY TotalUp
  <2> QED BY <1>4, <1>5, <2>1, <2>2
<1> QED BY <1>6 DEF f, g

LEMMA HeldOneMore ==
  ASSUME TypeOK, TypeOK', NEW d \in Destinations, delivering' = delivering,
         Len(queue'[d]) = Len(queue[d]) + 1,
         \A x \in Destinations : x # d => queue'[x] = queue[x],
         IsFiniteSet(Units(Held))
  PROVE  /\ IsFiniteSet(Units(Held')) /\ Total(Held) \in Nat /\ Total(Held') = Total(Held) + 1
<1> DEFINE f == Held
           g == Held'
           b(x) == IF Busy(x) THEN 1 ELSE 0
<1>1. /\ f \in [Destinations -> Nat] /\ DOMAIN g = Destinations
      /\ \A x \in Destinations : /\ f[x] = Len(queue[x]) + b(x)
                                 /\ g[x] = Len(queue'[x]) + b(x)
  BY HeldLostTypes DEF Held, Busy
<1>2. \A x \in Destinations : Len(queue[x]) \in Nat /\ b(x) \in Nat
  BY DestinationTypes
<1> HIDE DEF f, g, b
<1>3. \A x \in Destinations : g[x] = IF x = d THEN f[x] + 1 ELSE f[x]
  <2> SUFFICES ASSUME NEW x \in Destinations PROVE g[x] = IF x = d THEN f[x] + 1 ELSE f[x]
    OBVIOUS
  <2> DEFINE n == Len(queue[x])  m == b(x)
  <2>1. n \in Nat /\ m \in Nat /\ f[x] = n + m /\ g[x] = Len(queue'[x]) + m
    BY <1>1, <1>2
  <2>2. Len(queue'[x]) = IF x = d THEN n + 1 ELSE n
    OBVIOUS
  <2> HIDE DEF n, m
  <2> QED BY <2>1, <2>2
<1>4. IsFiniteSet(Units(f)) /\ g = [x \in Destinations |-> g[x]]
  BY <1>1 DEF f, g, Held
<1>5. g \in [Destinations -> Nat]
  BY <1>1, <1>3, <1>4
<1>6. g = [f EXCEPT ![d] = @ + 1]
  BY <1>1, <1>3, <1>5
<1>7. IsFiniteSet(Units(g)) /\ Total(f) \in Nat /\ Total(g) = Total(f) + 1
  <2>1. \A h, k \in [Destinations -> Nat] :
          k = [h EXCEPT ![d] = @ + 1] /\ IsFiniteSet(Units(h)) =>
            IsFiniteSet(Units(k)) /\ Total(h) \in Nat /\ Total(k) = Total(h) + 1
    BY TotalUp
  <2> QED BY <1>1, <1>4, <1>5, <1>6, <2>1
<1> QED BY <1>7 DEF f, g

LEMMA HeldOneFewer ==
  ASSUME TypeOK, TypeOK', NEW d \in Destinations, queue' = queue, Busy(d),
         delivering' = [delivering EXCEPT ![d] = Idle],
         IsFiniteSet(Units(Held))
  PROVE  /\ IsFiniteSet(Units(Held')) /\ Total(Held') \in Nat /\ Total(Held) = Total(Held') + 1
<1> DEFINE f == Held
           g == Held'
<1>1. /\ f \in [Destinations -> Nat] /\ DOMAIN g = Destinations
      /\ f[d] = Len(queue[d]) + 1 /\ g[d] = Len(queue[d]) + 0
      /\ \A x \in Destinations : x # d => g[x] = f[x]
  <2>1. ~Busy(d)' /\ \A x \in Destinations : x # d => (Busy(x)' <=> Busy(x))
    BY DEF TypeOK, Busy
  <2> QED BY <2>1, HeldLostTypes DEF Held
<1>2. Len(queue[d]) \in Nat
  BY DestinationTypes
<1>3. IsFiniteSet(Units(f)) /\ g = [x \in Destinations |-> g[x]]
  BY <1>1 DEF f, g, Held
<1> HIDE DEF f, g
<1>4. f[d] > 0 /\ g[d] = f[d] - 1 /\ g[d] \in Nat
  BY <1>1, <1>2
<1>5. g \in [Destinations -> Nat]
  BY <1>1, <1>3, <1>4
<1>6. g = [f EXCEPT ![d] = @ - 1]
  BY <1>1, <1>4, <1>5
<1>7. IsFiniteSet(Units(g)) /\ Total(g) \in Nat /\ Total(f) = Total(g) + 1
  <2>1. \A h, k \in [Destinations -> Nat] :
          h[d] > 0 /\ k = [h EXCEPT ![d] = @ - 1] /\ IsFiniteSet(Units(h)) =>
            IsFiniteSet(Units(k)) /\ Total(k) \in Nat /\ Total(h) = Total(k) + 1
    BY TotalDown
  <2> QED BY <1>1, <1>3, <1>4, <1>5, <1>6, <2>1
<1> QED BY <1>7 DEF f, g

LEMMA NextCounts ==
  ASSUME IInv, TypeOK', [Next]_vars
  PROVE  Counts'
<1> USE DEF queueVars, engineVars, producerVars, lossVars, endVars
<1> DEFINE held == Total(Held)
           heldNext == Total(Held')
           lost == Total(Lost)
           lostNext == Total(Lost')
           c == Cardinality(Counters)
           cNext == Cardinality(Counters')
<1>1. /\ TypeOK /\ IsFiniteSet(Units(Held)) /\ IsFiniteSet(Units(Lost))
      /\ inflight = held + c /\ notifyDrops = lost
      /\ held \in Nat /\ lost \in Nat /\ c \in Nat
  BY InflightIsHeld DEF IInv, Counts
<1>2. SUFFICES /\ IsFiniteSet(Units(Held')) /\ IsFiniteSet(Units(Lost'))
               /\ inflight' = heldNext + cNext /\ notifyDrops' = lostNext
  BY DEF Counts, InflightExact, DropsExact, Counters
<1> HIDE DEF held, heldNext, lost, lostNext, c, cNext
<1>3. ASSUME Held' = Held PROVE heldNext = held /\ IsFiniteSet(Units(Held'))
  BY <1>1, <1>3 DEF held, heldNext
<1>4. ASSUME Lost' = Lost PROVE lostNext = lost /\ IsFiniteSet(Units(Lost'))
  BY <1>1, <1>4 DEF lost, lostNext
<1>5. ASSUME counted' = counted PROVE cNext = c
  BY <1>5 DEF c, cNext, Counters
<1>6. CASE UNCHANGED <<queue, delivering, engineVars, counted, lossVars>>
  <2>1. Held' = Held /\ Lost' = Lost
    BY <1>6, HeldSame, LostSame DEF Busy
  <2> QED BY <1>1, <1>3, <1>4, <1>5, <1>6, <2>1
<1>7. ASSUME NEW p \in Producers, CountIn(p)
      PROVE  /\ IsFiniteSet(Units(Held')) /\ IsFiniteSet(Units(Lost'))
             /\ inflight' = heldNext + cNext /\ notifyDrops' = lostNext
  <2>1. Held' = Held /\ Lost' = Lost /\ notifyDrops' = notifyDrops
    BY <1>7, HeldSame, LostSame DEF Busy, CountIn
  <2>2. inflight' = inflight + 1 /\ cNext = c + 1
    BY <1>7, CountInStep DEF c, cNext
  <2> QED BY <1>1, <1>3, <1>4, <2>1, <2>2
<1>8. ASSUME NEW p \in Producers, Send(p)
      PROVE  /\ IsFiniteSet(Units(Held')) /\ IsFiniteSet(Units(Lost'))
             /\ inflight' = heldNext + cNext /\ notifyDrops' = lostNext
  <2> DEFINE d == Head(todo[p])
  <2>1. d \in Destinations /\ c = cNext + 1 /\ cNext \in Nat
    BY <1>8, SendStep DEF c, cNext
  <2>2. delivering' = delivering /\ limited' = limited
    BY <1>8 DEF Send
  <2>3. \/ /\ queue' = [queue EXCEPT ![d] = Append(@, offered[d] + 1)]
           /\ Len(queue'[d]) = Len(queue[d]) + 1
           /\ UNCHANGED <<inflight, notifyDrops, overflowed>>
        \/ /\ queue' = queue
           /\ inflight' = inflight - 1 /\ notifyDrops' = notifyDrops + 1
           /\ overflowed' = [overflowed EXCEPT ![d] = @ + 1]
    BY <1>8, SendStep
  <2> HIDE DEF d
  <2>4. CASE /\ queue' = [queue EXCEPT ![d] = Append(@, offered[d] + 1)]
             /\ Len(queue'[d]) = Len(queue[d]) + 1
             /\ UNCHANGED <<inflight, notifyDrops, overflowed>>
    <3>1. \A x \in Destinations : x # d => queue'[x] = queue[x]
      <4>1. queue \in [Destinations -> Seq(Nat \ {0})]
        BY <1>1 DEF TypeOK
      <4> QED BY <2>4, <4>1
    <3>2. IsFiniteSet(Units(Held')) /\ heldNext = held + 1
      BY <1>1, <2>1, <2>2, <2>4, <3>1, HeldOneMore DEF held, heldNext
    <3>3. Lost' = Lost
      BY <2>2, <2>4, LostSame
    <3> QED BY <1>1, <1>4, <2>1, <2>4, <3>2, <3>3
  <2>5. CASE /\ queue' = queue
             /\ inflight' = inflight - 1 /\ notifyDrops' = notifyDrops + 1
             /\ overflowed' = [overflowed EXCEPT ![d] = @ + 1]
    <3>1. Held' = Held
      BY <2>2, <2>5, HeldSame DEF Busy
    <3>2. IsFiniteSet(Units(Lost')) /\ lostNext = lost + 1
      BY <1>1, <2>1, <2>2, <2>5, LostOneMore DEF lost, lostNext
    <3> QED BY <1>1, <1>3, <2>1, <2>5, <3>1, <3>2
  <2> QED BY <2>3, <2>4, <2>5
<1>9. ASSUME NEW d \in Destinations, Take(d)
      PROVE  /\ IsFiniteSet(Units(Held')) /\ IsFiniteSet(Units(Lost'))
             /\ inflight' = heldNext + cNext /\ notifyDrops' = lostNext
  <2>1. Held' = Held
    <3>1. /\ queue' = [queue EXCEPT ![d] = Tail(@)] /\ Len(queue[d]) = Len(queue'[d]) + 1
          /\ ~Busy(d) /\ Head(queue[d]) \in Nat \ {0} /\ queue'[d] \in Seq(Nat \ {0})
      BY <1>9, TakeStep
    <3>2. PICK k : delivering' = [delivering EXCEPT ![d] = [n |-> Head(queue[d]), posts |-> k]]
      BY <1>9, TakeStep
    <3>3. /\ queue \in [Destinations -> Seq(Nat \ {0})]
          /\ delivering \in [Destinations -> InHand \cup {Idle}]
      BY <1>1 DEF TypeOK
    <3>4. Busy(d)'
      BY <3>1, <3>2, <3>3 DEF Busy, Idle
    <3>5. \A x \in Destinations : x # d => queue'[x] = queue[x] /\ (Busy(x)' <=> Busy(x))
      BY <3>1, <3>2, <3>3 DEF Busy
    <3>6. Len(queue'[d]) \in Nat
      BY <3>1, LenProperties
    <3>7. ASSUME NEW x \in Destinations
          PROVE  Len(queue[x]) + (IF Busy(x) THEN 1 ELSE 0)
                   = Len(queue'[x]) + (IF Busy(x)' THEN 1 ELSE 0)
      <4>1. CASE x = d
        BY <3>1, <3>4, <3>6, <4>1
      <4>2. CASE x # d
        BY <3>5, <4>2
      <4> QED BY <4>1, <4>2
    <3> QED BY <3>7 DEF Held
  <2>2. inflight' = inflight /\ counted' = counted /\ overflowed' = overflowed
    BY <1>9 DEF Take
  <2>3. CASE UNCHANGED <<notifyDrops, limited>>
    <3>1. Lost' = Lost
      BY <2>2, <2>3, LostSame
    <3> QED BY <1>1, <1>3, <1>4, <1>5, <2>1, <2>2, <2>3, <3>1
  <2>4. CASE notifyDrops' = notifyDrops + 1 /\ limited' = [limited EXCEPT ![d] = @ + 1]
    <3>1. IsFiniteSet(Units(Lost')) /\ lostNext = lost + 1
      BY <1>1, <2>2, <2>4, LostOneMore DEF lost, lostNext
    <3> QED BY <1>1, <1>3, <1>5, <2>1, <2>2, <2>4, <3>1
  <2> QED BY <1>9, <2>3, <2>4, TakeStep
<1>10. ASSUME NEW d \in Destinations, Settle(d)
       PROVE  /\ IsFiniteSet(Units(Held')) /\ IsFiniteSet(Units(Lost'))
              /\ inflight' = heldNext + cNext /\ notifyDrops' = lostNext
  <2>1. /\ Busy(d) /\ delivering' = [delivering EXCEPT ![d] = Idle] /\ inflight' = inflight - 1
        /\ UNCHANGED <<queue, notifyDrops, counted, overflowed, limited>>
    BY <1>10 DEF Settle
  <2>2. IsFiniteSet(Units(Held')) /\ heldNext \in Nat /\ held = heldNext + 1
    BY <1>1, <2>1, HeldOneFewer DEF held, heldNext
  <2>3. Lost' = Lost
    BY <2>1, LostSame
  <2> QED BY <1>1, <1>4, <1>5, <2>1, <2>2, <2>3
<1>11. CASE HistoryNotify \/ \E d \in Destinations : Answer(d) \/ Deadline(d)
  <2>1. UNCHANGED <<queue, inflight, notifyDrops, counted, overflowed, limited>>
    BY <1>11 DEF HistoryNotify, Answer, Deadline
  <2>2. Held' = Held
    BY <1>11, <2>1, HandStays, HeldSame
  <2>3. Lost' = Lost
    BY <2>1, LostSame
  <2> QED BY <1>1, <1>3, <1>4, <1>5, <2>1, <2>2, <2>3
<1> QED
  BY <1>6, <1>7, <1>8, <1>9, <1>10, <1>11
  DEF Next, Produce, Pump, End, Check, Serve, Shared, Tick, Stop, StartFlush, FlushDone,
      FlushGivesUp, Exit, vars

LEMMA SpecIInv == Spec => []IInv
<1>1. IInv /\ [Next]_vars => IInv'
  BY NextTypeOK, NextWorking, NextCounts DEF IInv
<1> QED BY <1>1, InitIInv, PTL DEF Spec

LEMMA NextGuarded ==
  ASSUME IInv, NeverUnauthenticated, [Next]_vars
  PROVE  NeverUnauthenticated'
<1> USE DEF queueVars, engineVars, producerVars, lossVars, endVars
<1> DEFINE Entered == hooks.accepted > 0 \/ \E h \in Handlers : todo[h] # <<>>
<1>0. /\ todo \in [Producers -> Seq(Destinations)] /\ hooks \in [accepted : Nat, rejected : Nat]
      /\ Handlers \subseteq Producers /\ Checker \notin Handlers
  BY DeliveryAssumption DEF DeliveryAssumption, IInv, TypeOK, Producers
<1>1. ASSUME NEW h \in Handlers, NEW req \in Requests, Serve(h, req)
      PROVE  conf' = conf /\ conf.opts.token # NoToken
  BY <1>1 DEF Serve, Serves
<1>2. ASSUME NEW k \in 1..2, Check(k)
      PROVE  conf' = conf /\ (Entered' <=> Entered)
  BY <1>0, <1>2 DEF Check
<1>3. ASSUME NEW p \in Producers, Send(p)
      PROVE  conf' = conf /\ (Entered' => Entered)
  <2>1. /\ todo[p] # <<>> /\ todo' = [todo EXCEPT ![p] = Tail(@)] /\ conf' = conf
        /\ \/ hooks' = hooks
           \/ p \in Handlers /\ hooks' = [hooks EXCEPT !.accepted = @ + 1]
    BY <1>3, SendStep DEF Send
  <2>2. ASSUME NEW h \in Handlers, todo'[h] # <<>> PROVE todo[h] # <<>>
    BY <1>0, <2>1, <2>2
  <2>3. hooks'.accepted > 0 => hooks.accepted > 0 \/ p \in Handlers
    BY <1>0, <2>1
  <2> QED BY <2>1, <2>2, <2>3
<1>4. CASE UNCHANGED <<conf, todo, hooks>>
  BY <1>4 DEF NeverUnauthenticated
<1> QED
  BY <1>1, <1>2, <1>3, <1>4
  DEF NeverUnauthenticated, Next, Produce, Pump, End, CountIn, Take, Answer, Deadline, Settle,
      HistoryNotify, Shared, Tick, Stop, StartFlush, FlushDone, FlushGivesUp, Exit, vars

(* inflight is what is queued, in hand or being queued, and notifyDrops    *)
(* what queues and limiters lost, whoever sends and however pumps, checks  *)
(* and webhooks interleave (Engine.inflight, dispatch.go); and no alert    *)
(* enters through a surface that asks for no token.                        *)
THEOREM DeliveryAlwaysExact == Spec => []DeliveryInv
<1>1. Init => NeverUnauthenticated
  BY DEF Init, NeverUnauthenticated, Producers
<1>2. IInv /\ NeverUnauthenticated /\ [Next]_vars => NeverUnauthenticated'
  BY NextGuarded
<1>3. IInv /\ NeverUnauthenticated => DeliveryInv
  BY DEF IInv, Counts, DeliveryInv
<1> QED BY <1>1, <1>2, <1>3, SpecIInv, PTL DEF Spec

-----------------------------------------------------------------------------
(* What Flush may say: every alert offered is taken, queued or overflowed, *)
(* and every one the history's pump took is written, limited, or still in  *)
(* its hand with the line not written.                                     *)

Ledger(d) == offered[d] = Len(taken[d]) + Len(queue[d]) + overflowed[d]

Stages == {"idle", "open", "moved", "written", "read"}

HistoryTypeOK ==
  /\ at \in [Processes -> Stages]
  /\ entry \in [Processes -> Int]
  /\ written \in Seq(Int)
  /\ failed \in [Processes -> Nat]

Unwritten ==
  IF delivering[History].posts > 0 /\ at[Self] \in {"idle", "open", "moved"} THEN 1 ELSE 0

HistoryBook ==
  /\ InFlight(Self) => entry[Self] > 0
  /\ InFlight(Other) => entry[Other] < 0
  /\ Running => /\ at[Self] # "idle" => delivering[History].posts > 0
                /\ Appended + Unwritten + limited[History] = Len(taken[History])

FlushInv ==
  /\ HistoryTypeOK
  /\ \A d \in Destinations : Ledger(d) /\ mark[d] <= offered[d]
  /\ HistoryBook
  /\ FlushSettles

Ours(s) == {i \in 1..Len(s) : s[i] > 0}

LEMMA OursFinite ==
  ASSUME NEW s \in Seq(Int)
  PROVE  IsFiniteSet(Ours(s)) /\ Cardinality(Ours(s)) \in Nat
<1>1. Len(s) \in Nat
  BY LenProperties
<1>2. IsFiniteSet(1..Len(s)) /\ Ours(s) \subseteq 1..Len(s)
  BY <1>1, FS_Interval DEF Ours
<1> QED BY <1>2, FS_Subset, FS_CardinalityType

(* A line of this process is one more of its own, another's is not. *)
LEMMA OursAppend ==
  ASSUME NEW s \in Seq(Int), NEW e \in Int
  PROVE  /\ e > 0 => Cardinality(Ours(Append(s, e))) = Cardinality(Ours(s)) + 1
         /\ ~(e > 0) => Cardinality(Ours(Append(s, e))) = Cardinality(Ours(s))
<1> DEFINE t == Append(s, e)
           A == Ours(s)
           B == Ours(t)
           n == Len(s)
<1>1. /\ n \in Nat /\ Len(t) = n + 1 /\ t[n + 1] = e
      /\ \A i \in 1..n : t[i] = s[i]
  BY LenProperties, AppendProperties
<1>2. IsFiniteSet(A)
  BY OursFinite
<1>3. \A i \in 1..(n + 1) : i \in 1..n \/ i = n + 1
  BY <1>1
<1>a. A = {i \in 1..n : s[i] > 0} /\ B = {i \in 1..(n + 1) : t[i] > 0}
  BY <1>1 DEF Ours
<1> HIDE DEF A, B, n, t
<1>4. n + 1 \notin A /\ 1..n \subseteq 1..(n + 1) /\ n + 1 \in 1..(n + 1)
  BY <1>1, <1>a
<1>5. e > 0 => B = A \cup {n + 1}
  BY <1>1, <1>3, <1>4, <1>a
<1>6. ~(e > 0) => B = A
  BY <1>1, <1>3, <1>4, <1>a
<1>7. e > 0 => Cardinality(B) = Cardinality(A) + 1
  BY <1>2, <1>4, <1>5, FS_AddElement
<1> QED BY <1>6, <1>7 DEF A, B, t

(* What the steps of an append do, to its process and to the others. *)
LEMMA AppendSteps ==
  ASSUME HistoryTypeOK, NEW p \in Processes, NEW q \in Processes \ {p}
  PROVE  /\ \A e \in Int : Open(p, e) =>
              /\ at[p] = "idle" /\ at'[p] = "open" /\ at'[q] = at[q]
              /\ entry'[p] = e /\ entry'[q] = entry[q] /\ written' = written
              /\ failed' = failed
              /\ at' \in [Processes -> Stages] /\ entry' \in [Processes -> Int]
         /\ Write(p) =>
              /\ InFlight(p) /\ at'[p] \in {"idle", "written"} /\ at'[q] = at[q]
              /\ entry' = entry /\ written' = Append(written, entry[p])
              /\ failed' = failed
              /\ at' \in [Processes -> Stages]
         /\ AppendFails(p) =>
              /\ InFlight(p) /\ at'[p] = "idle" /\ at'[q] = at[q]
              /\ entry' = entry /\ written' = written
              /\ failed' \in [Processes -> Nat]
              /\ failed'[p] = failed[p] + 1 /\ failed'[q] = failed[q]
              /\ at' \in [Processes -> Stages]
         /\ Compact(p) =>
              /\ at[p] \in {"written", "read"} /\ at'[p] \in {"idle", "read"}
              /\ at'[q] = at[q] \/ (at[q] = "open" /\ at'[q] = "moved")
              /\ entry' = entry /\ written' = written /\ failed' = failed
              /\ at' \in [Processes -> Stages]
         /\ Die(p) =>
              /\ at'[p] = "idle" /\ at'[q] = at[q]
              /\ entry' = entry /\ written' = written /\ failed' = failed
              /\ at' \in [Processes -> Stages]
<1>0. /\ at \in [Processes -> Stages] /\ entry \in [Processes -> Int]
      /\ failed \in [Processes -> Nat]
  BY DEF HistoryTypeOK
<1>1. ASSUME NEW e \in Int, Open(p, e)
      PROVE  /\ at[p] = "idle" /\ at'[p] = "open" /\ at'[q] = at[q]
             /\ entry'[p] = e /\ entry'[q] = entry[q] /\ written' = written
             /\ failed' = failed
             /\ at' \in [Processes -> Stages] /\ entry' \in [Processes -> Int]
  BY <1>0, <1>1 DEF Open, Stages
<1>2. ASSUME Write(p)
      PROVE  /\ InFlight(p) /\ at'[p] \in {"idle", "written"} /\ at'[q] = at[q]
             /\ entry' = entry /\ written' = Append(written, entry[p])
             /\ failed' = failed
             /\ at' \in [Processes -> Stages]
  BY <1>0, <1>2 DEF Write, Stages
<1>3. ASSUME Compact(p)
      PROVE  /\ at[p] \in {"written", "read"} /\ at'[p] \in {"idle", "read"}
             /\ at'[q] = at[q] \/ (at[q] = "open" /\ at'[q] = "moved")
             /\ entry' = entry /\ written' = written /\ failed' = failed
             /\ at' \in [Processes -> Stages]
  <2>1. CASE ReadLines(p)
    BY <1>0, <2>1 DEF ReadLines, Stages
  <2>2. CASE WriteLines(p)
    BY <1>0, <2>2 DEF WriteLines, Compacting, Stages
  <2>3. CASE CompactFails(p)
    BY <1>0, <2>3 DEF CompactFails, Stages
  <2> QED BY <1>3, <2>1, <2>2, <2>3 DEF Compact
<1>4. ASSUME Die(p)
      PROVE  /\ at'[p] = "idle" /\ at'[q] = at[q]
             /\ entry' = entry /\ written' = written /\ failed' = failed
             /\ at' \in [Processes -> Stages]
  BY <1>0, <1>4 DEF Die, Stages
<1>5. ASSUME AppendFails(p)
      PROVE  /\ InFlight(p) /\ at'[p] = "idle" /\ at'[q] = at[q]
             /\ entry' = entry /\ written' = written
             /\ failed' \in [Processes -> Nat]
             /\ failed'[p] = failed[p] + 1 /\ failed'[q] = failed[q]
             /\ at' \in [Processes -> Stages]
  BY <1>0, <1>5 DEF AppendFails, Stages
<1> QED BY <1>1, <1>2, <1>3, <1>4, <1>5

LEMMA NextLedger ==
  ASSUME IInv, TypeOK', [Next]_vars, NEW d \in Destinations, Ledger(d), mark[d] <= offered[d]
  PROVE  Ledger(d)' /\ mark'[d] <= offered'[d]
<1> USE DEF queueVars, engineVars, producerVars, lossVars, endVars
<1> DEFINE nt == Len(taken[d])
           nq == Len(queue[d])
           nt1 == Len(taken'[d])
           nq1 == Len(queue'[d])
<1>0. /\ nt \in Nat /\ nq \in Nat /\ offered[d] \in Nat /\ overflowed[d] \in Nat
      /\ mark[d] \in Nat /\ offered[d] = nt + nq + overflowed[d] /\ mark[d] <= offered[d]
  BY DestinationTypes DEF IInv, Ledger
<1>1. SUFFICES offered'[d] = nt1 + nq1 + overflowed'[d] /\ mark'[d] <= offered'[d]
  BY DEF Ledger
<1>2. CASE UNCHANGED <<taken, queue, overflowed, offered, mark>>
  BY <1>0, <1>2
<1>3. ASSUME NEW p \in Producers, Send(p)
      PROVE  offered'[d] = nt1 + nq1 + overflowed'[d] /\ mark'[d] <= offered'[d]
  <2> DEFINE x == Head(todo[p])
  <2>1. /\ x \in Destinations /\ offered' = [offered EXCEPT ![x] = @ + 1]
        /\ \/ /\ queue' = [queue EXCEPT ![x] = Append(@, offered[x] + 1)]
              /\ Len(queue'[x]) = Len(queue[x]) + 1 /\ overflowed' = overflowed
           \/ /\ queue' = queue /\ overflowed' = [overflowed EXCEPT ![x] = @ + 1]
    BY <1>3, SendStep
  <2>2. mark' = mark /\ nt1 = nt
    BY <1>3 DEF Send
  <2> HIDE DEF x
  <2>3. /\ queue \in [Destinations -> Seq(Nat \ {0})] /\ offered \in [Destinations -> Nat]
        /\ overflowed \in [Destinations -> Nat]
    BY DEF IInv, TypeOK
  <2>4. CASE x # d
    <3>1. offered'[d] = offered[d] /\ queue'[d] = queue[d] /\ overflowed'[d] = overflowed[d]
      BY <2>1, <2>3, <2>4
    <3> QED BY <1>0, <2>2, <3>1
  <2>5. CASE x = d
    <3>1. /\ offered'[d] = offered[d] + 1
          /\ \/ nq1 = nq + 1 /\ overflowed'[d] = overflowed[d]
             \/ nq1 = nq /\ overflowed'[d] = overflowed[d] + 1
      BY <2>1, <2>3, <2>5
    <3> HIDE DEF nt, nt1, nq, nq1
    <3> QED BY <1>0, <2>2, <3>1
  <2> QED BY <2>4, <2>5
<1>4. ASSUME NEW x \in Destinations, Take(x)
      PROVE  offered'[d] = nt1 + nq1 + overflowed'[d] /\ mark'[d] <= offered'[d]
  <2>1. /\ queue' = [queue EXCEPT ![x] = Tail(@)] /\ Len(queue[x]) = Len(queue'[x]) + 1
        /\ taken' = [taken EXCEPT ![x] = Append(@, Head(queue[x]))]
        /\ Len(taken'[x]) = Len(taken[x]) + 1 /\ queue'[x] \in Seq(Nat \ {0})
    BY <1>4, TakeStep
  <2>2. UNCHANGED <<offered, overflowed, mark>>
    BY <1>4 DEF Take
  <2>3. /\ queue \in [Destinations -> Seq(Nat \ {0})] /\ taken \in [Destinations -> Seq(Nat \ {0})]
    BY DEF IInv, TypeOK
  <2>4. CASE x # d
    <3>1. queue'[d] = queue[d] /\ taken'[d] = taken[d]
      BY <2>1, <2>3, <2>4
    <3> QED BY <1>0, <2>2, <3>1
  <2>5. CASE x = d
    <3>1. nq = nq1 + 1 /\ nt1 = nt + 1 /\ nq1 \in Nat
      BY <2>1, <2>5, LenProperties
    <3> HIDE DEF nt, nt1, nq, nq1
    <3> QED BY <1>0, <2>2, <3>1
  <2> QED BY <2>4, <2>5
<1>5. CASE StartFlush
  <2>1. mark'[d] = offered[d] /\ UNCHANGED <<taken, queue, overflowed, offered>>
    BY <1>5 DEF StartFlush
  <2>2. nt1 = nt /\ nq1 = nq /\ mark'[d] = offered[d] /\ offered'[d] = offered[d]
        /\ overflowed'[d] = overflowed[d]
    BY <2>1
  <2> HIDE DEF nt, nt1, nq, nq1
  <2> QED BY <1>0, <2>2
<1> QED
  BY <1>2, <1>3, <1>4, <1>5
  DEF Next, Produce, Pump, End, Check, Serve, CountIn, Answer, Deadline, Settle, HistoryNotify,
      Shared, Tick, Stop, FlushDone, FlushGivesUp, Exit, vars


(* The end points of an append: what a step of this process's does, and of *)
(* the other's.                                                            *)
LEMMA TwoProcesses ==
  /\ Self \in Processes /\ Other \in Processes \ {Self}
  /\ Other \in Processes /\ Self \in Processes \ {Other}
  /\ History \in Destinations
BY DeliveryAssumption, DestinationsAssumption DEF DeliveryAssumption, DestinationsAssumption

LEMMA HistoryNotifyStep ==
  ASSUME IInv, HistoryTypeOK, HistoryNotify
  PROVE  /\ Running /\ delivering[History].posts > 0 /\ HistoryTypeOK'
         /\ \/ /\ at[Self] = "idle" /\ at'[Self] = "open" /\ at'[Other] = at[Other]
               /\ entry'[Self] > 0 /\ entry'[Other] = entry[Other]
               /\ written' = written /\ failed' = failed
               /\ delivering'[History] = delivering[History]
            \/ /\ InFlight(Self) /\ at'[Self] = "idle" /\ at'[Other] = at[Other]
               /\ entry' = entry /\ written' = written
               /\ failed'[Self] = failed[Self] + 1
            \/ /\ InFlight(Self) /\ at'[Self] \in {"idle", "written"} /\ at'[Other] = at[Other]
               /\ entry' = entry /\ written' = Append(written, entry[Self]) /\ failed' = failed
               /\ at'[Self] # "idle" => delivering'[History] = delivering[History]
            \/ /\ at[Self] \in {"written", "read"} /\ at'[Self] \in {"idle", "read"}
               /\ at'[Other] = at[Other] \/ (at[Other] = "open" /\ at'[Other] = "moved")
               /\ entry' = entry /\ written' = written /\ failed' = failed
               /\ at'[Self] # "idle" => delivering'[History] = delivering[History]
         /\ at'[Self] = "idle" => delivering'[History].posts = 0
<1>0. /\ delivering \in [Destinations -> InHand \cup {Idle}] /\ History \in Destinations
      /\ entry \in [Processes -> Int] /\ written \in Seq(Int) /\ failed \in [Processes -> Nat]
  BY TwoProcesses DEF IInv, TypeOK, HistoryTypeOK
<1>1. Running /\ delivering[History].posts > 0
  BY DEF HistoryNotify
<1>2. delivering[History].n \in Nat \ {0} /\ delivering[History] \in InHand
  BY <1>0, <1>1 DEF InHand, Idle
<1>3. ASSUME delivering' = IF at'[Self] = "idle"
                           THEN [delivering EXCEPT ![History].posts = 0] ELSE delivering
      PROVE  /\ at'[Self] # "idle" => delivering'[History] = delivering[History]
             /\ at'[Self] = "idle" => delivering'[History].posts = 0
  BY <1>0, <1>2, <1>3 DEF InHand
<1>4. CASE Open(Self, delivering[History].n) /\ UNCHANGED delivering
  <2>1. /\ at[Self] = "idle" /\ at'[Self] = "open" /\ at'[Other] = at[Other]
        /\ entry'[Self] = delivering[History].n /\ entry'[Other] = entry[Other]
        /\ written' = written /\ failed' = failed
        /\ at' \in [Processes -> Stages] /\ entry' \in [Processes -> Int]
    BY <1>2, <1>4, TwoProcesses, AppendSteps
  <2>2. HistoryTypeOK' /\ entry'[Self] > 0
    BY <1>0, <1>2, <2>1 DEF HistoryTypeOK
  <2> QED BY <1>1, <1>4, <2>1, <2>2
<1>5. CASE Write(Self) /\ delivering' = IF at'[Self] = "idle"
                                        THEN [delivering EXCEPT ![History].posts = 0] ELSE delivering
  <2>1. /\ InFlight(Self) /\ at'[Self] \in {"idle", "written"} /\ at'[Other] = at[Other]
        /\ entry' = entry /\ written' = Append(written, entry[Self]) /\ failed' = failed
        /\ at' \in [Processes -> Stages]
    BY <1>5, TwoProcesses, AppendSteps
  <2>2. HistoryTypeOK'
    BY <1>0, <2>1, TwoProcesses, AppendProperties DEF HistoryTypeOK
  <2> QED BY <1>1, <1>3, <1>5, <2>1, <2>2
<1>6. CASE Compact(Self) /\ delivering' = IF at'[Self] = "idle"
                                          THEN [delivering EXCEPT ![History].posts = 0] ELSE delivering
  <2>1. /\ at[Self] \in {"written", "read"} /\ at'[Self] \in {"idle", "read"}
        /\ at'[Other] = at[Other] \/ (at[Other] = "open" /\ at'[Other] = "moved")
        /\ entry' = entry /\ written' = written /\ failed' = failed
        /\ at' \in [Processes -> Stages]
    BY <1>6, TwoProcesses, AppendSteps
  <2>2. HistoryTypeOK'
    BY <1>0, <2>1 DEF HistoryTypeOK
  <2> QED BY <1>1, <1>3, <1>6, <2>1, <2>2
<1>7. CASE /\ AppendFails(Self)
           /\ delivering' = IF at'[Self] = "idle"
                            THEN [delivering EXCEPT ![History].posts = 0] ELSE delivering
  <2>1. /\ InFlight(Self) /\ at'[Self] = "idle" /\ at'[Other] = at[Other]
        /\ entry' = entry /\ written' = written
        /\ failed' \in [Processes -> Nat] /\ failed'[Self] = failed[Self] + 1
        /\ at' \in [Processes -> Stages]
    BY <1>7, TwoProcesses, AppendSteps
  <2>2. HistoryTypeOK'
    BY <1>0, <2>1 DEF HistoryTypeOK
  <2> QED BY <1>1, <1>3, <1>7, <2>1, <2>2
<1> QED BY <1>4, <1>5, <1>6, <1>7 DEF HistoryNotify

LEMMA SharedStep ==
  ASSUME IInv, HistoryTypeOK, Shared
  PROVE  /\ HistoryTypeOK' /\ entry'[Self] = entry[Self] /\ failed'[Self] = failed[Self]
         /\ at'[Self] = at[Self] \/ (at[Self] = "open" /\ at'[Self] = "moved")
         /\ \/ /\ written' = written
               /\ \/ entry'[Other] < 0
                  \/ entry'[Other] = entry[Other] /\ ~InFlight(Other)'
            \/ /\ written' = Append(written, entry[Other]) /\ InFlight(Other)
               /\ entry'[Other] = entry[Other]
         /\ UNCHANGED <<delivering, limited, taken, phase>>
<1> USE DEF queueVars, engineVars, producerVars, lossVars, endVars
<1>0. /\ entry \in [Processes -> Int] /\ written \in Seq(Int)
      /\ failed \in [Processes -> Nat]
  BY DEF HistoryTypeOK
<1>1. UNCHANGED <<delivering, limited, taken, phase>>
  BY DEF Shared
<1> DEFINE next == -1 - Cardinality(WrittenThere)
<1>2. next \in Int /\ next < 0
  <2>1. Len(written) \in Nat
    BY <1>0, LenProperties
  <2>2. IsFiniteSet(1..Len(written)) /\ WrittenThere \subseteq 1..Len(written)
    BY <2>1, FS_Interval DEF WrittenThere
  <2>3. Cardinality(WrittenThere) \in Nat
    BY <2>2, FS_Subset, FS_CardinalityType
  <2> QED BY <2>3
<1>3. CASE Open(Other, next)
  <2>1. /\ at[Other] = "idle" /\ at'[Other] = "open" /\ at'[Self] = at[Self]
        /\ entry'[Other] = next /\ entry'[Self] = entry[Self]
        /\ written' = written /\ failed' = failed
        /\ at' \in [Processes -> Stages] /\ entry' \in [Processes -> Int]
    <3> HIDE DEF next
    <3> QED BY <1>2, <1>3, TwoProcesses, AppendSteps
  <2>2. HistoryTypeOK'
    BY <1>0, <2>1 DEF HistoryTypeOK
  <2> QED BY <1>1, <1>2, <2>1, <2>2
<1>4. CASE Write(Other)
  <2>1. /\ InFlight(Other) /\ at'[Other] \in {"idle", "written"} /\ at'[Self] = at[Self]
        /\ entry' = entry /\ written' = Append(written, entry[Other]) /\ failed' = failed
        /\ at' \in [Processes -> Stages]
    BY <1>4, TwoProcesses, AppendSteps
  <2>2. HistoryTypeOK'
    BY <1>0, <2>1, TwoProcesses, AppendProperties DEF HistoryTypeOK
  <2> QED BY <1>1, <2>1, <2>2
<1>5. CASE Compact(Other)
  <2>1. /\ at'[Other] \in {"idle", "read"}
        /\ at'[Self] = at[Self] \/ (at[Self] = "open" /\ at'[Self] = "moved")
        /\ entry' = entry /\ written' = written /\ failed' = failed
        /\ at' \in [Processes -> Stages]
    BY <1>5, TwoProcesses, AppendSteps
  <2>2. HistoryTypeOK' /\ ~InFlight(Other)'
    BY <1>0, <2>1 DEF HistoryTypeOK, InFlight
  <2> QED BY <1>1, <2>1, <2>2
<1>6. CASE Die(Other)
  <2>1. /\ at'[Other] = "idle" /\ at'[Self] = at[Self]
        /\ entry' = entry /\ written' = written /\ failed' = failed
        /\ at' \in [Processes -> Stages]
    BY <1>6, TwoProcesses, AppendSteps
  <2>2. HistoryTypeOK' /\ ~InFlight(Other)'
    BY <1>0, <2>1 DEF HistoryTypeOK, InFlight
  <2> QED BY <1>1, <2>1, <2>2
<1>7. CASE AppendFails(Other)
  <2>1. /\ at'[Other] = "idle" /\ at'[Self] = at[Self]
        /\ entry' = entry /\ written' = written
        /\ failed' \in [Processes -> Nat] /\ failed'[Self] = failed[Self]
        /\ at' \in [Processes -> Stages]
    BY <1>7, TwoProcesses, AppendSteps
  <2>2. HistoryTypeOK' /\ ~InFlight(Other)'
    BY <1>0, <2>1 DEF HistoryTypeOK, InFlight
  <2> QED BY <1>1, <2>1, <2>2
<1> QED BY <1>3, <1>4, <1>5, <1>6, <1>7 DEF Shared

LEMMA ExitStep ==
  ASSUME IInv, HistoryTypeOK, Exit
  PROVE  /\ HistoryTypeOK' /\ ~Running' /\ at'[Self] = "idle" /\ at'[Other] = at[Other]
         /\ entry' = entry /\ written' = written /\ failed' = failed
<1>1. /\ at'[Self] = "idle" /\ at'[Other] = at[Other]
      /\ entry' = entry /\ written' = written /\ failed' = failed
      /\ at' \in [Processes -> Stages]
  BY TwoProcesses, AppendSteps DEF Exit
<1>2. HistoryTypeOK'
  BY <1>1 DEF HistoryTypeOK
<1> QED BY <1>1, <1>2 DEF Exit, Running


LEMMA NextHistoryTypeOK ==
  ASSUME IInv, HistoryTypeOK, [Next]_vars
  PROVE  HistoryTypeOK'
<1>1. CASE UNCHANGED historyVars
  BY <1>1 DEF HistoryTypeOK, historyVars
<1>2. CASE HistoryNotify
  BY <1>2, HistoryNotifyStep
<1>3. CASE Shared
  BY <1>3, SharedStep
<1>4. CASE Exit
  BY <1>4, ExitStep
<1> QED
  BY <1>1, <1>2, <1>3, <1>4
  DEF Next, Produce, Pump, End, Check, Serve, CountIn, Send, Take, Answer, Deadline, Settle,
      Tick, Stop, StartFlush, FlushDone, FlushGivesUp, vars

(* How many appends of this process are over, when a line is added, an     *)
(* append fails, or neither.                                               *)
LEMMA AppendedSteps ==
  ASSUME HistoryTypeOK
  PROVE  /\ Appended \in Nat
         /\ written' = written /\ failed'[Self] = failed[Self] => Appended' = Appended
         /\ written' = written /\ failed'[Self] = failed[Self] + 1 => Appended' = Appended + 1
         /\ \A e \in Int : written' = Append(written, e) /\ failed'[Self] = failed[Self] =>
              /\ e > 0 => Appended' = Appended + 1
              /\ ~(e > 0) => Appended' = Appended
<1> DEFINE w == Cardinality(WrittenHere)
           w1 == Cardinality(WrittenHere')
           f == failed[Self]
           f1 == failed'[Self]
<1>0. written \in Seq(Int) /\ f \in Nat
  BY TwoProcesses DEF HistoryTypeOK
<1>1. WrittenHere = Ours(written) /\ WrittenHere' = Ours(written')
  BY DEF WrittenHere, Ours
<1>2. w \in Nat
  BY <1>0, <1>1, OursFinite
<1>3. \A e \in Int : written' = Append(written, e) =>
        /\ e > 0 => w1 = w + 1
        /\ ~(e > 0) => w1 = w
  BY <1>0, <1>1, OursAppend
<1>4. written' = written => w1 = w
  BY <1>1
<1>5. Appended = w + f /\ Appended' = w1 + f1
  BY DEF Appended
<1> HIDE DEF w, w1, f, f1
<1>6. /\ Appended \in Nat
      /\ written' = written /\ f1 = f => Appended' = Appended
      /\ written' = written /\ f1 = f + 1 => Appended' = Appended + 1
      /\ \A e \in Int : written' = Append(written, e) /\ f1 = f =>
           /\ e > 0 => Appended' = Appended + 1
           /\ ~(e > 0) => Appended' = Appended
  BY <1>0, <1>2, <1>3, <1>4, <1>5
<1> QED BY <1>6 DEF f, f1

(* The lines of an append keep their sign. *)
LEMMA NextSigns ==
  ASSUME IInv, HistoryTypeOK, HistoryBook, [Next]_vars
  PROVE  (InFlight(Self)' => entry'[Self] > 0) /\ (InFlight(Other)' => entry'[Other] < 0)
<1>0. (InFlight(Self) => entry[Self] > 0) /\ (InFlight(Other) => entry[Other] < 0)
  BY DEF HistoryBook
<1>1. CASE UNCHANGED historyVars
  BY <1>0, <1>1 DEF InFlight, historyVars
<1>2. CASE HistoryNotify
  BY <1>0, <1>2, HistoryNotifyStep DEF InFlight
<1>3. CASE Shared
  BY <1>0, <1>3, SharedStep DEF InFlight
<1>4. CASE Exit
  BY <1>0, <1>4, ExitStep DEF InFlight
<1> QED
  BY <1>1, <1>2, <1>3, <1>4
  DEF Next, Produce, Pump, End, Check, Serve, CountIn, Send, Take, Answer, Deadline, Settle,
      Tick, Stop, StartFlush, FlushDone, FlushGivesUp, vars

LEMMA NextHistoryBook ==
  ASSUME IInv, TypeOK', HistoryTypeOK, HistoryBook, [Next]_vars
  PROVE  HistoryBook'
<1> USE DEF queueVars, engineVars, producerVars, lossVars, endVars
<1> DEFINE w == Appended
           w1 == Appended'
           u == Unwritten
           u1 == Unwritten'
           m == limited[History]
           m1 == limited'[History]
           t == Len(taken[History])
           t1 == Len(taken'[History])
           Book1 == /\ at'[Self] # "idle" => delivering'[History].posts > 0
                    /\ w1 + u1 + m1 = t1
<1>0. /\ w \in Nat /\ m \in Nat /\ t \in Nat
      /\ delivering[History].posts \in Nat /\ delivering'[History].posts \in Nat
      /\ at[Self] \in Stages /\ at'[Self] \in Stages
  <2>1. /\ w \in Nat /\ m \in Nat /\ t \in Nat /\ delivering[History].posts \in Nat
    BY TwoProcesses, AppendedSteps, DestinationTypes DEF IInv
  <2>2. delivering' \in [Destinations -> InHand \cup {Idle}]
    BY DEF TypeOK
  <2>3. delivering'[History].posts \in Nat
    BY <2>2, TwoProcesses DEF InHand, Idle
  <2>4. at[Self] \in Stages /\ at'[Self] \in Stages
    BY TwoProcesses, NextHistoryTypeOK DEF HistoryTypeOK
  <2> QED BY <2>1, <2>3, <2>4
<1>1. SUFFICES ASSUME Running' PROVE Book1
  BY NextSigns DEF HistoryBook
<1>2. Running /\ (at[Self] # "idle" => delivering[History].posts > 0) /\ w + u + m = t
  <2>1. ASSUME ~Running PROVE phase' = phase
    BY <2>1
    DEF Next, Produce, Pump, End, Check, Serve, CountIn, Send, Take, Answer, Deadline, Settle,
        HistoryNotify, Shared, Tick, Stop, StartFlush, FlushDone, FlushGivesUp, Flushing, Exit,
        vars, Running
  <2> QED BY <1>1, <2>1 DEF HistoryBook, Running
<1>3. /\ u = IF delivering[History].posts > 0 /\ at[Self] \in {"idle", "open", "moved"} THEN 1 ELSE 0
      /\ u1 = IF delivering'[History].posts > 0 /\ at'[Self] \in {"idle", "open", "moved"}
              THEN 1 ELSE 0
  BY DEF Unwritten
<1>4. written' = written /\ failed'[Self] = failed[Self] => w1 = w
  BY AppendedSteps
<1> HIDE DEF w, w1, u, u1
<1>5. CASE /\ UNCHANGED historyVars /\ delivering'[History] = delivering[History]
           /\ UNCHANGED <<taken, limited>>
  BY <1>2, <1>3, <1>4, <1>5 DEF historyVars
<1>6. CASE HistoryNotify
  <2>1. UNCHANGED <<taken, limited>>
    BY <1>6 DEF HistoryNotify
  <2>2. /\ delivering[History].posts > 0
        /\ at'[Self] = "idle" => delivering'[History].posts = 0
        /\ at'[Self] # "idle" => delivering'[History].posts > 0
    BY <1>0, <1>6, HistoryNotifyStep
  <2>3. CASE /\ at[Self] = "idle" /\ at'[Self] = "open"
             /\ written' = written /\ failed' = failed
    BY <1>2, <1>3, <1>4, <2>1, <2>2, <2>3
  <2>4. CASE /\ InFlight(Self) /\ at'[Self] \in {"idle", "written"}
             /\ \/ written' = Append(written, entry[Self]) /\ failed' = failed
                \/ at'[Self] = "idle" /\ written' = written /\ failed'[Self] = failed[Self] + 1
    <3>1. entry[Self] \in Int /\ entry[Self] > 0
      BY <2>4, TwoProcesses DEF HistoryTypeOK, HistoryBook
    <3>2. w1 = w + 1
      BY <2>4, <3>1, AppendedSteps DEF w, w1
    <3>3. u = 1 /\ u1 = 0
      BY <1>3, <2>2, <2>4 DEF InFlight
    <3> HIDE DEF m, m1, t, t1
    <3>4. m1 = m /\ t1 = t
      BY <2>1 DEF m, m1, t, t1
    <3>5. w1 + u1 + m1 = t1
      BY <1>0, <1>2, <3>2, <3>3, <3>4
    <3> QED BY <2>2, <3>5
  <2>5. CASE /\ at[Self] \in {"written", "read"} /\ at'[Self] \in {"idle", "read"}
             /\ written' = written /\ failed' = failed
    BY <1>2, <1>3, <1>4, <2>1, <2>2, <2>5
  <2> QED BY <1>6, <2>3, <2>4, <2>5, HistoryNotifyStep
<1>7. CASE Shared
  <2>1. w1 = w
    <3>1. CASE written' = Append(written, entry[Other]) /\ InFlight(Other)
      <4>1. entry[Other] \in Int /\ entry[Other] < 0
        BY <3>1, TwoProcesses DEF HistoryTypeOK, HistoryBook
      <4>2. ~(entry[Other] > 0)
        BY <4>1
      <4>3. failed'[Self] = failed[Self]
        BY <1>7, SharedStep
      <4> QED BY <3>1, <4>1, <4>2, <4>3, AppendedSteps DEF w, w1
    <3>2. CASE written' = written
      <4>1. failed'[Self] = failed[Self]
        BY <1>7, SharedStep
      <4> QED BY <3>2, <4>1, AppendedSteps DEF w, w1
    <3> QED BY <1>7, <3>1, <3>2, SharedStep
  <2>2. /\ at'[Self] = at[Self] \/ (at[Self] = "open" /\ at'[Self] = "moved")
        /\ UNCHANGED <<delivering, limited, taken>>
    BY <1>7, SharedStep
  <2> QED BY <1>2, <1>3, <2>1, <2>2
<1>8. CASE Exit
  BY <1>1, <1>8, ExitStep
<1>9. ASSUME NEW d \in Destinations, d # History,
             Take(d) \/ Answer(d) \/ Deadline(d) \/ Settle(d)
      PROVE  Book1
  <2>1. /\ delivering \in [Destinations -> InHand \cup {Idle}]
        /\ taken \in [Destinations -> Seq(Nat \ {0})] /\ limited \in [Destinations -> Nat]
        /\ History \in Destinations
    BY TwoProcesses DEF IInv, TypeOK
  <2>2. delivering'[History] = delivering[History] /\ m1 = m /\ t1 = t
    BY <1>9, <2>1 DEF Take, Answer, Deadline, Settle
  <2>3. UNCHANGED historyVars
    BY <1>9 DEF Take, Answer, Deadline, Settle
  <2> QED BY <1>2, <1>3, <1>4, <2>2, <2>3 DEF historyVars
<1>10. CASE Take(History)
  <2>1. /\ delivering \in [Destinations -> InHand \cup {Idle}]
        /\ limited \in [Destinations -> Nat] /\ History \in Destinations
        /\ taken \in [Destinations -> Seq(Nat \ {0})]
    BY TwoProcesses DEF IInv, TypeOK
  <2>2. ~Busy(History) /\ UNCHANGED historyVars
    BY <1>10 DEF Take
  <2>3. delivering[History].posts = 0 /\ at[Self] = "idle" /\ u = 0
    BY <1>0, <1>2, <1>3, <2>2 DEF Busy, Idle
  <2>4. t1 = t + 1
    BY <1>10, TwoProcesses, TakeStep
  <2>5. PICK k \in Nat :
          /\ delivering' = [delivering EXCEPT ![History] = [n |-> Head(queue[History]), posts |-> k]]
          /\ \/ k = 0 /\ limited' = [limited EXCEPT ![History] = @ + 1]
             \/ k \in Posts(History) /\ limited' = limited
    BY <1>10, TwoProcesses, TakeStep
  <2>6. Posts(History) = {1}
    BY DEF Posts, History
  <2>7. delivering'[History].posts = k /\ at'[Self] = "idle"
    BY <2>1, <2>2, <2>3, <2>5 DEF historyVars
  <2>8. w1 = w
    BY <1>4, <2>2 DEF historyVars
  <2>9. (k = 0 /\ m1 = m + 1) \/ (k = 1 /\ m1 = m)
    BY <2>1, <2>5, <2>6
  <2>10. u1 = k
    BY <1>3, <2>7, <2>9
  <2> HIDE DEF m, m1, t, t1
  <2>11. w1 + u1 + m1 = t1
    BY <1>0, <1>2, <2>3, <2>4, <2>8, <2>9, <2>10
  <2> QED BY <2>7, <2>11
<1>11. CASE Settle(History)
  <2>1. /\ delivering \in [Destinations -> InHand \cup {Idle}] /\ History \in Destinations
    BY TwoProcesses DEF IInv, TypeOK
  <2>2. /\ delivering[History].posts = 0 /\ delivering'[History].posts = 0
        /\ UNCHANGED <<historyVars, taken, limited>>
    BY <1>11, <2>1 DEF Settle, Idle
  <2> QED BY <1>0, <1>2, <1>3, <1>4, <2>2 DEF historyVars
<1> QED
  BY <1>5, <1>6, <1>7, <1>8, <1>9, <1>10, <1>11
  DEF Next, Produce, Pump, End, Check, Serve, CountIn, Send, Answer, Deadline, Tick, Stop,
      StartFlush, FlushDone, FlushGivesUp, vars


(* When Flush finds nothing in flight, nothing is held anywhere. *)
LEMMA NothingInFlight ==
  ASSUME IInv, inflight = 0, NEW d \in Destinations
  PROVE  queue[d] = <<>> /\ ~Busy(d)
<1> DEFINE f == Held
<1>1. f \in [Destinations -> Nat] /\ f[d] = Len(queue[d]) + (IF Busy(d) THEN 1 ELSE 0)
  BY HeldLostTypes DEF IInv
<1>2. Total(f) = 0 /\ IsFiniteSet(Units(f))
  <2>1. IsFiniteSet(Units(Held))
    BY DEF IInv, Counts
  <2> HIDE DEF f
  <2>2. /\ inflight = Total(Held) + Cardinality(Counters)
        /\ Total(Held) \in Nat /\ Cardinality(Counters) \in Nat
    BY InflightIsHeld
  <2>3. Total(Held) = 0
    BY <2>2
  <2> QED BY <2>1, <2>3 DEF f
<1> HIDE DEF f
<1>3. f[d] = 0
  BY <1>1, <1>2, TotalZero
<1>4. queue[d] \in Seq(Nat \ {0}) /\ Len(queue[d]) \in Nat
  BY DestinationTypes DEF IInv
<1>5. Len(queue[d]) = 0 /\ ~Busy(d)
  <2> DEFINE b == IF Busy(d) THEN 1 ELSE 0
             n == Len(queue[d])
  <2>1. b \in Nat /\ (b = 0 => ~Busy(d)) /\ n \in Nat
    BY <1>4
  <2>2. n + b = 0
    BY <1>1, <1>3
  <2> HIDE DEF b, n
  <2>3. b = 0 /\ n = 0
    BY <2>1, <2>2
  <2> QED BY <2>1, <2>3 DEF n
<1> QED BY <1>4, <1>5, EmptySeq

(* While the program waits to exit, what is queued or in hand stays newer  *)
(* than the mark.                                                          *)
LEMMA NextNewer ==
  ASSUME IInv, TypeOK', [Next]_vars, NEW d \in Destinations,
         mark'[d] = mark[d], mark[d] <= offered[d],
         \A i \in 1..Len(queue[d]) : queue[d][i] > mark[d],
         Busy(d) => delivering[d].n > mark[d]
  PROVE  /\ \A i \in 1..Len(queue'[d]) : queue'[d][i] > mark'[d]
         /\ Busy(d)' => delivering'[d].n > mark'[d]
<1> USE DEF queueVars, engineVars, producerVars, lossVars, endVars
<1>0. /\ queue \in [Destinations -> Seq(Nat \ {0})] /\ queue[d] \in Seq(Nat \ {0})
      /\ delivering \in [Destinations -> InHand \cup {Idle}]
      /\ offered[d] \in Nat /\ mark[d] \in Nat
  BY DestinationTypes DEF IInv, TypeOK
<1>1. CASE UNCHANGED <<queue, delivering>>
  BY <1>1 DEF Busy
<1>2. ASSUME NEW p \in Producers, Send(p)
      PROVE  /\ \A i \in 1..Len(queue'[d]) : queue'[d][i] > mark'[d]
             /\ Busy(d)' => delivering'[d].n > mark'[d]
  <2> DEFINE x == Head(todo[p])
  <2>1. /\ x \in Destinations
        /\ \/ queue' = [queue EXCEPT ![x] = Append(@, offered[x] + 1)]
           \/ queue' = queue
    BY <1>2, SendStep
  <2>2. delivering' = delivering
    BY <1>2 DEF Send
  <2> HIDE DEF x
  <2>3. queue'[d] = queue[d] \/ queue'[d] = Append(queue[d], offered[d] + 1)
    BY <1>0, <2>1
  <2>4. CASE queue'[d] = Append(queue[d], offered[d] + 1)
    <3>1. offered[d] + 1 \in Nat \ {0} /\ offered[d] + 1 > mark[d]
      BY <1>0
    <3>2. /\ Len(queue'[d]) = Len(queue[d]) + 1 /\ queue'[d][Len(queue[d]) + 1] = offered[d] + 1
          /\ \A i \in 1..Len(queue[d]) : queue'[d][i] = queue[d][i]
          /\ Len(queue[d]) \in Nat
      BY <1>0, <2>4, <3>1, AppendProperties, LenProperties
    <3>3. \A i \in 1..(Len(queue[d]) + 1) : i \in 1..Len(queue[d]) \/ i = Len(queue[d]) + 1
      BY <3>2
    <3> QED BY <2>2, <3>1, <3>2, <3>3 DEF Busy
  <2> QED BY <2>2, <2>3, <2>4 DEF Busy
<1>3. ASSUME NEW x \in Destinations, Take(x)
      PROVE  /\ \A i \in 1..Len(queue'[d]) : queue'[d][i] > mark'[d]
             /\ Busy(d)' => delivering'[d].n > mark'[d]
  <2>1. /\ queue' = [queue EXCEPT ![x] = Tail(@)] /\ queue[x] # <<>>
    BY <1>3, TakeStep
  <2>2. PICK k \in Nat :
          delivering' = [delivering EXCEPT ![x] = [n |-> Head(queue[x]), posts |-> k]]
    BY <1>3, TakeStep
  <2>3. CASE x # d
    BY <1>0, <2>1, <2>2, <2>3 DEF Busy
  <2>4. CASE x = d
    <3>1. queue'[d] = Tail(queue[d]) /\ delivering'[d].n = Head(queue[d])
      BY <1>0, <2>1, <2>2, <2>4
    <3>2. /\ Len(queue[d]) \in Nat /\ Len(queue[d]) > 0 /\ Head(queue[d]) = queue[d][1]
          /\ Len(Tail(queue[d])) = Len(queue[d]) - 1
          /\ \A i \in 1..Len(Tail(queue[d])) : Tail(queue[d])[i] = queue[d][i + 1]
      BY <1>0, <2>1, <2>4, HeadTailProperties, EmptySeq, LenProperties
    <3>3. 1 \in 1..Len(queue[d]) /\ \A i \in 1..(Len(queue[d]) - 1) : i + 1 \in 1..Len(queue[d])
      BY <3>2
    <3> QED BY <3>1, <3>2, <3>3
  <2> QED BY <2>3, <2>4
<1>4. ASSUME NEW x \in Destinations, Settle(x)
      PROVE  /\ \A i \in 1..Len(queue'[d]) : queue'[d][i] > mark'[d]
             /\ Busy(d)' => delivering'[d].n > mark'[d]
  <2>1. delivering' = [delivering EXCEPT ![x] = Idle] /\ queue' = queue
    BY <1>4 DEF Settle
  <2> QED BY <1>0, <2>1 DEF Busy
<1>5. CASE HistoryNotify \/ \E x \in Destinations : Answer(x) \/ Deadline(x)
  <2>1. queue' = queue
    BY <1>5 DEF HistoryNotify, Answer, Deadline
  <2> QED BY <1>5, <2>1, HandStays
<1> QED
  BY <1>1, <1>2, <1>3, <1>4, <1>5
  DEF Next, Produce, Pump, End, Check, Serve, CountIn, Shared, Tick, Stop, StartFlush, FlushDone,
      FlushGivesUp, Exit, vars

(* Lines are only ever added, and losses only counted. *)
LEMMA NextGrows ==
  ASSUME IInv, HistoryTypeOK, [Next]_vars
  PROVE  /\ Appended' \in Nat
         /\ Appended' >= Appended
         /\ overflowed'[History] >= overflowed[History]
         /\ limited'[History] >= limited[History]
<1> USE DEF queueVars, engineVars, producerVars, lossVars, endVars
<1> DEFINE w == Appended
           w1 == Appended'
<1>0. /\ w \in Nat /\ History \in Destinations
      /\ overflowed[History] \in Nat /\ limited[History] \in Nat
      /\ overflowed \in [Destinations -> Nat] /\ limited \in [Destinations -> Nat]
  BY TwoProcesses, AppendedSteps DEF IInv, TypeOK
<1>1. w1 \in Nat /\ w1 >= w
  <2>1. \/ /\ written' = written
           /\ failed'[Self] = failed[Self] \/ failed'[Self] = failed[Self] + 1
        \/ failed'[Self] = failed[Self] /\ \E e \in Int : written' = Append(written, e)
    <3>1. entry[Self] \in Int /\ entry[Other] \in Int
      BY TwoProcesses DEF HistoryTypeOK
    <3>2. CASE HistoryNotify
      BY <3>1, <3>2, HistoryNotifyStep
    <3>3. CASE Shared
      BY <3>1, <3>3, SharedStep
    <3>4. CASE Exit
      BY <3>4, ExitStep
    <3> QED
      BY <3>2, <3>3, <3>4
      DEF Next, Produce, Pump, End, Check, Serve, CountIn, Send, Take, Answer, Deadline, Settle,
          Tick, Stop, StartFlush, FlushDone, FlushGivesUp, vars, historyVars
  <2>2. w1 = w \/ w1 = w + 1
    BY <2>1, AppendedSteps
  <2> HIDE DEF w, w1
  <2> QED BY <1>0, <2>2
<1>2. overflowed'[History] >= overflowed[History]
  <2>1. ASSUME NEW p \in Producers, Send(p) PROVE overflowed'[History] >= overflowed[History]
    <3> DEFINE x == Head(todo[p])
    <3>1. overflowed' = overflowed \/ overflowed' = [overflowed EXCEPT ![x] = @ + 1]
      BY <2>1, SendStep
    <3> HIDE DEF x
    <3> QED BY <1>0, <3>1
  <2>2. CASE overflowed' = overflowed
    BY <1>0, <2>2
  <2> QED
    BY <2>1, <2>2
    DEF Next, Produce, Pump, End, Check, Serve, CountIn, Take, Answer, Deadline, Settle,
        HistoryNotify, Shared, Tick, Stop, StartFlush, FlushDone, FlushGivesUp, Exit, vars
<1>3. limited'[History] >= limited[History]
  <2>1. ASSUME NEW x \in Destinations, Take(x) PROVE limited'[History] >= limited[History]
    <3>1. limited' = limited \/ limited' = [limited EXCEPT ![x] = @ + 1]
      BY <2>1 DEF Take
    <3> QED BY <1>0, <3>1
  <2>2. CASE limited' = limited
    BY <1>0, <2>2
  <2> QED
    BY <2>1, <2>2
    DEF Next, Produce, Pump, End, Check, Serve, CountIn, Send, Answer, Deadline, Settle,
        HistoryNotify, Shared, Tick, Stop, StartFlush, FlushDone, FlushGivesUp, Exit, vars
<1> QED BY <1>1, <1>2, <1>3

LEMMA NextFlushSettles ==
  ASSUME IInv, TypeOK', FlushInv, [Next]_vars
  PROVE  FlushSettles'
<1> USE DEF queueVars, engineVars, producerVars, lossVars, endVars
<1> DEFINE w == Appended
           w1 == Appended'
           m == limited[History]
           m1 == limited'[History]
           o == overflowed[History]
           o1 == overflowed'[History]
           k == mark[History]
           t == Len(taken[History])
           n == offered[History]
<1>0. /\ w \in Nat /\ w1 \in Nat /\ m \in Nat /\ o \in Nat /\ k \in Nat /\ t \in Nat /\ n \in Nat
      /\ m1 \in Nat /\ o1 \in Nat
      /\ w1 >= w /\ o1 >= o /\ m1 >= m
  <2>1. /\ w \in Nat /\ m \in Nat /\ o \in Nat /\ k \in Nat /\ t \in Nat /\ n \in Nat
    BY TwoProcesses, AppendedSteps, DestinationTypes DEF FlushInv, IInv
  <2>2. w1 \in Nat /\ w1 >= w /\ o1 >= o /\ m1 >= m
    BY NextGrows DEF FlushInv
  <2>3. m1 \in Nat /\ o1 \in Nat
    BY TwoProcesses DEF TypeOK
  <2> QED BY <2>1, <2>2, <2>3
<1>1. SUFFICES ASSUME phase' = "drained"
               PROVE  /\ \A d \in Destinations :
                           /\ \A i \in 1..Len(queue'[d]) : queue'[d][i] > mark'[d]
                           /\ Busy(d)' => delivering'[d].n > mark'[d]
                      /\ w1 >= mark'[History] - o1 - m1
  BY DEF FlushSettles
<1>2. FlushDone \/ (phase = "drained" /\ mark' = mark)
  BY <1>1
  DEF Next, Produce, Pump, End, Check, Serve, CountIn, Send, Take, Answer, Deadline, Settle,
      HistoryNotify, Shared, Tick, Stop, StartFlush, FlushDone, FlushGivesUp, Exit, vars
<1>3. CASE FlushDone
  <2>1. /\ inflight = 0 /\ Running
        /\ UNCHANGED <<queue, delivering, taken, overflowed, limited, offered, mark>>
        /\ UNCHANGED historyVars
    BY <1>3 DEF FlushDone, Flushing, Running
  <2>2. \A d \in Destinations : queue[d] = <<>> /\ ~Busy(d)
    BY <2>1, NothingInFlight
  <2>3. ASSUME NEW d \in Destinations
        PROVE  /\ \A i \in 1..Len(queue'[d]) : queue'[d][i] > mark'[d]
               /\ Busy(d)' => delivering'[d].n > mark'[d]
    BY <2>1, <2>2, <2>3, EmptySeq DEF Busy
  <2>4. Unwritten = 0
    BY <2>2, TwoProcesses DEF Unwritten, Busy, Idle
  <2>5. w + m = t
    <3>1. w + Unwritten + m = t
      BY <2>1 DEF FlushInv, HistoryBook
    <3> HIDE DEF w, m, t
    <3> QED BY <1>0, <2>4, <3>1
  <2>6. n = t + o /\ k <= n
    <3>1. n = t + Len(queue[History]) + o /\ k <= n
      BY TwoProcesses DEF FlushInv, Ledger
    <3>2. Len(queue[History]) = 0
      BY <2>2, TwoProcesses, EmptySeq
    <3> HIDE DEF n, t, o, k
    <3> QED BY <1>0, <3>1, <3>2
  <2>7. w1 >= mark'[History] - o1 - m1
    <3>1. mark'[History] = k /\ o1 = o /\ m1 = m
      BY <2>1
    <3> HIDE DEF w, w1, m, m1, o, o1, k, t, n
    <3> QED BY <1>0, <2>5, <2>6, <3>1
  <2> QED BY <2>3, <2>7
<1>4. CASE phase = "drained" /\ mark' = mark
  <2>1. /\ \A d \in Destinations :
             /\ \A i \in 1..Len(queue[d]) : queue[d][i] > mark[d]
             /\ Busy(d) => delivering[d].n > mark[d]
        /\ w >= k - o - m
    <3>1. FlushSettles
      BY DEF FlushInv
    <3>2. /\ \A d \in Destinations :
               /\ \A i \in 1..Len(queue[d]) : queue[d][i] > mark[d]
               /\ Busy(d) => delivering[d].n > mark[d]
          /\ Appended >= mark[History] - overflowed[History] - limited[History]
      BY <1>4, <3>1, Zenon DEF FlushSettles
    <3>3. w >= k - o - m
      BY <3>2
    <3> HIDE DEF w, k, o, m
    <3> QED BY <3>2, <3>3, Zenon
  <2>2. ASSUME NEW d \in Destinations
        PROVE  /\ \A i \in 1..Len(queue'[d]) : queue'[d][i] > mark'[d]
               /\ Busy(d)' => delivering'[d].n > mark'[d]
    <3>1. mark'[d] = mark[d] /\ mark[d] <= offered[d]
      BY <1>4 DEF FlushInv
    <3> QED BY <2>1, <3>1, NextNewer
  <2>3. w1 >= mark'[History] - o1 - m1
    <3>1. mark'[History] = k
      BY <1>4
    <3> HIDE DEF w, w1, m, m1, o, o1, k
    <3> QED BY <1>0, <2>1, <3>1
  <2> QED BY <2>2, <2>3
<1> QED BY <1>2, <1>3, <1>4

LEMMA InitFlushInv == Init => FlushInv
<1> SUFFICES ASSUME Init PROVE FlushInv
  OBVIOUS
<1>1. HistoryTypeOK
  BY DEF Init, HistoryInit, HistoryTypeOK, Stages
<1>2. \A d \in Destinations : Ledger(d) /\ mark[d] <= offered[d]
  BY EmptySeq DEF Init, Ledger
<1>3. WrittenHere = {}
  BY DEF Init, HistoryInit, WrittenHere
<1>4. Cardinality(WrittenHere) = 0
  BY <1>3, FS_EmptySet
<1>5. HistoryBook
  <2>1. at[Self] = "idle" /\ at[Other] = "idle" /\ delivering[History].posts = 0
        /\ limited[History] = 0 /\ Len(taken[History]) = 0
    BY TwoProcesses DEF Init, HistoryInit, Idle
  <2>2. Unwritten = 0
    BY <2>1 DEF Unwritten
  <2>3. Appended = 0
    <3>1. failed[Self] = 0
      BY TwoProcesses DEF Init, HistoryInit
    <3> QED BY <1>4, <3>1 DEF Appended
  <2> QED BY <2>1, <2>2, <2>3 DEF HistoryBook, InFlight
<1>6. FlushSettles
  BY DEF Init, FlushSettles
<1> QED BY <1>1, <1>2, <1>5, <1>6 DEF FlushInv

(* When Flush reports that the queues drained, every alert offered to any  *)
(* destination before it was called has been delivered or was counted as   *)
(* dropped, and the history's are in the file, whatever producers and the  *)
(* other process do meanwhile (Engine.Flush, dispatch.go).                 *)
THEOREM FlushAlwaysSettles == Spec => []FlushSettles
<1>1. IInv /\ TypeOK' /\ FlushInv /\ [Next]_vars => FlushInv'
  <2> SUFFICES ASSUME IInv, TypeOK', FlushInv, [Next]_vars PROVE FlushInv'
    OBVIOUS
  <2>1. HistoryTypeOK' /\ HistoryBook' /\ FlushSettles'
    BY NextHistoryTypeOK, NextHistoryBook, NextFlushSettles DEF FlushInv
  <2>2. ASSUME NEW d \in Destinations PROVE Ledger(d)' /\ mark'[d] <= offered'[d]
    BY NextLedger DEF FlushInv
  <2> QED BY <2>1, <2>2 DEF FlushInv
<1>2. IInv => TypeOK
  BY DEF IInv
<1>3. FlushInv => FlushSettles
  BY DEF FlushInv
<1> QED BY <1>1, <1>2, <1>3, InitFlushInv, SpecIInv, PTL DEF Spec


-----------------------------------------------------------------------------
(* Refinement: each destination's queue is a LossyFifo.                    *)

LEMMA SendFeed ==
  ASSUME IInv, NEW p \in Producers, Send(p), NEW d \in Destinations, d = Head(todo[p])
  PROVE  DestinationFeeds!Offer(d)
<1> DEFINE q == queue[d]
           x == offered[d] + 1
<1>1. /\ q \in Seq(Nat \ {0}) /\ Len(q) \in Nat /\ x \in Nat \ {0}
      /\ queue \in [Destinations -> Seq(Nat \ {0})]
      /\ offered \in [Destinations -> Nat] /\ overflowed \in [Destinations -> Nat]
  <2>1. /\ q \in Seq(Nat \ {0}) /\ Len(q) \in Nat /\ offered[d] \in Nat
    BY DestinationTypes DEF IInv
  <2>2. /\ queue \in [Destinations -> Seq(Nat \ {0})]
        /\ offered \in [Destinations -> Nat] /\ overflowed \in [Destinations -> Nat]
    BY DEF IInv, TypeOK
  <2> QED BY <2>1, <2>2
<1>2. /\ offered' = [offered EXCEPT ![d] = @ + 1]
      /\ \/ /\ queue' = [queue EXCEPT ![d] = Append(@, offered[d] + 1)]
            /\ overflowed' = overflowed
         \/ /\ queue' = queue
            /\ overflowed' = [overflowed EXCEPT ![d] = @ + 1]
  BY SendStep
<1>3. taken' = taken
  BY DEF Send
<1>4. /\ offered'[d] = offered[d] + 1
      /\ \/ queue'[d] = Append(q, x) /\ overflowed'[d] = overflowed[d]
         \/ queue'[d] = q /\ overflowed'[d] = overflowed[d] + 1
  BY <1>1, <1>2
<1>s. q = queue[d] /\ x = offered[d] + 1
  OBVIOUS
<1> HIDE DEF q, x
<1>5. CASE queue'[d] = Append(q, x) /\ overflowed'[d] = overflowed[d]
  <2>1. DestinationFeeds!Accepts(d)
    BY <1>5, <1>s DEF DestinationFeeds!Accepts
  <2> QED BY <1>3, <1>4, <2>1 DEF DestinationFeeds!Offer
<1>6. CASE queue'[d] = q /\ overflowed'[d] = overflowed[d] + 1
  <2>1. Without(Append(q, x), Len(q) + 1) = q
    BY <1>1, RemoveNewest
  <2>2. Len(q) + 1 \in 1..(Len(q) + 1)
    BY <1>1
  <2>3. PICK k \in 1..(Len(queue[d]) + 1) : k = Len(q) + 1
    BY <1>s, <2>2
  <2>4. DestinationFeeds!Loses(d, k)
    BY <1>6, <1>s, <2>1, <2>3 DEF DestinationFeeds!Loses, DestinationFeeds!RemoveAt, Without
  <2>5. \E j \in 1..(Len(queue[d]) + 1) : DestinationFeeds!Loses(d, j)
    BY <2>4
  <2> QED BY <1>3, <1>4, <2>5 DEF DestinationFeeds!Offer
<1> QED BY <1>4, <1>5, <1>6

LEMMA TakeFeed ==
  ASSUME IInv, NEW d \in Destinations, Take(d)
  PROVE  DestinationFeeds!Deliver(d)
<1>1. /\ queue \in [Destinations -> Seq(Nat \ {0})] /\ taken \in [Destinations -> Seq(Nat \ {0})]
  BY DEF IInv, TypeOK
<1>2. /\ queue[d] # <<>> /\ queue'[d] = Tail(queue[d])
      /\ taken'[d] = Append(taken[d], Head(queue[d]))
      /\ UNCHANGED <<offered, overflowed>>
  BY <1>1 DEF Take, producerVars
<1> QED BY <1>2 DEF DestinationFeeds!Deliver

LEMMA DestinationStep ==
  ASSUME IInv, [Next]_vars, NEW d \in Destinations
  PROVE  DestinationFeeds!Offer(d) \/ DestinationFeeds!Deliver(d) \/ DestinationFeeds!Idle(d)
<1> USE DEF queueVars, engineVars, producerVars, lossVars, endVars
<1>1. ASSUME NEW p \in Producers, Send(p)
      PROVE  DestinationFeeds!Offer(d) \/ DestinationFeeds!Idle(d)
  <2> DEFINE x == Head(todo[p])
  <2>1. /\ offered' = [offered EXCEPT ![x] = @ + 1]
        /\ \/ /\ queue' = [queue EXCEPT ![x] = Append(@, offered[x] + 1)]
              /\ overflowed' = overflowed
           \/ /\ queue' = queue
              /\ overflowed' = [overflowed EXCEPT ![x] = @ + 1]
        /\ taken' = taken
    BY <1>1, SendStep DEF Send
  <2>2. CASE x = d
    BY <1>1, <2>2, SendFeed
  <2>3. CASE x # d
    <3> HIDE DEF x
    <3>1. /\ queue \in [Destinations -> Seq(Nat \ {0})]
          /\ offered \in [Destinations -> Nat] /\ overflowed \in [Destinations -> Nat]
      BY DEF IInv, TypeOK
    <3>2. UNCHANGED <<queue[d], offered[d], overflowed[d], taken[d]>>
      BY <2>1, <2>3, <3>1
    <3> QED BY <3>2 DEF DestinationFeeds!Idle
  <2> QED BY <2>2, <2>3
<1>2. ASSUME NEW x \in Destinations, Take(x)
      PROVE  DestinationFeeds!Deliver(d) \/ DestinationFeeds!Idle(d)
  <2>1. CASE x = d
    BY <1>2, <2>1, TakeFeed
  <2>2. CASE x # d
    <3>1. /\ queue \in [Destinations -> Seq(Nat \ {0})]
          /\ taken \in [Destinations -> Seq(Nat \ {0})]
      BY DEF IInv, TypeOK
    <3>2. UNCHANGED <<queue[d], offered[d], overflowed[d], taken[d]>>
      BY <1>2, <2>2, <3>1 DEF Take
    <3> QED BY <3>2 DEF DestinationFeeds!Idle
  <2> QED BY <2>1, <2>2
<1>3. CASE UNCHANGED <<queue, offered, overflowed, taken>>
  BY <1>3 DEF DestinationFeeds!Idle
<1> QED
  BY <1>1, <1>2, <1>3
  DEF Next, Produce, Pump, End, Check, Serve, CountIn, Answer, Deadline, Settle, HistoryNotify,
      Shared, Tick, Stop, StartFlush, FlushDone, FlushGivesUp, Exit, vars

(* A destination's pump gets alerts in the order they were sent to it,     *)
(* each at most once; a full queue loses the new one and counts it         *)
(* (notifierSink.send, deliverLoop).                                       *)
THEOREM DestinationQueuesAreLossyFifos == Spec => DestinationsAreLossyFifos
<1>1. Init => DestinationFeeds!Init
  BY DEF Init, DestinationFeeds!Init
<1>2. IInv /\ [Next]_vars => [DestinationFeeds!Next]_DestinationFeeds!vars
  BY DestinationStep DEF DestinationFeeds!Next
<1>3. Spec => DestinationFeeds!Spec
  BY <1>1, <1>2, SpecIInv, PTL DEF Spec, DestinationFeeds!Spec
<1> QED BY <1>3 DEF DestinationsAreLossyFifos

(* So a destination takes its alerts in the order they were sent to it,    *)
(* none twice, and those that it never takes wait or were counted.         *)
THEOREM DestinationsInOrderAndAccounted ==
  Spec => [](DestinationFeeds!Ordered /\ DestinationFeeds!Accounted)
BY DestinationQueuesAreLossyFifos, DestinationFeeds!FifosAreSound, PTL
   DEF DestinationsAreLossyFifos

-----------------------------------------------------------------------------
(* The history file under two processes.  A sequence of lines is in order  *)
(* when it goes through the written lines forwards, and complete when it   *)
(* has the newest Keep of them but for those that raced a compaction.      *)

Distinct(w) == \A i, j \in 1..Len(w) : w[i] = w[j] => i = j

InOrder(s, w) ==
  /\ \A i \in 1..Len(s) : \E a \in 1..Len(w) : s[i] = w[a]
  /\ \A i, j \in 1..Len(s) : \A a, b \in 1..Len(w) :
       i < j /\ s[i] = w[a] /\ s[j] = w[b] => a < b

Complete(s, w, r) ==
  \A a \in 1..Len(w) : a > Len(w) - Keep =>
    w[a] \in r \/ \E i \in 1..Len(s) : s[i] = w[a]

(* A sequence in order has no more lines behind one than were written       *)
(* behind it: the newest it should have are among the last it has.         *)
LEMMA FewBehind ==
  ASSUME NEW s \in Seq(Int), NEW w \in Seq(Int), InOrder(s, w), Distinct(w),
         NEW k \in 1..Len(s), NEW a \in 1..Len(w), s[k] = w[a]
  PROVE  Len(s) - k <= Len(w) - a
<1> DEFINE m == Len(s)
           n == Len(w)
           S == (k + 1)..m
           T == (a + 1)..n
           place(j) == CHOOSE b \in 1..n : s[j] = w[b]
           f == [j \in S |-> place(j)]
<1>1. m \in Nat /\ n \in Nat /\ k \in 1..m /\ a \in 1..n
  BY LenProperties
<1>2. ASSUME NEW j \in S PROVE f[j] \in 1..n /\ s[j] = w[f[j]] /\ f[j] \in T
  <2>1. j \in 1..m /\ k < j
    BY <1>1
  <2>2. \E b \in 1..n : s[j] = w[b]
    BY <2>1 DEF InOrder
  <2>3. f[j] \in 1..n /\ s[j] = w[f[j]]
    BY <2>2
  <2>4. a < f[j]
    <3> HIDE DEF f
    <3> QED BY <2>1, <2>3 DEF InOrder
  <2> HIDE DEF f
  <2> QED BY <1>1, <2>3, <2>4
<1>3. ASSUME NEW i \in S, NEW j \in S, f[i] = f[j] PROVE i = j
  <2>1. i \in 1..m /\ j \in 1..m
    BY <1>1
  <2>2. /\ f[i] \in 1..n /\ s[i] = w[f[i]]
        /\ f[j] \in 1..n /\ s[j] = w[f[j]]
    BY <1>2
  <2> HIDE DEF f
  <2>3. f[i] \in Int /\ s[j] = w[f[i]] /\ s[i] = w[f[i]]
    BY <1>1, <1>3, <2>2
  <2>4. ASSUME i < j PROVE FALSE
    <3>1. f[i] < f[i]
      BY <2>1, <2>2, <2>3, <2>4 DEF InOrder
    <3> QED BY <2>3, <3>1
  <2>5. ASSUME j < i PROVE FALSE
    <3>1. f[i] < f[i]
      BY <2>1, <2>2, <2>3, <2>5 DEF InOrder
    <3> QED BY <2>3, <3>1
  <2> HIDE DEF S
  <2>6. i \in Int /\ j \in Int
    BY <1>1, <2>1
  <2> QED BY <2>4, <2>5, <2>6
<1>4. f \in Injection(S, T)
  <2>1. f = [j \in S |-> f[j]]
    <3> HIDE DEF place
    <3> QED OBVIOUS
  <2> HIDE DEF f, S, T
  <2>2. f \in [S -> T]
    BY <1>2, <2>1
  <2> QED BY <1>3, <2>2 DEF Injection, IsInjective
<1>5. /\ IsFiniteSet(T)
      /\ Cardinality(S) = IF k + 1 > m THEN 0 ELSE m - (k + 1) + 1
      /\ Cardinality(T) = IF a + 1 > n THEN 0 ELSE n - (a + 1) + 1
  <2> HIDE DEF m, n
  <2>1. k + 1 \in Int /\ m \in Int /\ a + 1 \in Int /\ n \in Int
    BY <1>1
  <2> QED BY <2>1, FS_Interval
<1>6. Cardinality(S) <= Cardinality(T)
  <2> HIDE DEF S, T, f
  <2> QED BY <1>4, <1>5, FS_Injection
<1> HIDE DEF S, T, m, n
<1>7. m - k <= n - a
  BY <1>1, <1>5, <1>6
<1> QED BY <1>7 DEF m, n

(* What Newest keeps is the end of its sequence. *)
LEMMA NewestProperties ==
  ASSUME NEW s \in Seq(Int), Keep \in Nat
  PROVE  /\ Newest(s) \in Seq(Int)
         /\ \E o \in Nat :
              /\ Len(s) = o + Len(Newest(s))
              /\ o > 0 => Len(Newest(s)) = Keep
              /\ \A i \in 1..Len(Newest(s)) : Newest(s)[i] = s[o + i]
<1> DEFINE n == Len(s)
           o == IF n <= Keep THEN 0 ELSE n - Keep
           t == SubSeq(s, o + 1, n)
<1>1. n \in Nat /\ \A i \in 1..n : s[i] \in Int
  BY LenProperties, ElementOfSeq
<1>2. Newest(s) = t
  <2>1. (IF n <= Keep THEN 1 ELSE n - Keep + 1) = o + 1
    BY <1>1
  <2> HIDE DEF n, o
  <2>2. Newest(s) = SubSeq(s, IF n <= Keep THEN 1 ELSE n - Keep + 1, n)
    BY DEF Newest, n
  <2> QED BY <2>1, <2>2
<1>3. o \in Nat /\ o <= n /\ (o > 0 => n - o = Keep)
  BY <1>1
<1>n. n = Len(s)
  OBVIOUS
<1> HIDE DEF n, o
<1>4. /\ t \in Seq(Int) /\ Len(t) = n - (o + 1) + 1
      /\ \A i \in 1..(n - (o + 1) + 1) : t[i] = s[(o + 1) + i - 1]
  <2>1. o + 1 \in Nat /\ o + 1 > 0 /\ o + 1 <= n + 1 /\ \A i \in (o + 1)..n : s[i] \in Int
    BY <1>1, <1>3
  <2> HIDE DEF t
  <2> QED BY <1>1, <1>n, <2>1, SubSeqProperties DEF t
<1> HIDE DEF t
<1>5. n - (o + 1) + 1 = n - o /\ \A i \in 1..(n - o) : (o + 1) + i - 1 = o + i
  BY <1>1, <1>3
<1>6. Len(t) = n - o /\ \A i \in 1..Len(t) : t[i] = s[o + i]
  BY <1>4, <1>5
<1>7. n = o + Len(t) /\ (o > 0 => Len(t) = Keep)
  BY <1>1, <1>3, <1>6
<1> QED BY <1>2, <1>3, <1>4, <1>6, <1>7, <1>n

LEMMA NewestInOrder ==
  ASSUME NEW s \in Seq(Int), NEW w \in Seq(Int), NEW r, Keep \in Nat,
         InOrder(s, w), Complete(s, w, r), Distinct(w)
  PROVE  Newest(s) \in Seq(Int) /\ InOrder(Newest(s), w) /\ Complete(Newest(s), w, r)
<1> DEFINE t == Newest(s)
<1>1. t \in Seq(Int)
  BY NewestProperties
<1>2. PICK o \in Nat :
         /\ Len(s) = o + Len(t)
         /\ o > 0 => Len(t) = Keep
         /\ \A i \in 1..Len(t) : t[i] = s[o + i]
  BY NewestProperties
<1>3. Len(s) \in Nat /\ Len(t) \in Nat /\ Len(w) \in Nat
  BY <1>1, LenProperties
<1> HIDE DEF t
<1>4. \A i \in 1..Len(t) : o + i \in 1..Len(s)
  BY <1>2, <1>3
<1>5. InOrder(t, w)
  <2>1. ASSUME NEW i \in 1..Len(t) PROVE \E a \in 1..Len(w) : t[i] = w[a]
    BY <1>2, <1>4 DEF InOrder
  <2>2. ASSUME NEW i \in 1..Len(t), NEW j \in 1..Len(t), NEW a \in 1..Len(w), NEW b \in 1..Len(w),
               i < j, t[i] = w[a], t[j] = w[b]
        PROVE  a < b
    <3>1. o + i < o + j
      BY <1>2, <2>2
    <3> QED BY <1>2, <1>4, <2>2, <3>1 DEF InOrder
  <2> QED BY <2>1, <2>2 DEF InOrder
<1>6. Complete(t, w, r)
  <2> SUFFICES ASSUME NEW a \in 1..Len(w), a > Len(w) - Keep, w[a] \notin r
               PROVE  \E i \in 1..Len(t) : t[i] = w[a]
    BY DEF Complete
  <2>1. PICK k \in 1..Len(s) : s[k] = w[a]
    BY DEF Complete
  <2>2. Len(s) - k <= Len(w) - a
    BY <2>1, FewBehind
  <2>3. k > o
    <3>1. CASE o = 0
      BY <3>1
    <3>2. CASE o > 0
      BY <1>2, <1>3, <2>2, <3>2
    <3> QED BY <1>2, <3>1, <3>2
  <2>4. k - o \in 1..Len(t) /\ o + (k - o) = k
    BY <1>2, <1>3, <2>3
  <2> QED BY <1>2, <2>1, <2>4
<1> QED BY <1>1, <1>5, <1>6 DEF t

(* A line more is written, to this sequence too or not. *)
LEMMA LineWritten ==
  ASSUME NEW s \in Seq(Int), NEW w \in Seq(Int), NEW e \in Int, NEW r, Keep \in Nat,
         InOrder(s, w), Complete(s, w, r), Distinct(w), \A a \in 1..Len(w) : w[a] # e
  PROVE  /\ Distinct(Append(w, e))
         /\ InOrder(s, Append(w, e))
         /\ e \in r => Complete(s, Append(w, e), r)
         /\ InOrder(Append(s, e), Append(w, e)) /\ Complete(Append(s, e), Append(w, e), r)
<1> DEFINE v == Append(w, e)
           t == Append(s, e)
           n == Len(w)
           m == Len(s)
<1>1. /\ n \in Nat /\ Len(v) = n + 1 /\ v[n + 1] = e /\ \A a \in 1..n : v[a] = w[a]
      /\ m \in Nat /\ Len(t) = m + 1 /\ t[m + 1] = e /\ \A i \in 1..m : t[i] = s[i]
  BY LenProperties, AppendProperties
<1>2. /\ \A a \in 1..n : \A b \in 1..n : w[a] = w[b] => a = b
      /\ \A a \in 1..n : w[a] # e
  BY DEF Distinct
<1>3. /\ \A i \in 1..m : \E a \in 1..n : s[i] = w[a]
      /\ \A i, j \in 1..m : \A a, b \in 1..n : i < j /\ s[i] = w[a] /\ s[j] = w[b] => a < b
  BY DEF InOrder
<1>4. \A a \in 1..n : a > n - Keep => w[a] \in r \/ \E i \in 1..m : s[i] = w[a]
  BY DEF Complete
<1> HIDE DEF v, t, n, m
<1>5. /\ \A a \in 1..(n + 1) : a \in 1..n \/ a = n + 1
      /\ \A i \in 1..(m + 1) : i \in 1..m \/ i = m + 1
      /\ \A a \in 1..n : a \in 1..(n + 1) /\ a < n + 1
      /\ \A i \in 1..m : i \in 1..(m + 1)
      /\ n + 1 \in 1..(n + 1) /\ m + 1 \in 1..(m + 1)
  BY <1>1
<1>6. \A i \in 1..m : s[i] # e
  BY <1>2, <1>3
<1>7. ASSUME NEW a \in 1..(n + 1), NEW b \in 1..(n + 1), v[a] = v[b] PROVE a = b
  BY <1>1, <1>2, <1>5, <1>7
<1>8. ASSUME NEW i \in 1..m PROVE \E a \in 1..(n + 1) : s[i] = v[a]
  BY <1>1, <1>3, <1>5
<1>9. ASSUME NEW i \in 1..m, NEW a \in 1..(n + 1), s[i] = v[a] PROVE a \in 1..n /\ s[i] = w[a]
  BY <1>1, <1>5, <1>6, <1>9
<1>10. ASSUME NEW i \in 1..m, NEW j \in 1..m, NEW a \in 1..(n + 1), NEW b \in 1..(n + 1),
              i < j, s[i] = v[a], s[j] = v[b]
       PROVE  a < b
  BY <1>3, <1>9, <1>10
<1>11. InOrder(s, v)
  BY <1>1, <1>8, <1>10 DEF InOrder, m
<1>12. ASSUME NEW i \in 1..(m + 1) PROVE \E a \in 1..(n + 1) : t[i] = v[a]
  BY <1>1, <1>5, <1>8
<1>13. ASSUME NEW i \in 1..(m + 1), NEW j \in 1..(m + 1),
              NEW a \in 1..(n + 1), NEW b \in 1..(n + 1),
              i < j, t[i] = v[a], t[j] = v[b]
       PROVE  a < b
  <2>1. i \in 1..m /\ t[i] = s[i]
    BY <1>1, <1>13
  <2>2. a \in 1..n
    BY <1>9, <1>13, <2>1
  <2>3. CASE j = m + 1
    <3>1. v[b] = v[n + 1]
      BY <1>1, <1>13, <2>3
    <3>2. b = n + 1
      BY <1>5, <1>7, <3>1
    <3> QED BY <1>5, <2>2, <3>2
  <2>4. CASE j \in 1..m
    BY <1>1, <1>10, <1>13, <2>1, <2>4
  <2> QED BY <1>5, <2>3, <2>4
<1>14. InOrder(t, v)
  BY <1>1, <1>12, <1>13 DEF InOrder
<1>15. ASSUME NEW a \in 1..n, a > n + 1 - Keep
       PROVE  w[a] \in r \/ \E i \in 1..m : s[i] = w[a]
  <2>1. a > n - Keep
    BY <1>1, <1>15
  <2> QED BY <1>4, <2>1
<1>16. ASSUME e \in r PROVE Complete(s, v, r)
  <2>1. ASSUME NEW a \in 1..(n + 1), a > n + 1 - Keep
        PROVE  v[a] \in r \/ \E i \in 1..m : s[i] = v[a]
    <3>1. CASE a = n + 1
      BY <1>1, <1>16, <3>1
    <3>2. CASE a \in 1..n
      BY <1>1, <1>15, <2>1, <3>2
    <3> QED BY <1>5, <3>1, <3>2
  <2> QED BY <1>1, <2>1 DEF Complete, m
<1>17. Complete(t, v, r)
  <2>1. ASSUME NEW a \in 1..(n + 1), a > n + 1 - Keep
        PROVE  v[a] \in r \/ \E i \in 1..(m + 1) : t[i] = v[a]
    <3>1. CASE a = n + 1
      BY <1>1, <1>5, <3>1
    <3>2. CASE a \in 1..n
      BY <1>1, <1>5, <1>15, <2>1, <3>2
    <3> QED BY <1>5, <3>1, <3>2
  <2> QED BY <1>1, <2>1 DEF Complete
<1>18. Distinct(v)
  BY <1>1, <1>7 DEF Distinct
<1> QED BY <1>11, <1>14, <1>16, <1>17, <1>18 DEF v, t

Whole(s) == InOrder(s, written) /\ Complete(s, written, racing)

FileTypeOK == file \in Seq(Int) /\ lines \in [Processes -> Seq(Int)]

(* What the file holds, and what a compaction under way would make of it. *)
Contents ==
  /\ Distinct(written)
  /\ Whole(file)
  /\ \A p \in Processes : at[p] = "read" => Whole(lines[p])

(* A line that is not written yet is a new one, and races a compaction that *)
(* it may be lost to.                                                      *)
Underway ==
  /\ \A p \in Processes : InFlight(p) => \A a \in 1..Len(written) : written[a] # entry[p]
  /\ \A p, q \in Processes : p # q /\ InFlight(p) /\ InFlight(q) => entry[p] # entry[q]
  /\ \A p \in Processes : at[p] = "moved" => entry[p] \in racing
  /\ \A p, q \in Processes : p # q /\ at[p] = "open" /\ at[q] = "read" => entry[p] \in racing

HistoryOrder == FileTypeOK /\ Contents /\ Underway

LEMMA KeepType == Keep \in Nat
BY HistoryAssumption DEF HistoryAssumption

LEMMA RacingGrows ==
  ASSUME NEW s, NEW w, NEW r, NEW r1, r \subseteq r1, Complete(s, w, r)
  PROVE  Complete(s, w, r1)
BY DEF Complete

LEMMA OpenKeepsOrder ==
  ASSUME HistoryTypeOK, HistoryOrder, NEW p \in Processes, NEW e \in Int, Open(p, e),
         \A a \in 1..Len(written) : written[a] # e,
         \A q \in Processes : q # p /\ InFlight(q) => entry[q] # e
  PROVE  HistoryOrder'
<1>1. /\ at \in [Processes -> Stages] /\ entry \in [Processes -> Int]
      /\ FileTypeOK /\ Contents /\ Underway
  BY DEF HistoryTypeOK, HistoryOrder
<1>2. /\ at' = [at EXCEPT ![p] = "open"] /\ entry' = [entry EXCEPT ![p] = e]
      /\ racing \subseteq racing'
      /\ (\E q \in Processes : q # p /\ at[q] = "read") => e \in racing'
      /\ UNCHANGED <<file, lines, written>>
  BY DEF Open, Others, Compacting
<1>3. FileTypeOK'
  BY <1>1, <1>2 DEF FileTypeOK
<1>4. Contents'
  <2>1. \A s : Whole(s) => InOrder(s, written') /\ Complete(s, written', racing')
    BY <1>2, RacingGrows DEF Whole
  <2>2. \A q \in Processes : at'[q] = "read" => at[q] = "read"
    BY <1>1, <1>2
  <2> QED BY <1>1, <1>2, <2>1, <2>2 DEF Contents, Whole
<1>5. Underway'
  <2>1. /\ at'[p] = "open" /\ entry'[p] = e
        /\ \A q \in Processes : q # p => at'[q] = at[q] /\ entry'[q] = entry[q]
    BY <1>1, <1>2
  <2>2. \A q \in Processes : q # p => (InFlight(q)' <=> InFlight(q))
    BY <2>1 DEF InFlight
  <2>3. ASSUME NEW q \in Processes, InFlight(q)'
        PROVE  \A a \in 1..Len(written') : written'[a] # entry'[q]
    BY <1>1, <1>2, <2>1, <2>2, <2>3 DEF Underway
  <2>4. ASSUME NEW q \in Processes, NEW o \in Processes, q # o, InFlight(q)', InFlight(o)'
        PROVE  entry'[q] # entry'[o]
    BY <1>1, <2>1, <2>2, <2>4 DEF Underway
  <2>5. ASSUME NEW q \in Processes, at'[q] = "moved" PROVE entry'[q] \in racing'
    BY <1>1, <1>2, <2>1, <2>5 DEF Underway
  <2>6. ASSUME NEW q \in Processes, NEW o \in Processes, q # o, at'[q] = "open", at'[o] = "read"
        PROVE  entry'[q] \in racing'
    BY <1>1, <1>2, <2>1, <2>6 DEF Underway
  <2> QED BY <2>3, <2>4, <2>5, <2>6 DEF Underway
<1> QED BY <1>3, <1>4, <1>5 DEF HistoryOrder

LEMMA WriteKeepsOrder ==
  ASSUME HistoryTypeOK, HistoryOrder, NEW p \in Processes, Write(p)
  PROVE  HistoryOrder'
<1> DEFINE e == entry[p]
           w == written
<1>1. /\ at \in [Processes -> Stages] /\ entry \in [Processes -> Int] /\ w \in Seq(Int)
      /\ e \in Int /\ FileTypeOK /\ Contents /\ Underway
  BY DEF HistoryTypeOK, HistoryOrder
<1>2. /\ at[p] \in {"open", "moved"}
      /\ file' = IF at[p] = "open" THEN Append(file, e) ELSE file
      /\ written' = Append(w, e)
      /\ UNCHANGED <<entry, lines, racing>>
      /\ at'[p] \in {"written", "idle"} /\ \A q \in Processes : q # p => at'[q] = at[q]
  BY <1>1 DEF Write, InFlight
<1>3. \A a \in 1..Len(w) : w[a] # e
  BY <1>1, <1>2 DEF Underway, InFlight
<1>4. file \in Seq(Int) /\ lines \in [Processes -> Seq(Int)]
  BY <1>1 DEF FileTypeOK
<1>5. FileTypeOK'
  <2>1. Append(file, e) \in Seq(Int)
    BY <1>1, <1>4, AppendProperties
  <2> QED BY <1>2, <1>4, <2>1 DEF FileTypeOK
<1>6. ASSUME NEW s \in Seq(Int), Whole(s)
      PROVE  /\ Distinct(Append(w, e))
             /\ InOrder(s, Append(w, e))
             /\ e \in racing => Complete(s, Append(w, e), racing)
             /\ InOrder(Append(s, e), Append(w, e))
             /\ Complete(Append(s, e), Append(w, e), racing)
  BY <1>1, <1>3, <1>6, KeepType, LineWritten DEF Whole, Contents
<1>7. Contents'
  <2>1. Distinct(written') /\ InOrder(file', written') /\ Complete(file', written', racing')
    <3>1. Whole(file)
      BY <1>1 DEF Contents
    <3>2. CASE at[p] = "open"
      BY <1>2, <1>4, <1>6, <3>1, <3>2
    <3>3. CASE at[p] = "moved"
      <4>1. e \in racing
        BY <1>1, <3>3 DEF Underway
      <4> QED BY <1>2, <1>4, <1>6, <3>1, <3>3, <4>1
    <3> QED BY <1>2, <3>2, <3>3
  <2>2. ASSUME NEW q \in Processes, at'[q] = "read"
        PROVE  InOrder(lines'[q], written') /\ Complete(lines'[q], written', racing')
    <3>1. q # p /\ at[q] = "read" /\ lines'[q] = lines[q] /\ lines[q] \in Seq(Int)
      BY <1>2, <1>4, <2>2
    <3>2. Whole(lines[q])
      BY <1>1, <3>1 DEF Contents
    <3>3. e \in racing
      BY <1>1, <1>2, <3>1 DEF Underway
    <3> QED BY <1>2, <1>6, <3>1, <3>2, <3>3
  <2> QED BY <2>1, <2>2 DEF Contents, Whole
<1>8. Underway'
  <2>1. /\ Len(w) \in Nat /\ Len(written') = Len(w) + 1 /\ written'[Len(w) + 1] = e
        /\ \A a \in 1..Len(w) : written'[a] = w[a]
    BY <1>1, <1>2, AppendProperties, LenProperties
  <2>2. \A a \in 1..Len(written') : a \in 1..Len(w) \/ a = Len(w) + 1
    BY <2>1
  <2>3. \A q \in Processes : InFlight(q)' => q # p /\ InFlight(q)
    BY <1>2 DEF InFlight
  <2>4. ASSUME NEW q \in Processes, InFlight(q)'
        PROVE  \A a \in 1..Len(written') : written'[a] # entry'[q]
    <3>1. q # p /\ InFlight(q) /\ InFlight(p)
      BY <1>2, <2>3, <2>4 DEF InFlight
    <3>2. entry[q] # e /\ \A a \in 1..Len(w) : w[a] # entry[q]
      BY <1>1, <3>1 DEF Underway
    <3>3. entry'[q] = entry[q]
      BY <1>2
    <3> QED BY <2>1, <2>2, <3>2, <3>3
  <2>5. ASSUME NEW q \in Processes, NEW o \in Processes, q # o, InFlight(q)', InFlight(o)'
        PROVE  entry'[q] # entry'[o]
    BY <1>1, <1>2, <2>3, <2>5 DEF Underway
  <2>6. ASSUME NEW q \in Processes, at'[q] = "moved" PROVE entry'[q] \in racing'
    BY <1>1, <1>2, <2>6 DEF Underway
  <2>7. ASSUME NEW q \in Processes, NEW o \in Processes, q # o, at'[q] = "open", at'[o] = "read"
        PROVE  entry'[q] \in racing'
    BY <1>1, <1>2, <2>7 DEF Underway
  <2> QED BY <2>4, <2>5, <2>6, <2>7 DEF Underway
<1> QED BY <1>5, <1>7, <1>8 DEF HistoryOrder

LEMMA CompactKeepsOrder ==
  ASSUME HistoryTypeOK, HistoryOrder, NEW p \in Processes, AppendFails(p) \/ Compact(p) \/ Die(p)
  PROVE  HistoryOrder'
<1>1. /\ at \in [Processes -> Stages] /\ entry \in [Processes -> Int] /\ written \in Seq(Int)
      /\ FileTypeOK /\ Contents /\ Underway
      /\ file \in Seq(Int) /\ lines \in [Processes -> Seq(Int)]
      /\ <<>> \in Seq(Int)
  BY DEF HistoryTypeOK, HistoryOrder, FileTypeOK
<1>2. CASE ReadLines(p) /\ at'[p] = "read"
  <2>1. /\ at[p] = "written" /\ at' = [at EXCEPT ![p] = "read"]
        /\ lines' = [lines EXCEPT ![p] = Newest(file)]
        /\ racing' = racing \cup {entry[q] : q \in {r \in Others(p) : InFlight(r)}}
        /\ UNCHANGED <<file, entry, written>>
    BY <1>1, <1>2 DEF ReadLines
  <2>2. racing \subseteq racing' /\ \A q \in Processes : q # p /\ InFlight(q) => entry[q] \in racing'
    BY <2>1 DEF Others
  <2>3. Whole(file) /\ Distinct(written)
    BY <1>1 DEF Contents
  <2>4. /\ Newest(file) \in Seq(Int)
        /\ InOrder(Newest(file), written) /\ Complete(Newest(file), written, racing)
    BY <1>1, <2>3, KeepType, NewestInOrder DEF Whole
  <2>5. FileTypeOK'
    BY <1>1, <2>1, <2>4 DEF FileTypeOK
  <2>6. Contents'
    <3>1. \A s : InOrder(s, written) /\ Complete(s, written, racing) =>
                   InOrder(s, written') /\ Complete(s, written', racing')
      BY <2>1, <2>2, RacingGrows
    <3>2. ASSUME NEW q \in Processes, at'[q] = "read"
          PROVE  InOrder(lines'[q], written') /\ Complete(lines'[q], written', racing')
      <4>1. CASE q = p
        <5>1. lines'[q] = Newest(file)
          BY <1>1, <2>1, <4>1
        <5> QED BY <2>4, <3>1, <5>1
      <4>2. CASE q # p
        <5>1. at[q] = "read" /\ lines'[q] = lines[q]
          BY <1>1, <2>1, <3>2, <4>2
        <5> QED BY <1>1, <3>1, <5>1 DEF Contents, Whole
      <4> QED BY <4>1, <4>2
    <3>3. InOrder(file', written') /\ Complete(file', written', racing')
      BY <2>1, <2>3, <3>1 DEF Whole
    <3> QED BY <2>1, <2>3, <3>2, <3>3 DEF Contents, Whole
  <2>7. Underway'
    <3>1. \A q \in Processes : q # p => at'[q] = at[q]
      BY <1>1, <2>1
    <3>2. at'[p] = "read"
      BY <1>2
    <3>3. \A q \in Processes : InFlight(q)' => q # p /\ InFlight(q)
      BY <3>1, <3>2 DEF InFlight
    <3>4. ASSUME NEW q \in Processes, at'[q] \in {"open", "moved"} PROVE entry'[q] \in racing'
      BY <2>1, <2>2, <3>3, <3>4 DEF InFlight
    <3> QED BY <1>1, <2>1, <3>3, <3>4 DEF Underway
  <2> QED BY <2>5, <2>6, <2>7 DEF HistoryOrder
<1>3. CASE WriteLines(p)
  <2>1. /\ at[p] = "read" /\ file' = lines[p] /\ lines' = [lines EXCEPT ![p] = <<>>]
        /\ at' = [q \in Processes |->
                    IF q = p THEN "idle" ELSE IF at[q] = "open" THEN "moved" ELSE at[q]]
        /\ UNCHANGED <<entry, written, racing>>
    BY <1>3 DEF WriteLines, Compacting
  <2>2. FileTypeOK'
    BY <1>1, <2>1 DEF FileTypeOK
  <2>3. Contents'
    <3>1. Whole(lines[p])
      BY <1>1, <2>1 DEF Contents
    <3>2. ASSUME NEW q \in Processes, at'[q] = "read" PROVE Whole(lines[q]) /\ lines'[q] = lines[q]
      BY <1>1, <2>1, <3>2 DEF Contents
    <3> QED BY <1>1, <2>1, <3>1, <3>2 DEF Contents, Whole
  <2>4. Underway'
    <3>1. \A q \in Processes : InFlight(q)' => q # p /\ InFlight(q) /\ at'[q] = "moved"
      BY <1>1, <2>1 DEF InFlight, Stages
    <3>2. \A q \in Processes : InFlight(q)' => entry[q] \in racing
      BY <1>1, <2>1, <3>1 DEF Underway, InFlight
    <3>3. \A q \in Processes : at'[q] \in {"open", "moved"} => InFlight(q)'
      BY DEF InFlight
    <3> QED BY <1>1, <2>1, <3>1, <3>2, <3>3 DEF Underway
  <2> QED BY <2>2, <2>3, <2>4 DEF HistoryOrder
<1>4. CASE /\ at' = [at EXCEPT ![p] = "idle"]
           /\ lines' = lines \/ lines' = [lines EXCEPT ![p] = <<>>]
           /\ UNCHANGED <<file, entry, written, racing>>
  <2>1. FileTypeOK'
    BY <1>1, <1>4 DEF FileTypeOK
  <2>2. at'[p] = "idle" /\ \A q \in Processes : q # p => at'[q] = at[q] /\ lines'[q] = lines[q]
    BY <1>1, <1>4
  <2>3. Contents'
    BY <1>1, <1>4, <2>2 DEF Contents, Whole
  <2>4. Underway'
    BY <1>1, <1>4, <2>2 DEF Underway, InFlight
  <2> QED BY <2>1, <2>3, <2>4 DEF HistoryOrder
<1>5. CASE ReadLines(p) /\ at'[p] # "read"
  <2>1. /\ at' = [at EXCEPT ![p] = "idle"] /\ UNCHANGED <<lines, racing, file, entry, written>>
    BY <1>1, <1>5 DEF ReadLines
  <2> QED BY <1>4, <2>1
<1>6. CASE AppendFails(p) \/ CompactFails(p) \/ Die(p)
  BY <1>4, <1>6 DEF AppendFails, CompactFails, Die
<1> QED BY <1>2, <1>3, <1>5, <1>6 DEF Compact

(***************************************************************************)
(* Why a line is new: this process numbers its alerts in the order they    *)
(* are offered, the other in the order it writes them.                     *)
(***************************************************************************)
Below(x, q) == \A i \in 1..Len(q) : x < q[i]

Ascending(q, n) ==
  /\ \A i, j \in 1..Len(q) : i < j => q[i] < q[j]
  /\ \A i \in 1..Len(q) : q[i] <= n

LEMMA AscendingAppend ==
  ASSUME NEW q \in Seq(Nat \ {0}), NEW n \in Nat, Ascending(q, n)
  PROVE  /\ Ascending(Append(q, n + 1), n + 1) /\ Ascending(q, n + 1)
         /\ \A x \in Int : x <= n /\ Below(x, q) => x <= n + 1 /\ Below(x, Append(q, n + 1))
<1> DEFINE t == Append(q, n + 1)
           m == Len(q)
<1>1. /\ m \in Nat /\ Len(t) = m + 1 /\ t[m + 1] = n + 1
      /\ \A i \in 1..m : t[i] = q[i] /\ q[i] \in Nat
  BY LenProperties, AppendProperties, ElementOfSeq
<1>m. m = Len(q)
  OBVIOUS
<1> HIDE DEF t, m
<1>2. /\ \A i \in 1..m : \A j \in 1..m : i < j => q[i] < q[j]
      /\ \A i \in 1..m : q[i] <= n
  BY <1>m DEF Ascending
<1>3. \A i \in 1..(m + 1) : i \in 1..m \/ i = m + 1
  BY <1>1
<1>4. ASSUME NEW i \in 1..(m + 1) PROVE t[i] <= n + 1 /\ (i \in 1..m => t[i] <= n)
  BY <1>1, <1>2, <1>3
<1>5. ASSUME NEW i \in 1..(m + 1), NEW j \in 1..(m + 1), i < j PROVE t[i] < t[j]
  <2>1. i \in 1..m
    BY <1>1, <1>5
  <2>2. CASE j \in 1..m
    BY <1>1, <1>2, <1>5, <2>1, <2>2
  <2>3. CASE j = m + 1
    BY <1>1, <1>4, <2>1, <2>3
  <2> QED BY <1>3, <2>2, <2>3
<1>6. Ascending(t, n + 1)
  BY <1>1, <1>4, <1>5 DEF Ascending
<1>7. Ascending(q, n + 1)
  BY <1>1, <1>2, <1>m DEF Ascending
<1>8. ASSUME NEW x \in Int, x <= n, Below(x, q) PROVE x <= n + 1 /\ Below(x, t)
  BY <1>1, <1>3, <1>8, <1>m DEF Below
<1> QED BY <1>6, <1>7, <1>8 DEF t

LEMMA AscendingTail ==
  ASSUME NEW q \in Seq(Nat \ {0}), NEW n \in Nat, Ascending(q, n), q # <<>>
  PROVE  /\ Ascending(Tail(q), n) /\ Head(q) <= n /\ Below(Head(q), Tail(q))
         /\ \A x \in Int : Below(x, q) => x < Head(q) /\ Below(x, Tail(q))
<1> DEFINE t == Tail(q)
           m == Len(q)
<1>1. /\ m \in Nat /\ m > 0 /\ Head(q) = q[1] /\ Len(t) = m - 1
      /\ \A i \in 1..Len(t) : t[i] = q[i + 1]
  BY HeadTailProperties, EmptySeq, LenProperties
<1>m. m = Len(q)
  OBVIOUS
<1> HIDE DEF t, m
<1>2. 1 \in 1..m /\ \A i \in 1..Len(t) : i + 1 \in 1..m /\ 1 < i + 1
  BY <1>1
<1>3. /\ \A i \in 1..m : \A j \in 1..m : i < j => q[i] < q[j]
      /\ \A i \in 1..m : q[i] <= n
  BY <1>m DEF Ascending
<1>4. ASSUME NEW i \in 1..Len(t), NEW j \in 1..Len(t), i < j PROVE t[i] < t[j]
  <2>1. i + 1 < j + 1
    BY <1>1, <1>4
  <2> QED BY <1>1, <1>2, <1>3, <2>1
<1>5. Ascending(t, n)
  BY <1>1, <1>2, <1>3, <1>4 DEF Ascending
<1>6. q[1] <= n /\ Below(q[1], t)
  BY <1>1, <1>2, <1>3 DEF Below
<1>7. ASSUME NEW x \in Int, Below(x, q) PROVE x < q[1] /\ Below(x, t)
  BY <1>1, <1>2, <1>7, <1>m DEF Below
<1> QED BY <1>1, <1>5, <1>6, <1>7 DEF t

InHistory == delivering[History].n

(* What is written came before what is queued, and before what is in hand   *)
(* as long as that is not written.                                         *)
Recorded(x) ==
  /\ x <= offered[History] /\ Below(x, queue[History])
  /\ Busy(History) => x <= InHistory
  /\ Running /\ delivering[History].posts > 0 /\ at[Self] \in {"idle", "open", "moved"} =>
       x < InHistory

OwnNumbers ==
  /\ Ascending(queue[History], offered[History])
  /\ Busy(History) => InHistory <= offered[History] /\ Below(InHistory, queue[History])
  /\ \A k \in 1..Len(written) : written[k] >= 0 => Recorded(written[k])
  /\ InFlight(Self) =>
       Running /\ entry[Self] = InHistory /\ delivering[History].posts > 0

OtherNumbers ==
  /\ \A k \in 1..Len(written) : written[k] < 0 => written[k] >= -Cardinality(WrittenThere)
  /\ InFlight(Other) => entry[Other] = -1 - Cardinality(WrittenThere)
  /\ \A p \in Processes \ {Self, Other} : at[p] = "idle"

Numbers == OwnNumbers /\ OtherNumbers

(* Nothing that matters to the numbers has changed. *)
LEMMA OwnNumbersStay ==
  ASSUME OwnNumbers,
         queue'[History] = queue[History], offered'[History] = offered[History],
         delivering'[History] = delivering[History], written' = written,
         at'[Self] = at[Self] \/ (at[Self] = "open" /\ at'[Self] = "moved"),
         entry'[Self] = entry[Self], Running' <=> Running
  PROVE  OwnNumbers'
<1>1. InHistory' = InHistory /\ (Busy(History)' <=> Busy(History))
  BY DEF InHistory, Busy
<1>2. \A x : Recorded(x) =>
        /\ x <= offered'[History] /\ Below(x, queue'[History])
        /\ Busy(History)' => x <= InHistory'
        /\ Running' /\ delivering'[History].posts > 0 /\ at'[Self] \in {"idle", "open", "moved"} =>
             x < InHistory'
  BY <1>1 DEF Recorded
<1>3. InFlight(Self)' => InFlight(Self)
  BY DEF InFlight
<1>4. (\A k \in 1..Len(written) : written[k] >= 0 => Recorded(written[k]))'
  BY <1>2 DEF OwnNumbers, Recorded, Below
<1>5. Ascending(queue'[History], offered'[History])
  BY DEF OwnNumbers
<1>6. Busy(History)' => InHistory' <= offered'[History] /\ Below(InHistory', queue'[History])
  BY <1>1 DEF OwnNumbers
<1>7. InFlight(Self)' =>
        Running' /\ entry'[Self] = InHistory' /\ delivering'[History].posts > 0
  BY <1>1, <1>3 DEF OwnNumbers
<1> QED BY <1>4, <1>5, <1>6, <1>7 DEF OwnNumbers, Ascending, Below

LEMMA SendNumbers ==
  ASSUME IInv, HistoryTypeOK, OwnNumbers, NEW p \in Producers, Send(p)
  PROVE  OwnNumbers'
<1> USE DEF endVars
<1>0. /\ queue \in [Destinations -> Seq(Nat \ {0})] /\ offered \in [Destinations -> Nat]
      /\ History \in Destinations /\ written \in Seq(Int)
  BY TwoProcesses DEF IInv, TypeOK, HistoryTypeOK
<1>1. UNCHANGED <<delivering, written, at, entry, phase>>
  BY DEF Send, historyVars
<1> DEFINE x == Head(todo[p])
<1>2. /\ x \in Destinations /\ offered' = [offered EXCEPT ![x] = @ + 1]
      /\ queue' = [queue EXCEPT ![x] = Append(@, offered[x] + 1)] \/ queue' = queue
  BY SendStep
<1> HIDE DEF x
<1>3. CASE x # History
  <2>1. queue'[History] = queue[History] /\ offered'[History] = offered[History]
    BY <1>0, <1>2, <1>3
  <2> QED BY <1>1, <2>1, OwnNumbersStay DEF Running
<1>4. CASE x = History
  <2> DEFINE q == queue[History]
             n == offered[History]
             q1 == queue'[History]
             n1 == offered'[History]
  <2>1. q \in Seq(Nat \ {0}) /\ n \in Nat /\ n1 = n + 1 /\ (q1 = Append(q, n + 1) \/ q1 = q)
    BY <1>0, <1>2, <1>4
  <2>2. Ascending(q, n)
    BY DEF OwnNumbers
  <2> HIDE DEF q, n, q1, n1
  <2>3. /\ Ascending(q1, n1)
        /\ \A y \in Int : y <= n /\ Below(y, q) => y <= n1 /\ Below(y, q1)
    <3>1. \A y \in Int : y <= n => y <= n + 1
      BY <2>1
    <3>2. /\ Ascending(Append(q, n + 1), n + 1) /\ Ascending(q, n + 1)
          /\ \A y \in Int : y <= n /\ Below(y, q) => y <= n + 1 /\ Below(y, Append(q, n + 1))
      BY <2>1, <2>2, AscendingAppend
    <3> QED BY <2>1, <3>1, <3>2
  <2>4. InHistory' = InHistory /\ (Busy(History)' <=> Busy(History)) /\ (Running' <=> Running)
    BY <1>1 DEF InHistory, Busy, Running
  <2>5. Busy(History) => InHistory \in Int
    <3>1. delivering[History] \in InHand \cup {Idle}
      BY <1>0, DestinationTypes DEF IInv
    <3> QED BY <3>1 DEF InHistory, Busy, InHand
  <2>6. Busy(History) => InHistory <= n1 /\ Below(InHistory, q1)
    BY <2>3, <2>5 DEF OwnNumbers, q, n
  <2>7. (\A k \in 1..Len(written) : written[k] >= 0 => Recorded(written[k]))'
    <3>1. ASSUME NEW k \in 1..Len(written), written[k] >= 0
          PROVE  Recorded(written[k]) /\ written[k] <= n1 /\ Below(written[k], q1)
      <4>1. written[k] \in Int
        BY <1>0, ElementOfSeq
      <4>2. Recorded(written[k])
        BY <3>1 DEF OwnNumbers
      <4> QED BY <2>3, <4>1, <4>2 DEF Recorded, q, n
    <3> QED BY <1>1, <2>4, <3>1 DEF Recorded, Below, q1, n1
  <2>8. (InFlight(Self) => Running /\ entry[Self] = InHistory /\ delivering[History].posts > 0)'
    BY <1>1, <2>4 DEF OwnNumbers, InFlight
  <2> QED BY <2>3, <2>4, <2>6, <2>7, <2>8 DEF OwnNumbers, Ascending, Below, q1, n1
<1> QED BY <1>3, <1>4

(* What a step that does not touch the queue may do to the numbers: let go *)
(* of the alert in hand, append a line, move the append on.                *)
LEMMA OwnNumbersKeep ==
  ASSUME OwnNumbers, written \in Seq(Int), NEW e \in Int,
         queue'[History] = queue[History], offered'[History] = offered[History],
         Busy(History)' => Busy(History) /\ InHistory' = InHistory,
         written' = written \/ (written' = Append(written, e) /\ (e >= 0 => Recorded(e)')),
         Running' /\ delivering'[History].posts > 0 /\ at'[Self] \in {"idle", "open", "moved"} =>
           Running /\ delivering[History].posts > 0 /\ at[Self] \in {"idle", "open", "moved"},
         InFlight(Self)' =>
           Running' /\ entry'[Self] = InHistory' /\ delivering'[History].posts > 0
  PROVE  OwnNumbers'
<1>1. delivering'[History].posts > 0 => Busy(History)'
  BY DEF Busy, Idle
<1>2. \A x : Recorded(x) => Recorded(x)'
  BY <1>1 DEF Recorded, Below
<1>3. (\A k \in 1..Len(written) : written[k] >= 0 => Recorded(written[k]))'
  <2>1. \A k \in 1..Len(written) : written[k] >= 0 => Recorded(written[k])
    BY DEF OwnNumbers
  <2>2. CASE written' = written
    BY <1>2, <2>1, <2>2
  <2>3. CASE written' = Append(written, e) /\ (e >= 0 => Recorded(e)')
    <3> DEFINE m == Len(written)
               m1 == Len(written')
    <3>1. /\ m \in Nat /\ m1 = m + 1 /\ written'[m + 1] = e
          /\ \A k \in 1..m : written'[k] = written[k]
      BY <2>3, LenProperties, AppendProperties
    <3>m. m = Len(written) /\ m1 = Len(written')
      OBVIOUS
    <3> HIDE DEF m, m1
    <3>2. \A k \in 1..m1 : k \in 1..m \/ k = m + 1
      BY <3>1
    <3>3. \A x, k : written'[k] = x /\ Recorded(x)' => Recorded(written[k])'
      BY DEF Recorded, Below
    <3>4. ASSUME NEW k \in 1..m1, written'[k] >= 0 PROVE Recorded(written[k])'
      <4>1. CASE k = m + 1
        BY <2>3, <3>1, <3>3, <3>4, <4>1
      <4>2. CASE k \in 1..m
        <5>1. written[k] >= 0 /\ written'[k] = written[k]
          BY <3>1, <3>4, <4>2
        <5> DEFINE x == written[k]
        <5>2. Recorded(x)
          BY <2>1, <3>m, <4>2, <5>1
        <5>3. PICK y : y = x
          OBVIOUS
        <5>4. Recorded(y)'
          BY <1>2, <5>2, <5>3
        <5> QED BY <3>3, <5>1, <5>3, <5>4
      <4> QED BY <3>2, <4>1, <4>2
    <3> QED BY <3>4, <3>m
  <2> QED BY <2>2, <2>3
<1>4. (Ascending(queue[History], offered[History]))'
  BY DEF OwnNumbers, Ascending
<1>5. (Busy(History) => InHistory <= offered[History] /\ Below(InHistory, queue[History]))'
  BY DEF OwnNumbers, Below
<1> QED BY <1>3, <1>4, <1>5 DEF OwnNumbers

(* What the history's pump takes comes after everything it took before. *)
LEMMA TakeNumbers ==
  ASSUME IInv, HistoryTypeOK, HistoryBook, OwnNumbers, Take(History)
  PROVE  OwnNumbers'
<1> USE DEF endVars
<1>0. /\ queue \in [Destinations -> Seq(Nat \ {0})] /\ offered \in [Destinations -> Nat]
      /\ delivering \in [Destinations -> InHand \cup {Idle}]
      /\ History \in Destinations /\ written \in Seq(Int)
  BY TwoProcesses DEF IInv, TypeOK, HistoryTypeOK
<1>1. /\ Running /\ ~Busy(History) /\ queue[History] # <<>>
      /\ queue'[History] = Tail(queue[History])
      /\ InHistory' = Head(queue[History])
      /\ UNCHANGED <<offered, written, at, entry, phase>>
  <2>1. PICK k \in Nat :
          delivering' = [delivering EXCEPT ![History] = [n |-> Head(queue[History]), posts |-> k]]
    BY TwoProcesses, TakeStep
  <2>2. InHistory' = Head(queue[History])
    BY <1>0, <2>1 DEF InHistory
  <2>3. queue' = [queue EXCEPT ![History] = Tail(@)]
    BY DEF Take
  <2> QED BY <1>0, <2>2, <2>3 DEF Take, producerVars, historyVars
<1>2. at[Self] = "idle"
  <2>1. delivering[History].posts = 0
    BY <1>1 DEF Busy, Idle
  <2> QED BY <1>1, <2>1 DEF HistoryBook
<1> DEFINE q == queue[History]
           n == offered[History]
<1>3. q \in Seq(Nat \ {0}) /\ n \in Nat /\ q # <<>> /\ Ascending(q, n)
  BY <1>0, <1>1 DEF OwnNumbers
<1> HIDE DEF q, n
<1>4. /\ Ascending(Tail(q), n) /\ Head(q) <= n /\ Below(Head(q), Tail(q))
      /\ \A x \in Int : Below(x, q) => x < Head(q) /\ Below(x, Tail(q))
  BY <1>3, AscendingTail
<1>5. Head(q) \in Int
  BY <1>3, HeadTailProperties
<1>6. ASSUME NEW k \in 1..Len(written), written[k] >= 0
      PROVE  /\ written[k] <= n /\ Below(written[k], Tail(q))
             /\ written[k] < Head(q) /\ written[k] <= Head(q)
  <2>1. written[k] \in Int
    BY <1>0, ElementOfSeq
  <2>2. Recorded(written[k])
    BY <1>6 DEF OwnNumbers
  <2>3. written[k] <= n /\ Below(written[k], q)
    BY <2>2 DEF Recorded, q, n
  <2> QED BY <1>4, <1>5, <2>1, <2>3
<1>7. (\A k \in 1..Len(written) : written[k] >= 0 => Recorded(written[k]))'
  BY <1>1, <1>6 DEF Recorded, Below, q, n
<1>8. (Ascending(queue[History], offered[History]))'
  BY <1>1, <1>4 DEF Ascending, q, n
<1>9. (Busy(History) => InHistory <= offered[History] /\ Below(InHistory, queue[History]))'
  BY <1>1, <1>4 DEF Below, q, n
<1>10. ~InFlight(Self)'
  BY <1>1, <1>2 DEF InFlight
<1> QED BY <1>7, <1>8, <1>9, <1>10 DEF OwnNumbers

LEMMA HistoryNotifyNumbers ==
  ASSUME IInv, [Next]_vars, HistoryTypeOK, OwnNumbers, HistoryNotify
  PROVE  OwnNumbers'
<1>0. /\ delivering \in [Destinations -> InHand \cup {Idle}] /\ History \in Destinations
      /\ entry \in [Processes -> Int] /\ written \in Seq(Int) /\ Self \in Processes
      /\ offered[History] \in Nat
  BY TwoProcesses, DestinationTypes DEF IInv, TypeOK, HistoryTypeOK
<1>1. /\ Running /\ delivering[History].posts > 0 /\ Busy(History)
      /\ (Running' <=> Running) /\ queue' = queue /\ offered' = offered
  BY DEF HistoryNotify, Busy, Idle, Running, endVars, producerVars
<1>2. (Busy(History)' <=> Busy(History)) /\ InHistory' = InHistory
  BY <1>0, HandStays DEF InHistory
<1>3. InHistory \in Nat
  <2>1. delivering[History] \in InHand
    BY <1>0, <1>1 DEF Busy
  <2> QED BY <2>1 DEF InHand, InHistory
<1>4. CASE Open(Self, InHistory) /\ delivering' = delivering
  <2>1. /\ at[Self] = "idle" /\ at'[Self] = "open" /\ entry'[Self] = InHistory
        /\ written' = written
    <3>1. InHistory \in Int
      BY <1>3
    <3> HIDE DEF InHistory
    <3> QED BY <1>4, <3>1, TwoProcesses, AppendSteps
  <2> QED BY <1>0, <1>1, <1>2, <1>4, <2>1, OwnNumbersKeep
<1>5. CASE /\ Write(Self)
           /\ delivering' = IF at'[Self] = "idle"
                            THEN [delivering EXCEPT ![History].posts = 0] ELSE delivering
  <2>1. /\ InFlight(Self) /\ at'[Self] \in {"idle", "written"}
        /\ written' = Append(written, entry[Self])
    BY <1>5, TwoProcesses, AppendSteps
  <2>2. at'[Self] = "idle" => delivering'[History].posts = 0
    BY <1>0, <1>5
  <2>3. ~(Running' /\ delivering'[History].posts > 0 /\ at'[Self] \in {"idle", "open", "moved"})
    BY <2>1, <2>2
  <2>4. entry[Self] = InHistory /\ InHistory <= offered[History] /\ Below(InHistory, queue[History])
    BY <1>1, <2>1 DEF OwnNumbers
  <2>5. PICK e \in Int : e = InHistory
    BY <1>3
  <2>6. Recorded(e)'
    BY <1>1, <1>2, <2>3, <2>4, <2>5 DEF Recorded, Below
  <2>7. ~InFlight(Self)'
    BY <2>1 DEF InFlight
  <2> QED BY <1>0, <1>1, <1>2, <2>1, <2>3, <2>4, <2>5, <2>6, <2>7, OwnNumbersKeep
<1>6. CASE /\ Compact(Self)
           /\ delivering' = IF at'[Self] = "idle"
                            THEN [delivering EXCEPT ![History].posts = 0] ELSE delivering
  <2>1. at'[Self] \in {"idle", "read"} /\ written' = written
    BY <1>6, TwoProcesses, AppendSteps
  <2>2. at'[Self] = "idle" => delivering'[History].posts = 0
    BY <1>0, <1>6
  <2>3. ~(Running' /\ delivering'[History].posts > 0 /\ at'[Self] \in {"idle", "open", "moved"})
    BY <2>1, <2>2
  <2>4. ~InFlight(Self)'
    BY <2>1 DEF InFlight
  <2> QED BY <1>0, <1>1, <1>2, <2>1, <2>3, <2>4, OwnNumbersKeep
<1>7. CASE /\ AppendFails(Self)
           /\ delivering' = IF at'[Self] = "idle"
                            THEN [delivering EXCEPT ![History].posts = 0] ELSE delivering
  <2>1. at'[Self] = "idle" /\ written' = written
    BY <1>7, TwoProcesses, AppendSteps
  <2>2. delivering'[History].posts = 0
    BY <1>0, <1>7, <2>1
  <2>3. ~(Running' /\ delivering'[History].posts > 0 /\ at'[Self] \in {"idle", "open", "moved"})
    BY <2>2
  <2>4. ~InFlight(Self)'
    BY <2>1 DEF InFlight
  <2> QED BY <1>0, <1>1, <1>2, <2>1, <2>3, <2>4, OwnNumbersKeep
<1> QED BY <1>4, <1>5, <1>6, <1>7 DEF HistoryNotify, InHistory

LEMMA NextOwnNumbers ==
  ASSUME IInv, HistoryTypeOK, HistoryBook, OwnNumbers, [Next]_vars
  PROVE  OwnNumbers'
<1> USE DEF queueVars, engineVars, producerVars, lossVars, endVars
<1>0. /\ delivering \in [Destinations -> InHand \cup {Idle}] /\ History \in Destinations
      /\ queue \in [Destinations -> Seq(Nat \ {0})]
      /\ written \in Seq(Int) /\ entry \in [Processes -> Int] /\ Self \in Processes
  BY TwoProcesses DEF IInv, TypeOK, HistoryTypeOK
<1>1. CASE /\ UNCHANGED <<queue, delivering, offered, historyVars>>
           /\ Running' <=> Running
  BY <1>1, OwnNumbersStay DEF historyVars
<1>2. ASSUME NEW p \in Producers, Send(p) PROVE OwnNumbers'
  BY <1>2, SendNumbers
<1>3. CASE HistoryNotify
  BY <1>3, HistoryNotifyNumbers
<1>4. CASE Shared
  <2>1. /\ UNCHANGED <<queue, delivering, offered, phase>> /\ entry'[Self] = entry[Self]
        /\ at'[Self] = at[Self] \/ (at[Self] = "open" /\ at'[Self] = "moved")
        /\ \/ written' = written
           \/ written' = Append(written, entry[Other]) /\ InFlight(Other)
    <3>1. UNCHANGED <<queue, delivering, offered, phase>>
      BY <1>4 DEF Shared
    <3> QED BY <1>4, <3>1, SharedStep
  <2>2. Busy(History)' => Busy(History) /\ InHistory' = InHistory
    BY <2>1 DEF Busy, InHistory
  <2>3. /\ Running' /\ delivering'[History].posts > 0 /\ at'[Self] \in {"idle", "open", "moved"} =>
             Running /\ delivering[History].posts > 0 /\ at[Self] \in {"idle", "open", "moved"}
        /\ InFlight(Self)' => Running' /\ entry'[Self] = InHistory' /\ delivering'[History].posts > 0
    BY <2>1 DEF Running, InFlight, OwnNumbers, InHistory
  <2>4. PICK e \in Int : e = entry[Other]
    BY TwoProcesses DEF HistoryTypeOK
  <2>5. written' = written \/ (written' = Append(written, e) /\ ~(e >= 0))
    BY <2>1, <2>4 DEF HistoryBook
  <2> QED BY <1>0, <2>1, <2>2, <2>3, <2>5, OwnNumbersKeep
<1>5. CASE Exit
  <2>1. /\ ~Running' /\ at'[Self] = "idle" /\ written' = written
        /\ UNCHANGED <<queue, delivering, offered>>
    <3>1. UNCHANGED <<queue, delivering, offered>>
      BY <1>5 DEF Exit
    <3> QED BY <1>5, <3>1, ExitStep
  <2>2. Busy(History)' => Busy(History) /\ InHistory' = InHistory
    BY <2>1 DEF Busy, InHistory
  <2>3. ~InFlight(Self)'
    BY <2>1 DEF InFlight
  <2>4. 0 \in Int
    OBVIOUS
  <2> QED BY <1>0, <2>1, <2>2, <2>3, <2>4, OwnNumbersKeep
<1>6. CASE Take(History)
  BY <1>6, TakeNumbers
<1>7. CASE Settle(History)
  <2>1. /\ Running /\ Running' /\ ~Busy(History)' /\ delivering[History].posts = 0
        /\ delivering'[History].posts = 0
        /\ UNCHANGED <<queue, offered, historyVars>>
    BY <1>0, <1>7 DEF Settle, Running, Busy, Idle
  <2>2. ~InFlight(Self)'
    BY <2>1 DEF HistoryBook, InFlight, historyVars
  <2>3. 0 \in Int
    OBVIOUS
  <2> QED BY <1>0, <2>1, <2>2, <2>3, OwnNumbersKeep DEF historyVars
<1>8. ASSUME NEW d \in Destinations, d # History,
             Take(d) \/ Answer(d) \/ Deadline(d) \/ Settle(d)
      PROVE  OwnNumbers'
  <2>1. /\ delivering'[History] = delivering[History] /\ queue'[History] = queue[History]
        /\ UNCHANGED <<offered, phase, historyVars>>
    BY <1>0, <1>8 DEF Take, Answer, Deadline, Settle
  <2> QED BY <2>1, OwnNumbersStay DEF Running, historyVars
<1>9. CASE Stop \/ StartFlush \/ FlushDone \/ FlushGivesUp
  <2>1. Running /\ Running' /\ UNCHANGED <<queue, delivering, offered, historyVars>>
    BY <1>9 DEF Stop, StartFlush, FlushDone, FlushGivesUp, Flushing, Running
  <2> QED BY <1>1, <2>1
<1>10. CASE Tick \/ UNCHANGED vars
  BY <1>1, <1>10 DEF Tick, vars, Running
<1>11. CASE \/ \E k \in 1..2 : Check(k)
            \/ \E h \in Handlers, req \in Requests : Serve(h, req)
            \/ \E p \in Producers : CountIn(p)
  BY <1>1, <1>11 DEF Check, Serve, CountIn, Running
<1> QED
  BY <1>2, <1>3, <1>4, <1>5, <1>6, <1>7, <1>8, <1>9, <1>10, <1>11
  DEF Next, Produce, Pump, End, Answer, Deadline

(* A line of the other process is one more of its own, another's is not. *)
Theirs(s) == {i \in 1..Len(s) : s[i] < 0}

LEMMA TheirsAppend ==
  ASSUME NEW s \in Seq(Int), NEW e \in Int
  PROVE  /\ Cardinality(Theirs(s)) \in Nat
         /\ e < 0 => Cardinality(Theirs(Append(s, e))) = Cardinality(Theirs(s)) + 1
         /\ ~(e < 0) => Cardinality(Theirs(Append(s, e))) = Cardinality(Theirs(s))
<1> DEFINE t == Append(s, e)
           A == Theirs(s)
           B == Theirs(t)
           n == Len(s)
<1>1. /\ n \in Nat /\ Len(t) = n + 1 /\ t[n + 1] = e
      /\ \A i \in 1..n : t[i] = s[i]
  BY LenProperties, AppendProperties
<1>2. IsFiniteSet(1..n) /\ A \subseteq 1..n
  BY <1>1, FS_Interval DEF Theirs
<1>3. IsFiniteSet(A) /\ Cardinality(A) \in Nat
  BY <1>2, FS_Subset, FS_CardinalityType
<1>4. \A i \in 1..(n + 1) : i \in 1..n \/ i = n + 1
  BY <1>1
<1>5. A = {i \in 1..n : s[i] < 0} /\ B = {i \in 1..(n + 1) : t[i] < 0}
  BY <1>1 DEF Theirs
<1> HIDE DEF A, B, n, t
<1>6. n + 1 \notin A /\ 1..n \subseteq 1..(n + 1) /\ n + 1 \in 1..(n + 1)
  BY <1>1, <1>5
<1>7. e < 0 => B = A \cup {n + 1}
  BY <1>1, <1>4, <1>5, <1>6
<1>8. ~(e < 0) => B = A
  BY <1>1, <1>4, <1>5, <1>6
<1>9. e < 0 => Cardinality(B) = Cardinality(A) + 1
  BY <1>3, <1>6, <1>7, FS_AddElement
<1> QED BY <1>3, <1>8, <1>9 DEF A, B, t

LEMMA NextOtherNumbers ==
  ASSUME IInv, HistoryTypeOK, HistoryBook, OtherNumbers, [Next]_vars
  PROVE  OtherNumbers'
<1> DEFINE c == Cardinality(WrittenThere)
           c1 == Cardinality(WrittenThere')
<1>0. /\ written \in Seq(Int) /\ entry \in [Processes -> Int] /\ at \in [Processes -> Stages]
      /\ Self \in Processes /\ Other \in Processes
  BY TwoProcesses DEF HistoryTypeOK
<1>1. /\ c \in Nat /\ (written' = written => c1 = c)
      /\ \A e \in Int : written' = Append(written, e) =>
           /\ e < 0 => c1 = c + 1
           /\ ~(e < 0) => c1 = c
  <2>1. WrittenThere = Theirs(written) /\ WrittenThere' = Theirs(written')
    BY DEF WrittenThere, Theirs
  <2>2. 0 \in Int
    OBVIOUS
  <2>3. Cardinality(Theirs(written)) \in Nat
    BY <1>0, <2>2, TheirsAppend
  <2>4. \A e \in Int :
          /\ e < 0 => Cardinality(Theirs(Append(written, e))) = Cardinality(Theirs(written)) + 1
          /\ ~(e < 0) => Cardinality(Theirs(Append(written, e))) = Cardinality(Theirs(written))
    BY <1>0, TheirsAppend
  <2> QED BY <2>1, <2>3, <2>4
<1>2. /\ \A k \in 1..Len(written) : written[k] < 0 => written[k] >= -c
      /\ InFlight(Other) => entry[Other] = -1 - c
      /\ \A p \in Processes \ {Self, Other} : at[p] = "idle"
  BY DEF OtherNumbers
<1>c. c1 = Cardinality(WrittenThere')
  OBVIOUS
<1> HIDE DEF c, c1
<1>3. ASSUME NEW e \in Int,
             \/ written' = written
             \/ written' = Append(written, e) /\ (e < 0 => e = -1 - c),
             \/ ~InFlight(Other)'
             \/ written' = written /\ entry'[Other] = -1 - c
             \/ written' = Append(written, e) /\ ~(e < 0) /\ entry'[Other] = -1 - c,
             \A p \in Processes \ {Self, Other} : at'[p] = "idle"
      PROVE  OtherNumbers'
  <2>1. c1 \in Nat /\ c1 >= c /\ (written' = Append(written, e) /\ e < 0 => e >= -c1)
    BY <1>1, <1>3
  <2>2. \A k \in 1..Len(written) : written[k] < 0 => written[k] >= -c1
    <3>1. \A k \in 1..Len(written) : written[k] \in Int
      BY <1>0, ElementOfSeq
    <3> QED BY <1>1, <1>2, <2>1, <3>1
  <2>3. \A k \in 1..Len(written') : written'[k] < 0 => written'[k] >= -c1
    <3>1. CASE written' = written
      BY <2>2, <3>1
    <3>2. CASE written' = Append(written, e)
      <4> DEFINE m == Len(written)
                 m1 == Len(written')
      <4>1. /\ m \in Nat /\ m1 = m + 1 /\ written'[m + 1] = e
            /\ \A k \in 1..m : written'[k] = written[k]
        BY <1>0, <3>2, LenProperties, AppendProperties
      <4>m. m = Len(written) /\ m1 = Len(written')
        OBVIOUS
      <4> HIDE DEF m, m1
      <4>2. \A k \in 1..m1 : k \in 1..m \/ k = m + 1
        BY <4>1
      <4> QED BY <2>1, <2>2, <3>2, <4>1, <4>2, <4>m
    <3> QED BY <1>3, <3>1, <3>2
  <2>4. InFlight(Other)' => entry'[Other] = -1 - c1
    BY <1>1, <1>3
  <2> QED BY <1>3, <1>c, <2>3, <2>4 DEF OtherNumbers
<1>4. CASE UNCHANGED historyVars
  <2>1. (InFlight(Other)' => InFlight(Other)) /\ at' = at /\ entry' = entry /\ written' = written
    BY <1>4 DEF InFlight, historyVars
  <2>2. 0 \in Int
    OBVIOUS
  <2> QED BY <1>2, <1>3, <2>1, <2>2
<1>5. ASSUME NEW p \in {Self, Other}, NEW e \in Int,
             Open(p, e) \/ Write(p) \/ AppendFails(p) \/ Compact(p) \/ Die(p)
      PROVE  \A q \in Processes \ {Self, Other} : at'[q] = "idle"
  <2> SUFFICES ASSUME NEW q \in Processes \ {Self, Other} PROVE at'[q] = "idle"
    OBVIOUS
  <2>1. at[q] = "idle" /\ q \in Processes \ {p} /\ p \in Processes
    BY <1>0, <1>2
  <2>2. at'[q] = at[q] \/ (at[q] = "open" /\ at'[q] = "moved")
    BY <1>5, <2>1, AppendSteps
  <2> QED BY <2>1, <2>2
<1>6. CASE HistoryNotify
  <2>1. \A q \in Processes \ {Self, Other} : at'[q] = "idle"
    <3>1. delivering[History].n \in Int
      <4>1. delivering[History] \in InHand \cup {Idle}
        BY TwoProcesses, DestinationTypes DEF IInv
      <4> QED BY <4>1 DEF InHand, Idle
    <3> QED BY <1>5, <1>6, <3>1 DEF HistoryNotify
  <2>2. PICK e \in Int : e = entry[Self]
    BY <1>0
  <2>3. /\ entry'[Other] = entry[Other] /\ (InFlight(Other)' => InFlight(Other))
        /\ \/ written' = written
           \/ written' = Append(written, e) /\ InFlight(Self)
    BY <1>6, <2>2, HistoryNotifyStep DEF InFlight
  <2>4. InFlight(Self) => ~(e < 0)
    BY <2>2 DEF HistoryBook
  <2> QED BY <1>2, <1>3, <2>1, <2>3, <2>4
<1>7. CASE Shared
  <2>0. PICK o \in Int : o = -1 - c
    BY <1>1
  <2>1. Open(Other, o) \/ Write(Other) \/ AppendFails(Other) \/ Compact(Other) \/ Die(Other)
    BY <1>7, <2>0 DEF Shared, c
  <2>2. \A q \in Processes \ {Self, Other} : at'[q] = "idle"
    BY <1>5, <2>1
  <2>3. CASE Open(Other, o)
    <3>1. entry'[Other] = o /\ written' = written
      BY <2>3, TwoProcesses, AppendSteps
    <3> QED BY <1>3, <2>0, <2>2, <3>1
  <2>4. CASE Write(Other)
    <3>1. PICK e \in Int : e = entry[Other]
      BY <1>0
    <3>2. InFlight(Other) /\ ~InFlight(Other)' /\ written' = Append(written, e)
      BY <2>4, <3>1, TwoProcesses, AppendSteps DEF InFlight
    <3> QED BY <1>2, <1>3, <2>2, <3>1, <3>2
  <2>5. CASE AppendFails(Other) \/ Compact(Other) \/ Die(Other)
    <3>1. ~InFlight(Other)' /\ written' = written
      BY <2>5, TwoProcesses, AppendSteps DEF InFlight
    <3> QED BY <1>3, <2>0, <2>2, <3>1
  <2> QED BY <2>1, <2>3, <2>4, <2>5
<1>8. CASE Exit
  <2>1. 0 \in Int
    OBVIOUS
  <2>2. \A q \in Processes \ {Self, Other} : at'[q] = "idle"
    BY <1>5, <1>8, <2>1 DEF Exit
  <2>3. entry' = entry /\ written' = written /\ (InFlight(Other)' => InFlight(Other))
    BY <1>8, ExitStep DEF InFlight
  <2> QED BY <1>2, <1>3, <2>1, <2>2, <2>3
<1> QED
  BY <1>4, <1>6, <1>7, <1>8
  DEF Next, Produce, Pump, End, Check, Serve, CountIn, Send, Take, Answer, Deadline, Settle,
      Tick, Stop, StartFlush, FlushDone, FlushGivesUp, vars

LEMMA NextHistoryOrder ==
  ASSUME IInv, HistoryTypeOK, HistoryBook, Numbers, HistoryOrder, [Next]_vars
  PROVE  HistoryOrder'
<1> DEFINE c == Cardinality(WrittenThere)
<1>0. /\ written \in Seq(Int) /\ entry \in [Processes -> Int]
      /\ Self \in Processes /\ Other \in Processes /\ Self # Other
  BY TwoProcesses DEF HistoryTypeOK
<1>1. \A k \in 1..Len(written) : written[k] \in Int
  BY <1>0, ElementOfSeq
<1>2. c \in Nat
  <2>1. 0 \in Int /\ WrittenThere = Theirs(written)
    BY DEF WrittenThere, Theirs
  <2> QED BY <1>0, <2>1, TheirsAppend
<1>3. OwnNumbers /\ OtherNumbers
  BY DEF Numbers
<1>4. ASSUME NEW q \in Processes, InFlight(q) PROVE q = Self \/ q = Other
  BY <1>3, <1>4 DEF OtherNumbers, InFlight
<1>5. CASE UNCHANGED historyVars
  BY <1>5 DEF HistoryOrder, FileTypeOK, Contents, Underway, Whole, InFlight, historyVars
<1>6. CASE HistoryNotify
  <2>1. Running /\ delivering[History].posts > 0
    BY <1>6 DEF HistoryNotify
  <2>2. PICK e \in Nat \ {0} : e = delivering[History].n
    <3>1. delivering[History] \in InHand
      BY <2>1, TwoProcesses, DestinationTypes DEF IInv, Idle
    <3> QED BY <3>1 DEF InHand
  <2>3. CASE Open(Self, e)
    <3>1. at[Self] = "idle"
      BY <2>3 DEF Open
    <3>2. ASSUME NEW a \in 1..Len(written) PROVE written[a] # e
      <4>1. CASE written[a] >= 0
        <5>1. Recorded(written[a])
          BY <1>3, <4>1 DEF OwnNumbers
        <5>2. written[a] < e
          BY <2>1, <2>2, <3>1, <5>1 DEF Recorded, InHistory
        <5> QED BY <1>1, <2>2, <5>2
      <4>2. CASE ~(written[a] >= 0)
        BY <1>1, <2>2, <4>2
      <4> QED BY <4>1, <4>2
    <3>3. ASSUME NEW q \in Processes, q # Self, InFlight(q) PROVE entry[q] # e
      <4>1. q = Other /\ entry[Other] \in Int
        BY <1>0, <1>4, <3>3
      <4>2. entry[Other] < 0
        BY <3>3, <4>1 DEF HistoryBook
      <4> QED BY <2>2, <4>1, <4>2
    <3>4. e \in Int
      BY <2>2
    <3> QED BY <1>0, <2>3, <3>2, <3>3, <3>4, OpenKeepsOrder
  <2>4. CASE Write(Self)
    BY <1>0, <2>4, WriteKeepsOrder
  <2>5. CASE AppendFails(Self) \/ Compact(Self)
    BY <1>0, <2>5, CompactKeepsOrder
  <2> QED BY <1>6, <2>2, <2>3, <2>4, <2>5 DEF HistoryNotify
<1>7. CASE Shared
  <2>1. PICK o \in Int : o = -1 - c
    BY <1>2
  <2>2. CASE Open(Other, o)
    <3>1. ASSUME NEW a \in 1..Len(written) PROVE written[a] # o
      <4>1. written[a] < 0 => written[a] >= -c
        BY <1>3 DEF OtherNumbers
      <4> HIDE DEF c
      <4> QED BY <1>1, <1>2, <2>1, <4>1
    <3>2. ASSUME NEW q \in Processes, q # Other, InFlight(q) PROVE entry[q] # o
      <4>1. q = Self /\ entry[Self] \in Int
        BY <1>0, <1>4, <3>2
      <4>2. entry[Self] > 0
        BY <3>2, <4>1 DEF HistoryBook
      <4> HIDE DEF c
      <4> QED BY <1>2, <2>1, <4>1, <4>2
    <3> HIDE DEF c
    <3> QED BY <1>0, <2>2, <3>1, <3>2, OpenKeepsOrder
  <2>3. CASE Write(Other)
    BY <1>0, <2>3, WriteKeepsOrder
  <2>4. CASE AppendFails(Other) \/ Compact(Other) \/ Die(Other)
    BY <1>0, <2>4, CompactKeepsOrder
  <2> QED BY <1>7, <2>1, <2>2, <2>3, <2>4 DEF Shared
<1>8. CASE Exit
  BY <1>0, <1>8, CompactKeepsOrder DEF Exit
<1> QED
  BY <1>5, <1>6, <1>7, <1>8
  DEF Next, Produce, Pump, End, Check, Serve, CountIn, Send, Take, Answer, Deadline, Settle,
      Tick, Stop, StartFlush, FlushDone, FlushGivesUp, vars

HistoryInv == HistoryOrder /\ Numbers

LEMMA InitHistoryInv == Init => HistoryInv
<1> SUFFICES ASSUME Init PROVE HistoryInv
  OBVIOUS
<1>1. /\ file = <<>> /\ written = <<>> /\ lines = [p \in Processes |-> <<>>]
      /\ at = [p \in Processes |-> "idle"]
      /\ queue[History] = <<>> /\ offered[History] = 0 /\ delivering[History] = Idle
  BY TwoProcesses DEF Init, HistoryInit
<1>2. 1..Len(<<>>) = {} /\ <<>> \in Seq(Int)
  BY EmptySeq
<1>3. \A p \in Processes : at[p] = "idle" /\ ~InFlight(p)
  BY <1>1 DEF InFlight
<1>4. HistoryOrder
  <2>1. FileTypeOK
    BY <1>1, <1>2 DEF FileTypeOK
  <2>2. Contents
    BY <1>1, <1>2, <1>3 DEF Contents, Distinct, Whole, InOrder, Complete
  <2>3. Underway
    BY <1>3 DEF Underway
  <2> QED BY <2>1, <2>2, <2>3 DEF HistoryOrder
<1>5. OwnNumbers
  BY <1>1, <1>2, <1>3, TwoProcesses DEF OwnNumbers, Ascending, Busy
<1>6. OtherNumbers
  BY <1>1, <1>2, <1>3, TwoProcesses DEF OtherNumbers
<1> QED BY <1>4, <1>5, <1>6 DEF HistoryInv, Numbers

(* What order and completeness say of the file and of what is read back.   *)
LEMMA OrderKeepsNewest ==
  ASSUME HistoryTypeOK, HistoryOrder
  PROVE  HistoryKeepsNewest
<1>1. /\ file \in Seq(Int) /\ written \in Seq(Int)
      /\ InOrder(file, written) /\ Complete(file, written, racing) /\ Distinct(written)
  BY DEF HistoryTypeOK, HistoryOrder, FileTypeOK, Contents, Whole
<1>2. ASSUME NEW i \in 1..Len(file)
      PROVE  Position(file[i]) \in 1..Len(written) /\ file[i] = written[Position(file[i])]
  <2>1. \E a \in 1..Len(written) : written[a] = file[i]
    BY <1>1 DEF InOrder
  <2> QED BY <2>1 DEF Position
<1>3. ASSUME NEW i \in 1..Len(file), NEW j \in 1..Len(file), i < j
      PROVE  Position(file[i]) < Position(file[j])
  <2> DEFINE a == Position(file[i])
             b == Position(file[j])
  <2>1. /\ a \in 1..Len(written) /\ b \in 1..Len(written)
        /\ file[i] = written[a] /\ file[j] = written[b]
    BY <1>2
  <2> HIDE DEF a, b
  <2>2. a < b
    BY <1>1, <1>3, <2>1 DEF InOrder
  <2> QED BY <2>2 DEF a, b
<1>4. LoadAll \in Seq(Int) /\ Complete(LoadAll, written, racing)
  BY <1>1, KeepType, NewestInOrder DEF LoadAll
<1>5. ASSUME NEW a \in 1..Len(written), a > Len(written) - Keep
      PROVE  written[a] \in ToSet(LoadAll) \cup racing
  <2>1. written[a] \in racing \/ \E i \in 1..Len(LoadAll) : LoadAll[i] = written[a]
    BY <1>4, <1>5 DEF Complete
  <2>2. ToSet(LoadAll) = {LoadAll[i] : i \in 1..Len(LoadAll)}
    BY <1>4, LenProperties DEF ToSet
  <2> QED BY <2>1, <2>2
<1> QED BY <1>3, <1>5 DEF HistoryKeepsNewest

(* Whatever is read back of the alert history is in the order written, and *)
(* of the newest lines only one whose append overlapped another process's  *)
(* compaction may be missing: neither compaction, nor its failure, nor the *)
(* end of a process between any two steps loses another (Append, Compact,  *)
(* alert/history.go).                                                      *)
THEOREM HistoryAlwaysKeepsNewest == Spec => []HistoryKeepsNewest
<1> DEFINE J == HistoryTypeOK /\ HistoryBook /\ HistoryInv
<1>1. Init => J
  BY InitFlushInv, InitHistoryInv DEF FlushInv
<1>2. IInv /\ TypeOK' /\ J /\ [Next]_vars => J'
  <2> SUFFICES ASSUME IInv, TypeOK', J, [Next]_vars PROVE J'
    OBVIOUS
  <2>1. HistoryTypeOK' /\ HistoryBook'
    BY NextHistoryTypeOK, NextHistoryBook
  <2>2. HistoryOrder' /\ OwnNumbers' /\ OtherNumbers'
    BY NextHistoryOrder, NextOwnNumbers, NextOtherNumbers DEF HistoryInv, Numbers
  <2> QED BY <2>1, <2>2 DEF HistoryInv, Numbers
<1>3. J => HistoryKeepsNewest
  BY OrderKeepsNewest DEF HistoryInv
<1>4. IInv => TypeOK
  BY DEF IInv
<1> HIDE DEF J
<1> QED BY <1>1, <1>2, <1>3, <1>4, SpecIInv, PTL DEF Spec

=============================================================================
