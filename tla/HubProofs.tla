----------------------------- MODULE HubProofs -----------------------------
(***************************************************************************)
(* Proofs about the hub for any number of observers, any buffer sizes and  *)
(* any stream of quotes.                                                   *)
(***************************************************************************)
EXTENDS Hub, SequenceLemmas, TLAPS, FiniteSetTheorems, SequenceTheorems

(***************************************************************************)
(* The inductive invariant: who is where in the life of an observer, and   *)
(* where in the stream its three sequences lie.                            *)
(***************************************************************************)
Lifecycle ==
  /\ reader = "new" => arrivals = <<>>
  /\ reader = "fanout" => Len(arrivals) > 0
  /\ hubStopped <=> reader \in {"stopping", "exited"}
  /\ hubStopped => registered = {}
  /\ ~hubStopped => toStop = {} /\ stopped = {}
  /\ registered \cap stopped = {}
  /\ toStop \cap stopped = {}
  /\ pumps \subseteq Joined

(* What is known of observer o: if it never joined it holds nothing;      *)
(* afterwards every quote fanned out since it joined is somewhere, and     *)
(* without losses its three sequences follow one another without a gap.    *)
Empty(o) ==
  /\ queue[o] = <<>> /\ batch[o] = <<>> /\ got[o] = <<>>
  /\ lost[o] = 0 /\ discarded[o] = 0

Balance(o) ==
  Notified = since[o] + Len(got[o]) + Len(batch[o]) + Len(queue[o]) + lost[o] + discarded[o]

Contiguous(o) ==
  /\ \A i \in 1..Len(got[o]) : got[o][i] = since[o] + i
  /\ \A i \in 1..Len(batch[o]) : batch[o][i] = since[o] + Len(got[o]) + i
  /\ \A i \in 1..Len(queue[o]) : queue[o][i] = since[o] + Len(got[o]) + Len(batch[o]) + i

Bounded(o) ==
  /\ Len(queue[o]) <= ObserverMax
  /\ Len(batch[o]) <= ObserverMax
  /\ lost[o] > 0 => Notified > since[o] + ObserverMax

Book(o) ==
  /\ o \notin Joined => Empty(o)
  /\ o \in Joined => Balance(o)
  /\ o \notin stopped => discarded[o] = 0
  /\ lost[o] = 0 => Contiguous(o)
  /\ Bounded(o)

Books == \A o \in Observers : Book(o)

IInv == TypeOK /\ Lifecycle /\ Books

-----------------------------------------------------------------------------

LEMMA InitIInv == Init => IInv
<1> SUFFICES ASSUME Init PROVE IInv
  OBVIOUS
<1> USE HubAssumption, EmptySeq DEF Init, HubAssumption
<1>1. FeedTypeOK
  <2>1. subs \in [Providers -> SUBSET Symbols] /\ unroutable \in SUBSET Spellings
    OBVIOUS
  <2>2. quoteCh \in Seq({Venue[s] : s \in Symbols}) /\ Len(quoteCh) <= QuoteBuffer
    OBVIOUS
  <2>3. ctxDone \in BOOLEAN
    OBVIOUS
  <2> QED BY <2>1, <2>2, <2>3 DEF FeedTypeOK
<1>2. ReaderTypeOK
  BY DEF ReaderTypeOK
<1>3. LifeTypeOK
  BY DEF LifeTypeOK
<1>4. QueueTypeOK
  BY DEF QueueTypeOK
<1>5. DispatchTypeOK
  <2>1. onQuote \in BOOLEAN
    OBVIOUS
  <2>2. dispatchCh \in Seq(Nat) /\ Len(dispatchCh) <= DispatchBuffer
    OBVIOUS
  <2>3. /\ drops \in Nat /\ dispatcher \in {"new", "select", "calling", "exited"}
        /\ showing \in Seq(Nat) /\ shown \in Seq(Nat)
    OBVIOUS
  <2> QED BY <2>1, <2>2, <2>3 DEF DispatchTypeOK
<1>6. Lifecycle
  BY DEF Lifecycle, Joined
<1>7. Books
  BY DEF Books, Book, Empty, Balance, Contiguous, Bounded, Joined
<1> QED BY <1>1, <1>2, <1>3, <1>4, <1>5, <1>6, <1>7 DEF IInv, TypeOK

-----------------------------------------------------------------------------
(* Type correctness, one lemma for each part of the state.                 *)

(* What the reader receives has a symbol: providers speak of routed ones.   *)
LEMMA ReceivedSymbol ==
  ASSUME FeedTypeOK, Receive
  PROVE  Canon[Head(quoteCh)] \in Symbols
<1>1. Head(quoteCh) \in {Venue[s] : s \in Symbols}
  BY HeadTailProperties DEF Receive, FeedTypeOK
<1> QED BY <1>1, HubAssumption DEF HubAssumption

LEMMA NextFeedTypeOK == TypeOK /\ [Next]_vars => FeedTypeOK'
<1> SUFFICES ASSUME TypeOK, [Next]_vars PROVE FeedTypeOK'
  OBVIOUS
<1> USE HubAssumption DEF HubAssumption, TypeOK, FeedTypeOK, feedVars
<1>1. CASE Start
  <2>1. subs' \in [Providers -> SUBSET Symbols] /\ unroutable' \in SUBSET Spellings
    <3>1. \A p \in Providers : Route(p) \in SUBSET Symbols
      <4>1. \A i \in FirstSpellings : Canon[WatchList[i]] \in Symbols
        <5>1. \A i \in 1..Len(WatchList) : WatchList[i] \in Spellings
          BY ElementOfSeq
        <5> QED BY <5>1 DEF FirstSpellings
      <4> QED BY <4>1 DEF Route
    <3>2. Unroutable \in SUBSET Spellings
      BY DEF Unroutable, FirstSpellings
    <3> QED BY <1>1, <3>1, <3>2 DEF Start
  <2> QED BY <1>1, <2>1 DEF Start
<1>2. CASE Cancel
  BY <1>2 DEF Cancel
<1>3. CASE Receive
  BY <1>3, HeadTailProperties, LenProperties DEF Receive
<1>4. ASSUME NEW p \in Providers, ProviderSend(p) PROVE FeedTypeOK'
  <2>1. PICK s \in subs[p] : quoteCh' = Append(quoteCh, Venue[s])
    BY <1>4 DEF ProviderSend
  <2>2. Venue[s] \in {Venue[x] : x \in Symbols}
    BY <2>1
  <2>3. quoteCh' \in Seq({Venue[x] : x \in Symbols}) /\ Len(quoteCh') = Len(quoteCh) + 1
    BY <2>1, <2>2, AppendProperties
  <2> QED BY <1>4, <2>3, LenProperties DEF ProviderSend
<1>5. CASE UNCHANGED feedVars
  BY <1>5
<1> QED
  BY <1>1, <1>2, <1>3, <1>4, <1>5 
  DEF Next, Reader, Pump, Dispatcher, FanOut, StopObservers, StopObserver, ReaderExit,
      AddObserver, Take, Deliver, PumpExit, DispatcherCall, DispatcherReturn,
      DispatcherExit, vars

LEMMA NextReaderTypeOK == TypeOK /\ [Next]_vars => ReaderTypeOK'
<1> SUFFICES ASSUME TypeOK, [Next]_vars PROVE ReaderTypeOK'
  OBVIOUS
<1> USE HubAssumption DEF HubAssumption, TypeOK, ReaderTypeOK, readVars
<1>1. CASE Receive
  <2>1. Canon[Head(quoteCh)] \in Symbols
    BY <1>1, ReceivedSymbol
  <2>2. arrivals' \in Seq(Symbols) /\ Len(arrivals) + 1 \in Nat
    BY <1>1, <2>1, AppendProperties, LenProperties DEF Receive
  <2> QED BY <1>1, <2>2 DEF Receive
<1>2. CASE Start \/ FanOut \/ StopObservers \/ ReaderExit
  BY <1>2 DEF Start, FanOut, StopObservers, ReaderExit
<1>3. CASE UNCHANGED readVars
  BY <1>3
<1> QED
  BY <1>1, <1>2, <1>3
  DEF Next, Reader, Pump, Dispatcher, Cancel, ProviderSend, StopObserver,
      AddObserver, Take, Deliver, PumpExit, DispatcherCall, DispatcherReturn,
      DispatcherExit, vars

LEMMA NextLifeTypeOK == TypeOK /\ [Next]_vars => LifeTypeOK'
<1> SUFFICES ASSUME TypeOK, [Next]_vars PROVE LifeTypeOK'
  OBVIOUS
<1> USE DEF TypeOK, LifeTypeOK, hubObsVars, pumpVars
<1>1. CASE StopObservers
  BY <1>1 DEF StopObservers
<1>2. ASSUME NEW o \in Observers, StopObserver(o) PROVE LifeTypeOK'
  BY <1>2 DEF StopObserver
<1>3. ASSUME NEW o \in Observers, AddObserver(o) PROVE LifeTypeOK'
  BY <1>3 DEF AddObserver
<1>4. ASSUME NEW o \in Observers, PumpExit(o) PROVE LifeTypeOK'
  BY <1>4 DEF PumpExit
<1>5. CASE UNCHANGED <<hubObsVars, stopped, pumps>>
  BY <1>5
<1> QED
  BY <1>1, <1>2, <1>3, <1>4, <1>5
  DEF Next, Reader, Pump, Dispatcher, Start, Cancel, ProviderSend, Receive, FanOut,
      ReaderExit, Take, Deliver, DispatcherCall, DispatcherReturn, DispatcherExit, vars

LEMMA NextDispatchTypeOK == TypeOK /\ [Next]_vars => DispatchTypeOK'
<1> SUFFICES ASSUME TypeOK, [Next]_vars PROVE DispatchTypeOK'
  OBVIOUS
<1> USE HubAssumption DEF HubAssumption, TypeOK, DispatchTypeOK, dispVars
<1>1. CASE Start
  BY <1>1 DEF Start
<1>2. CASE FanOut
  <2>1. Len(arrivals) \in Nat /\ Len(dispatchCh) \in Nat
    BY LenProperties DEF ReaderTypeOK
  <2>2. CASE onQuote /\ Len(dispatchCh) < DispatchBuffer
    <3>1. dispatchCh' = Append(dispatchCh, Len(arrivals)) /\ drops' = drops
      BY <1>2, <2>2, <2>1 DEF FanOut, Dispatch
    <3>2. dispatchCh' \in Seq(Nat) /\ Len(dispatchCh') = Len(dispatchCh) + 1
      BY <2>1, <3>1, AppendProperties
    <3> QED BY <1>2, <2>1, <2>2, <3>1, <3>2 DEF FanOut
  <2>3. CASE ~(onQuote /\ Len(dispatchCh) < DispatchBuffer)
    BY <1>2, <2>3 DEF FanOut, Dispatch
  <2> QED BY <2>2, <2>3
<1>3. CASE DispatcherCall
  <2>1. /\ Head(dispatchCh) \in Nat /\ Tail(dispatchCh) \in Seq(Nat)
        /\ Len(Tail(dispatchCh)) = Len(dispatchCh) - 1 /\ Len(dispatchCh) \in Nat
    BY <1>3, HeadTailProperties, LenProperties DEF DispatcherCall
  <2> QED BY <1>3, <2>1 DEF DispatcherCall
<1>4. CASE DispatcherReturn
  BY <1>4, ConcatProperties, EmptySeq DEF DispatcherReturn
<1>5. CASE DispatcherExit
  BY <1>5 DEF DispatcherExit
<1>6. CASE UNCHANGED dispVars
  BY <1>6
<1> QED
  BY <1>1, <1>2, <1>3, <1>4, <1>5, <1>6
  DEF Next, Reader, Pump, Dispatcher, Cancel, ProviderSend, Receive, StopObservers,
      StopObserver, ReaderExit, AddObserver, Take, Deliver, PumpExit, vars

-----------------------------------------------------------------------------
(* The life of the observers.                                              *)

LEMMA NextLifecycle == TypeOK /\ Lifecycle /\ [Next]_vars => Lifecycle'
<1> SUFFICES ASSUME TypeOK, Lifecycle, [Next]_vars PROVE Lifecycle'
  OBVIOUS
<1> USE DEF Lifecycle, Joined, hubObsVars, pumpVars, readVars
<1>1. CASE Start
  BY <1>1 DEF Start
<1>2. CASE Receive
  <2>1. Len(arrivals') > 0
    <3>1. Canon[Head(quoteCh)] \in Symbols
      BY <1>2, ReceivedSymbol DEF TypeOK
    <3> QED BY <1>2, <3>1, AppendProperties, LenProperties DEF Receive, TypeOK, ReaderTypeOK
  <2> QED BY <1>2, <2>1 DEF Receive
<1>3. CASE FanOut
  BY <1>3 DEF FanOut
<1>4. CASE StopObservers
  BY <1>4 DEF StopObservers
<1>5. ASSUME NEW o \in Observers, StopObserver(o) PROVE Lifecycle'
  BY <1>5 DEF StopObserver
<1>6. CASE ReaderExit
  BY <1>6 DEF ReaderExit
<1>7. ASSUME NEW o \in Observers, AddObserver(o) PROVE Lifecycle'
  BY <1>7 DEF AddObserver
<1>8. ASSUME NEW o \in Observers, PumpExit(o) PROVE Lifecycle'
  BY <1>8 DEF PumpExit
<1>9. CASE UNCHANGED <<readVars, hubObsVars, stopped, pumps>>
  BY <1>9
<1> QED
  BY <1>1, <1>2, <1>3, <1>4, <1>5, <1>6, <1>7, <1>8, <1>9
  DEF Next, Reader, Pump, Dispatcher, Cancel, ProviderSend, Take, Deliver,
      DispatcherCall, DispatcherReturn, DispatcherExit, vars

(* Only a fan-out moves the number of quotes the observers should have.    *)
LEMMA NotifiedStep ==
  ASSUME TypeOK, Lifecycle, [Next]_vars
  PROVE  /\ Notified \in Nat
         /\ Notified' = IF FanOut THEN Notified + 1 ELSE Notified
         /\ FanOut => Notified' = Len(arrivals)
<1>1. Notified \in Nat /\ Len(arrivals) \in Nat
  BY LenProperties DEF TypeOK, ReaderTypeOK, Lifecycle, Notified
<1>2. CASE FanOut
  BY <1>1, <1>2 DEF FanOut, Notified
<1>3. CASE Receive
  <2>1. Canon[Head(quoteCh)] \in Symbols
    BY <1>3, ReceivedSymbol DEF TypeOK
  <2>2. Len(arrivals') = Len(arrivals) + 1
    BY <1>3, <2>1, AppendProperties DEF Receive, TypeOK, ReaderTypeOK
  <2>3. Notified' = Notified /\ ~FanOut
    BY <1>1, <1>3, <2>2 DEF Receive, Notified, FanOut
  <2> QED BY <1>1, <2>3
<1>4. CASE Start \/ StopObservers \/ ReaderExit
  BY <1>1, <1>4 DEF Start, StopObservers, ReaderExit, Notified, FanOut
<1>5. CASE UNCHANGED <<reader, arrivals>>
  BY <1>1, <1>5 DEF Notified, FanOut
<1> QED
  BY <1>2, <1>3, <1>4, <1>5
  DEF Next, Reader, Pump, Dispatcher, Cancel, ProviderSend, StopObserver, readVars,
      AddObserver, Take, Deliver, PumpExit, DispatcherCall, DispatcherReturn,
      DispatcherExit, vars

-----------------------------------------------------------------------------
(* The books of the observers, one lemma for each action that moves quotes. *)

queueVars == <<queue, batch, got, since, lost, discarded, obsDrops>>

LEMMA QueueTypes ==
  ASSUME QueueTypeOK, NEW o \in Observers
  PROVE  /\ queue[o] \in Seq(Nat) /\ Len(queue[o]) \in Nat
         /\ batch[o] \in Seq(Nat) /\ Len(batch[o]) \in Nat
         /\ got[o] \in Seq(Nat) /\ Len(got[o]) \in Nat
         /\ since[o] \in Nat /\ lost[o] \in Nat /\ discarded[o] \in Nat
BY LenProperties DEF QueueTypeOK

(* A step that moves no quote and no observer leaves the books as they are. *)
LEMMA FrameBooks ==
  ASSUME IInv, UNCHANGED queueVars, Joined' = Joined, stopped' = stopped,
         Notified' = Notified
  PROVE  QueueTypeOK' /\ Books'
BY DEF IInv, TypeOK, QueueTypeOK, Books, Book, Empty, Balance, Contiguous, Bounded,
       queueVars

LEMMA FanOutBooks ==
  ASSUME IInv, [Next]_vars, FanOut
  PROVE  QueueTypeOK' /\ Books'
<1>0. /\ Notified \in Nat /\ Notified' = Notified + 1 /\ Notified' = Len(arrivals)
      /\ ObserverMax \in Nat \ {0}
  BY NotifiedStep, HubAssumption DEF IInv, HubAssumption
<1>1. /\ Joined' = Joined /\ stopped' = stopped /\ registered \subseteq Observers
      /\ registered \cap stopped = {} /\ registered \subseteq Joined
      /\ ~hubStopped /\ toStop = {} /\ stopped = {}
  BY DEF IInv, FanOut, Joined, hubObsVars, TypeOK, LifeTypeOK, Lifecycle
<1>2. UNCHANGED <<batch, got, since, discarded>>
  BY DEF FanOut
<1>3. QueueTypeOK'
  <2>1. obsDrops' \in Nat
    <3>1. IsFiniteSet({o \in registered : Overflows(o)})
      BY <1>1, FS_Subset, HubAssumption DEF HubAssumption
    <3>2. Cardinality({o \in registered : Overflows(o)}) \in Nat
      BY <3>1, FS_CardinalityType
    <3> QED BY <3>2 DEF FanOut, Notify, IInv, TypeOK, QueueTypeOK
  <2>2. ASSUME NEW o \in Observers PROVE Pushed(o, Len(arrivals)) \in Seq(Nat)
    <3>1. queue[o] \in Seq(Nat) /\ Len(queue[o]) \in Nat /\ Len(arrivals) \in Nat
      BY <1>0, QueueTypes DEF IInv, TypeOK
    <3>2. Overflows(o) => queue[o] # <<>>
      BY <1>0, <3>1, EmptySeq DEF Overflows
    <3>3. (IF Overflows(o) THEN Tail(queue[o]) ELSE queue[o]) \in Seq(Nat)
      BY <3>1, <3>2, HeadTailProperties
    <3> QED BY <3>1, <3>3, AppendProperties DEF Pushed
  <2>3. queue' \in [Observers -> Seq(Nat)]
    BY <2>2 DEF FanOut, Notify, IInv, TypeOK, QueueTypeOK
  <2>4. lost' \in [Observers -> Nat]
    BY DEF FanOut, Notify, IInv, TypeOK, QueueTypeOK
  <2> QED BY <1>2, <2>1, <2>3, <2>4 DEF IInv, TypeOK, QueueTypeOK
<1>4. ASSUME NEW o \in Observers PROVE Book(o)'
  <2>0. Book(o)
    BY DEF IInv, Books
  <2>1. /\ queue[o] \in Seq(Nat) /\ Len(queue[o]) \in Nat
        /\ batch[o] \in Seq(Nat) /\ Len(batch[o]) \in Nat
        /\ got[o] \in Seq(Nat) /\ Len(got[o]) \in Nat
        /\ since[o] \in Nat /\ lost[o] \in Nat /\ discarded[o] \in Nat
    BY QueueTypes DEF IInv, TypeOK
  <2>2. CASE o \notin registered
    <3>1. UNCHANGED <<queue[o], lost[o]>>
      BY <2>2 DEF FanOut, Notify
    <3>2. o \notin Joined /\ o \notin Joined' /\ o \notin stopped'
      BY <1>1, <2>2 DEF Joined
    <3>3. Empty(o)'
      BY <1>2, <2>0, <3>1, <3>2 DEF Book, Empty
    <3>4. Contiguous(o)'
      BY <3>3, EmptySeq DEF Empty, Contiguous
    <3>5. Bounded(o)'
      BY <1>0, <3>3, EmptySeq DEF Empty, Bounded
    <3> QED BY <3>2, <3>3, <3>4, <3>5 DEF Book, Empty
  <2>3. CASE o \in registered /\ ~Overflows(o)
    <3>1. queue'[o] = Append(queue[o], Len(arrivals)) /\ lost'[o] = lost[o]
      BY <2>3 DEF FanOut, Notify, Pushed
    <3>2. /\ Len(queue'[o]) = Len(queue[o]) + 1
          /\ \A i \in 1..Len(queue[o]) : queue'[o][i] = queue[o][i]
          /\ queue'[o][Len(queue[o]) + 1] = Len(arrivals)
      BY <1>1, <2>1, <3>1, AppendProperties
    <3>3. Len(queue[o]) < ObserverMax
      BY <1>0, <2>1, <2>3 DEF Overflows
    <3>4. o \in Joined /\ discarded[o] = 0 /\ Balance(o) /\ Bounded(o)
      BY <1>1, <2>0, <2>3 DEF Book
    <3>5. Balance(o)'
      <4>1. Notified' = since[o] + Len(got[o]) + Len(batch[o]) + Len(queue'[o])
                          + lost[o] + discarded[o]
        <5> DEFINE g == Len(got[o])  b == Len(batch[o])  q == Len(queue[o])
        <5>1. Notified = since[o] + g + b + q + lost[o] + discarded[o]
          BY <3>4 DEF Balance
        <5>2. /\ g \in Nat /\ b \in Nat /\ q \in Nat
              /\ since[o] \in Nat /\ lost[o] \in Nat /\ discarded[o] \in Nat
          BY <2>1
        <5>3. Notified' = Notified + 1
          BY <1>0
        <5>4. Len(queue'[o]) = q + 1
          BY <3>2
        <5> HIDE DEF g, b, q
        <5>5. Notified' = since[o] + g + b + (q + 1) + lost[o] + discarded[o]
          BY <5>1, <5>2, <5>3
        <5> QED BY <5>4, <5>5 DEF g, b
      <4> QED BY <1>2, <3>1, <4>1 DEF Balance
    <3>6. lost'[o] = 0 => Contiguous(o)'
      <4> SUFFICES ASSUME lost[o] = 0 PROVE Contiguous(o)'
        BY <3>1
      <4>1. Contiguous(o)
        BY <2>0 DEF Book
      <4>2. Len(arrivals) = since[o] + Len(got[o]) + Len(batch[o]) + (Len(queue[o]) + 1)
        <5> DEFINE g == Len(got[o])  b == Len(batch[o])  q == Len(queue[o])
                   a == Len(arrivals)
        <5>1. Notified = since[o] + g + b + q + 0 + 0
          BY <3>4 DEF Balance
        <5>2. g \in Nat /\ b \in Nat /\ q \in Nat /\ since[o] \in Nat
          BY <2>1
        <5>3. a = Notified + 1
          BY <1>0
        <5> HIDE DEF g, b, q, a
        <5>4. a = since[o] + g + b + (q + 1)
          BY <5>1, <5>2, <5>3
        <5> QED BY <5>4 DEF g, b, q, a
      <4>3. \A i \in 1..Len(queue'[o]) :
              queue'[o][i] = since[o] + Len(got[o]) + Len(batch[o]) + i
        <5>1. \A i \in 1..Len(queue[o]) :
                queue'[o][i] = since[o] + Len(got[o]) + Len(batch[o]) + i
          BY <3>2, <4>1 DEF Contiguous
        <5>2. queue'[o][Len(queue[o]) + 1]
                = since[o] + Len(got[o]) + Len(batch[o]) + (Len(queue[o]) + 1)
          BY <3>2, <4>2
        <5>3. \A i \in 1..(Len(queue[o]) + 1) : i \in 1..Len(queue[o]) \/ i = Len(queue[o]) + 1
          BY <2>1
        <5> QED BY <3>2, <5>1, <5>2, <5>3
      <4> QED BY <1>2, <4>1, <4>3 DEF Contiguous
    <3>7. Bounded(o)'
      BY <1>0, <1>2, <2>1, <3>1, <3>2, <3>3, <3>4 DEF Bounded
    <3> QED BY <1>1, <3>1, <1>2, <2>0, <3>4, <3>5, <3>6, <3>7 DEF Book
  <2>4. CASE o \in registered /\ Overflows(o)
    <3>1. queue'[o] = Append(Tail(queue[o]), Len(arrivals)) /\ lost'[o] = lost[o] + 1
      BY <2>4 DEF FanOut, Notify, Pushed
    <3>2. Len(queue[o]) = ObserverMax /\ queue[o] # <<>>
      BY <2>0, <2>1, <2>4, EmptySeq, HubAssumption DEF Overflows, Book, Bounded, HubAssumption
    <3>3. Tail(queue[o]) \in Seq(Nat) /\ Len(Tail(queue[o])) = Len(queue[o]) - 1
      BY <2>1, <3>2, HeadTailProperties
    <3>4. Len(queue'[o]) = Len(queue[o])
      BY <1>1, <2>1, <3>1, <3>3, AppendProperties
    <3>5. o \in Joined /\ discarded[o] = 0 /\ Balance(o) /\ Bounded(o)
      BY <1>1, <2>0, <2>4 DEF Book
    <3>6. Balance(o)'
      <4>1. Notified' = since[o] + Len(got[o]) + Len(batch[o]) + Len(queue'[o])
                          + lost'[o] + discarded[o]
        <5> DEFINE g == Len(got[o])  b == Len(batch[o])  q == Len(queue[o])
                   h == since[o] + g + b + q
                   l == lost[o]
        <5>1. Notified = h + l + 0
          BY <3>5 DEF Balance
        <5>2. h \in Nat /\ l \in Nat
          <6>1. g \in Nat /\ b \in Nat /\ q \in Nat /\ since[o] \in Nat /\ l \in Nat
            BY <2>1
          <6> HIDE DEF g, b, q
          <6> QED BY <6>1
        <5>3. Notified' = Notified + 1
          BY <1>0
        <5>4. Len(queue'[o]) = Len(queue[o]) /\ lost'[o] = l + 1 /\ discarded[o] = 0
          BY <3>1, <3>4, <3>5
        <5> HIDE DEF h, l
        <5>5. Notified' = h + (l + 1) + 0
          BY <5>1, <5>2, <5>3
        <5> QED BY <5>4, <5>5 DEF h
      <4> QED BY <1>2, <4>1 DEF Balance
    <3>7. Bounded(o)'
      <4>1. Notified' > since[o] + ObserverMax
        <5> DEFINE g == Len(got[o])  b == Len(batch[o])  q == Len(queue[o])
        <5>1. Notified = since[o] + g + b + q + lost[o] + 0
          BY <3>5 DEF Balance
        <5>2. /\ g \in Nat /\ b \in Nat /\ q \in Nat /\ q = ObserverMax
              /\ since[o] \in Nat /\ lost[o] \in Nat
          BY <2>1, <3>2
        <5>3. Notified' = Notified + 1
          BY <1>0
        <5> HIDE DEF g, b, q
        <5>4. Notified >= since[o] + q
          BY <5>1, <5>2
        <5> QED BY <1>0, <5>2, <5>3, <5>4
      <4>2. Len(queue'[o]) <= ObserverMax /\ Len(batch[o]) <= ObserverMax
        BY <3>4, <3>5 DEF Bounded
      <4> QED BY <1>2, <4>1, <4>2 DEF Bounded
    <3> QED BY <1>1, <1>2, <2>0, <2>1, <3>1, <3>5, <3>6, <3>7 DEF Book
  <2> QED BY <2>2, <2>3, <2>4
<1> QED BY <1>3, <1>4 DEF Books

LEMMA StopObserverBooks ==
  ASSUME IInv, NEW x \in Observers, StopObserver(x), Notified' = Notified
  PROVE  QueueTypeOK' /\ Books'
<1> USE DEF IInv, TypeOK
<1>0. Notified \in Nat
  BY LenProperties DEF ReaderTypeOK, Lifecycle, Notified
<1>1. QueueTypeOK'
  BY QueueTypes, EmptySeq DEF StopObserver, QueueTypeOK
<1>2. ASSUME NEW o \in Observers PROVE Book(o)'
  <2>1. Book(o) /\ (o \in Joined' <=> o \in Joined) /\ (o \in stopped => o \in stopped')
    BY DEF Books, StopObserver, Joined
  <2>2. UNCHANGED <<batch, got, since, lost>>
    BY DEF StopObserver
  <2>3. CASE o # x
    <3>1. UNCHANGED <<queue[o], discarded[o]>> /\ (o \in stopped' <=> o \in stopped)
      BY <2>3 DEF StopObserver, QueueTypeOK
    <3> QED BY <2>1, <2>2, <3>1 DEF Book, Empty, Balance, Contiguous, Bounded
  <2>4. CASE o = x
    <3>1. queue'[o] = <<>> /\ Len(queue'[o]) = 0 /\ discarded'[o] = discarded[o] + Len(queue[o])
      BY <2>4, EmptySeq DEF StopObserver, QueueTypeOK
    <3>2. o \in stopped' /\ o \in Joined
      BY <2>4 DEF StopObserver, Joined
    <3>3. /\ Len(queue[o]) \in Nat /\ Len(batch[o]) \in Nat /\ Len(got[o]) \in Nat
          /\ since[o] \in Nat /\ lost[o] \in Nat /\ discarded[o] \in Nat
      BY QueueTypes
    <3>4. Balance(o)'
      <4>1. Balance(o)
        BY <2>1, <3>2 DEF Book
      <4>2. Notified = since[o] + Len(got[o]) + Len(batch[o]) + Len(queue'[o])
                         + lost[o] + discarded'[o]
        <5> DEFINE g == Len(got[o])  b == Len(batch[o])  q == Len(queue[o])
        <5>1. Notified = since[o] + g + b + q + lost[o] + discarded[o]
          BY <4>1 DEF Balance
        <5>2. /\ g \in Nat /\ b \in Nat /\ q \in Nat
              /\ since[o] \in Nat /\ lost[o] \in Nat /\ discarded[o] \in Nat
          BY <3>3
        <5>3. Len(queue'[o]) = 0 /\ discarded'[o] = discarded[o] + q
          BY <3>1
        <5> HIDE DEF g, b, q
        <5>4. Notified = since[o] + g + b + 0 + lost[o] + (discarded[o] + q)
          BY <5>1, <5>2
        <5> QED BY <5>3, <5>4 DEF g, b
      <4> QED BY <2>2, <4>2 DEF Balance
    <3>5. lost'[o] = 0 => Contiguous(o)'
      BY <2>1, <2>2, <3>1 DEF Book, Contiguous
    <3>6. Bounded(o)'
      BY <2>1, <2>2, <3>1, <3>3, HubAssumption DEF Book, Bounded, HubAssumption
    <3> QED BY <2>1, <3>2, <3>4, <3>5, <3>6 DEF Book
  <2> QED BY <2>3, <2>4
<1> QED BY <1>1, <1>2 DEF Books

LEMMA AddObserverBooks ==
  ASSUME IInv, NEW x \in Observers, AddObserver(x), Notified' = Notified
  PROVE  QueueTypeOK' /\ Books'
<1> USE DEF IInv, TypeOK
<1>0. Notified \in Nat
  BY LenProperties DEF ReaderTypeOK, Lifecycle, Notified
<1>1. QueueTypeOK'
  BY <1>0 DEF AddObserver, QueueTypeOK
<1>2. /\ x \notin Joined /\ x \in Joined' /\ stopped = {} /\ stopped' = {}
      /\ UNCHANGED <<queue, batch, got, lost, discarded>>
  BY DEF AddObserver, Lifecycle, Joined
<1>3. ASSUME NEW o \in Observers PROVE Book(o)'
  <2>1. Book(o)
    BY DEF Books
  <2>2. CASE o # x
    <3>1. since'[o] = since[o] /\ (o \in Joined' <=> o \in Joined)
      BY <2>2 DEF AddObserver, QueueTypeOK, Joined
    <3> QED BY <1>2, <2>1, <3>1 DEF Book, Empty, Balance, Contiguous, Bounded
  <2>3. CASE o = x
    <3>1. Empty(o)' /\ since'[o] = Notified
      BY <1>2, <2>1, <2>3 DEF AddObserver, QueueTypeOK, Book, Empty
    <3>2. Len(queue'[o]) = 0 /\ Len(batch'[o]) = 0 /\ Len(got'[o]) = 0
      BY <3>1, EmptySeq DEF Empty
    <3>3. Balance(o)'
      BY <1>0, <3>1, <3>2 DEF Balance, Empty
    <3>4. Contiguous(o)' /\ Bounded(o)'
      BY <3>1, <3>2, HubAssumption DEF Contiguous, Bounded, Empty, HubAssumption
    <3> QED BY <1>2, <2>3, <3>1, <3>3, <3>4 DEF Book, Empty
  <2> QED BY <2>2, <2>3
<1> QED BY <1>1, <1>3 DEF Books

LEMMA TakeBooks ==
  ASSUME IInv, NEW x \in Observers, Take(x), Notified' = Notified
  PROVE  QueueTypeOK' /\ Books'
<1> USE DEF IInv, TypeOK
<1>0. Notified \in Nat
  BY LenProperties DEF ReaderTypeOK, Lifecycle, Notified
<1>1. QueueTypeOK'
  BY EmptySeq DEF Take, QueueTypeOK
<1>2. Joined' = Joined /\ UNCHANGED <<stopped, got, since, lost, discarded>>
  BY DEF Take, Joined, hubObsVars
<1>3. ASSUME NEW o \in Observers PROVE Book(o)'
  <2>1. Book(o)
    BY DEF Books
  <2>2. CASE o # x
    <3>1. UNCHANGED <<queue[o], batch[o]>>
      BY <2>2 DEF Take, QueueTypeOK
    <3> QED BY <1>2, <2>1, <3>1 DEF Book, Empty, Balance, Contiguous, Bounded
  <2>3. CASE o = x
    <3>1. batch[o] = <<>> /\ batch'[o] = queue[o] /\ queue'[o] = <<>> /\ queue[o] # <<>>
      BY <2>3 DEF Take, QueueTypeOK
    <3>2. /\ Len(queue[o]) \in Nat /\ Len(batch[o]) = 0 /\ Len(got[o]) \in Nat
          /\ since[o] \in Nat /\ lost[o] \in Nat /\ discarded[o] \in Nat
      BY <3>1, EmptySeq, QueueTypes
    <3>3. Len(batch'[o]) = Len(queue[o]) /\ Len(queue'[o]) = 0
      BY <3>1, EmptySeq
    <3>4. o \in Joined
      BY <2>1, <3>1 DEF Book, Empty
    <3>5. Balance(o)'
      <4> DEFINE g == Len(got[o])  q == Len(queue[o])
      <4>1. Notified = since[o] + g + 0 + q + lost[o] + discarded[o]
        BY <2>1, <3>2, <3>4 DEF Book, Balance
      <4>2. g \in Nat /\ q \in Nat
        BY <3>2
      <4>3. Len(batch'[o]) = q /\ Len(queue'[o]) = 0 /\ Len(got'[o]) = g
        BY <1>2, <3>3
      <4> HIDE DEF g, q
      <4>4. Notified = since[o] + g + q + 0 + lost[o] + discarded[o]
        BY <1>0, <3>2, <4>1, <4>2
      <4> QED BY <1>2, <4>3, <4>4 DEF Balance
    <3>6. lost'[o] = 0 => Contiguous(o)'
      <4> SUFFICES ASSUME lost[o] = 0 PROVE Contiguous(o)'
        BY <1>2
      <4>1. \A i \in 1..Len(queue[o]) : queue[o][i] = since[o] + Len(got[o]) + 0 + i
        BY <2>1, <3>2 DEF Book, Contiguous
      <4>2. \A i \in 1..Len(queue[o]) : since[o] + Len(got[o]) + 0 + i = since[o] + Len(got[o]) + i
        BY <3>2
      <4>3. \A i \in 1..Len(got[o]) : got[o][i] = since[o] + i
        BY <2>1 DEF Book, Contiguous
      <4> QED BY <1>2, <3>1, <3>3, <4>1, <4>2, <4>3 DEF Contiguous
    <3>7. Bounded(o)'
      BY <1>2, <2>1, <3>1, <3>3, HubAssumption DEF Book, Bounded, HubAssumption
    <3> QED BY <1>2, <2>1, <3>4, <3>5, <3>6, <3>7 DEF Book
  <2> QED BY <2>2, <2>3
<1> QED BY <1>1, <1>3 DEF Books

LEMMA DeliverBooks ==
  ASSUME IInv, NEW x \in Observers, Deliver(x), Notified' = Notified
  PROVE  QueueTypeOK' /\ Books'
<1> USE DEF IInv, TypeOK
<1>0. Notified \in Nat
  BY LenProperties DEF ReaderTypeOK, Lifecycle, Notified
<1>1. /\ got' = [got EXCEPT ![x] = Append(@, Head(batch[x]))]
      /\ batch' = [batch EXCEPT ![x] = Tail(@)]
      /\ batch[x] # <<>>
  BY DEF Deliver
<1>2. Joined' = Joined /\ UNCHANGED <<stopped, queue, since, lost, discarded, obsDrops>>
  BY DEF Deliver, Joined, hubObsVars
<1>3. /\ batch[x] \in Seq(Nat) /\ got[x] \in Seq(Nat)
      /\ Len(batch[x]) \in Nat /\ Len(got[x]) \in Nat
  BY QueueTypes
<1>4. /\ Head(batch[x]) \in Nat /\ Tail(batch[x]) \in Seq(Nat)
      /\ Head(batch[x]) = batch[x][1]
      /\ Len(batch[x]) = Len(Tail(batch[x])) + 1 /\ Len(Tail(batch[x])) \in Nat
      /\ \A i \in 1..Len(Tail(batch[x])) : Tail(batch[x])[i] = batch[x][i + 1]
  BY <1>1, <1>3, HeadTailProperties
<1>5. /\ Append(got[x], Head(batch[x])) \in Seq(Nat)
      /\ Len(Append(got[x], Head(batch[x]))) = Len(got[x]) + 1
      /\ \A i \in 1..Len(got[x]) : Append(got[x], Head(batch[x]))[i] = got[x][i]
      /\ Append(got[x], Head(batch[x]))[Len(got[x]) + 1] = Head(batch[x])
  BY <1>3, <1>4, AppendProperties
<1>6. QueueTypeOK'
  BY <1>1, <1>2, <1>4, <1>5 DEF QueueTypeOK
<1>7. ASSUME NEW o \in Observers PROVE Book(o)'
  <2>1. Book(o)
    BY DEF Books
  <2>2. CASE o # x
    <3>1. UNCHANGED <<got[o], batch[o]>>
      BY <1>1, <2>2 DEF QueueTypeOK
    <3> QED BY <1>2, <2>1, <3>1 DEF Book, Empty, Balance, Contiguous, Bounded
  <2>3. CASE o = x
    <3> DEFINE g == Len(got[o])  t == Len(Tail(batch[o]))  q == Len(queue[o])
    <3>1. /\ got'[o] = Append(got[o], Head(batch[o])) /\ Len(got'[o]) = g + 1
          /\ batch'[o] = Tail(batch[o]) /\ Len(batch'[o]) = t
          /\ Len(batch[o]) = t + 1
      BY <1>1, <1>4, <1>5, <2>3 DEF QueueTypeOK
    <3>2. /\ g \in Nat /\ t \in Nat /\ q \in Nat
          /\ since[o] \in Nat /\ lost[o] \in Nat /\ discarded[o] \in Nat
      BY <1>4, <2>3, QueueTypes
    <3>3. o \in Joined
      BY <1>1, <2>1, <2>3 DEF Book, Empty
    <3>4. Balance(o)'
      <4>1. Notified = since[o] + g + (t + 1) + q + lost[o] + discarded[o]
        BY <2>1, <3>1, <3>3 DEF Book, Balance
      <4>2. Len(queue'[o]) = q
        BY <1>2
      <4> HIDE DEF g, t, q
      <4>3. Notified = since[o] + (g + 1) + t + q + lost[o] + discarded[o]
        BY <1>0, <3>2, <4>1
      <4> QED BY <1>2, <3>1, <4>2, <4>3 DEF Balance
    <3>5. lost'[o] = 0 => Contiguous(o)'
      <4> SUFFICES ASSUME lost[o] = 0 PROVE Contiguous(o)'
        BY <1>2
      <4>1. Contiguous(o)
        BY <2>1 DEF Book
      <4>2. \A i \in 1..(g + 1) : got'[o][i] = since[o] + i
        <5>1. \A i \in 1..g : got'[o][i] = since[o] + i
          BY <1>5, <2>3, <3>1, <4>1 DEF Contiguous
        <5>2. got'[o][g + 1] = since[o] + g + 1
          BY <1>4, <1>5, <2>3, <3>1, <3>2, <4>1 DEF Contiguous
        <5> HIDE DEF g
        <5>3. \A i \in 1..(g + 1) : i \in 1..g \/ i = g + 1
          BY <3>2
        <5>4. since[o] + g + 1 = since[o] + (g + 1)
          BY <3>2
        <5> QED BY <5>1, <5>2, <5>3, <5>4
      <4>3. \A i \in 1..t : batch'[o][i] = since[o] + (g + 1) + i
        <5>1. \A j \in 1..(t + 1) : batch[o][j] = since[o] + g + j
          BY <3>1, <4>1 DEF Contiguous
        <5>2. \A i \in 1..t : batch'[o][i] = batch[o][i + 1]
          BY <1>4, <2>3, <3>1
        <5> HIDE DEF g, t
        <5>3. \A i \in 1..t : i + 1 \in 1..(t + 1)
          BY <3>2
        <5>4. ASSUME NEW i \in 1..t
              PROVE  since[o] + g + (i + 1) = since[o] + (g + 1) + i
          <6>1. i \in Nat /\ g \in Nat /\ since[o] \in Nat
            BY <3>2
          <6> QED BY <6>1
        <5> QED BY <5>1, <5>2, <5>3, <5>4
      <4>4. \A i \in 1..q : queue[o][i] = since[o] + (g + 1) + t + i
        <5>1. \A i \in 1..q : queue[o][i] = since[o] + g + (t + 1) + i
          BY <3>1, <4>1 DEF Contiguous
        <5> HIDE DEF g, t, q
        <5>2. since[o] + g + (t + 1) = since[o] + (g + 1) + t
          BY <3>2
        <5> QED BY <5>1, <5>2
      <4>5. Len(queue'[o]) = q /\ queue'[o] = queue[o] /\ since'[o] = since[o]
        BY <1>2
      <4> HIDE DEF g, t, q
      <4> QED BY <3>1, <4>2, <4>3, <4>4, <4>5 DEF Contiguous
    <3>6. Bounded(o)'
      BY <1>2, <2>1, <3>1, <3>2, HubAssumption DEF Book, Bounded, HubAssumption
    <3> QED BY <1>2, <2>1, <3>3, <3>4, <3>5, <3>6 DEF Book
  <2> QED BY <2>2, <2>3
<1> QED BY <1>6, <1>7 DEF Books

LEMMA NextBooks ==
  ASSUME IInv, [Next]_vars
  PROVE  QueueTypeOK' /\ Books'
<1>1. CASE FanOut
  BY <1>1, FanOutBooks
<1>2. CASE ~FanOut
  <2>1. Notified' = Notified
    BY <1>2, NotifiedStep DEF IInv
  <2>2. ASSUME NEW o \in Observers, StopObserver(o) PROVE QueueTypeOK' /\ Books'
    BY <2>1, <2>2, StopObserverBooks
  <2>3. ASSUME NEW o \in Observers, AddObserver(o) PROVE QueueTypeOK' /\ Books'
    BY <2>1, <2>3, AddObserverBooks
  <2>4. ASSUME NEW o \in Observers, Take(o) PROVE QueueTypeOK' /\ Books'
    BY <2>1, <2>4, TakeBooks
  <2>5. ASSUME NEW o \in Observers, Deliver(o) PROVE QueueTypeOK' /\ Books'
    BY <2>1, <2>5, DeliverBooks
  <2>6. CASE StopObservers
    <3>1. Joined' = Joined /\ stopped' = stopped /\ UNCHANGED queueVars
      BY <2>6 DEF StopObservers, Joined, pumpVars, queueVars, IInv, Lifecycle
    <3> QED BY <2>1, <3>1, FrameBooks
  <2>7. ASSUME NEW o \in Observers, PumpExit(o) PROVE QueueTypeOK' /\ Books'
    <3>1. Joined' = Joined /\ stopped' = stopped /\ UNCHANGED queueVars
      BY <2>7 DEF PumpExit, Joined, hubObsVars, queueVars
    <3> QED BY <2>1, <3>1, FrameBooks
  <2>8. CASE UNCHANGED <<hubObsVars, pumpVars>>
    <3>1. Joined' = Joined /\ stopped' = stopped /\ UNCHANGED queueVars
      BY <2>8 DEF Joined, hubObsVars, pumpVars, queueVars
    <3> QED BY <2>1, <3>1, FrameBooks
  <2>9. CASE ReaderExit
    BY <2>8, <2>9 DEF ReaderExit
  <2> QED
    BY <1>2, <2>2, <2>3, <2>4, <2>5, <2>6, <2>7, <2>8, <2>9
    DEF Next, Reader, Pump, Dispatcher, Start, Cancel, ProviderSend, Receive,
        DispatcherCall, DispatcherReturn, DispatcherExit, vars
<1> QED BY <1>1, <1>2

LEMMA NextIInv == IInv /\ [Next]_vars => IInv'
<1> SUFFICES ASSUME IInv, [Next]_vars PROVE IInv'
  OBVIOUS
<1>1. FeedTypeOK' /\ ReaderTypeOK' /\ LifeTypeOK' /\ DispatchTypeOK'
  BY NextFeedTypeOK, NextReaderTypeOK, NextLifeTypeOK, NextDispatchTypeOK DEF IInv
<1>2. QueueTypeOK' /\ Books'
  BY NextBooks
<1>3. Lifecycle'
  BY NextLifecycle DEF IInv
<1> QED BY <1>1, <1>2, <1>3 DEF IInv, TypeOK

LEMMA SpecIInv == Spec => []IInv
BY InitIInv, NextIInv, PTL DEF Spec

-----------------------------------------------------------------------------
(* The theorems.                                                           *)

(* Type correctness: in particular neither channel ever exceeds its buffer, *)
(* the reader's send to the dispatcher never having to wait.               *)
THEOREM TypeCorrect == Spec => []TypeOK
<1>1. IInv => TypeOK
  BY DEF IInv
<1> QED BY <1>1, SpecIInv, PTL

(* Without a gap the three sequences of an observer, end to end, count on  *)
(* from the quote after the one it joined at.                              *)
LEMMA ContiguousIsReliable ==
  ASSUME IInv, NEW o \in registered, lost[o] = 0
  PROVE  LET all == got[o] \o batch[o] \o queue[o]
         IN  /\ Notified = since[o] + Len(all)
             /\ \A i \in 1..Len(all) : all[i] = since[o] + i
<1> DEFINE g == Len(got[o])  b == Len(batch[o])  q == Len(queue[o])
           gb == got[o] \o batch[o]
           all == gb \o queue[o]
<1>0. o \in Observers
  BY DEF IInv, TypeOK, LifeTypeOK
<1>1. got[o] \in Seq(Nat) /\ batch[o] \in Seq(Nat) /\ queue[o] \in Seq(Nat)
  BY <1>0, QueueTypes DEF IInv, TypeOK
<1>2. g \in Nat /\ b \in Nat /\ q \in Nat /\ since[o] \in Nat
  BY <1>0, QueueTypes DEF IInv, TypeOK
<1>3. Book(o) /\ o \in Joined /\ o \notin stopped
  BY <1>0 DEF IInv, Books, Lifecycle, Joined
<1>4. Notified = since[o] + g + b + q + 0 + 0
  BY <1>3 DEF Book, Balance
<1>5. /\ \A i \in 1..g : got[o][i] = since[o] + i
      /\ \A i \in 1..b : batch[o][i] = since[o] + g + i
      /\ \A i \in 1..q : queue[o][i] = since[o] + g + b + i
  BY <1>3 DEF Book, Contiguous
<1>6. gb \in Seq(Nat) /\ Len(gb) = g + b
  BY <1>1, ConcatProperties
<1>7. \A i \in 1..(g + b) : gb[i] = IF i <= g THEN got[o][i] ELSE batch[o][i - g]
  BY <1>1, ConcatProperties
<1> HIDE DEF gb
<1>8. /\ Len(all) = Len(gb) + q
      /\ \A i \in 1..(Len(gb) + q) : all[i] = IF i <= Len(gb) THEN gb[i] ELSE queue[o][i - Len(gb)]
  BY <1>1, <1>6, ConcatProperties
<1> HIDE DEF g, b, q, all
<1>9. \A i \in 1..((g + b) + q) : all[i] = IF i <= g + b THEN gb[i] ELSE queue[o][i - (g + b)]
  BY <1>6, <1>8
<1>10. ASSUME NEW i \in 1..((g + b) + q) PROVE all[i] = since[o] + i
  <2>1. CASE i <= g
    <3>1. i \in 1..g /\ i \in 1..(g + b) /\ i <= g + b
      BY <1>2, <2>1
    <3> QED BY <1>5, <1>7, <1>9, <2>1, <3>1
  <2>2. CASE g < i /\ i <= g + b
    <3>1. /\ i - g \in 1..b /\ since[o] + g + (i - g) = since[o] + i
          /\ i \in 1..(g + b) /\ ~(i <= g)
      BY <1>2, <2>2
    <3>2. all[i] = gb[i] /\ gb[i] = batch[o][i - g]
      BY <1>7, <1>9, <2>2, <3>1
    <3> QED BY <1>5, <3>1, <3>2
  <2>3. CASE g + b < i
    <3>1. /\ i - (g + b) \in 1..q /\ since[o] + g + b + (i - (g + b)) = since[o] + i
          /\ ~(i <= g + b)
      BY <1>2, <2>3
    <3>2. all[i] = queue[o][i - (g + b)]
      BY <1>9, <3>1
    <3> QED BY <1>5, <3>1, <3>2
  <2> QED BY <1>2, <2>1, <2>2, <2>3
<1>11. Notified = since[o] + ((g + b) + q)
  BY <1>2, <1>4
<1> QED BY <1>6, <1>8, <1>10, <1>11 DEF all, gb

(* The hub's promise to its observers (hub.go:196) holds of every run:     *)
(* while the valve has not opened, an observer's past, present and future  *)
(* deliveries are every quote since it joined, in arrival order.           *)
THEOREM ReliableAlways == Spec => []Reliable
<1>1. IInv => Reliable
  BY ContiguousIsReliable DEF Reliable
<1> QED BY <1>1, SpecIInv, PTL

(* The valve bounds what a wedged observer can pin, and opens only for one *)
(* that is behind by more than the bound.                                  *)
THEOREM BacklogAlwaysBounded == Spec => []BacklogBounded
<1>1. IInv => BacklogBounded
  BY DEF IInv, Books, Book, Bounded, BacklogBounded
<1> QED BY <1>1, SpecIInv, PTL

-----------------------------------------------------------------------------
(* The cache leads both delivery paths.                                    *)

Read == 1..Len(arrivals)

(* The cache holds, of every symbol, a price at least as new as any read;  *)
(* and whatever the delivery paths carry was read.                         *)
Cached ==
  /\ \A n \in Read : latest[arrivals[n]] >= n
  /\ dispatchCh \in Seq(Read) /\ showing \in Seq(Read) /\ shown \in Seq(Read)
  /\ \A o \in Observers :
       queue[o] \in Seq(Read) /\ batch[o] \in Seq(Read) /\ got[o] \in Seq(Read)

(* What the paths carry between the reader and the consumers. *)
pathVars == <<dispatchCh, showing, shown, queue, batch, got>>

LEMMA NextCached ==
  ASSUME IInv, Cached, [Next]_vars
  PROVE  Cached'
<1>0. Len(arrivals) \in Nat /\ arrivals \in Seq(Symbols) /\ latest \in [Symbols -> Nat]
  BY LenProperties DEF IInv, TypeOK, ReaderTypeOK
<1>1. CASE Receive
  <2> DEFINE s == Canon[Head(quoteCh)]
             n == Len(arrivals) + 1
  <2>1. s \in Symbols
    BY <1>1, ReceivedSymbol DEF IInv, TypeOK
  <2>2. arrivals' = Append(arrivals, s) /\ latest' = [latest EXCEPT ![s] = n]
    BY <1>1 DEF Receive
  <2> HIDE DEF s
  <2>3. /\ Len(arrivals') = n /\ arrivals'[n] = s
        /\ \A i \in Read : arrivals'[i] = arrivals[i] /\ arrivals[i] \in Symbols
    BY <1>0, <2>1, <2>2, AppendProperties, ElementOfSeq DEF Read
  <2>4. \A i \in Read' : latest'[arrivals'[i]] >= i
    <3>1. latest'[s] = n /\ n \in Nat
      BY <1>0, <2>1, <2>2
    <3>2. ASSUME NEW i \in Read PROVE latest'[arrivals'[i]] >= i
      <4>1. CASE arrivals[i] = s
        <5>1. i \in Nat /\ n >= i
          BY <1>0 DEF Read
        <5> QED BY <2>3, <3>1, <4>1, <5>1
      <4>2. CASE arrivals[i] # s
        BY <1>0, <2>2, <2>3, <4>2 DEF Cached
      <4> QED BY <4>1, <4>2
    <3>3. \A i \in Read' : i \in Read \/ i = n
      BY <1>0, <2>3 DEF Read
    <3> QED BY <2>3, <3>1, <3>2, <3>3
  <2>5. Seq(Read) \subseteq Seq(Read')
    <3>1. Read \subseteq Read'
      BY <1>0, <2>3 DEF Read
    <3> QED BY <3>1, SeqMonotonic
  <2>6. UNCHANGED pathVars
    BY <1>1 DEF Receive, pumpVars, dispVars, pathVars
  <2> HIDE DEF n
  <2> QED BY <2>4, <2>5, <2>6 DEF Cached, pathVars
<1>2. ASSUME UNCHANGED <<arrivals, latest>> PROVE Read' = Read /\ (\A n \in Read : latest[arrivals[n]] >= n)'
  BY <1>2 DEF Cached, Read
<1>3. CASE FanOut
  <2>1. Len(arrivals) \in Read
    BY <1>0, <1>3 DEF FanOut, IInv, Lifecycle, Read
  <2>2. dispatchCh' \in Seq(Read)
    <3>1. dispatchCh' = dispatchCh \/ dispatchCh' = Append(dispatchCh, Len(arrivals))
      BY <1>3 DEF FanOut, Dispatch
    <3> QED BY <2>1, <3>1, AppendProperties DEF Cached
  <2>3. ASSUME NEW o \in Observers PROVE queue'[o] \in Seq(Read)
    <3>1. CASE o \in registered
      <4>1. queue'[o] = Pushed(o, Len(arrivals))
        BY <1>3, <3>1 DEF FanOut, Notify
      <4>2. queue[o] \in Seq(Read)
        BY DEF Cached
      <4>3. Overflows(o) => queue[o] # <<>>
        BY EmptySeq, HubAssumption DEF Overflows, HubAssumption
      <4>4. (IF Overflows(o) THEN Tail(queue[o]) ELSE queue[o]) \in Seq(Read)
        BY <4>2, <4>3, HeadTailProperties
      <4> QED BY <2>1, <4>1, <4>4, AppendProperties DEF Pushed
    <3>2. CASE o \notin registered
      BY <1>3, <3>2 DEF FanOut, Notify, Cached
    <3> QED BY <3>1, <3>2
  <2>4. UNCHANGED <<arrivals, latest, showing, shown, batch, got>>
    BY <1>3 DEF FanOut
  <2> QED BY <1>2, <2>2, <2>3, <2>4 DEF Cached
<1>4. ASSUME NEW o \in Observers, StopObserver(o) \/ Take(o) \/ Deliver(o) PROVE Cached'
  <2>1. UNCHANGED <<arrivals, latest, dispatchCh, showing, shown>>
    BY <1>4 DEF StopObserver, Take, Deliver, readVars, dispVars
  <2>2. ASSUME NEW a \in Observers
        PROVE  queue'[a] \in Seq(Read) /\ batch'[a] \in Seq(Read) /\ got'[a] \in Seq(Read)
    <3>1. /\ queue[a] \in Seq(Read) /\ batch[a] \in Seq(Read) /\ got[a] \in Seq(Read)
          /\ <<>> \in Seq(Read)
      BY EmptySeq DEF Cached
    <3>2. CASE a # o
      BY <1>4, <3>1, <3>2 DEF StopObserver, Take, Deliver, IInv, TypeOK, QueueTypeOK
    <3>3. CASE a = o
      <4>1. CASE StopObserver(o)
        BY <3>1, <3>3, <4>1 DEF StopObserver, IInv, TypeOK, QueueTypeOK
      <4>2. CASE Take(o)
        BY <3>1, <3>3, <4>2 DEF Take, IInv, TypeOK, QueueTypeOK
      <4>3. CASE Deliver(o)
        <5>1. /\ queue'[o] = queue[o] /\ batch[o] # <<>>
              /\ got'[o] = Append(got[o], Head(batch[o])) /\ batch'[o] = Tail(batch[o])
          BY <4>3 DEF Deliver, IInv, TypeOK, QueueTypeOK
        <5> QED BY <3>1, <3>3, <5>1, HeadTailProperties, AppendProperties
      <4> QED BY <1>4, <4>1, <4>2, <4>3
    <3> QED BY <3>2, <3>3
  <2> QED BY <1>2, <2>1, <2>2 DEF Cached
<1>5. CASE DispatcherCall
  <2>1. UNCHANGED <<arrivals, latest, queue, batch, got, shown>>
    BY <1>5 DEF DispatcherCall, readVars, pumpVars
  <2>2. dispatchCh # <<>> /\ dispatchCh' = Tail(dispatchCh) /\ showing' = <<Head(dispatchCh)>>
    BY <1>5 DEF DispatcherCall
  <2>3. dispatchCh' \in Seq(Read) /\ Head(dispatchCh) \in Read
    BY <2>2, HeadTailProperties DEF Cached
  <2>4. showing' \in Seq(Read)
    BY <2>2, <2>3
  <2> QED BY <1>2, <2>1, <2>3, <2>4 DEF Cached
<1>6. CASE DispatcherReturn
  <2>1. UNCHANGED <<arrivals, latest, queue, batch, got, dispatchCh>>
    BY <1>6 DEF DispatcherReturn, readVars, pumpVars
  <2>2. shown' \in Seq(Read) /\ showing' \in Seq(Read)
    BY <1>6, ConcatProperties, EmptySeq DEF DispatcherReturn, Cached
  <2> QED BY <1>2, <2>1, <2>2 DEF Cached
<1>7. CASE UNCHANGED <<arrivals, latest, pathVars>>
  BY <1>2, <1>7 DEF Cached, pathVars
<1> QED
  BY <1>1, <1>3, <1>4, <1>5, <1>6, <1>7
  DEF Next, Reader, Pump, Dispatcher, Start, Cancel, ProviderSend, StopObservers,
      ReaderExit, AddObserver, PumpExit, DispatcherExit, pumpVars, readVars, dispVars,
      pathVars, vars

LEMMA ToSetOfSeq ==
  ASSUME NEW S, NEW s \in Seq(S)
  PROVE  ToSet(s) \subseteq S
BY ElementOfSeq DEF ToSet

(* What excuses a quote dropped on the way to the screen (hub.go:123): the *)
(* cache is never behind what anyone was handed.                           *)
THEOREM CacheAlwaysLeadsDelivery == Spec => []CacheLeadsDelivery
<1>1. Init => Cached
  BY EmptySeq DEF Init, Cached, Read
<1>2. IInv /\ Cached /\ [Next]_vars => Cached'
  BY NextCached
<1>3. Cached => CacheLeadsDelivery
  <2> SUFFICES ASSUME Cached PROVE CacheLeadsDelivery
    OBVIOUS
  <2>1. ToSet(dispatchCh \o showing \o shown) \subseteq Read
    <3>1. dispatchCh \o showing \o shown \in Seq(Read)
      BY ConcatProperties DEF Cached
    <3> QED BY <3>1, ToSetOfSeq
  <2>2. ASSUME NEW o \in Observers PROVE ToSet(got[o] \o Outstanding(o)) \subseteq Read
    <3>1. got[o] \o (batch[o] \o queue[o]) \in Seq(Read)
      BY ConcatProperties DEF Cached
    <3> QED BY <3>1, ToSetOfSeq DEF Outstanding
  <2> QED BY <2>1, <2>2 DEF CacheLeadsDelivery, Cached
<1> QED BY <1>1, <1>2, <1>3, SpecIInv, PTL DEF Spec

-----------------------------------------------------------------------------
(* Refinement: the way to the screen.                                      *)

(* onQuote has one quote in hand while it is called, none otherwise, and    *)
(* the dispatcher begins with Start.                                       *)
Calling ==
  /\ reader = "new" => dispatcher = "new"
  /\ dispatcher = "calling" => Len(showing) = 1
  /\ dispatcher # "calling" => showing = <<>>

LEMMA NextCalling ==
  ASSUME Calling, [Next]_vars
  PROVE  Calling'
<1>1. CASE DispatcherCall
  BY <1>1 DEF DispatcherCall, Calling, readVars
<1>2. CASE DispatcherReturn \/ DispatcherExit
  BY <1>2 DEF DispatcherReturn, DispatcherExit, Calling, readVars
<1>3. CASE Start
  BY <1>3 DEF Start, Calling
<1>4. CASE UNCHANGED <<dispatcher, showing>> /\ (reader' = "new" => reader = "new")
  BY <1>4 DEF Calling
<1> QED
  BY <1>1, <1>2, <1>3, <1>4
  DEF Next, Reader, Pump, Dispatcher, Cancel, ProviderSend, Receive, FanOut, StopObservers,
      ReaderExit, StopObserver, AddObserver, Take, Deliver, PumpExit, dispVars, readVars, vars

LEMMA DispatchStep ==
  ASSUME IInv, Calling, [Next]_vars
  PROVE  DispatchFeed!Next
<1>0. /\ Notified \in Nat
      /\ Notified' = IF FanOut THEN Notified + 1 ELSE Notified
      /\ FanOut => Notified' = Len(arrivals) /\ onQuote' = onQuote
      /\ dispatchCh \in Seq(Nat) /\ showing \in Seq(Nat) /\ shown \in Seq(Nat)
  BY NotifiedStep DEF IInv, TypeOK, DispatchTypeOK, FanOut
<1>1. CASE FanOut
  <2>0. /\ Notified' = Notified + 1 /\ Notified' \in Nat /\ Len(arrivals) = Notified + 1
        /\ UNCHANGED <<showing, shown>> /\ showing \o dispatchCh \in Seq(Nat)
    BY <1>0, <1>1, ConcatProperties DEF FanOut
  <2>1. CASE onQuote /\ dispatchCh' = Append(dispatchCh, Len(arrivals)) /\ drops' = drops
    <3>1. showing' \o dispatchCh' = Append(showing \o dispatchCh, Notified + 1)
      BY <1>0, <2>0, <2>1, ConcatAppend
    <3>2. DispatchFeed!Accepts(Screen)
      BY <2>1, <3>1 DEF DispatchFeed!Accepts, Screen
    <3>3. DispatchFeed!Offer(Screen)
      BY <1>0, <1>1, <2>0, <2>1, <3>2 DEF DispatchFeed!Offer, Screen
    <3> QED BY <3>3 DEF DispatchFeed!Next
  <2>2. CASE onQuote /\ dispatchCh' = dispatchCh /\ drops' = drops + 1
    <3> DEFINE k == Len(showing \o dispatchCh) + 1
    <3>1. k \in 1..(Len(showing \o dispatchCh) + 1)
      BY <2>0, LenProperties
    <3>2. Without(Append(showing \o dispatchCh, Notified + 1), k) = showing' \o dispatchCh'
      BY <1>0, <2>0, <2>2, RemoveNewest
    <3> HIDE DEF k
    <3>3. DispatchFeed!Loses(Screen, k)
      BY <2>2, <3>2 DEF DispatchFeed!Loses, DispatchFeed!RemoveAt, Without, Screen
    <3>4. DispatchFeed!Offer(Screen)
      BY <1>0, <1>1, <2>0, <2>2, <3>1, <3>3 DEF DispatchFeed!Offer, Screen
    <3> QED BY <3>4 DEF DispatchFeed!Next
  <2>3. CASE ~onQuote /\ dispatchCh' = dispatchCh /\ drops' = drops
    <3>1. DispatchFeed!Idle(Screen)
      BY <1>0, <1>1, <2>0, <2>3 DEF DispatchFeed!Idle, Screen
    <3> QED BY <3>1 DEF DispatchFeed!Next
  <2> QED BY <1>1, <2>1, <2>2, <2>3 DEF FanOut, Dispatch
<1>2. CASE DispatcherCall
  <2>1. /\ ~FanOut /\ UNCHANGED <<onQuote, drops, shown>>
        /\ showing = <<>> /\ dispatchCh # <<>>
        /\ showing' = <<Head(dispatchCh)>> /\ dispatchCh' = Tail(dispatchCh)
    BY <1>2 DEF DispatcherCall, FanOut, Calling, readVars, pumpVars, feedVars
  <2>2. showing' \o dispatchCh' = showing \o dispatchCh
    <3>1. showing' \o dispatchCh' = dispatchCh
      BY <1>0, <2>1, HeadThenTail
    <3> QED BY <1>0, <2>1, <3>1, ConcatEmptySeq
  <2>3. DispatchFeed!Idle(Screen)
    BY <1>0, <2>1, <2>2 DEF DispatchFeed!Idle, Screen
  <2> QED BY <2>3 DEF DispatchFeed!Next
<1>3. CASE DispatcherReturn
  <2>1. /\ ~FanOut /\ UNCHANGED <<onQuote, drops, dispatchCh>>
        /\ Len(showing) = 1
        /\ showing' = <<>> /\ shown' = shown \o showing
    BY <1>3 DEF DispatcherReturn, FanOut, Calling, readVars, pumpVars, feedVars
  <2>0. showing # <<>>
    BY <2>1, EmptySeq
  <2>2. /\ shown' = Append(shown, Head(showing \o dispatchCh))
        /\ showing \o dispatchCh # <<>>
        /\ showing' \o dispatchCh' = Tail(showing \o dispatchCh)
    <3>1. /\ showing \o dispatchCh # <<>> /\ Head(showing \o dispatchCh) = Head(showing)
          /\ Tail(showing \o dispatchCh) = Tail(showing) \o dispatchCh
      BY <1>0, <2>0, ConcatHeadTail
    <3>2. showing = <<Head(showing)>> /\ Tail(showing) = <<>> /\ Head(showing) \in Nat
      BY <1>0, <2>0, <2>1, SingletonSeq, HeadTailProperties
    <3>3. shown' = Append(shown, Head(showing))
      BY <1>0, <2>1, <3>2, AppendIsConcat
    <3> QED BY <2>1, <3>1, <3>2, <3>3
  <2>3. DispatchFeed!Deliver(Screen)
    BY <1>0, <2>1, <2>2 DEF DispatchFeed!Deliver, Screen
  <2> QED BY <2>3 DEF DispatchFeed!Next
<1>4. CASE UNCHANGED <<onQuote, dispatchCh, drops, showing, shown>> /\ ~FanOut
  <2>1. DispatchFeed!Idle(Screen)
    BY <1>0, <1>4 DEF DispatchFeed!Idle, Screen
  <2> QED BY <2>1 DEF DispatchFeed!Next
<1>5. CASE FanOut \/ DispatcherCall \/ DispatcherReturn \/ UNCHANGED <<onQuote, dispatchCh, drops, showing, shown>>
  BY <1>1, <1>2, <1>3, <1>4, <1>5
<1>6. CASE Start
  <2>1. /\ Notified = 0 /\ Notified' = 0 /\ ~FanOut
        /\ UNCHANGED <<dispatchCh, drops, showing, shown>>
    BY <1>0, <1>6, EmptySeq DEF Start, FanOut, Notified, IInv, Lifecycle
  <2>2. DispatchFeed!Idle(Screen)
    BY <2>1 DEF DispatchFeed!Idle, Screen
  <2> QED BY <2>2 DEF DispatchFeed!Next
<1> QED
  BY <1>5, <1>6
  DEF Next, Reader, Pump, Dispatcher, Cancel, ProviderSend, Receive, StopObservers,
      ReaderExit, StopObserver, AddObserver, Take, Deliver, PumpExit, DispatcherExit,
      dispVars, vars

-----------------------------------------------------------------------------
(* Refinement: the observers.                                              *)

(* The state functions that LossyFifo's variables stand for, by observer.  *)
LEMMA FeedViews ==
  ASSUME NEW o \in Observers
  PROVE  /\ Relative(o, Outstanding(o)) = Shifted(batch[o] \o queue[o], since[o])
         /\ Relative(o, got[o]) = Shifted(got[o], since[o])
         /\ Relative(o, Outstanding(o))' = Shifted(batch'[o] \o queue'[o], since'[o])
         /\ Relative(o, got[o])' = Shifted(got'[o], since'[o])
BY DEF Relative, Outstanding, Shifted

LEMMA ObserverTypes ==
  ASSUME IInv, NEW o \in Observers
  PROVE  /\ queue[o] \in Seq(Int) /\ batch[o] \in Seq(Int) /\ got[o] \in Seq(Int)
         /\ batch[o] \o queue[o] \in Seq(Int)
         /\ Len(batch[o]) \in Nat /\ Len(queue[o]) \in Nat
         /\ Len(batch[o] \o queue[o]) = Len(batch[o]) + Len(queue[o])
         /\ since[o] \in Nat /\ lost[o] \in Nat /\ discarded[o] \in Nat
<1>1. queue[o] \in Seq(Nat) /\ batch[o] \in Seq(Nat) /\ got[o] \in Seq(Nat)
  BY QueueTypes DEF IInv, TypeOK
<1>2. queue[o] \in Seq(Int) /\ batch[o] \in Seq(Int) /\ got[o] \in Seq(Int)
  <2>1. Nat \subseteq Int
    OBVIOUS
  <2> QED BY <1>1, <2>1, SeqMonotonic
<1> QED BY <1>2, QueueTypes, ConcatProperties DEF IInv, TypeOK

(* A step that moves nothing of o is idle for o. *)
LEMMA FrameFeed ==
  ASSUME IInv, NEW o \in Observers,
         batch'[o] \o queue'[o] = batch[o] \o queue[o], got'[o] = got[o],
         since'[o] = since[o], lost'[o] = lost[o], discarded'[o] = discarded[o],
         o \in Joined' <=> o \in Joined, o \in stopped' <=> o \in stopped,
         o \in Joined => Notified' = Notified
  PROVE  ObserverFeeds!Idle(o)
<1>1. /\ Relative(o, Outstanding(o))' = Relative(o, Outstanding(o))
      /\ Relative(o, got[o])' = Relative(o, got[o])
  BY FeedViews
<1>2. (IF o \in Joined THEN Notified - since[o] ELSE 0)'
        = IF o \in Joined THEN Notified - since[o] ELSE 0
  OBVIOUS
<1> QED BY <1>1, <1>2 DEF ObserverFeeds!Idle

LEMMA FanOutFeed ==
  ASSUME IInv, [Next]_vars, FanOut, NEW o \in Observers
  PROVE  ObserverFeeds!Offer(o) \/ ObserverFeeds!Idle(o)
<1>0. /\ Notified \in Nat /\ Notified' = Notified + 1 /\ Len(arrivals) = Notified + 1
      /\ UNCHANGED <<batch, got, since, discarded, stopped>> /\ Joined' = Joined
      /\ stopped = {} /\ toStop = {} /\ registered = Joined
  BY NotifiedStep DEF IInv, FanOut, Lifecycle, Joined, hubObsVars
<1> DEFINE s == batch[o] \o queue[o]
           k == since[o]
           x == Notified + 1
           r == Shifted(s, k)
<1>1. /\ s \in Seq(Int) /\ k \in Int /\ x \in Int /\ Len(s) = Len(batch[o]) + Len(queue[o])
      /\ Len(batch[o]) \in Nat /\ Len(queue[o]) \in Nat
      /\ queue[o] \in Seq(Int) /\ batch[o] \in Seq(Int)
  BY <1>0, ObserverTypes
<1>s. s = batch[o] \o queue[o] /\ k = since[o] /\ x = Notified + 1
  OBVIOUS
<1> HIDE DEF s, k, x
<1>2. r \in Seq(Int) /\ Len(r) = Len(s)
  BY <1>1, ShiftedProperties
<1>3. CASE o \notin registered
  <2>1. queue'[o] = queue[o] /\ lost'[o] = lost[o]
    BY <1>3 DEF FanOut, Notify
  <2> QED BY <1>0, <1>3, <2>1, FrameFeed
<1>4. CASE o \in registered
  <2>1. /\ queue'[o] = Pushed(o, x)
        /\ lost'[o] = IF Overflows(o) THEN lost[o] + 1 ELSE lost[o]
    BY <1>0, <1>4, <1>s DEF FanOut, Notify
  <2>2. \/ ObserverFeeds!Accepts(o)
        \/ \E j \in 1..(Len(r) + 1) : ObserverFeeds!Loses(o, j)
    <3>1. x - k = (Notified - since[o]) + 1
      BY <1>0, <1>1, <1>s
    <3>2. CASE ~Overflows(o)
      <4>1. batch'[o] \o queue'[o] = Append(s, x)
        <5>1. batch'[o] \o queue'[o] = batch[o] \o Append(queue[o], x)
          BY <1>0, <2>1, <3>2 DEF Pushed
        <5>2. batch[o] \o Append(queue[o], x) = Append(batch[o] \o queue[o], x)
          <6>1. \A a, b \in Seq(Int), y \in Int : a \o Append(b, y) = Append(a \o b, y)
            BY ConcatAppend
          <6> QED BY <1>1, <6>1
        <5> QED BY <1>s, <5>1, <5>2
      <4>2. Shifted(batch'[o] \o queue'[o], since'[o]) = Append(r, (Notified - since[o]) + 1)
        <5>1. Shifted(Append(s, x), k) = Append(r, x - k)
          BY <1>1, ShiftedAppend
        <5> QED BY <1>0, <1>s, <3>1, <4>1, <5>1
      <4> HIDE DEF r
      <4>3. ObserverFeeds!Accepts(o)
        BY <1>0, <1>4, <1>s, <2>1, <3>2, <4>2, FeedViews DEF ObserverFeeds!Accepts, r
      <4> QED BY <4>3
    <3>3. CASE Overflows(o)
      <4>0. queue[o] # <<>>
        BY <1>1, <3>3, EmptySeq, HubAssumption DEF Overflows, HubAssumption
      <4>1. batch'[o] \o queue'[o] = Without(Append(s, x), Len(batch[o]) + 1)
        <5>1. batch'[o] \o queue'[o] = batch[o] \o Append(Tail(queue[o]), x)
          BY <1>0, <2>1, <3>3 DEF Pushed
        <5> QED BY <1>1, <1>s, <4>0, <5>1, RemoveOldestWaiting
      <4> DEFINE j == Len(batch[o]) + 1
      <4>2. j \in 1..(Len(r) + 1) /\ j \in 1..Len(Append(s, x)) /\ Append(s, x) \in Seq(Int)
        <5>1. Append(s, x) \in Seq(Int) /\ Len(Append(s, x)) = Len(s) + 1
          BY <1>1, AppendProperties
        <5> HIDE DEF r
        <5>2. j \in Nat /\ 1 <= j /\ j <= Len(s) + 1 /\ Len(s) \in Nat
          <6> DEFINE nb == Len(batch[o])  nq == Len(queue[o])
          <6>1. nb \in Nat /\ nq \in Nat /\ Len(s) = nb + nq /\ j = nb + 1
            BY <1>1
          <6> HIDE DEF nb, nq, j
          <6> QED BY <6>1
        <5> HIDE DEF j
        <5>3. j \in 1..(Len(r) + 1)
          BY <1>2, <5>2
        <5>4. j \in 1..Len(Append(s, x))
          BY <5>1, <5>2
        <5> QED BY <5>1, <5>3, <5>4
      <4> HIDE DEF j
      <4>3. Shifted(batch'[o] \o queue'[o], since'[o])
              = Without(Append(r, (Notified - since[o]) + 1), j)
        <5>1. Shifted(Append(s, x), k) = Append(r, x - k)
          BY <1>1, ShiftedAppend
        <5>2. k \in Int
          BY <1>1
        <5>3. Shifted(Without(Append(s, x), j), k) = Without(Shifted(Append(s, x), k), j)
          BY <4>2, <5>2, ShiftedWithout
        <5> QED BY <1>0, <1>s, <3>1, <4>1, <5>1, <5>3 DEF j
      <4>4. ObserverFeeds!Loses(o, j)
        BY <1>0, <1>4, <1>s, <2>1, <3>3, <4>3, FeedViews
        DEF ObserverFeeds!Loses, ObserverFeeds!RemoveAt, Without
      <4> QED BY <4>2, <4>4
    <3> QED BY <3>2, <3>3
  <2>3. ObserverFeeds!Offer(o)
    <3>1. o \in Joined /\ o \in Joined' /\ o \notin stopped /\ o \notin stopped'
      BY <1>0, <1>4
    <3>2. Notified' - since'[o] = (Notified - since[o]) + 1
      BY <1>0, <1>1, <1>s
    <3>3. Relative(o, got[o])' = Relative(o, got[o]) /\ discarded'[o] = discarded[o]
      BY <1>0, FeedViews
    <3>4. Relative(o, Outstanding(o)) = r
      BY <1>s, FeedViews
    <3> HIDE DEF r
    <3> QED BY <2>2, <3>1, <3>2, <3>3, <3>4 DEF ObserverFeeds!Offer
  <2> QED BY <2>3
<1> QED BY <1>3, <1>4

LEMMA DeliverFeed ==
  ASSUME IInv, [Next]_vars, NEW o \in Observers, Deliver(o)
  PROVE  ObserverFeeds!Deliver(o)
<1>0. /\ batch[o] # <<>> /\ batch'[o] = Tail(batch[o])
      /\ got'[o] = Append(got[o], Head(batch[o]))
      /\ UNCHANGED <<queue, since, lost, discarded, stopped>> /\ Joined' = Joined
      /\ Notified' = Notified
  BY DEF Deliver, IInv, TypeOK, QueueTypeOK, Joined, hubObsVars, readVars, Notified
<1> DEFINE a == batch[o]
           b == queue[o]
           g == got[o]
           k == since[o]
<1>1. a \in Seq(Int) /\ b \in Seq(Int) /\ g \in Seq(Int) /\ k \in Int /\ a # <<>>
  BY <1>0, ObserverTypes
<1>2. /\ batch'[o] = Tail(a) /\ queue'[o] = b /\ got'[o] = Append(g, Head(a)) /\ since'[o] = k
      /\ batch[o] = a /\ queue[o] = b /\ got[o] = g /\ since[o] = k
  BY <1>0
<1> HIDE DEF a, b, g, k
<1>3. a \o b # <<>> /\ Head(a \o b) = Head(a) /\ Tail(a \o b) = Tail(a) \o b
  BY <1>1, ConcatHeadTail
<1>4. a \o b \in Seq(Int) /\ Head(a) \in Int
  BY <1>1, ConcatProperties, HeadTailProperties
<1>5. /\ Shifted(a \o b, k) # <<>>
      /\ Head(Shifted(a \o b, k)) = Head(a) - k
      /\ Tail(Shifted(a \o b, k)) = Shifted(Tail(a) \o b, k)
  <2> DEFINE s == a \o b
  <2>1. s \in Seq(Int) /\ s # <<>>
    BY <1>3, <1>4
  <2> HIDE DEF s
  <2>2. Shifted(s, k) # <<>> /\ Head(Shifted(s, k)) = Head(s) - k /\ Tail(Shifted(s, k)) = Shifted(Tail(s), k)
    BY <1>1, <2>1, ShiftedHeadTail
  <2> QED BY <1>3, <2>2 DEF s
<1>6. Shifted(Append(g, Head(a)), k) = Append(Shifted(g, k), Head(a) - k)
  BY <1>1, <1>4, ShiftedAppend
<1>7. /\ Relative(o, Outstanding(o)) # <<>>
      /\ Relative(o, got[o])' = Append(Relative(o, got[o]), Head(Relative(o, Outstanding(o))))
      /\ Relative(o, Outstanding(o))' = Tail(Relative(o, Outstanding(o)))
  BY <1>2, <1>5, <1>6, FeedViews
<1> QED BY <1>0, <1>7 DEF ObserverFeeds!Deliver

LEMMA StopFeed ==
  ASSUME IInv, [Next]_vars, NEW o \in Observers, StopObserver(o)
  PROVE  ObserverFeeds!Close(o)
<1>0. /\ queue'[o] = <<>> /\ discarded'[o] = discarded[o] + Len(queue[o])
      /\ UNCHANGED <<batch, got, since, lost>> /\ Joined' = Joined
      /\ Notified' = Notified
      /\ o \notin stopped /\ o \in stopped'
  BY DEF StopObserver, IInv, TypeOK, QueueTypeOK, LifeTypeOK, Lifecycle, Joined, readVars, Notified
<1> DEFINE a == batch[o]
           b == queue[o]
           k == since[o]
           s == a \o b
<1>1. /\ a \in Seq(Int) /\ b \in Seq(Int) /\ k \in Int /\ s \in Seq(Int)
      /\ Len(a) \in Nat /\ Len(b) \in Nat /\ Len(s) = Len(a) + Len(b)
  BY <1>0, ObserverTypes
<1>2. /\ batch'[o] = a /\ queue'[o] = <<>> /\ since'[o] = k /\ discarded'[o] = discarded[o] + Len(b)
      /\ batch[o] = a /\ queue[o] = b /\ since[o] = k
  BY <1>0
<1> HIDE DEF a, b, k
<1>3. SubSeq(s, 1, Len(a)) = a /\ a \o <<>> = a
  BY <1>1, ConcatKeepFirst, ConcatEmptySeq
<1>s. s = a \o b
  OBVIOUS
<1> HIDE DEF s
<1>4. Len(a) \in 0..Len(s) /\ Len(s) - Len(a) = Len(b)
  BY <1>1
<1>5. Shifted(a, k) = SubSeq(Shifted(s, k), 1, Len(a))
  BY <1>1, <1>3, <1>4, ShiftedSubSeq
<1>6. Len(Shifted(s, k)) = Len(s)
  BY <1>1, ShiftedProperties
<1>7. /\ Relative(o, Outstanding(o))' = SubSeq(Relative(o, Outstanding(o)), 1, Len(a))
      /\ Len(Relative(o, Outstanding(o))) = Len(s)
      /\ Relative(o, got[o])' = Relative(o, got[o])
  BY <1>0, <1>2, <1>3, <1>5, <1>6, <1>s, FeedViews
<1>8. \E n \in 0..Len(Relative(o, Outstanding(o))) :
        /\ Relative(o, Outstanding(o))' = SubSeq(Relative(o, Outstanding(o)), 1, n)
        /\ discarded'[o] = discarded[o] + (Len(Relative(o, Outstanding(o))) - n)
  <2>1. discarded'[o] = discarded[o] + (Len(Relative(o, Outstanding(o))) - Len(a))
    BY <1>2, <1>4, <1>7
  <2> QED BY <1>4, <1>7, <2>1
<1> QED BY <1>0, <1>7, <1>8 DEF ObserverFeeds!Close

LEMMA TakeFeed ==
  ASSUME IInv, [Next]_vars, NEW o \in Observers, Take(o)
  PROVE  ObserverFeeds!Idle(o)
<1>1. /\ batch[o] = <<>> /\ batch'[o] = queue[o] /\ queue'[o] = <<>>
      /\ UNCHANGED <<got, since, lost, discarded, stopped>> /\ Joined' = Joined
      /\ Notified' = Notified
  BY DEF Take, IInv, TypeOK, QueueTypeOK, Joined, hubObsVars, readVars, Notified
<1>2. queue[o] \o <<>> = queue[o] /\ <<>> \o queue[o] = queue[o]
  <2>1. \A s \in Seq(Int) : s \o <<>> = s /\ <<>> \o s = s
    BY ConcatEmptySeq
  <2> QED BY <2>1, ObserverTypes
<1> QED BY <1>1, <1>2, FrameFeed

(* An observer that joins had nothing, and is due nothing yet. *)
LEMMA JoinFeed ==
  ASSUME IInv, [Next]_vars, NEW o \in Observers, AddObserver(o)
  PROVE  ObserverFeeds!Idle(o)
<1>1. /\ o \notin Joined /\ o \in Joined' /\ o \notin stopped /\ Empty(o)
      /\ since'[o] = Notified /\ Notified \in Nat
      /\ UNCHANGED <<queue, batch, got, lost, discarded, stopped>>
      /\ Notified' = Notified
  <2>1. o \notin Joined /\ o \in Joined' /\ o \notin stopped /\ since'[o] = Notified
    BY DEF AddObserver, IInv, TypeOK, QueueTypeOK, Lifecycle, Joined
  <2>2. Empty(o)
    BY <2>1 DEF IInv, Books, Book
  <2>3. Notified' = Notified /\ UNCHANGED <<queue, batch, got, lost, discarded, stopped>>
    BY DEF AddObserver, readVars, Notified
  <2> QED BY <2>1, <2>2, <2>3, NotifiedStep DEF IInv
<1>2. Relative(o, <<>>) = <<>> /\ Relative(o, <<>>)' = <<>>
  BY DEF Relative
<1>3. Outstanding(o) = <<>> /\ Outstanding(o)' = <<>> /\ got[o] = <<>>
  BY <1>1, ConcatEmptySeq, EmptySeq DEF Outstanding, Empty
<1>4. /\ Relative(o, Outstanding(o))' = Relative(o, Outstanding(o))
      /\ Relative(o, got[o])' = Relative(o, got[o])
  BY <1>1, <1>2, <1>3 DEF Relative
<1>5. Notified' - since'[o] = 0
  BY <1>1
<1> QED BY <1>1, <1>4, <1>5 DEF ObserverFeeds!Idle

LEMMA ObserverStep ==
  ASSUME IInv, [Next]_vars, NEW o \in Observers
  PROVE  \/ ObserverFeeds!Offer(o) \/ ObserverFeeds!Deliver(o)
         \/ ObserverFeeds!Close(o) \/ ObserverFeeds!Idle(o)
<1>0. ~FanOut => Notified' = Notified
  BY NotifiedStep DEF IInv
<1>1. CASE FanOut
  BY <1>1, FanOutFeed
<1>2. ASSUME NEW a \in Observers, StopObserver(a) \/ Take(a) \/ Deliver(a) \/ AddObserver(a)
      PROVE  \/ ObserverFeeds!Deliver(o) \/ ObserverFeeds!Close(o) \/ ObserverFeeds!Idle(o)
  <2>1. CASE a = o
    BY <1>2, <2>1, StopFeed, TakeFeed, DeliverFeed, JoinFeed
  <2>2. CASE a # o
    <3>1. /\ queue'[o] = queue[o] /\ batch'[o] = batch[o] /\ got'[o] = got[o]
          /\ since'[o] = since[o] /\ lost'[o] = lost[o] /\ discarded'[o] = discarded[o]
          /\ o \in Joined' <=> o \in Joined
          /\ o \in stopped' <=> o \in stopped
      BY <1>2, <2>2
      DEF StopObserver, Take, Deliver, AddObserver, IInv, TypeOK, QueueTypeOK, Joined, hubObsVars
    <3>2. Notified' = Notified
      BY <1>2 DEF StopObserver, Take, Deliver, AddObserver, readVars, Notified
    <3> QED BY <3>1, <3>2, FrameFeed
  <2> QED BY <2>1, <2>2
<1>3. CASE UNCHANGED <<queue, batch, got, since, lost, discarded, stopped, Joined>> /\ ~FanOut
  BY <1>0, <1>3, FrameFeed
<1>4. CASE StopObservers
  <2>1. toStop = {}
    BY <1>4 DEF StopObservers, IInv, Lifecycle
  <2> QED BY <1>3, <1>4, <2>1 DEF StopObservers, FanOut, Joined, pumpVars
<1>5. CASE Start \/ Cancel \/ Receive \/ ReaderExit
  BY <1>3, <1>5 DEF Start, Cancel, Receive, ReaderExit, FanOut, Joined, hubObsVars, pumpVars, readVars
<1>6. CASE \/ DispatcherCall \/ DispatcherReturn \/ DispatcherExit
           \/ \E p \in Providers : ProviderSend(p)
           \/ \E a \in Observers : PumpExit(a)
           \/ UNCHANGED vars
  BY <1>0, <1>6, FrameFeed
  DEF DispatcherCall, DispatcherReturn, DispatcherExit, ProviderSend, PumpExit, Joined,
      Notified, hubObsVars, pumpVars, readVars, vars
<1> QED
  BY <1>1, <1>2, <1>4, <1>5, <1>6 DEF Next, Reader, Pump, Dispatcher

LEMMA ObserversStart == Init => ObserverFeeds!Init
<1> SUFFICES ASSUME Init PROVE ObserverFeeds!Init
  OBVIOUS
<1>1. ASSUME NEW o \in Observers
      PROVE  Relative(o, Outstanding(o)) = <<>> /\ Relative(o, got[o]) = <<>> /\ o \notin Joined
  <2>1. Outstanding(o) = <<>> /\ got[o] = <<>>
    BY ConcatEmptySeq, EmptySeq DEF Init, Outstanding
  <2> QED BY <2>1 DEF Relative, Init, Joined
<1> QED BY <1>1 DEF Init, ObserverFeeds!Init

LEMMA DispatchStarts == Init => DispatchFeed!Init /\ Calling
<1> SUFFICES ASSUME Init PROVE DispatchFeed!Init /\ Calling
  OBVIOUS
<1>1. showing \o dispatchCh = <<>> /\ Notified = 0
  BY ConcatEmptySeq, EmptySeq DEF Init, Notified
<1> QED BY <1>1 DEF Init, DispatchFeed!Init, Calling

(* The hub implements LossyFifo on both of its paths: what an observer is  *)
(* owed reaches it in order, at most once and accounted for; the screen's  *)
(* channel loses only its newest, and counts it.                           *)
THEOREM HubFeedsAreLossyFifos == Spec => FeedsAreLossyFifos
<1>1. Init => ObserverFeeds!Init /\ DispatchFeed!Init /\ Calling
  BY ObserversStart, DispatchStarts
<1>2. IInv /\ [Next]_vars => [ObserverFeeds!Next]_ObserverFeeds!vars
  BY ObserverStep DEF ObserverFeeds!Next
<1>3. IInv /\ Calling /\ [Next]_vars => [DispatchFeed!Next]_DispatchFeed!vars
  BY DispatchStep
<1>4. Calling /\ [Next]_vars => Calling'
  BY NextCalling
<1>5. Spec => ObserverFeeds!Spec
  BY <1>1, <1>2, SpecIInv, PTL DEF Spec, ObserverFeeds!Spec
<1>6. Spec => DispatchFeed!Spec
  BY <1>1, <1>3, <1>4, SpecIInv, PTL DEF Spec, DispatchFeed!Spec
<1> QED BY <1>5, <1>6 DEF FeedsAreLossyFifos

(* So an observer and the screen get notifications in the order they were  *)
(* made and none twice, and what they are owed and did not get is counted. *)
THEOREM HubFeedsInOrderAndAccounted ==
  Spec => /\ [](ObserverFeeds!Ordered /\ ObserverFeeds!Accounted)
          /\ [](DispatchFeed!Ordered /\ DispatchFeed!Accounted)
<1>1. Spec => ObserverFeeds!Spec /\ DispatchFeed!Spec
  BY HubFeedsAreLossyFifos DEF FeedsAreLossyFifos
<1>2. ObserverFeeds!Spec => [](ObserverFeeds!Ordered /\ ObserverFeeds!Accounted)
  BY ObserverFeeds!FifosAreSound
<1>3. DispatchFeed!Spec => [](DispatchFeed!Ordered /\ DispatchFeed!Accounted)
  BY DispatchFeed!FifosAreSound
<1> QED
  BY <1>1, <1>2, <1>3

-----------------------------------------------------------------------------
(* The count of what is lost.                                              *)

LEMMA ElementsOfConcat ==
  ASSUME NEW S, NEW a \in Seq(S), NEW b \in Seq(S)
  PROVE  ToSet(a \o b) = ToSet(a) \cup ToSet(b)
<1> DEFINE c == a \o b
<1>1. /\ Len(a) \in Nat /\ Len(b) \in Nat /\ c \in Seq(S) /\ Len(c) = Len(a) + Len(b)
      /\ \A i \in 1..(Len(a) + Len(b)) : c[i] = IF i <= Len(a) THEN a[i] ELSE b[i - Len(a)]
  BY ConcatProperties, LenProperties
<1> HIDE DEF c
<1>2. /\ ToSet(a) = {a[i] : i \in 1..Len(a)} /\ ToSet(b) = {b[i] : i \in 1..Len(b)}
      /\ ToSet(c) = {c[i] : i \in 1..Len(c)}
  BY <1>1, LenProperties DEF ToSet
<1>3. ASSUME NEW i \in 1..Len(a) PROVE i \in 1..Len(c) /\ c[i] = a[i]
  BY <1>1
<1>4. ASSUME NEW i \in 1..Len(b) PROVE Len(a) + i \in 1..Len(c) /\ c[Len(a) + i] = b[i]
  <2>1. /\ Len(a) + i \in 1..(Len(a) + Len(b)) /\ ~(Len(a) + i <= Len(a))
        /\ (Len(a) + i) - Len(a) = i
    BY <1>1
  <2> QED BY <1>1, <2>1
<1>5. ASSUME NEW i \in 1..Len(c)
      PROVE  (\E j \in 1..Len(a) : c[i] = a[j]) \/ (\E j \in 1..Len(b) : c[i] = b[j])
  <2>1. CASE i <= Len(a)
    BY <1>1, <2>1
  <2>2. CASE ~(i <= Len(a))
    <3>1. i - Len(a) \in 1..Len(b) /\ c[i] = b[i - Len(a)]
      BY <1>1, <2>2
    <3> QED BY <3>1
  <2> QED BY <2>1, <2>2
<1>6. ToSet(c) = ToSet(a) \cup ToSet(b)
  BY <1>2, <1>3, <1>4, <1>5
<1> QED BY <1>6 DEF c

LEMMA ElementsOfAppend ==
  ASSUME NEW S, NEW s \in Seq(S), NEW x \in S
  PROVE  ToSet(Append(s, x)) = ToSet(s) \cup {x}
<1> DEFINE t == Append(s, x)
<1>1. /\ t \in Seq(S) /\ Len(t) = Len(s) + 1 /\ Len(s) \in Nat
      /\ (\A i \in 1..Len(s) : t[i] = s[i]) /\ t[Len(s) + 1] = x
  BY AppendProperties, LenProperties
<1> HIDE DEF t
<1>2. ToSet(t) = {t[i] : i \in 1..(Len(s) + 1)} /\ ToSet(s) = {s[i] : i \in 1..Len(s)}
  BY <1>1, LenProperties DEF ToSet
<1>3. 1..(Len(s) + 1) = (1..Len(s)) \cup {Len(s) + 1}
  BY <1>1
<1>4. ToSet(t) = ToSet(s) \cup {x}
  BY <1>1, <1>2, <1>3
<1> QED BY <1>4 DEF t

LEMMA ElementsOfTail ==
  ASSUME NEW S, NEW s \in Seq(S), s # <<>>
  PROVE  ToSet(s) = {Head(s)} \cup ToSet(Tail(s))
<1> DEFINE t == Tail(s)
<1>1. /\ t \in Seq(S) /\ Len(s) = Len(t) + 1 /\ Len(t) \in Nat /\ Head(s) = s[1]
      /\ \A i \in 1..Len(t) : t[i] = s[i + 1]
  BY HeadTailProperties, LenProperties
<1> HIDE DEF t
<1>2. ToSet(s) = {s[i] : i \in 1..(Len(t) + 1)} /\ ToSet(t) = {t[i] : i \in 1..Len(t)}
  BY <1>1, LenProperties DEF ToSet
<1>3. ASSUME NEW i \in 1..(Len(t) + 1) PROVE i = 1 \/ (i - 1 \in 1..Len(t) /\ t[i - 1] = s[i])
  <2>1. CASE i # 1
    <3>1. i - 1 \in 1..Len(t) /\ (i - 1) + 1 = i
      BY <1>1, <2>1
    <3> QED BY <1>1, <3>1
  <2> QED BY <2>1
<1>4. ASSUME NEW i \in 1..Len(t) PROVE i + 1 \in 1..(Len(t) + 1) /\ t[i] = s[i + 1]
  BY <1>1
<1>5. 1 \in 1..(Len(t) + 1)
  BY <1>1
<1>6. ToSet(s) = {s[1]} \cup ToSet(t)
  BY <1>2, <1>3, <1>4, <1>5
<1> QED BY <1>1, <1>6 DEF t

(* The quotes an observer was handed or will be, and those it should have. *)
Held(o) == ToSet(got[o]) \cup ToSet(batch[o]) \cup ToSet(queue[o])
Owed(o) == (since[o] + 1)..Notified

(* No observer holds a quote it is not owed. *)
Spans == \A o \in Joined : Held(o) \subseteq Owed(o)

Gaps == {z \in Observers \X Nat :
           z[1] \in Joined /\ z[2] \in Owed(z[1]) /\ z[2] \notin Held(z[1])}

LEMMA MissingIsGaps == IInv => Missing = Gaps /\ IsFiniteSet(Missing)
<1> SUFFICES ASSUME IInv PROVE Missing = Gaps /\ IsFiniteSet(Missing)
  OBVIOUS
<1>1. /\ Joined \subseteq Observers /\ Notified \in Nat
      /\ \A o \in Observers : since[o] \in Nat
  BY LenProperties, QueueTypes
  DEF IInv, TypeOK, LifeTypeOK, ReaderTypeOK, Lifecycle, Notified, Joined
<1>2. ASSUME NEW o \in Observers PROVE ToSet(got[o] \o Outstanding(o)) = Held(o)
  <2>1. got[o] \in Seq(Nat) /\ batch[o] \in Seq(Nat) /\ queue[o] \in Seq(Nat)
    BY QueueTypes DEF IInv, TypeOK
  <2>2. batch[o] \o queue[o] \in Seq(Nat)
    BY <2>1, ConcatProperties
  <2>3. ToSet(got[o] \o (batch[o] \o queue[o])) = ToSet(got[o]) \cup (ToSet(batch[o]) \cup ToSet(queue[o]))
    <3> DEFINE s == batch[o] \o queue[o]
    <3>1. ToSet(s) = ToSet(batch[o]) \cup ToSet(queue[o])
      BY <2>1, ElementsOfConcat
    <3>2. s \in Seq(Nat)
      BY <2>2
    <3> HIDE DEF s
    <3>3. ToSet(got[o] \o s) = ToSet(got[o]) \cup ToSet(s)
      BY <2>1, <3>2, ElementsOfConcat
    <3> QED BY <3>1, <3>3 DEF s
  <2> QED BY <2>3 DEF Outstanding, Held
<1>3. ASSUME NEW o \in Observers PROVE Owed(o) \subseteq Nat /\ Owed(o) \subseteq 1..Notified
  BY <1>1 DEF Owed
<1>4. Missing = UNION {{o} \X (Owed(o) \ Held(o)) : o \in Joined}
  BY <1>1, <1>2 DEF Missing, Owed
<1>5. \A z : z \in Missing <=> \E o \in Joined : \E n \in Owed(o) \ Held(o) : z = <<o, n>>
  BY <1>4
<1>6. \A z : z \in Gaps <=> \E o \in Joined : \E n \in Owed(o) \ Held(o) : z = <<o, n>>
  BY <1>1, <1>3 DEF Gaps
<1>7. Missing = Gaps
  BY <1>5, <1>6
<1>8. Missing \subseteq Observers \X (1..Notified)
  BY <1>1, <1>3, <1>5
<1>9. IsFiniteSet(Observers \X (1..Notified))
  <2>1. IsFiniteSet(Observers)
    BY HubAssumption DEF HubAssumption
  <2>2. IsFiniteSet(1..Notified)
    BY <1>1, FS_Interval
  <2> QED BY <2>1, <2>2, FS_Product
<1> QED BY <1>7, <1>8, <1>9, FS_Subset

(* The oldest quote waiting for an observer is nowhere else.               *)
LEMMA OldestIsOnce ==
  ASSUME IInv, ObserverFeeds!Ordered, NEW o \in Observers, queue[o] # <<>>
  PROVE  Head(queue[o]) \notin ToSet(got[o]) \cup ToSet(batch[o]) \cup ToSet(Tail(queue[o]))
<1> DEFINE s == Outstanding(o)
           g == got[o]
           b == batch[o]
           q == queue[o]
           k == since[o]
<1>1. /\ q \in Seq(Nat) /\ b \in Seq(Nat) /\ g \in Seq(Nat) /\ k \in Nat
      /\ Len(q) \in Nat /\ Len(b) \in Nat /\ Len(g) \in Nat
  BY QueueTypes DEF IInv, TypeOK
<1>2. /\ s \in Seq(Nat) /\ Len(s) = Len(b) + Len(q)
      /\ \A i \in 1..(Len(b) + Len(q)) : s[i] = IF i <= Len(b) THEN b[i] ELSE q[i - Len(b)]
  BY <1>1, ConcatProperties DEF Outstanding
<1>3. /\ q \in Seq(Nat) /\ Tail(q) \in Seq(Nat) /\ Len(Tail(q)) = Len(q) - 1 /\ Len(q) >= 1
      /\ Head(q) = q[1] /\ \A i \in 1..Len(Tail(q)) : Tail(q)[i] = q[i + 1]
  BY <1>1, HeadTailProperties, EmptySeq
<1>4. /\ Relative(o, s) = [i \in 1..Len(s) |-> s[i] - k]
      /\ Relative(o, g) = [i \in 1..Len(g) |-> g[i] - k]
  BY DEF Relative
<1>5. Len(Relative(o, s)) = Len(s) /\ Len(Relative(o, g)) = Len(g)
  <2>1. Relative(o, s) = Shifted(s, k) /\ Relative(o, g) = Shifted(g, k)
    BY DEF Relative, Shifted
  <2>2. s \in Seq(Int) /\ g \in Seq(Int) /\ k \in Int
    BY <1>1, <1>2, SeqMonotonic
  <2> HIDE DEF s, g, k
  <2> QED BY <2>1, <2>2, ShiftedProperties
<1>6. /\ \A i, j \in 1..Len(s) : i < j => s[i] - k < s[j] - k
      /\ \A i \in 1..Len(g), j \in 1..Len(s) : g[i] - k < s[j] - k
  <2>1. /\ \A i, j \in 1..Len(Relative(o, s)) : i < j => Relative(o, s)[i] < Relative(o, s)[j]
        /\ \A i \in 1..Len(Relative(o, g)), j \in 1..Len(Relative(o, s)) :
             Relative(o, g)[i] < Relative(o, s)[j]
    BY DEF ObserverFeeds!Ordered
  <2> DEFINE p == Relative(o, s)  r == Relative(o, g)
  <2>2. /\ Len(p) = Len(s) /\ \A i \in 1..Len(s) : p[i] = s[i] - k
        /\ Len(r) = Len(g) /\ \A i \in 1..Len(g) : r[i] = g[i] - k
    BY <1>4, <1>5
  <2>3. /\ \A i, j \in 1..Len(p) : i < j => p[i] < p[j]
        /\ \A i \in 1..Len(r), j \in 1..Len(p) : r[i] < p[j]
    BY <2>1
  <2> HIDE DEF s, g, k, p, r
  <2> QED BY <2>2, <2>3
<1> DEFINE h == Len(b) + 1
<1>s. s[h] = Head(q) /\ h \in 1..Len(s)
  <2>1. h \in 1..(Len(b) + Len(q)) /\ ~(h <= Len(b)) /\ h - Len(b) = 1
    <3> DEFINE lb == Len(b)  lq == Len(q)
    <3>1. lb \in Nat /\ lq \in Nat /\ lq >= 1
      BY <1>1, <1>3
    <3> HIDE DEF lb, lq
    <3>2. lb + 1 \in 1..(lb + lq) /\ ~(lb + 1 <= lb) /\ (lb + 1) - lb = 1
      BY <3>1
    <3> QED BY <3>2 DEF lb, lq
  <2> HIDE DEF h, s, b, q
  <2> QED BY <1>2, <1>3, <2>1
<1>t. \A i \in 1..Len(s) : s[i] \in Nat
  BY <1>2, ElementOfSeq
<1>u. \A i \in 1..Len(g) : g[i] \in Nat
  BY <1>1, ElementOfSeq
<1>v. /\ ToSet(g) = {g[i] : i \in 1..Len(g)} /\ ToSet(b) = {b[i] : i \in 1..Len(b)}
      /\ ToSet(Tail(q)) = {Tail(q)[i] : i \in 1..Len(Tail(q))}
  BY <1>1, <1>3, LenProperties DEF ToSet
<1> HIDE DEF s, g, b, q, k
<1>7. ASSUME NEW i \in 1..Len(g) PROVE g[i] # Head(q)
  BY <1>1, <1>6, <1>s, <1>t, <1>u
<1>8. ASSUME NEW i \in 1..Len(b) PROVE b[i] # Head(q)
  <2>1. i \in 1..Len(s) /\ i < h /\ s[i] = b[i]
    BY <1>1, <1>2, <1>3
  <2>2. s[i] - k < s[h] - k /\ s[i] \in Nat /\ s[h] \in Nat
    BY <1>6, <1>s, <1>t, <2>1
  <2> QED BY <1>1, <1>s, <2>1, <2>2
<1>9. ASSUME NEW i \in 1..Len(Tail(q)) PROVE Tail(q)[i] # Head(q)
  <2> DEFINE j == Len(b) + (i + 1)
  <2>1. /\ j \in 1..(Len(b) + Len(q)) /\ ~(j <= Len(b)) /\ j - Len(b) = i + 1 /\ h < j
    BY <1>1, <1>3
  <2>2. j \in 1..Len(s) /\ s[j] = q[i + 1]
    <3> HIDE DEF j
    <3> QED BY <1>2, <2>1
  <2>3. s[h] - k < s[j] - k /\ s[j] \in Nat /\ s[h] \in Nat
    BY <1>6, <1>s, <1>t, <2>1, <2>2
  <2> QED BY <1>1, <1>3, <1>s, <2>2, <2>3
<1>10. Head(q) \notin ToSet(g) \cup ToSet(b) \cup ToSet(Tail(q))
  BY <1>7, <1>8, <1>9, <1>v
<1> QED BY <1>10 DEF g, b, q

(* A fan-out leaves every gap there was, and adds one for each observer    *)
(* whose queue overflows: the oldest quote waiting for it.                 *)
LEMMA FanOutGaps ==
  ASSUME IInv, Spans, ObserverFeeds!Ordered, [Next]_vars, FanOut
  PROVE  /\ Spans'
         /\ Gaps' = Gaps \cup {<<o, Head(queue[o])>> : o \in {r \in registered : Overflows(r)}}
         /\ \A o \in {r \in registered : Overflows(r)} : <<o, Head(queue[o])>> \notin Gaps
<1> DEFINE x == Notified + 1
           Over == {r \in registered : Overflows(r)}
<1>0. /\ Notified \in Nat /\ Notified' = x /\ Len(arrivals) = x
      /\ UNCHANGED <<batch, got, since>> /\ Joined' = Joined
      /\ registered = Joined /\ Joined \subseteq Observers
  BY NotifiedStep DEF IInv, FanOut, Lifecycle, Joined, hubObsVars, TypeOK, LifeTypeOK
<1>1. ASSUME NEW o \in Joined
      PROVE  /\ since[o] \in Nat /\ Owed(o)' = Owed(o) \cup {x} /\ x \notin Owed(o)
             /\ Owed(o) \subseteq Nat
  <2>1. since[o] \in Nat /\ since[o] <= Notified
    <3>1. Book(o) /\ o \in Observers
      BY <1>0, <1>1 DEF IInv, Books
    <3>2. Notified = since[o] + Len(got[o]) + Len(batch[o]) + Len(queue[o]) + lost[o] + discarded[o]
      BY <1>1, <3>1 DEF Book, Balance
    <3> DEFINE a == Len(got[o])  b == Len(batch[o])  c == Len(queue[o])
    <3>3. /\ since[o] \in Nat /\ lost[o] \in Nat /\ discarded[o] \in Nat
          /\ a \in Nat /\ b \in Nat /\ c \in Nat
      BY <3>1, QueueTypes DEF IInv, TypeOK
    <3>4. Notified = since[o] + a + b + c + lost[o] + discarded[o]
      BY <3>2
    <3> HIDE DEF a, b, c
    <3> QED BY <3>3, <3>4
  <2>2. Owed(o)' = (since[o] + 1)..x
    BY <1>0 DEF Owed
  <2> QED BY <1>0, <2>1, <2>2 DEF Owed
<1>2. ASSUME NEW o \in Joined, ~Overflows(o)
      PROVE  Held(o)' = Held(o) \cup {x}
  <2>1. queue'[o] = Append(queue[o], x) /\ queue[o] \in Seq(Nat)
    BY <1>0, <1>2, QueueTypes DEF FanOut, Notify, Pushed, IInv, TypeOK
  <2>2. ToSet(queue'[o]) = ToSet(queue[o]) \cup {x}
    BY <1>0, <2>1, ElementsOfAppend
  <2> QED BY <1>0, <2>2 DEF Held
<1>3. ASSUME NEW o \in Joined, Overflows(o)
      PROVE  /\ Held(o)' = (Held(o) \ {Head(queue[o])}) \cup {x}
             /\ Head(queue[o]) \in Held(o)
  <2>1. /\ queue'[o] = Append(Tail(queue[o]), x) /\ queue[o] \in Seq(Nat)
        /\ Len(queue[o]) >= ObserverMax
    BY <1>0, <1>3, QueueTypes DEF FanOut, Notify, Pushed, IInv, TypeOK, Overflows
  <2>2. queue[o] # <<>> /\ Tail(queue[o]) \in Seq(Nat)
    BY <2>1, EmptySeq, HeadTailProperties, HubAssumption DEF HubAssumption
  <2>3. ToSet(queue[o]) = {Head(queue[o])} \cup ToSet(Tail(queue[o]))
    BY <2>1, <2>2, ElementsOfTail
  <2>4. ToSet(queue'[o]) = ToSet(Tail(queue[o])) \cup {x}
    <3> DEFINE t == Tail(queue[o])
    <3>1. t \in Seq(Nat) /\ x \in Nat /\ queue'[o] = Append(t, x)
      BY <1>0, <2>1, <2>2
    <3> HIDE DEF t, x
    <3>2. ToSet(Append(t, x)) = ToSet(t) \cup {x}
      BY <3>1, ElementsOfAppend
    <3> QED BY <3>1, <3>2 DEF t
  <2>5. Head(queue[o]) \notin ToSet(got[o]) \cup ToSet(batch[o]) \cup ToSet(Tail(queue[o]))
    BY <1>0, <2>2, OldestIsOnce
  <2>6. Held(o)' = ToSet(got[o]) \cup ToSet(batch[o]) \cup ToSet(queue'[o])
    BY <1>0 DEF Held
  <2> QED BY <2>3, <2>4, <2>5, <2>6 DEF Held
<1> HIDE DEF x
<1>4. Spans'
  BY <1>0, <1>1, <1>2, <1>3 DEF Spans
<1>5. ASSUME NEW o \in Over
      PROVE  <<o, Head(queue[o])>> \notin Gaps /\ <<o, Head(queue[o])>> \in Gaps'
  <2>1. o \in Joined /\ o \in Observers /\ Overflows(o)
    BY <1>0
  <2>2. /\ Head(queue[o]) \in Held(o) /\ Head(queue[o]) \in Owed(o) /\ Head(queue[o]) \in Nat
        /\ Head(queue[o]) # x
    BY <1>1, <1>3, <2>1 DEF Spans
  <2>3. Head(queue[o]) \in Owed(o)' /\ Head(queue[o]) \notin Held(o)' /\ o \in Joined'
    BY <1>0, <1>1, <1>3, <2>1, <2>2
  <2> QED BY <2>1, <2>2, <2>3 DEF Gaps
<1>6. ASSUME NEW o \in Joined, NEW n \in Owed(o) \ Held(o)
      PROVE  n \in Owed(o)' \ Held(o)'
  <2>1. n # x /\ n \in Owed(o)'
    BY <1>1
  <2>2. CASE Overflows(o)
    BY <1>3, <2>1, <2>2
  <2>3. CASE ~Overflows(o)
    BY <1>2, <2>1, <2>3
  <2> QED BY <2>2, <2>3
<1>7. ASSUME NEW o \in Joined, NEW n \in Owed(o)' \ Held(o)'
      PROVE  n \in Owed(o) \ Held(o) \/ (o \in Over /\ n = Head(queue[o]))
  <2>2. CASE Overflows(o)
    BY <1>0, <1>1, <1>3, <1>7, <2>2
  <2>3. CASE ~Overflows(o)
    BY <1>1, <1>2, <1>7, <2>3
  <2> QED BY <2>2, <2>3
<1>8. Gaps' = Gaps \cup {<<o, Head(queue[o])>> : o \in Over}
  <2>1. ASSUME NEW z \in Gaps' PROVE z \in Gaps \cup {<<o, Head(queue[o])>> : o \in Over}
    <3>1. /\ z \in Observers \X Nat /\ z[1] \in Joined /\ z[2] \in Owed(z[1])' \ Held(z[1])'
          /\ z = <<z[1], z[2]>>
      BY <1>0, <2>1 DEF Gaps, Owed, Held
    <3>2. CASE z[2] \in Owed(z[1]) \ Held(z[1])
      BY <3>1, <3>2 DEF Gaps
    <3>3. CASE z[1] \in Over /\ z[2] = Head(queue[z[1]])
      BY <3>1, <3>3
    <3> QED BY <1>7, <3>1, <3>2, <3>3
  <2>2. ASSUME NEW z \in Gaps PROVE z \in Gaps'
    <3>1. z \in Observers \X Nat /\ z[1] \in Joined /\ z[2] \in Owed(z[1]) \ Held(z[1])
      BY <2>2 DEF Gaps
    <3>2. z[2] \in Owed(z[1])' \ Held(z[1])' /\ z[1] \in Joined'
      BY <1>0, <1>6, <3>1
    <3> QED BY <3>1, <3>2 DEF Gaps, Owed, Held
  <2> QED BY <1>5, <2>1, <2>2
<1> QED BY <1>4, <1>5, <1>8

(* Whoever holds what it held, and is owed what it was, has the same gaps. *)
LEMMA FrameGaps ==
  ASSUME Spans, Notified' = Notified, Joined' = Joined, since' = since,
         \A o \in Joined : Held(o)' = Held(o)
  PROVE  Spans' /\ Gaps' = Gaps
<1>1. \A o \in Joined : Owed(o)' = Owed(o)
  BY DEF Owed
<1>2. Gaps' = {z \in Observers \X Nat :
                 z[1] \in Joined' /\ z[2] \in Owed(z[1])' /\ z[2] \notin Held(z[1])'}
  BY DEF Gaps, Owed, Held
<1>3. Gaps' = Gaps
  BY <1>1, <1>2 DEF Gaps
<1> QED BY <1>1, <1>3 DEF Spans

(* No other step closes a gap; and none opens one while the hub runs.      *)
LEMMA OtherGaps ==
  ASSUME IInv, Spans, [Next]_vars, ~FanOut
  PROVE  /\ Spans' /\ Gaps \subseteq Gaps' /\ obsDrops' = obsDrops
         /\ hubStopped => hubStopped'
         /\ ~hubStopped => Gaps' = Gaps
<1>0. Notified' = Notified /\ Notified \in Nat
  BY NotifiedStep DEF IInv
<1>1. ToSet(<<>>) = {}
  BY EmptySeq DEF ToSet
<1>2. /\ queue \in [Observers -> Seq(Nat)] /\ batch \in [Observers -> Seq(Nat)]
      /\ got \in [Observers -> Seq(Nat)] /\ since \in [Observers -> Nat]
      /\ Joined \subseteq Observers
  BY DEF IInv, TypeOK, QueueTypeOK, LifeTypeOK, Joined
<1>3. ASSUME NEW a \in Observers, AddObserver(a)
      PROVE  Spans' /\ Gaps' = Gaps /\ UNCHANGED <<obsDrops, hubStopped>>
  <2>1. /\ Joined' = Joined \cup {a} /\ a \notin Joined
        /\ UNCHANGED <<queue, batch, got, obsDrops, hubStopped>>
        /\ since' = [since EXCEPT ![a] = Notified]
    BY <1>3 DEF AddObserver, Joined, IInv, Lifecycle
  <2>2. \A o \in Joined : Owed(o)' = Owed(o) /\ Held(o)' = Held(o)
    <3>1. \A o \in Joined : since'[o] = since[o]
      BY <1>2, <2>1
    <3> QED BY <1>0, <2>1, <3>1 DEF Owed, Held
  <2>3. Owed(a)' = {} /\ Held(a)' = {}
    <3>1. since'[a] = Notified
      BY <1>2, <2>1
    <3>2. (Notified + 1)..Notified = {}
      BY <1>0
    <3>3. queue[a] = <<>> /\ batch[a] = <<>> /\ got[a] = <<>>
      BY <2>1 DEF IInv, Books, Book, Empty
    <3> QED BY <1>0, <1>1, <2>1, <3>1, <3>2, <3>3 DEF Owed, Held
  <2>4. Gaps' = {z \in Observers \X Nat :
                   z[1] \in Joined' /\ z[2] \in Owed(z[1])' /\ z[2] \notin Held(z[1])'}
    BY DEF Gaps, Owed, Held
  <2>5. Gaps' = Gaps
    BY <2>1, <2>2, <2>3, <2>4 DEF Gaps
  <2> QED BY <2>1, <2>2, <2>3, <2>5 DEF Spans
<1>4. ASSUME NEW a \in Observers, StopObserver(a)
      PROVE  Spans' /\ Gaps \subseteq Gaps' /\ hubStopped /\ UNCHANGED <<obsDrops, hubStopped>>
  <2>1. /\ Joined' = Joined /\ hubStopped
        /\ UNCHANGED <<batch, got, since, obsDrops, hubStopped>>
        /\ queue' = [queue EXCEPT ![a] = <<>>]
    BY <1>4 DEF StopObserver, Joined, IInv, Lifecycle
  <2>2. ASSUME NEW o \in Joined PROVE Owed(o)' = Owed(o) /\ Held(o)' \subseteq Held(o)
    <3>1. queue'[o] = queue[o] \/ queue'[o] = <<>>
      BY <1>2, <2>1
    <3> QED BY <1>0, <1>1, <2>1, <3>1 DEF Owed, Held
  <2>3. Gaps' = {z \in Observers \X Nat :
                   z[1] \in Joined' /\ z[2] \in Owed(z[1])' /\ z[2] \notin Held(z[1])'}
    BY DEF Gaps, Owed, Held
  <2>4. Gaps \subseteq Gaps'
    BY <2>1, <2>2, <2>3 DEF Gaps
  <2> QED BY <2>1, <2>2, <2>4 DEF Spans
<1>5. ASSUME NEW a \in Observers, Take(a) \/ Deliver(a)
      PROVE  Spans' /\ Gaps' = Gaps /\ UNCHANGED <<obsDrops, hubStopped>>
  <2>1. Joined' = Joined /\ UNCHANGED <<since, obsDrops, hubStopped>>
    BY <1>5 DEF Take, Deliver, Joined, hubObsVars
  <2>2. ASSUME NEW o \in Joined PROVE Held(o)' = Held(o)
    <3>1. CASE o # a
      <4>1. queue'[o] = queue[o] /\ batch'[o] = batch[o] /\ got'[o] = got[o]
        BY <1>2, <1>5, <3>1 DEF Take, Deliver
      <4> QED BY <4>1 DEF Held
    <3>2. CASE o = a /\ Take(a)
      <4>1. batch[o] = <<>> /\ batch'[o] = queue[o] /\ queue'[o] = <<>> /\ got'[o] = got[o]
        BY <1>2, <3>2 DEF Take
      <4> QED BY <1>1, <4>1 DEF Held
    <3>3. CASE o = a /\ Deliver(a)
      <4>1. /\ batch[o] # <<>> /\ batch'[o] = Tail(batch[o]) /\ queue'[o] = queue[o]
            /\ got'[o] = Append(got[o], Head(batch[o]))
            /\ batch[o] \in Seq(Nat) /\ got[o] \in Seq(Nat)
        BY <1>2, <3>3 DEF Deliver
      <4>2. Head(batch[o]) \in Nat
        BY <4>1, HeadTailProperties
      <4>3. ToSet(got'[o]) = ToSet(got[o]) \cup {Head(batch[o])}
        BY <4>1, <4>2, ElementsOfAppend
      <4>4. ToSet(batch[o]) = {Head(batch[o])} \cup ToSet(batch'[o])
        BY <4>1, ElementsOfTail
      <4> QED BY <4>1, <4>3, <4>4 DEF Held
    <3> QED BY <1>5, <3>1, <3>2, <3>3
  <2> QED BY <1>0, <2>1, <2>2, FrameGaps
<1>6. ASSUME Joined' = Joined, UNCHANGED <<queue, batch, got, since, obsDrops>>
      PROVE  Spans' /\ Gaps' = Gaps /\ obsDrops' = obsDrops
  <2>1. \A o \in Joined : Held(o)' = Held(o)
    BY <1>6 DEF Held
  <2> QED BY <1>0, <1>6, <2>1, FrameGaps
<1>7. CASE StopObservers
  <2>1. Joined' = Joined /\ hubStopped' /\ UNCHANGED <<queue, batch, got, since, obsDrops>>
    BY <1>7 DEF StopObservers, Joined, IInv, Lifecycle, pumpVars
  <2> QED BY <1>6, <2>1
<1>8. CASE ReaderExit \/ \E a \in Observers : PumpExit(a)
  <2>1. Joined' = Joined /\ UNCHANGED <<hubStopped, queue, batch, got, since, obsDrops>>
    BY <1>8 DEF ReaderExit, PumpExit, Joined, hubObsVars, pumpVars
  <2> QED BY <1>6, <2>1
<1>9. CASE UNCHANGED <<hubObsVars, pumpVars>>
  <2>1. Joined' = Joined /\ UNCHANGED <<hubStopped, queue, batch, got, since, obsDrops>>
    BY <1>9 DEF Joined, hubObsVars, pumpVars
  <2> QED BY <1>6, <2>1
<1> QED
  BY <1>3, <1>4, <1>5, <1>7, <1>8, <1>9
  DEF Next, Reader, Pump, Dispatcher, Start, Cancel, ProviderSend, Receive,
      DispatcherCall, DispatcherReturn, DispatcherExit, vars

Counted ==
  /\ obsDrops <= Cardinality(Gaps)
  /\ ~hubStopped => obsDrops = Cardinality(Gaps)

LEMMA FiniteGaps == IInv => IsFiniteSet(Gaps)
BY MissingIsGaps

LEMMA NextCounted ==
  ASSUME IInv, Spans, ObserverFeeds!Ordered, Counted, [Next]_vars
  PROVE  Spans' /\ Counted'
<1>1. IsFiniteSet(Gaps) /\ IsFiniteSet(Gaps')
  <2>1. IInv'
    BY NextIInv
  <2>2. IInv' => IsFiniteSet(Gaps)'
    BY FiniteGaps, PTL
  <2> QED BY <2>1, <2>2, FiniteGaps
<1>2. Cardinality(Gaps) \in Nat /\ Cardinality(Gaps') \in Nat /\ obsDrops \in Nat
  BY <1>1, FS_CardinalityType DEF IInv, TypeOK, QueueTypeOK
<1>3. CASE FanOut
  <2> DEFINE Over == {r \in registered : Overflows(r)}
             New == {<<o, Head(queue[o])>> : o \in Over}
  <2>1. Spans' /\ Gaps' = Gaps \cup New /\ Gaps \cap New = {}
    <3>1. /\ Spans' /\ Gaps' = Gaps \cup New
          /\ \A o \in Over : <<o, Head(queue[o])>> \notin Gaps
      BY <1>3, FanOutGaps
    <3> QED BY <3>1
  <2>2. /\ Over \subseteq Observers /\ ~hubStopped
        /\ obsDrops' = obsDrops + Cardinality(Over)
    BY <1>3 DEF FanOut, Notify, IInv, TypeOK, LifeTypeOK, Lifecycle
  <2>3. IsFiniteSet(Over)
    <3>1. IsFiniteSet(Observers)
      BY HubAssumption DEF HubAssumption
    <3> QED BY <2>2, <3>1, FS_Subset
  <2> HIDE DEF Over
  <2>4. IsFiniteSet(New) /\ Cardinality(New) = Cardinality(Over)
    <3> DEFINE f == [o \in Over |-> <<o, Head(queue[o])>>]
    <3>1. f \in [Over -> New]
      OBVIOUS
    <3>2. \A a, b \in Over : f[a] = f[b] => a = b
      OBVIOUS
    <3>3. \A t \in New : \E o \in Over : f[o] = t
      OBVIOUS
    <3>4. f \in Bijection(Over, New)
      BY <3>1, <3>2, <3>3 DEF Bijection, Injection, Surjection, IsInjective
    <3>5. ExistsBijection(Over, New)
      BY <3>4 DEF ExistsBijection
    <3> QED BY <2>3, <3>5, FS_Bijection
  <2> HIDE DEF New
  <2>5. Cardinality(Gaps') = Cardinality(Gaps) + Cardinality(Over)
    <3>1. Cardinality(Gaps \cap New) = 0
      BY <2>1, FS_EmptySet
    <3>2. Cardinality(Gaps \cup New) = Cardinality(Gaps) + Cardinality(New) - Cardinality(Gaps \cap New)
      BY <1>1, <2>4, FS_Union
    <3>3. Cardinality(Over) \in Nat
      BY <2>3, FS_CardinalityType
    <3> QED BY <1>2, <2>1, <2>4, <3>1, <3>2, <3>3
  <2>6. obsDrops' = Cardinality(Gaps')
    BY <2>2, <2>5 DEF Counted
  <2> QED BY <1>2, <2>1, <2>6 DEF Counted
<1>4. CASE ~FanOut
  <2>1. /\ Spans' /\ Gaps \subseteq Gaps' /\ obsDrops' = obsDrops
        /\ hubStopped => hubStopped'
        /\ ~hubStopped => Gaps' = Gaps
    BY <1>4, OtherGaps
  <2>2. Cardinality(Gaps) <= Cardinality(Gaps')
    BY <1>1, <2>1, FS_Subset
  <2>3. obsDrops' <= Cardinality(Gaps')
    BY <1>2, <2>1, <2>2 DEF Counted
  <2>4. ~hubStopped' => obsDrops' = Cardinality(Gaps')
    BY <2>1 DEF Counted
  <2> QED BY <2>1, <2>3, <2>4 DEF Counted
<1> QED BY <1>3, <1>4

(* ObserverDrops (hub.go:191) is, while the hub runs, the exact number of  *)
(* quotes that observers are owed since they were added and that are       *)
(* neither delivered nor on their way; after that it never exceeds it.     *)
(* The count is taken at the valve, the quotes are identified in the       *)
(* histories: the argument is that a quote evicted is nowhere else, which  *)
(* rests on the order in which LossyFifo keeps them.                       *)
THEOREM DropsAlwaysAccounted == Spec => []DropsAccounted
<1>1. Init => Spans /\ Counted
  <2> SUFFICES ASSUME Init PROVE Spans /\ Counted
    OBVIOUS
  <2>1. Joined = {}
    BY DEF Init, Joined
  <2>2. Gaps = {}
    BY <2>1 DEF Gaps
  <2>3. Cardinality(Gaps) = 0 /\ obsDrops = 0
    BY <2>2, FS_EmptySet DEF Init
  <2> QED BY <2>1, <2>3 DEF Spans, Counted
<1>2. IInv /\ Spans /\ Counted /\ ObserverFeeds!Ordered /\ [Next]_vars => (Spans /\ Counted)'
  BY NextCounted
<1>3. IInv /\ Counted => DropsAccounted
  BY MissingIsGaps DEF Counted, DropsAccounted
<1>4. Spec => []ObserverFeeds!Ordered
  BY HubFeedsInOrderAndAccounted, PTL
<1> QED BY <1>1, <1>2, <1>3, <1>4, SpecIInv, PTL DEF Spec

=============================================================================
