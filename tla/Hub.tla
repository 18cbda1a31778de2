-------------------------------- MODULE Hub --------------------------------
(***************************************************************************)
(* The market hub, internal/market/hub.go: providers feed one channel, one *)
(* reader goroutine canonicalizes each quote, stores it in the cache, hands*)
(* it to every observer (the reliable path) and offers it to the dispatcher*)
(* (the best-effort path that renders).                                    *)
(*                                                                         *)
(* A quote is named by its arrival number, the order in which the reader   *)
(* receives it; arrivals[n] is the canonical symbol of quote n.  A fan-out *)
(* of one quote is two reader steps (receive and cache; fan out), because  *)
(* AddObserver, and whoever reads the cache, may run between them.         *)
(***************************************************************************)
EXTENDS Naturals, Sequences, FiniteSets, SequencesExt

CONSTANTS
  Providers,       \* quote providers, 1..n in the order NewHub was given them
  Symbols,         \* canonical symbols
  Spellings,       \* spellings the user or a venue may write
  Canon,           \* symbol.Canonical: the symbol of a spelling, or NoSymbol
  Venue,           \* Venue[s]: how the provider of symbol s spells it
  Supported,       \* Supported[p]: the canonical symbols provider p claims
  WatchList,       \* the symbols argument of Start, a sequence of spellings
  Observers,       \* the callbacks AddObserver may register
  QuoteBuffer,     \* capacity of quoteCh (128 in the code)
  DispatchBuffer,  \* dispatchBuffer (256 in the code)
  Responsive,      \* those whose callback always returns (liveness only)
  ObserverMax,     \* observerBacklogMax (1 << 20 in the code)
  MaxQuotes        \* bound of the model: quotes the providers send in all

NoSymbol == "none"   \* the empty symbol that Canonical makes of a blank

ASSUME HubAssumption ==
  /\ Providers \subseteq Nat /\ IsFiniteSet(Providers)
  /\ Canon \in [Spellings -> Symbols \cup {NoSymbol}]
  /\ Venue \in [Symbols -> Spellings]
  /\ \A s \in Symbols : Canon[Venue[s]] = s
  /\ NoSymbol \notin Symbols
  /\ Supported \in [Providers -> SUBSET Symbols]
  /\ WatchList \in Seq(Spellings)
  /\ Responsive \subseteq Observers
  /\ IsFiniteSet(Observers)
  /\ QuoteBuffer \in Nat \ {0}
  /\ DispatchBuffer \in Nat \ {0}
  /\ ObserverMax \in Nat \ {0}
  /\ MaxQuotes \in Nat

VARIABLES
  \* the subscriptions and the feed
  subs,          \* subs[p]: the symbols Start subscribed provider p to
  unroutable,    \* the spellings Start reports because nobody claims them
  ctxDone,       \* the context of Start has been cancelled
  quoteCh,       \* raw quotes (spellings) on their way to the reader
  \* the reader goroutine
  reader,        \* "new", "select", "fanout", "stopping" or "exited"
  arrivals,      \* history: canonical symbol of every quote read
  latest,        \* the cache's last quote per symbol, 0 before the first
  \* the observers
  registered,    \* h.observers
  hubStopped,    \* h.stopped
  toStop,        \* observers stopObservers has still to stop
  stopped,       \* observers whose own stopped flag is set
  pumps,         \* observers whose run goroutine has not returned
  queue,         \* queue[o]: accepted by push, not yet taken by run
  batch,         \* batch[o]: what is left of the batch run took
  got,           \* history: what the callback of o was handed
  since,         \* history: arrival number before the first o was handed
  lost,          \* history: oldest quotes push dropped from queue[o]
  discarded,     \* history: quotes stop threw away from queue[o]
  obsDrops,      \* h.obsDrops
  \* the dispatch path
  onQuote,       \* Start was given a callback for the screen
  dispatchCh,    \* quotes offered to the dispatcher
  drops,         \* h.drops
  dispatcher,    \* "new", "select", "calling" or "exited"
  showing,       \* quotes in the hands of onQuote: at most one
  shown          \* history: what onQuote returned from

feedVars == <<subs, unroutable, ctxDone, quoteCh>>
readVars == <<reader, arrivals, latest>>
hubObsVars == <<registered, hubStopped, toStop>>
pumpVars == <<stopped, pumps, queue, batch, got, since, lost, discarded, obsDrops>>
dispVars == <<onQuote, dispatchCh, drops, dispatcher, showing, shown>>
vars == <<feedVars, readVars, hubObsVars, pumpVars, dispVars>>

Init ==
  /\ subs = [p \in Providers |-> {}]
  /\ unroutable = {}
  /\ ctxDone = FALSE
  /\ quoteCh = <<>>
  /\ reader = "new"
  /\ arrivals = <<>>
  /\ latest = [s \in Symbols |-> 0]
  /\ registered = {}
  /\ hubStopped = FALSE
  /\ toStop = {}
  /\ stopped = {}
  /\ pumps = {}
  /\ queue = [o \in Observers |-> <<>>]
  /\ batch = [o \in Observers |-> <<>>]
  /\ got = [o \in Observers |-> <<>>]
  /\ since = [o \in Observers |-> 0]
  /\ lost = [o \in Observers |-> 0]
  /\ discarded = [o \in Observers |-> 0]
  /\ obsDrops = 0
  /\ onQuote = FALSE
  /\ dispatchCh = <<>>
  /\ drops = 0
  /\ dispatcher = "new"
  /\ showing = <<>>
  /\ shown = <<>>

-----------------------------------------------------------------------------
(* Start: routing, then the provider, reader and dispatcher goroutines.    *)

(* route: a symbol counts once, under the first spelling the list gives it, *)
(* and goes to the first provider that claims it; a blank is skipped.      *)
FirstSpellings ==
  {i \in 1..Len(WatchList) :
     /\ Canon[WatchList[i]] # NoSymbol
     /\ \A j \in 1..(i - 1) : Canon[WatchList[j]] # Canon[WatchList[i]]}

Claims(p, s) == s \in Supported[p] /\ \A q \in Providers : q < p => s \notin Supported[q]

Route(p) ==
  {Canon[WatchList[i]] : i \in {f \in FirstSpellings : Claims(p, Canon[WatchList[f]])}}

Unroutable ==
  {WatchList[i] : i \in {f \in FirstSpellings :
                           \A p \in Providers : Canon[WatchList[f]] \notin Supported[p]}}

Start ==
  /\ reader = "new"
  /\ subs' = [p \in Providers |-> Route(p)]
  /\ unroutable' = Unroutable
  /\ reader' = "select"
  /\ dispatcher' = "select"
  /\ onQuote' \in BOOLEAN
  /\ UNCHANGED <<ctxDone, quoteCh, arrivals, latest, hubObsVars, pumpVars,
                 dispatchCh, drops, showing, shown>>

(* Shutdown: the caller cancels the context. *)
Cancel ==
  /\ reader # "new"
  /\ ~ctxDone
  /\ ctxDone' = TRUE
  /\ UNCHANGED <<subs, unroutable, quoteCh, readVars, hubObsVars, pumpVars, dispVars>>

(* A subscribed provider sends a quote in its venue's spelling; it waits   *)
(* while the channel is full and may still win that race after the         *)
(* cancellation.  One whose Subscribe has returned, because the context    *)
(* ended or it failed for good, is one that never sends again: nothing     *)
(* restarts it, and no fairness makes it send.                             *)
ProviderSend(p) ==
  /\ Len(quoteCh) < QuoteBuffer
  /\ Len(arrivals) + Len(quoteCh) < MaxQuotes
  /\ \E s \in subs[p] : quoteCh' = Append(quoteCh, Venue[s])
  /\ UNCHANGED <<subs, unroutable, ctxDone, readVars, hubObsVars, pumpVars, dispVars>>

-----------------------------------------------------------------------------
(* Slips: the definition named in the comment, with one plausible bug.  The *)
(* runs use them to show that each property can fail.                      *)

\* Overflows, off by one
SlipOverflowsLate(o) == Len(queue[o]) > ObserverMax

\* Receive, without cache.Push
SlipReceiveUncached ==
  /\ reader = "select"
  /\ quoteCh # <<>>
  /\ quoteCh' = Tail(quoteCh)
  /\ arrivals' = Append(arrivals, Canon[Head(quoteCh)])
  /\ reader' = "fanout"
  /\ UNCHANGED <<subs, unroutable, ctxDone, latest, hubObsVars, pumpVars, dispVars>>

\* StopObservers, clearing h.observers before it copies it
SlipStopObserversForgets ==
  /\ reader = "select"
  /\ ctxDone
  /\ toStop' = {}
  /\ registered' = {}
  /\ hubStopped' = TRUE
  /\ reader' = "stopping"
  /\ UNCHANGED <<feedVars, arrivals, latest, pumpVars, dispVars>>

\* Take, without the reset of the queue
SlipTakeKeepsQueue(o) ==
  /\ o \in pumps \ stopped
  /\ batch[o] = <<>>
  /\ queue[o] # <<>>
  /\ batch' = [batch EXCEPT ![o] = queue[o]]
  /\ UNCHANGED <<feedVars, readVars, hubObsVars, stopped, pumps, queue, got,
                 since, lost, discarded, obsDrops, dispVars>>

\* Take, with one delivery goroutine shared by all observers
SlipTakeShared(o) ==
  /\ o \in pumps \ stopped
  /\ \A x \in Observers : batch[x] = <<>>
  /\ queue[o] # <<>>
  /\ batch' = [batch EXCEPT ![o] = queue[o]]
  /\ queue' = [queue EXCEPT ![o] = <<>>]
  /\ UNCHANGED <<feedVars, readVars, hubObsVars, stopped, pumps, got, since,
                 lost, discarded, obsDrops, dispVars>>

\* Deliver, newest first
SlipDeliverNewestFirst(o) ==
  /\ batch[o] # <<>>
  /\ got' = [got EXCEPT ![o] = Append(@, Last(batch[o]))]
  /\ batch' = [batch EXCEPT ![o] = Front(@)]
  /\ UNCHANGED <<feedVars, readVars, hubObsVars, stopped, pumps, queue, since,
                 lost, discarded, obsDrops, dispVars>>

-----------------------------------------------------------------------------
(* The reader goroutine.                                                   *)

Receive ==
  /\ reader = "select"
  /\ quoteCh # <<>>
  /\ quoteCh' = Tail(quoteCh)
  /\ arrivals' = Append(arrivals, Canon[Head(quoteCh)])
  /\ latest' = [latest EXCEPT ![Canon[Head(quoteCh)]] = Len(arrivals) + 1]
  /\ reader' = "fanout"
  /\ UNCHANGED <<subs, unroutable, ctxDone, hubObsVars, pumpVars, dispVars>>

(* push: what becomes of a queue that is handed quote n. *)
Overflows(o) == Len(queue[o]) >= ObserverMax
Pushed(o, n) == Append(IF Overflows(o) THEN Tail(queue[o]) ELSE queue[o], n)

\* a slip of Notify: the counter moves once, however many observers lost the quote
SlipNotifyCountsOnce ==
  /\ queue' = [o \in Observers |->
                 IF o \in registered THEN Pushed(o, Len(arrivals)) ELSE queue[o]]
  /\ lost' = [o \in Observers |->
                IF o \in registered /\ Overflows(o) THEN lost[o] + 1 ELSE lost[o]]
  /\ obsDrops' = IF \E o \in registered : Overflows(o) THEN obsDrops + 1 ELSE obsDrops

(* notify hands the quote to every registered observer under h.mu, which   *)
(* shuts AddObserver out.  A stopped observer is no longer registered, so  *)
(* push never meets its stopped flag.                                      *)
Notify ==
  /\ queue' = [o \in Observers |->
                 IF o \in registered THEN Pushed(o, Len(arrivals)) ELSE queue[o]]
  /\ lost' = [o \in Observers |->
                IF o \in registered /\ Overflows(o) THEN lost[o] + 1 ELSE lost[o]]
  /\ obsDrops' = obsDrops + Cardinality({o \in registered : Overflows(o)})

(* The non-blocking send to the dispatcher, if anyone is to be shown the   *)
(* quote: a full channel loses the newest.                                 *)
Dispatch ==
  \/ ~onQuote /\ UNCHANGED <<dispatchCh, drops>>
  \/ /\ onQuote
     /\ Len(dispatchCh) < DispatchBuffer
     /\ dispatchCh' = Append(dispatchCh, Len(arrivals))
     /\ UNCHANGED drops
  \/ /\ onQuote
     /\ Len(dispatchCh) = DispatchBuffer
     /\ drops' = drops + 1
     /\ UNCHANGED dispatchCh

(* The pumps and the dispatcher only ever take from these queues, so what  *)
(* they do between the two halves they could as well do before: one step.  *)
FanOut ==
  /\ reader = "fanout"
  /\ Notify
  /\ Dispatch
  /\ reader' = "select"
  /\ UNCHANGED <<feedVars, arrivals, latest, hubObsVars, stopped, pumps, batch,
                 got, since, discarded, onQuote, dispatcher, showing, shown>>

(* select picks ctx.Done, at random among the ready cases; the deferred     *)
(* stopObservers first empties h.observers under h.mu ...                   *)
StopObservers ==
  /\ reader = "select"
  /\ ctxDone
  /\ toStop' = registered
  /\ registered' = {}
  /\ hubStopped' = TRUE
  /\ reader' = "stopping"
  /\ UNCHANGED <<feedVars, arrivals, latest, pumpVars, dispVars>>

(* ... then stops each observer: its queue is discarded, the batch its     *)
(* pump has already taken is not.                                          *)
StopObserver(o) ==
  /\ reader = "stopping"
  /\ o \in toStop
  /\ toStop' = toStop \ {o}
  /\ stopped' = stopped \cup {o}
  /\ queue' = [queue EXCEPT ![o] = <<>>]
  /\ discarded' = [discarded EXCEPT ![o] = @ + Len(queue[o])]
  /\ UNCHANGED <<feedVars, readVars, registered, hubStopped, pumps, batch, got,
                 since, lost, obsDrops, dispVars>>

ReaderExit ==
  /\ reader = "stopping"
  /\ toStop = {}
  /\ reader' = "exited"
  /\ UNCHANGED <<feedVars, arrivals, latest, hubObsVars, pumpVars, dispVars>>

-----------------------------------------------------------------------------
(* Observers.                                                              *)

(* Quotes the reader has fanned out so far. *)
Notified == IF reader = "fanout" THEN Len(arrivals) - 1 ELSE Len(arrivals)

(* AddObserver registers and starts the pump, before Start, between any two *)
(* reader steps, or not at all once the hub has stopped.                    *)
AddObserver(o) ==
  /\ ~hubStopped
  /\ o \notin registered
  /\ registered' = registered \cup {o}
  /\ pumps' = pumps \cup {o}
  /\ since' = [since EXCEPT ![o] = Notified]
  /\ UNCHANGED <<feedVars, readVars, hubStopped, toStop, stopped, queue, batch,
                 got, lost, discarded, obsDrops, dispVars>>

(* run takes the whole queue as its next batch ... *)
Take(o) ==
  /\ o \in pumps \ stopped
  /\ batch[o] = <<>>
  /\ queue[o] # <<>>
  /\ batch' = [batch EXCEPT ![o] = queue[o]]
  /\ queue' = [queue EXCEPT ![o] = <<>>]
  /\ UNCHANGED <<feedVars, readVars, hubObsVars, stopped, pumps, got, since,
                 lost, discarded, obsDrops, dispVars>>

(* ... and delivers it quote by quote, whether stopped meanwhile or not.   *)
(* inflight is the length of what remains of the batch.                    *)
Deliver(o) ==
  /\ batch[o] # <<>>
  /\ got' = [got EXCEPT ![o] = Append(@, Head(batch[o]))]
  /\ batch' = [batch EXCEPT ![o] = Tail(@)]
  /\ UNCHANGED <<feedVars, readVars, hubObsVars, stopped, pumps, queue, since,
                 lost, discarded, obsDrops, dispVars>>

PumpExit(o) ==
  /\ o \in pumps \cap stopped
  /\ batch[o] = <<>>
  /\ pumps' = pumps \ {o}
  /\ UNCHANGED <<feedVars, readVars, hubObsVars, stopped, queue, batch, got,
                 since, lost, discarded, obsDrops, dispVars>>

-----------------------------------------------------------------------------
(* The dispatcher goroutine.                                               *)

DispatcherCall ==
  /\ dispatcher = "select"
  /\ dispatchCh # <<>>
  /\ showing' = <<Head(dispatchCh)>>
  /\ dispatchCh' = Tail(dispatchCh)
  /\ dispatcher' = "calling"
  /\ UNCHANGED <<feedVars, readVars, hubObsVars, pumpVars, onQuote, drops, shown>>

(* onQuote returns; it may never do so. *)
DispatcherReturn ==
  /\ dispatcher = "calling"
  /\ shown' = shown \o showing
  /\ showing' = <<>>
  /\ dispatcher' = "select"
  /\ UNCHANGED <<feedVars, readVars, hubObsVars, pumpVars, onQuote, dispatchCh, drops>>

DispatcherExit ==
  /\ dispatcher = "select"
  /\ ctxDone
  /\ dispatcher' = "exited"
  /\ UNCHANGED <<feedVars, readVars, hubObsVars, pumpVars, onQuote, dispatchCh,
                 drops, showing, shown>>

-----------------------------------------------------------------------------

Reader ==
  \/ Receive \/ FanOut \/ StopObservers \/ ReaderExit
  \/ \E o \in Observers : StopObserver(o)
Pump(o) == Take(o) \/ Deliver(o) \/ PumpExit(o)
Dispatcher == DispatcherCall \/ DispatcherReturn \/ DispatcherExit

Next ==
  \/ Start \/ Cancel \/ Reader \/ Dispatcher
  \/ \E p \in Providers : ProviderSend(p)
  \/ \E o \in Observers : AddObserver(o) \/ Pump(o)

Spec == Init /\ [][Next]_vars

(* Scheduling: the Go scheduler runs every goroutine that is not blocked,  *)
(* and a select that finds ctx.Done ready again and again ends by picking  *)
(* it (it picks at random).  Providers, the dispatcher's onQuote and the   *)
(* callbacks of observers outside Responsive may block for ever.           *)
Fairness ==
  /\ WF_vars(Start)
  /\ WF_vars(Reader)
  /\ SF_vars(StopObservers)
  /\ \A o \in Observers : WF_vars(Take(o)) /\ WF_vars(PumpExit(o))
  /\ \A o \in Responsive : WF_vars(Deliver(o))

FairSpec == Spec /\ Fairness

-----------------------------------------------------------------------------
(* Correctness.                                                            *)

Outstanding(o) == batch[o] \o queue[o]
Joined == registered \cup toStop \cup stopped

FeedTypeOK ==
  /\ subs \in [Providers -> SUBSET Symbols]
  /\ unroutable \in SUBSET Spellings
  /\ ctxDone \in BOOLEAN
  /\ quoteCh \in Seq({Venue[s] : s \in Symbols})
  /\ Len(quoteCh) <= QuoteBuffer

ReaderTypeOK ==
  /\ reader \in {"new", "select", "fanout", "stopping", "exited"}
  /\ arrivals \in Seq(Symbols)
  /\ latest \in [Symbols -> Nat]

LifeTypeOK ==
  /\ registered \in SUBSET Observers
  /\ hubStopped \in BOOLEAN
  /\ toStop \in SUBSET Observers
  /\ stopped \in SUBSET Observers
  /\ pumps \in SUBSET Observers

QueueTypeOK ==
  /\ queue \in [Observers -> Seq(Nat)]
  /\ batch \in [Observers -> Seq(Nat)]
  /\ got \in [Observers -> Seq(Nat)]
  /\ since \in [Observers -> Nat]
  /\ lost \in [Observers -> Nat]
  /\ discarded \in [Observers -> Nat]
  /\ obsDrops \in Nat

DispatchTypeOK ==
  /\ onQuote \in BOOLEAN
  /\ dispatchCh \in Seq(Nat)
  /\ Len(dispatchCh) <= DispatchBuffer
  /\ drops \in Nat
  /\ dispatcher \in {"new", "select", "calling", "exited"}
  /\ showing \in Seq(Nat)
  /\ shown \in Seq(Nat)

TypeOK == FeedTypeOK /\ ReaderTypeOK /\ LifeTypeOK /\ QueueTypeOK /\ DispatchTypeOK

(* AddObserver, hub.go:196: "Every quote the hub reads is delivered to      *)
(* every observer, in arrival order ... nothing is dropped by back-pressure".*)
(* Until the valve opens or the hub stops, what a callback was handed, the *)
(* rest of its batch and its queue are, end to end, exactly the quotes read *)
(* since it was added.                                                     *)
Reliable ==
  \A o \in registered :
    lost[o] = 0 =>
      LET all == got[o] \o batch[o] \o queue[o]
      IN  /\ Notified = since[o] + Len(all)
          /\ \A i \in 1..Len(all) : all[i] = since[o] + i

(* observerBacklogMax, hub.go:23: a wedged observer costs a bounded queue,  *)
(* and a bounded batch besides; what it loses is counted, quote for quote,  *)
(* so an observer that was never behind by ObserverMax has lost nothing.    *)
BacklogBounded ==
  \A o \in Observers :
    /\ Len(queue[o]) <= ObserverMax
    /\ Len(batch[o]) <= ObserverMax
    /\ lost[o] > 0 => Notified > since[o] + ObserverMax

(* What observers should have had since they were added, and neither were  *)
(* handed nor are still to be: pairs of an observer and a quote.           *)
Missing ==
  UNION {{o} \X (((since[o] + 1)..Notified) \ ToSet(got[o] \o Outstanding(o))) :
           o \in Joined}

(* ObserverDrops, hub.go:191, is the whole truth while the hub runs: the    *)
(* counter is the number of quotes missing, over all observers, whatever   *)
(* was taken, delivered or evicted meanwhile.  It never says more than     *)
(* that; once the hub stops it says less, since the quotes that stop       *)
(* throws away (hub.go:341) are missing too and are not counted.           *)
DropsAccounted ==
  /\ obsDrops <= Cardinality(Missing)
  /\ ~hubStopped => obsDrops = Cardinality(Missing)

(* The cache leads both delivery paths: whoever is handed a quote finds a   *)
(* price at least as new in the cache, which is what an alert check reads,  *)
(* and what excuses a quote dropped on the way to the screen (hub.go:123).  *)
CacheLeadsDelivery ==
  \A n \in ToSet(dispatchCh \o showing \o shown)
             \cup UNION {ToSet(got[o] \o Outstanding(o)) : o \in Observers} :
    latest[arrivals[n]] >= n

(* The reliable path makes progress whatever the rest does: with onQuote    *)
(* and every other observer wedged, a quote that reached the channel is     *)
(* handed to a responsive observer, unless the valve or a shutdown cut in.  *)
ReliableDelivery ==
  \A o \in Responsive, k \in 1..MaxQuotes :
    (o \in registered /\ since[o] < k /\ k <= Len(arrivals) + Len(quoteCh))
      ~> (k \in ToSet(got[o]) \/ lost[o] > 0 \/ ctxDone)

(* Shutdown ends the reader, stops every observer, and leaves only the pumps *)
(* that are parked inside a callback (stop, hub.go:335).                    *)
ShutdownCompletes ==
  ctxDone ~> /\ reader = "exited"
             /\ registered = {}
             /\ \A o \in pumps : o \notin Responsive /\ batch[o] # <<>>

-----------------------------------------------------------------------------
(* The hub implements LossyFifo, for its observers and for the dispatcher. *)
Relative(o, s) == [i \in 1..Len(s) |-> s[i] - since[o]]

ObserverFeeds == INSTANCE LossyFifo WITH
  Consumers <- Observers,
  offered   <- [o \in Observers |-> IF o \in Joined THEN Notified - since[o] ELSE 0],
  pending   <- [o \in Observers |-> Relative(o, Outstanding(o))],
  received  <- [o \in Observers |-> Relative(o, got[o])],
  lost      <- lost,
  discarded <- discarded,
  open      <- [o \in Observers |-> o \notin stopped]

Screen == "screen"
DispatchFeed == INSTANCE LossyFifo WITH
  Consumers <- {Screen},
  offered   <- [c \in {Screen} |-> IF onQuote THEN Notified ELSE 0],
  pending   <- [c \in {Screen} |-> showing \o dispatchCh],
  received  <- [c \in {Screen} |-> shown],
  lost      <- [c \in {Screen} |-> drops],
  discarded <- [c \in {Screen} |-> 0],
  open      <- [c \in {Screen} |-> TRUE]

(* Both paths are lossy FIFO queues in the sense of LossyFifo: in order, at *)
(* most once, and nothing vanishes uncounted.                              *)
FeedsAreLossyFifos == ObserverFeeds!Spec /\ DispatchFeed!Spec

=============================================================================
