-------------------------------- MODULE Feeds --------------------------------
(***************************************************************************)
(* The feeds of a data plane: the Coinbase streams, the Yahoo client and   *)
(* the recording, with the hub's channel that they share.  What runs is    *)
(* what the configuration asks for: a provider is subscribed only when     *)
(* some symbol is its own, and a book is streamed only while it is shown.  *)
(***************************************************************************)
EXTENDS CoinbaseFeed, YahooClient

CONSTANT Plans  \* [streams, callers, recorded, bounds]: what runs, and for how long

ASSUME FeedsAssumption ==
  /\ {"coinbase", "yahoo"} \subseteq Providers
  /\ Plans \subseteq
       [streams : SUBSET Streams, callers : SUBSET Callers, recorded : BOOLEAN,
        bounds : [redials : Nat, faults : BOOLEAN, quotes : Nat, cycles : Nat, charts : Nat,
                  cancel : BOOLEAN]]

feedsVars == <<recordingVars, coinbaseVars, bookVars, yahooVars>>

Subscriptions(plan) ==
  (IF "ticker" \in plan.streams THEN {"coinbase"} ELSE {})
    \cup (IF "poll" \in plan.callers THEN {"yahoo"} ELSE {})

FeedsInit ==
  /\ \E plan \in Plans :
       /\ RecordingInit(Subscriptions(plan), plan.recorded, plan.bounds)
       /\ CoinbaseInit(plan.streams, plan.bounds)
       /\ YahooInit(plan.callers, plan.bounds)
  /\ BookInit

AtRecording(A) == A /\ UNCHANGED <<coinbaseVars, bookVars, yahooVars>>
AtCoinbase(A) == A /\ UNCHANGED <<recordingVars, bookVars, yahooVars>>
AtBook(A) == A /\ UNCHANGED <<recordingVars, coinbaseVars, yahooVars>>
AtYahoo(A) == A /\ UNCHANGED <<recordingVars, coinbaseVars, bookVars>>

(* A Subscribe that returns closes its copier's channel. *)
Returns(p) ==
  /\ returned' = returned \cup {p}
  /\ UNCHANGED <<recorded, cancelled, mayCancel, sent, tee, copierVars, sinkOpen, file, unwritten, out,
                 delivered>>

Connect(s) ==
  /\ Establish(s)
  /\ IF s = "level2" THEN BookStarts ELSE UNCHANGED bookVars
  /\ UNCHANGED <<recordingVars, yahooVars>>

StreamEnds(s) ==
  /\ StreamReturns(s)
  /\ IF s = "ticker" THEN Returns("coinbase") ELSE UNCHANGED recordingVars
  /\ UNCHANGED <<bookVars, yahooVars>>

CallerEnds(c) ==
  /\ CallerStops(c)
  /\ IF c = "poll" THEN Returns("yahoo") ELSE UNCHANGED recordingVars
  /\ UNCHANGED <<coinbaseVars, bookVars>>

Quote ==
  \/ SendQuote /\ UNCHANGED <<bookVars, yahooVars>>
  \/ SendYahooQuote /\ UNCHANGED <<coinbaseVars, bookVars>>

Tick == CoinbaseTick /\ BookTick /\ YahooTick /\ UNCHANGED <<recordingVars, unsent>>

(* What the program's own goroutines and timers do. *)
Session(s) ==
  \/ AtCoinbase(DialTimesOut(s)) \/ AtCoinbase(SendPing(s)) \/ AtCoinbase(PingFails(s))
  \/ AtCoinbase(SessionEnds(s)) \/ AtCoinbase(BackOff(s)) \/ AtCoinbase(Redial(s))
  \/ StreamEnds(s)
Copier(p) ==
  \/ AtRecording(Copy(p)) \/ AtRecording(Forward(p)) \/ AtRecording(CopierEnds(p))
YahooCaller(c) ==
  \/ AtYahoo(Caller(c)) \/ AtYahoo(Report(c)) \/ CallerEnds(c)

FeedsNext ==
  \/ \E s \in Streams :
       \/ Session(s)
       \/ Connect(s)
       \/ AtCoinbase(Dialed(s)) \/ AtCoinbase(DialFails(s))
       \/ AtCoinbase(Disturb(s)) \/ AtCoinbase(Pong(s))
  \/ \E k \in 1..2 : AtCoinbase(Frame(k))
  \/ AtCoinbase(PumpStatus)
  \/ AtBook(Trade) \/ AtBook(Tell) \/ AtBook(ReadBook) \/ AtBook(Show)
  \/ \E c \in Callers : YahooCaller(c)
  \/ AtYahoo(NextCycle) \/ AtYahoo(OpenChart) \/ AtYahoo(PumpYahooStatus)
  \/ Quote
  \/ \E p \in Providers : Copier(p)
  \/ AtRecording(HubTakes) \/ AtRecording(Cancel) \/ AtRecording(CloseSink)
  \/ Tick

(* Goroutines run, timers fire, the hub reads its channel, and a request   *)
(* comes back, if only by the client's own time limit.  Nothing is asked   *)
(* of the network: a connection may stand still for ever.                  *)
FeedsFairness ==
  /\ \A s \in Streams : WF_feedsVars(Session(s))
  /\ \A p \in Providers : WF_feedsVars(Copier(p))
  /\ \A c \in Callers : WF_feedsVars(YahooCaller(c))
  /\ WF_feedsVars(Quote)
  /\ WF_feedsVars(AtRecording(HubTakes))
  /\ WF_feedsVars(Tick)

FeedsSpec == FeedsInit /\ [][FeedsNext]_feedsVars /\ FeedsFairness

-----------------------------------------------------------------------------

FeedsTypeOK ==
  /\ recorded \in BOOLEAN /\ cancelled \in BOOLEAN /\ sinkOpen \in BOOLEAN
  /\ returned \subseteq Providers /\ copying \subseteq Providers
  /\ sent \in [Providers -> Nat]
  /\ Len(out) <= OutDepth /\ \A p \in Providers : Len(tee[p]) <= TeeDepth
  /\ phase \in [Streams -> {"off", "dialing", "subscribing", "live", "down", "waiting", "ended"}]
  /\ cur \in [Streams -> ReconnectMin..ReconnectMax]
  /\ age \in [Streams -> NoAge..Stable]
  /\ Len(statusCh) <= 1 /\ Len(yahooCh) <= 1
  /\ told \in 0..Len(served) /\ book \in Book
  /\ attempt \in [Callers -> 1..MaxAttempts]
  /\ tokens \in 0..Burst /\ crumb \in 0..crumbs

(* Backing off, pacing and retrying stay within what they promise: see     *)
(* each part.                                                              *)
FeedsInv == FeedsTypeOK /\ BackoffCountsFlaps /\ CycleIsBounded /\ ClientConsistent

AtRest(c) == at[c] \in {"idle", "off", "ended"}
Stopped ==
  /\ \A s \in Streams : phase[s] \in {"off", "ended"}
  /\ \A c \in Callers : at[c] \in {"off", "ended"}
  /\ copying = {}

(* A session does not stay on a connection that stands still or breaks,    *)
(* without help of the network; a chart that is asked for comes back,      *)
(* whatever Yahoo answers; and a data plane that is cancelled comes to     *)
(* rest.                                                                   *)
FeedsProgress ==
  /\ \A s \in Streams : []<>~(phase[s] = "live" /\ wire[s] # "good")
  /\ []<>AtRest("chart")
  /\ []<>(cancelled => Stopped)
=============================================================================
