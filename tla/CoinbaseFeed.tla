---------------------------- MODULE CoinbaseFeed ----------------------------
(***************************************************************************)
(* The two WebSocket streams of the Coinbase provider: the tickers, which  *)
(* are quotes, and the level-2 book of the product on screen.  Both live   *)
(* the same life: dial, subscribe, read until the connection is lost, wait *)
(* and dial again.  A connection is lost by an error, or by standing still *)
(* until a ping goes unanswered.                                           *)
(*                                                                         *)
(* Time passes in Tick, which the composition takes together with the      *)
(* ticks of the other feeds; a timer is the number of ticks it has left.   *)
(***************************************************************************)
EXTENDS Recording, FeedData

CONSTANTS
  Streams,       \* "ticker" and "level2"
  ReconnectMin, ReconnectMax, \* the shortest and longest delay, in ticks
  Jitter,        \* ticks by which a delay may differ
  Stable,        \* ticks after which a session counts as one that lasted
  PingInterval, PingTimeout, DialTimeout

ASSUME CoinbaseAssumption ==
  /\ Streams = {"ticker", "level2"}
  /\ {ReconnectMin, ReconnectMax, Stable, PingInterval, PingTimeout, DialTimeout}
       \subseteq Nat \ {0}
  /\ Jitter \in 0..ReconnectMin
  /\ ReconnectMin <= ReconnectMax

VARIABLES
  phase,     \* where each stream is in its life
  left,      \* ticks left of a dial or of a wait
  cur,       \* backoff.cur
  age,       \* ticks since the session was established, none if it was not
  wire,      \* what the network makes of the connection
  ping,      \* ticks to the next ping, and ticks left for its pong
  dropped,   \* connCtx is cancelled
  unsent,   \* quotes of the frame in hand still to send
  statusCh,  \* Provider.statusCh
  budget,    \* bounds: the redials and quotes left; whether the network fails
  flaps,     \* sessions that did not last since one that did
  waited     \* the delay before its jitter

sessionVars == <<phase, left, cur, age, wire, ping, dropped, statusCh, budget, flaps, waited>>
coinbaseVars == <<sessionVars, unsent>>

NoAge == -1
NoPong == 0
Capped(n) == Min({n, Stable})

CoinbaseInit(on, bounds) ==
  /\ phase = [s \in Streams |-> IF s \in on THEN "dialing" ELSE "off"]
  /\ left = [s \in Streams |-> DialTimeout]
  /\ cur = [s \in Streams |-> ReconnectMin]
  /\ age = [s \in Streams |-> NoAge]
  /\ wire = [s \in Streams |-> "good"]
  /\ ping = [s \in Streams |-> [due |-> PingInterval, pong |-> NoPong]]
  /\ dropped = [s \in Streams |-> FALSE]
  /\ unsent = 0
  /\ statusCh = <<>>
  /\ budget = bounds
  /\ flaps = [s \in Streams |-> 0]
  /\ waited = [s \in Streams |-> 0]

(* A status is lost when the last one has not been read. *)
NotifyStatus(s, up) ==
  statusCh' = IF s = "ticker" /\ statusCh = <<>> THEN <<up>> ELSE statusCh

PumpStatus ==
  /\ statusCh # <<>>
  /\ ~cancelled
  /\ statusCh' = <<>>
  /\ UNCHANGED <<phase, left, cur, age, wire, ping, dropped, unsent, budget, flaps, waited>>

-----------------------------------------------------------------------------
(* A session *)

(* The handshake is over; the write of the subscription has no time limit, *)
(* and lasts until the network takes it, fails, or the context is done.    *)
Dialed(s) ==
  /\ phase[s] = "dialing"
  /\ ~cancelled
  /\ phase' = [phase EXCEPT ![s] = "subscribing"]
  /\ left' = [left EXCEPT ![s] = 0]
  /\ UNCHANGED <<cur, age, wire, ping, dropped, unsent, statusCh, budget, flaps, waited>>

Establish(s) ==
  /\ phase[s] = "subscribing"
  /\ ~cancelled
  /\ phase' = [phase EXCEPT ![s] = "live"]
  /\ age' = [age EXCEPT ![s] = 0]
  /\ wire' = [wire EXCEPT ![s] = "good"]
  /\ ping' = [ping EXCEPT ![s] = [due |-> PingInterval, pong |-> NoPong]]
  /\ dropped' = [dropped EXCEPT ![s] = FALSE]
  /\ NotifyStatus(s, TRUE)
  /\ UNCHANGED <<left, cur, unsent, budget, flaps, waited>>

(* The dial or the write of the subscription fails; only the dial times    *)
(* out.                                                                    *)
DialFails(s) ==
  /\ phase[s] \in {"dialing", "subscribing"}
  /\ phase' = [phase EXCEPT ![s] = "down"]
  /\ age' = [age EXCEPT ![s] = NoAge]
  /\ UNCHANGED <<left, cur, wire, ping, dropped, unsent, statusCh, budget, flaps, waited>>
DialTimesOut(s) == phase[s] = "dialing" /\ left[s] = 0 /\ DialFails(s)

(* The network: a connection stands still, or breaks. *)
Disturb(s) ==
  /\ phase[s] = "live"
  /\ wire[s] = "good"
  /\ budget.faults
  /\ wire' = [wire EXCEPT ![s] = "still"] \/ wire' = [wire EXCEPT ![s] = "cut"]
  /\ UNCHANGED <<phase, left, cur, age, ping, dropped, unsent, statusCh, budget, flaps, waited>>

(* A frame of tickers has come in; each that can be read is sent in turn,  *)
(* and nothing is read meanwhile.                                          *)
Sending(s) == s = "ticker" /\ unsent > 0
Reading(s) == phase[s] = "live" /\ ~Sending(s)

Frame(k) ==
  /\ Reading("ticker")
  /\ wire["ticker"] = "good"
  /\ ~dropped["ticker"]
  /\ k <= budget.quotes
  /\ budget' = [budget EXCEPT !.quotes = @ - k]
  /\ unsent' = k
  /\ UNCHANGED <<phase, left, cur, age, wire, ping, dropped, statusCh, flaps, waited>>

SendQuote ==
  /\ phase["ticker"] = "live"
  /\ unsent > 0
  /\ Send("coinbase")
  /\ unsent' = unsent - 1
  /\ UNCHANGED sessionVars

(* keepAlive.  A pong is taken in by the read, so a session that waits to  *)
(* send a quote answers no ping.                                           *)
SendPing(s) ==
  /\ phase[s] = "live" /\ ~dropped[s] /\ ~cancelled
  /\ ping[s].due = 0 /\ ping[s].pong = NoPong
  /\ ping' = [ping EXCEPT ![s] = [due |-> PingInterval, pong |-> PingTimeout + 1]]
  /\ UNCHANGED <<phase, left, cur, age, wire, dropped, unsent, statusCh, budget, flaps, waited>>

Pong(s) ==
  /\ Reading(s)
  /\ wire[s] = "good"
  /\ ping[s].pong # NoPong
  /\ ping' = [ping EXCEPT ![s].pong = NoPong]
  /\ UNCHANGED <<phase, left, cur, age, wire, dropped, unsent, statusCh, budget, flaps, waited>>

SlipPingFailsIgnored(s) ==
  /\ phase[s] = "live"
  /\ ping[s].pong = 1 \/ (ping[s].pong # NoPong /\ wire[s] = "cut")
  /\ ping' = [ping EXCEPT ![s].pong = NoPong]
  /\ UNCHANGED <<phase, left, cur, age, wire, dropped, unsent, statusCh, budget, flaps, waited>>

(* No pong came in time, or the connection is broken: drop the session. *)
PingFails(s) ==
  /\ phase[s] = "live"
  /\ ~dropped[s]
  /\ ping[s].pong = 1 \/ (ping[s].pong # NoPong /\ wire[s] = "cut")
  /\ dropped' = [dropped EXCEPT ![s] = TRUE]
  /\ ping' = [ping EXCEPT ![s].pong = NoPong]
  /\ UNCHANGED <<phase, left, cur, age, wire, unsent, statusCh, budget, flaps, waited>>

(* Read returns an error; or the send of a quote is given up. *)
SessionEnds(s) ==
  /\ phase[s] = "live"
  /\ cancelled \/ dropped[s] \/ (wire[s] = "cut" /\ ~Sending(s))
  /\ phase' = [phase EXCEPT ![s] = "down"]
  /\ unsent' = IF s = "ticker" THEN 0 ELSE unsent
  /\ UNCHANGED <<left, cur, age, wire, ping, dropped, statusCh, budget, flaps, waited>>

-----------------------------------------------------------------------------
(* Between sessions *)

Lasted(s) == age[s] # NoAge /\ age[s] >= Stable

Jittered(d) == {n \in (d - Jitter)..(d + Jitter) : n >= 0}

(* The delay after a session, and the one after the next. *)
Observe(s) ==
  LET wait == IF Lasted(s) THEN ReconnectMin ELSE cur[s]
  IN [wait |-> wait, next |-> Min({2 * wait, ReconnectMax})]

BackOff(s) ==
  /\ phase[s] = "down"
  /\ ~cancelled
  /\ waited' = [waited EXCEPT ![s] = Observe(s).wait]
  /\ cur' = [cur EXCEPT ![s] = Observe(s).next]
  /\ \E n \in Jittered(Observe(s).wait) : left' = [left EXCEPT ![s] = n]
  /\ flaps' = [flaps EXCEPT ![s] = IF Lasted(s) THEN 1 ELSE @ + 1]
  /\ phase' = [phase EXCEPT ![s] = "waiting"]
  /\ NotifyStatus(s, FALSE)
  /\ UNCHANGED <<age, wire, ping, dropped, unsent, budget>>

Redial(s) ==
  /\ phase[s] = "waiting"
  /\ left[s] = 0
  /\ ~cancelled
  /\ budget.redials > 0
  /\ budget' = [budget EXCEPT !.redials = @ - 1]
  /\ phase' = [phase EXCEPT ![s] = "dialing"]
  /\ left' = [left EXCEPT ![s] = DialTimeout]
  /\ age' = [age EXCEPT ![s] = NoAge]
  /\ UNCHANGED <<cur, wire, ping, dropped, unsent, statusCh, flaps, waited>>

(* Subscribe, and the book's loop, return only once cancelled. *)
StreamReturns(s) ==
  /\ cancelled
  /\ phase[s] \in {"dialing", "subscribing", "down", "waiting"}
  /\ phase' = [phase EXCEPT ![s] = "ended"]
  /\ UNCHANGED <<left, cur, age, wire, ping, dropped, unsent, statusCh, budget, flaps, waited>>

Step(n, to) == IF n > to THEN n - 1 ELSE n
CoinbaseTick ==
  /\ left' = [s \in Streams |-> Step(left[s], 0)]
  /\ age' = [s \in Streams |-> IF phase[s] = "live" THEN Capped(age[s] + 1) ELSE age[s]]
  /\ ping' = [s \in Streams |->
                IF phase[s] # "live" THEN ping[s]
                ELSE [due |-> Step(ping[s].due, 0), pong |-> Step(ping[s].pong, 1)]]
  /\ UNCHANGED <<phase, cur, wire, dropped, unsent, statusCh, budget, flaps, waited>>

-----------------------------------------------------------------------------

(* A stream that waits does so for the shortest delay doubled once for     *)
(* each session that failed since one that lasted, up to the longest: one  *)
(* long session forgives every failure before it, and none is forgotten    *)
(* otherwise.                                                              *)
BackoffCountsFlaps ==
  \A s \in Streams :
    /\ phase[s] = "waiting" =>
         waited[s] = Min({ReconnectMax, ReconnectMin * 2 ^ (flaps[s] - 1)})
    /\ left[s] <= Max({ReconnectMax + Jitter, DialTimeout})

-----------------------------------------------------------------------------
(***************************************************************************)
(* The level-2 book of one product.  The server changes its book and, to a *)
(* session that is live, sends a snapshot first and then each change.  The *)
(* client applies what it reads and offers the book to the screen, no more *)
(* often than the throttle allows and only if the screen has room for it.  *)
(***************************************************************************)

CONSTANTS
  Sides, Prices, Sizes, \* the sides; the prices and sizes considered
  Throttle,             \* orderBookThrottle, in ticks
  BookDepth,            \* what the screen's channel holds
  MaxChanges            \* bound: changes of the server's book

ASSUME BookAssumption ==
  /\ Sizes \subseteq Nat \ {0} /\ Sizes # {}
  /\ BookDepth \in Nat /\ Throttle \in Nat /\ MaxChanges \in Nat

Book == [Sides \X Prices -> Sizes \cup {0}]
NoLevels == [level \in Sides \X Prices |-> 0]

VARIABLES
  served,    \* the server's book after each change so far
  told,      \* how many of them the session has been told of, or Unseen
  transit,   \* messages under way, in order
  book,      \* the client's bids and asks
  lastSeq,   \* the sequence number last read
  sinceSent, \* ticks since a book was sent
  bookCh,    \* the screen's channel of books
  shown      \* the book on screen

bookVars == <<served, told, transit, book, lastSeq, sinceSent, bookCh, shown>>

Unseen == 0
NoBook == [seq |-> 0, levels |-> NoLevels]

BookInit ==
  /\ served = <<[level \in Sides \X Prices |-> Min(Sizes)]>>
  /\ told = Unseen
  /\ transit = <<>>
  /\ book = NoLevels
  /\ lastSeq = 0
  /\ sinceSent = Throttle
  /\ bookCh = <<>>
  /\ shown = NoBook

(* The server: one level changes. *)
Trade ==
  /\ Len(served) <= MaxChanges
  /\ \E level \in Sides \X Prices, size \in Sizes \cup {0} :
       /\ size # Last(served)[level]
       /\ served' = Append(served, [Last(served) EXCEPT ![level] = size])
  /\ UNCHANGED <<told, transit, book, lastSeq, sinceSent, bookCh, shown>>

(* The server: what a session has not been told yet.  It may send its      *)
(* whole book again at any time.                                           *)
Levels(b) == {[level |-> l, size |-> b[l]] : l \in {x \in Sides \X Prices : b[x] # 0}}

Tell ==
  /\ phase["level2"] = "live"
  /\ wire["level2"] = "good"
  /\ told < Len(served)
  /\ \/ /\ told # Unseen
        /\ told' = told + 1
        /\ LET changed == {l \in Sides \X Prices : served[told + 1][l] # served[told][l]}
           IN transit' = Append(transit,
                [seq |-> told + 1, type |-> "update",
                 updates |-> {[level |-> l, size |-> served[told + 1][l]] : l \in changed}])
     \/ /\ told' = Len(served)
        /\ transit' = Append(transit, [seq |-> Len(served), type |-> "snapshot",
                                       updates |-> Levels(Last(served))])
  /\ UNCHANGED <<served, book, lastSeq, sinceSent, bookCh, shown>>

(* applyL2: a snapshot empties the book first; a size of 0 removes. *)
SlipApplyL2KeepsOld(b, msg) ==
  [l \in Sides \X Prices |->
     IF \E u \in msg.updates : u.level = l
     THEN (CHOOSE u \in msg.updates : u.level = l).size
     ELSE b[l]]

ApplyL2(b, msg) ==
  LET start == IF msg.type = "snapshot" THEN NoLevels ELSE b
      new(l) == {u.size : u \in {x \in msg.updates : x.level = l}}
  IN [l \in Sides \X Prices |-> IF new(l) = {} THEN start[l] ELSE CHOOSE n \in new(l) : TRUE]

(* One message is read and applied; a change is offered to the screen,     *)
(* which may have no room.                                                 *)
ReadBook ==
  /\ phase["level2"] = "live"
  /\ ~dropped["level2"]
  /\ transit # <<>>
  /\ transit' = Tail(transit)
  /\ lastSeq' = Head(transit).seq
  /\ book' = ApplyL2(book, Head(transit))
  /\ LET changed == Head(transit).updates # {}
         sends == changed /\ sinceSent >= Throttle /\ Len(bookCh) < BookDepth
     IN /\ bookCh' = IF sends THEN Append(bookCh, [seq |-> lastSeq', levels |-> book'])
                     ELSE bookCh
        /\ sinceSent' = IF sends THEN 0 ELSE sinceSent
  /\ UNCHANGED <<served, told, shown>>

Show ==
  /\ bookCh # <<>>
  /\ shown' = Head(bookCh)
  /\ bookCh' = Tail(bookCh)
  /\ UNCHANGED <<served, told, transit, book, lastSeq, sinceSent>>

(* With its connection a session loses what is under way; the next starts  *)
(* with an empty book and an open throttle.                                *)
BookStarts ==
  /\ told' = Unseen
  /\ transit' = <<>>
  /\ book' = NoLevels
  /\ lastSeq' = 0
  /\ sinceSent' = Throttle
  /\ UNCHANGED <<served, bookCh, shown>>

BookTick ==
  /\ sinceSent' = Min({sinceSent + 1, Throttle})
  /\ UNCHANGED <<served, told, transit, book, lastSeq, bookCh, shown>>

(* Every book that the screen is offered or shows is the book that the     *)
(* server had at that book's sequence number, through throttling, drops,   *)
(* repeated snapshots and reconnections.                                   *)
BookIsServers ==
  \A b \in (ToSet(bookCh) \cup {shown}) \ {NoBook} :
    b.seq \in 1..Len(served) /\ b.levels = served[b.seq]

(* As rendered: bids from the highest, asks from the lowest. *)
BuildBook(b, side) ==
  LET prices == {p \in Prices : b[<<side, p>>] # 0}
      better(p, q) == IF side = "bid" THEN p > q ELSE p < q
  IN Mapped(SetToSortSeq(prices, better), LAMBDA p : [price |-> p, size |-> b[<<side, p>>]])

(* The size within the n best levels of a side. *)
OrderBookDepth(rows, n) == FoldLeft(LAMBDA a, l : a + l.size, 0, Upto(rows, n))

=============================================================================
