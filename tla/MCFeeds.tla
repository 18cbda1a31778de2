------------------------------- MODULE MCFeeds -------------------------------
(***************************************************************************)
(* The feeds on small instances, and the pure operators of the feeds       *)
(* against what they are meant to compute.                                 *)
(***************************************************************************)
EXTENDS Feeds

Runs(streams, callers, isRecorded, bounds) ==
  [streams |-> streams, callers |-> callers, recorded |-> isRecorded, bounds |-> bounds]
Bounds(r, f, q, cy, ch, ca) ==
  [redials |-> r, faults |-> f, quotes |-> q, cycles |-> cy, charts |-> ch, cancel |-> ca]

(* One plan for each question; together they would only multiply. *)
MCPlans ==
  { Runs({"ticker"}, {}, FALSE, Bounds(3, TRUE, 0, 0, 0, FALSE)),
    Runs({"ticker"}, {}, FALSE, Bounds(0, TRUE, 2, 0, 0, TRUE)),
    Runs({"ticker"}, {}, TRUE, Bounds(0, FALSE, 2, 0, 0, TRUE)),
    Runs({"level2"}, {}, FALSE, Bounds(1, TRUE, 0, 0, 0, FALSE)),
    Runs({}, {"poll"}, FALSE, Bounds(0, FALSE, 0, 2, 0, TRUE)),
    Runs({}, {"chart"}, FALSE, Bounds(0, FALSE, 0, 0, 2, TRUE)),
    Runs({}, {"poll", "chart"}, FALSE, Bounds(0, FALSE, 0, 1, 1, FALSE)) }

-----------------------------------------------------------------------------
(* Spelling *)

Words == DOMAIN Spellings
Texts == {<<>>} \cup {<<a>> : a \in Words} \cup {<<a, b>> : a \in Words, b \in Words}
           \cup {<<a, "-", b>> : a \in Words, b \in Words}

(* The canonical spelling is a fixed point, of the same class, and both    *)
(* readings of a crypto symbol, for the cache and for Coinbase, agree.     *)
ASSUME CanonicalIsStable ==
  \A s \in Texts :
    /\ Canonical(Canonical(s)) = Canonical(s)
    /\ Canonical(s) # <<>> => Classify(Canonical(s)).class = Classify(s).class
    /\ IsCrypto(s) => ToCoinbaseSymbol(s) = Canonical(s)

(* Every symbol that is known has one provider, and it is the one that     *)
(* history is asked of.                                                    *)
ASSUME OneProviderEach ==
  \A s \in Texts :
    LET able == {p \in {"coinbase", "yahoo", "fred"} : Supports(p, s)}
    IN /\ Cardinality(able) = IF Classify(s).class = "unknown" THEN 0 ELSE 1
       /\ \A p \in able : HistoryRoute(<<"coinbase", "yahoo", "fred">>, s) = p
       /\ SeriesID(s) # Refused => Classify(s).class = "fred"

SomeTexts == {<<"BTC">>, <<"btc", "-", "USD">>, <<"MATIC">>, <<"POL", "USDT">>, <<"X">>, <<"^", "X">>,
              <<"FRED:", "X">>, <<" ">>}
Lists == {<<>>} \cup {<<a, b>> : a \in SomeTexts, b \in SomeTexts}
                \cup {<<a, b, <<"btc">>>> : a \in SomeTexts, b \in SomeTexts}
IsSet(list) == Cardinality(ToSet(list)) = Len(list)
CanonicalSet(list) == {Canonical(s) : s \in ToSet(list)} \ {<<>>}

(* No list has a symbol twice, none is lost on the way to a provider, and  *)
(* adding and removing undo each other whatever the spelling.              *)
ASSUME ListsAreSets ==
  \A list \in Lists :
    LET c == [watchlist |-> list, watchlists |-> <<[name |-> "g", symbols |-> list]>>,
              portfolios |-> <<[holdings |-> list, transactions |-> <<>>]>>,
              alerts |-> list, notes |-> [s \in ToSet(list) |-> s]]
    IN /\ IsSet(CanonicalDedupe(list)) /\ ToSet(CanonicalDedupe(list)) = CanonicalSet(list)
       /\ ToSet(SubscribeSymbols(c)) = CanonicalSet(list) /\ IsSet(SubscribeSymbols(c))
       /\ IsSet(ProductIDs(list))
       /\ ToSet(StockTickers(list)) \subseteq CanonicalSet(list)
       /\ \A n \in Normalized(c) : Normalized(n) = {n} /\ SubscribeSymbols(n) = SubscribeSymbols(c)
       /\ \A s \in SomeTexts :
            LET base == CanonicalDedupe(list) IN
            /\ CanonicalSet(AddSymbol(base, s)) = CanonicalSet(base) \cup CanonicalSet(<<s>>)
            /\ IsSet(AddSymbol(base, s))
            /\ CanonicalSet(RemoveSymbol(base, s)) = CanonicalSet(base) \ {Canonical(s)}

-----------------------------------------------------------------------------
(* Candles *)

Candle(t, o, h, l, c, v) ==
  [time |-> t, open |-> o, high |-> h, low |-> l, close |-> c, volume |-> v]
(* n native candles from a day and an hour on, n pricing and n patterns *)
NativeRun(n, first, i) ==
  [k \in 1..n |-> LET p == 10 + ((k * k) % 7) IN
     Candle(first + (k - 1) * NativeGranularity(i), p, p + 2, p - 3, p + 1, k)]

(* Bars that Coinbase does not serve are made of candles that it does:     *)
(* each candle is in one bar, which covers it; bars ascend; a bar has the  *)
(* first open and the last close; and no more is asked for than is served. *)
ASSUME AggregateCovers ==
  \A i \in {"4h", "1w"}, n \in 0..10, off \in 0..5 :
    LET native == NativeRun(n, 3 * Day + off * NativeGranularity(i), i)
        bars == Aggregate(native, i)
        of(b) == SelectSeq(native, LAMBDA c : BucketStart(c.time, i) = b.time)
    IN /\ Sum(Mapped(bars, LAMBDA b : b.volume)) = Sum(Mapped(native, LAMBDA c : c.volume))
       /\ \A k \in 1..Len(bars) :
            LET b == bars[k] IN
            /\ k > 1 => bars[k - 1].time + IntervalDuration(i) <= b.time
            /\ of(b) # <<>> /\ b.open = of(b)[1].open /\ b.close = Last(of(b)).close
            /\ \A c \in ToSet(of(b)) :
                 /\ c.time \in b.time..(b.time + IntervalDuration(i) - 1)
                 /\ b.low <= c.low /\ c.high <= b.high
ASSUME WindowIsServed ==
  \A i \in Intervals, limit \in 0..12 :
    LET w == Window(i, limit) IN
    /\ w.native <= MaxCandlesPerRequest /\ w.limit * PerBucket(i) <= w.native
    /\ limit \in 1..w.limit => w.limit = limit
ASSUME CoinbaseNewestLast ==
  \A i \in {"1h", "4h"}, limit \in 1..2 :
    LET rows == Reverse(NativeRun(6, 8 * Hour, i))
        got1 == CoinbaseHistory(rows, i, limit)
    IN /\ got1 # <<>> /\ Last(got1).close = rows[1].close
       /\ i = "4h" => Len(got1) <= limit

(* Columns of any length, with holes. *)
Columns == {<<>>, <<1>>, <<1, Null>>, <<Null, 2>>, <<1, 2>>, <<1, 2, 3>>, <<Null, Null, 3>>}
(* A bar has an open and a close that the answer gave, and bars keep their *)
(* order; the close before today's is the last but one that was given.     *)
ASSUME YahooBarsAreWhole ==
  \A open \in Columns, close \in Columns, limit \in 0..2 :
    LET chart == [time |-> <<100, 200, 300>>, open |-> open, close |-> close, high |-> open,
                  low |-> <<>>, volume |-> close, meta |-> [chartPreviousClose |-> 7]]
        bars == YahooHistory(chart, limit)
        whole == {k \in 1..3 : /\ k <= Len(open) /\ k <= Len(close)
                               /\ open[k] # Null /\ close[k] # Null}
    IN /\ limit = 0 => {b.time : b \in ToSet(bars)} = {chart.time[k] : k \in whole}
       /\ limit > 0 => Len(bars) <= limit
       /\ \A k \in 2..Len(bars) : bars[k - 1].time < bars[k].time
       /\ PreviousBarClose(chart) \in {7} \cup ToSet(Front(<<0>> \o close))
       /\ LastSaid(close) # Null

-----------------------------------------------------------------------------
(* Series, snapshots, events and headlines *)

CSVLines == {[blank |-> TRUE], [blank |-> FALSE, date |-> 5, value |-> 50],
             [blank |-> FALSE, date |-> 6, value |-> Null],
             [blank |-> FALSE, date |-> 7, value |-> 70]}
(* Only rows with a date and a value count, the header never does, and too *)
(* many are refused rather than cut.                                       *)
ASSUME SeriesRows ==
  \A a \in CSVLines, b \in CSVLines, c \in CSVLines, limit \in 0..1 :
    LET lines == <<[blank |-> FALSE, date |-> 5, value |-> 50], a, b, c>>
        said == {k \in 2..4 : ~lines[k].blank /\ lines[k] # [blank |-> FALSE, date |-> 6, value |-> Null]}
        all == FREDHistory(lines, Null, Null, limit)
    IN /\ all.ok <=> Cardinality(said) <= MaxObservations
       /\ all.ok => Len(all.rows) = IF limit > 0 /\ said # {} THEN 1 ELSE Cardinality(said)
       /\ all.ok /\ limit = 0 => \A r \in ToSet(FREDHistory(lines, 6, Null, 0).rows) : r.time = 7

Answers == {[ok |-> TRUE, body |-> 3, status |-> 200], [ok |-> FALSE, body |-> 0, status |-> 451],
            [ok |-> FALSE, body |-> 0, status |-> 500]}
(* A half that failed is not shown as zero by one that did not. *)
ASSUME FuturesHalves ==
  \A p \in Answers, o \in Answers :
    LET snap == FuturesSnapshot("BTC", p, o) IN
    /\ OK(snap) <=> p.ok /\ o.ok
    /\ Unavailable(snap) => ~OK(snap) /\ snap.funding = 0 /\ snap.interest = 0
    /\ Restricted(snap) => 451 \in {p.status, o.status}

Headline(t, link) == [time |-> t, link |-> link]
SomeHeadlines == {Headline(1, "a"), Headline(2, "a"), Headline(3, "b"), Headline(2, "c")}
(* No link twice, newest first, none older than one that was left out of   *)
(* those that were told apart, and no more than are kept.                  *)
ASSUME HeadlinesNewest ==
  \A a \in SomeHeadlines, b \in SomeHeadlines, c \in SomeHeadlines, d \in SomeHeadlines :
    LET all == <<a, b, c, d>>
        kept == FetchAll(all)
    IN /\ Len(kept) <= MaxHeadlines
       /\ \A i, j \in 1..Len(kept) :
            i < j => kept[i].link # kept[j].link /\ kept[i].time >= kept[j].time
       /\ Len(kept) = Min({MaxHeadlines, Cardinality({h.link : h \in ToSet(all)})})

ASSUME EventsInWindow ==
  \A now \in 0..4, window \in 0..3 :
    LET events == Earnings(<<EarningsOf("X", <<3, 0, 1>>), EarningsOf("BTC", <<2>>)>>)
        shown1 == Upcoming(events, now, window)
    IN /\ Len(events) = 3 /\ \A k \in 2..3 : events[k - 1].time <= events[k].time
       /\ {e.time : e \in ToSet(shown1)} = {1, 2, 3} \cap (now..(now + window - 1))

(* An age is told in the largest unit that is not zero. *)
ASSUME AgesAreRounded ==
  \A n \in {0, 59, 60, 3599, 3600, 86399, 86400, 200000} :
    LET told1 == TimeAgo(300000 - n, 300000) IN
    Len(told1) = 2 =>
      LET unit == CASE told1[2] = "m" -> Minute [] told1[2] = "h" -> Hour [] OTHER -> Day
      IN told1[1] > 0 /\ told1[1] * unit <= n /\ n < (told1[1] + 1) * unit

(* An answer is believed only if its status says so and its body is read;  *)
(* a webhook counts as delivered by its status alone.                      *)
ASSUME StatusDecides ==
  \A status \in {Transport, Cut, 200, 204, 301, 404, 500}, body \in {Garbage, "answer"} :
    LET resp == [status |-> status, body |-> body] IN
    /\ GetJSON(resp).ok <=> status \in {200, 204} /\ body # Garbage
    /\ GetJSON(resp).ok => Get(resp).ok /\ Post(resp)
    /\ ~Post(resp) => ~Get(resp).ok

(* No quote without a price, whichever way it came; a change has the sign  *)
(* of its percentage, and the close before today's is what it is from.     *)
ASSUME QuotesHavePrices ==
  /\ \A price \in {Null, 0, 50, 200}, pct \in {Null, -20, 0, 25}, product \in SomeTexts :
       LET q == TickerToQuote([price |-> price, pct |-> pct, product |-> product, volume |-> Null])
       IN /\ q.ok <=> price # Null
          /\ q.ok /\ price > 0 => (q.change > 0 <=> pct > 0) /\ (q.change < -1 => pct < 0)
          /\ q.ok /\ IsCrypto(product) => q.symbol = Canonical(product)
  /\ \A price \in {0, 9}, close \in Columns, high \in {0, 11} :
       LET q == QuoteViaChart("X", [meta |-> [price |-> price, high |-> high, low |-> 0,
                                              chartPreviousClose |-> 7],
                                    close |-> close, volume |-> close, high |-> close, low |-> close])
       IN /\ q.ok <=> price > 0
          /\ q.ok => q.price - q.change \in {7} \cup ToSet(close) /\ q.volume # Null
  /\ \A a, b \in {[ok |-> TRUE, price |-> 0], [ok |-> TRUE, price |-> 5], [ok |-> FALSE]} :
       /\ MacroQuotes([s \in {"a", "b"} |-> IF s = "a" THEN a ELSE b])
            = {a, b} \cap {[ok |-> TRUE, price |-> 5]}
       /\ a.ok /\ b.ok => ToSet(BatchQuotes(<<a, b>>)) = {q \in {a, b} : q.price = 5}

(* A chart that says it shows an interval shows bars of that interval:     *)
(* Coinbase makes the ones it lacks, Yahoo says which one it serves.       *)
ASSUME IntervalSaidIsShown ==
  \A i \in Intervals, s \in SomeTexts :
    LET said == RoutedInterval(<<"coinbase", "yahoo", "fred">>, s, i) IN
    /\ IsStock(s) => said = YahooInterval(i) /\ said # "4h"
    /\ IsCrypto(s) => IntervalDuration(said) = PerBucket(i) * NativeGranularity(i)
    /\ YahooRange(i, 100) # "1d" \/ i = "1m"

(* What is left out of a page leaves no entry that says nothing. *)
Entry(t, title, rel) ==
  [time |-> t, title |-> title, category |-> "", links |-> <<[rel |-> rel, href |-> "h"]>>]
ASSUME PagesSaySomething ==
  /\ \A a, b \in {Entry(1, "", ""), Entry(2, "t", "self"), Entry(3, "u", "alternate")} :
       LET filings == FetchEDGAR(FilingsOf("X", <<a, b>>), 1) IN
       /\ Len(filings) <= 1
       /\ filings = <<>> <=> a.title = "" /\ b.title = ""
       /\ \A f \in ToSet(filings) :
            /\ f.category = "Filing"
            /\ f.time = Max({e.time : e \in {x \in {a, b} : x.title # ""}})
            /\ f.link = "" <=> f.time = 2
  /\ Mapped(FetchChains(<<[name |-> "x", tvl |-> 1], [name |-> "", tvl |-> 9],
                          [name |-> "y", tvl |-> 3]>>), LAMBDA c : c.tvl) = <<3, 1>>
  /\ Unavailable(FuturesSnapshot("BTC", [ok |-> FALSE, body |-> 0, status |-> 500],
                                 [ok |-> FALSE, body |-> 0, status |-> 500]))
  /\ ~Summary("X", <<>>).ok
  /\ Summary("X", <<[pe |-> 1, dividend |-> 2, profile |-> FALSE, sector |-> "s"]>>)
       = [ok |-> TRUE, symbol |-> "X", pe |-> 1, dividend |-> 200, sector |-> ""]
  /\ \A results \in {<<>>, << <<>> >>} : OptionsChain("X", results).calls = <<>>
  /\ OptionsChain("X", << <<[calls |-> <<1>>, puts |-> <<2>>], [calls |-> <<3>>, puts |-> <<>>]>> >>)
       = [symbol |-> "X", calls |-> <<1>>, puts |-> <<2>>]

(* A rendered side starts with its best price, and more levels are never   *)
(* less depth.                                                             *)
ASSUME RenderedBook ==
  \A b \in [{"bid", "ask"} \X Prices -> {0, 1, 3}], side \in {"bid", "ask"} :
    LET rows == BuildBook(b, side)
        better(p, q) == IF side = "bid" THEN p > q ELSE p < q
    IN /\ \A k \in 2..Len(rows) : better(rows[k - 1].price, rows[k].price)
       /\ \A n \in 0..2 : OrderBookDepth(rows, n) <= OrderBookDepth(rows, n + 1)
       /\ OrderBookDepth(rows, 2) = b[<<side, 1>>] + b[<<side, 2>>]

-----------------------------------------------------------------------------
(* Captures *)

RECURSIVE Launched(_, _)
Launched(dir, seconds) ==
  IF seconds = <<>> THEN dir
  ELSE Launched(Launch(dir, seconds[1], <<Len(seconds)>>), Tail(seconds))

(* Whatever the seconds of four launches, the current capture is the last  *)
(* one, and as many of those before it as are kept are beside it.          *)
ASSUME LaunchesKeepCaptures ==
  \A a, b, c \in 1..3 :
    a <= b /\ b <= c =>
      LET dir == Launched([now |-> <<>>, old |-> <<>>], <<1, a, b, c>>)
      IN /\ dir.now = <<1>>
         /\ {dir.old[n] : n \in DOMAIN dir.old} = {<<2>>, <<3>>}

(* A replay plays what the capture has of its symbols, in order, and never *)
(* waits for longer than the capture took.                                 *)
Line(v, s, t) == [v |-> v, symbol |-> s, ts |-> t]
SomeLines == {Line(0, "x", 1), Line(1, "x", 2), Line(1, "y", 5), Line(2, "x", 9)}
ASSUME ReplayPlaysCapture ==
  \A a, b, c \in SomeLines, symbols \in SUBSET {"x", "y"} :
    LET lines == <<a, b, c>>
        played == Replayed(lines, symbols)
    IN /\ \E at1 \in SUBSET (1..3) : played = Mapped(SetToSortSeq(at1, <), LAMBDA k : lines[k])
       /\ \A l \in ToSet(lines) :
            l \in ToSet(played) <=> l.v = 1 /\ (symbols = {} \/ l.symbol \in symbols)
       /\ \A k \in 1..Len(played) : Pauses(lines, symbols)[k] \in 0..5
=================================================================
