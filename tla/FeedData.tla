------------------------------ MODULE FeedData ------------------------------
(***************************************************************************)
(* What each feed makes of an answer: candles, quotes, snapshots, events   *)
(* and headlines.  Times are seconds, prices and volumes whole numbers;    *)
(* Null is an entry that an answer leaves out or that cannot be read.      *)
(* A sort of the code is not stable: nothing here depends on the order of  *)
(* entries with equal keys.                                                *)
(***************************************************************************)
EXTENDS Symbols, Integers

CONSTANTS
  MaxCandlesPerRequest,  \* native candles Coinbase serves at a time
  MaxObservations,       \* rows of a FRED series that are believed
  MaxHeadlines           \* headlines kept of one round of feeds

ASSUME FeedDataAssumption ==
  {MaxCandlesPerRequest, MaxObservations, MaxHeadlines} \subseteq Nat \ {0}

Null == -1
Failed == [ok |-> FALSE]
Minute == 60
Hour == 3600
Day == 86400

Upto(seq, n) == SubSeq(seq, 1, IF Len(seq) < n THEN Len(seq) ELSE n)
Newest(seq, n) == IF Len(seq) > n THEN SubSeq(seq, Len(seq) - n + 1, Len(seq)) ELSE seq
Sum(seq) == FoldLeft(LAMBDA a, b : a + b, 0, seq)

-----------------------------------------------------------------------------
(* HTTP: what a call returns for what came back *)

(* A response by its status; two numbers that are no status stand for a    *)
(* call that failed before, and while, its body was read.                  *)
Transport == 0
Cut == 1
Undecoded == 2

Get(resp) ==
  IF resp.status \notin 200..299
  THEN [ok |-> FALSE, status |-> resp.status]
  ELSE [ok |-> TRUE, body |-> resp.body]

(* The body of an answer to a POST is thrown away, read or not. *)
Post(resp) == resp.status = Cut \/ resp.status \in 200..299

Garbage == "garbage"
GetJSON(resp) ==
  LET got == Get(resp)
  IN IF got.ok /\ resp.body = Garbage THEN [ok |-> FALSE, status |-> Undecoded] ELSE got

-----------------------------------------------------------------------------
(* Coinbase candles *)

Intervals == {"1m", "5m", "15m", "1h", "4h", "1d", "1w"}

IntervalDuration(i) ==
  CASE i = "1m" -> Minute [] i = "5m" -> 5 * Minute [] i = "15m" -> 15 * Minute
    [] i = "1h" -> Hour [] i = "4h" -> 4 * Hour [] i = "1w" -> 7 * Day [] OTHER -> Day

NativeGranularity(i) == IF i \in {"4h", "1w"} THEN IF i = "4h" THEN Hour ELSE Day
                        ELSE IntervalDuration(i)

PerBucket(i) == Max({1, IntervalDuration(i) \div NativeGranularity(i)})

(* How many native candles are asked for, and how many bars are kept. *)
Window(i, limit) ==
  LET wanted == IF limit = 0 THEN 100 ELSE limit
      native == wanted * PerBucket(i)
  IN IF native > MaxCandlesPerRequest
     THEN [native |-> MaxCandlesPerRequest, limit |-> MaxCandlesPerRequest \div PerBucket(i)]
     ELSE [native |-> native, limit |-> wanted]

(* A week starts on a Monday; day 0 was a Thursday. *)
BucketStart(t, i) ==
  LET day == t \div Day
  IN IF i = "1w" THEN (day - ((day + 3) % 7)) * Day
     ELSE t - (t % IntervalDuration(i))

Aggregate(candles, i) ==
  LET fold(out, c) ==
        LET start == BucketStart(c.time, i)
            cur == Last(out)
        IN IF out = <<>> \/ cur.time # start
           THEN Append(out, [c EXCEPT !.time = start])
           ELSE Append(Front(out),
                       [cur EXCEPT !.high = Max({@, c.high}), !.low = Min({@, c.low}),
                                   !.close = c.close, !.volume = @ + c.volume])
  IN FoldLeft(fold, <<>>, candles)

(* rows come newest first, and a row that is too short is passed over. *)
CoinbaseHistory(rows, i, limit) ==
  LET candles == SelectSeq(Reverse(rows), LAMBDA r : DOMAIN r # {})
  IN IF PerBucket(i) = 1 THEN candles
     ELSE Newest(Aggregate(candles, i), Window(i, limit).limit)

-----------------------------------------------------------------------------
(* Yahoo charts: bars as columns of their own, any of which may be short   *)
(* or have holes.                                                          *)

ServedInterval(i) == IF i \in Intervals THEN IF i = "4h" THEN "1h" ELSE i ELSE "1d"
YahooInterval(i) == ServedInterval(i)

YahooRange(i, limit) ==
  CASE i = "1m" -> "1d" [] i \in {"5m", "15m"} -> "5d" [] i \in {"1h", "4h"} -> "1mo"
    [] i = "1w" \/ (i = "1d" /\ limit > 200) -> "2y" [] OTHER -> "6mo"

(* What the router says a chart of a symbol shows. *)
RoutedInterval(providers, s, i) ==
  IF HistoryRoute(providers, s) = "yahoo" THEN ServedInterval(i) ELSE i

Column(col, k) == IF k \in 1..Len(col) /\ col[k] # Null THEN col[k] ELSE 0

YahooHistory(chart, limit) ==
  LET whole == Min({Len(chart.time), Len(chart.open), Len(chart.close)})
      kept == SelectSeq([k \in 1..whole |-> k],
                        LAMBDA k : chart.open[k] # Null /\ chart.close[k] # Null)
      bars == Mapped(kept, LAMBDA k :
                [time |-> chart.time[k], open |-> chart.open[k], close |-> chart.close[k],
                 high |-> Column(chart.high, k), low |-> Column(chart.low, k),
                 volume |-> Column(chart.volume, k)])
  IN IF limit > 0 THEN Newest(bars, limit) ELSE bars

Said(col) == SelectSeq(col, LAMBDA v : v # Null)
LastSaid(col) == IF Said(col) = <<>> THEN 0 ELSE Last(Said(col))

PreviousBarClose(chart) ==
  LET said == Said(chart.close)
  IN IF Len(said) >= 2 THEN said[Len(said) - 1] ELSE chart.meta.chartPreviousClose

(* A quote read off a two-day chart; none without a price. *)
QuoteViaChart(sym, chart) ==
  IF chart.meta.price <= 0 THEN Failed
  ELSE [ok |-> TRUE, symbol |-> sym, price |-> chart.meta.price,
        change |-> chart.meta.price - PreviousBarClose(chart),
        volume |-> LastSaid(chart.volume),
        high |-> IF chart.meta.high = 0 THEN LastSaid(chart.high) ELSE chart.meta.high,
        low |-> IF chart.meta.low = 0 THEN LastSaid(chart.low) ELSE chart.meta.low]

BatchQuotes(results) == SelectSeq(results, LAMBDA r : r.price # 0)

(* The macro tiles come one by one, in any order; a failed one is absent. *)
MacroQuotes(answers) ==
  {answers[s] : s \in {x \in DOMAIN answers : answers[x].ok /\ answers[x].price > 0}}

Summary(sym, results) ==
  IF results = <<>> THEN Failed
  ELSE LET r == results[1] IN
       [ok |-> TRUE, symbol |-> sym, pe |-> r.pe, dividend |-> r.dividend * 100,
        sector |-> IF r.profile THEN r.sector ELSE ""]

(* Of all expirations an answer holds only the first is shown. *)
OptionsChain(sym, results) ==
  IF results = <<>> \/ results[1] = <<>> THEN [symbol |-> sym, calls |-> <<>>, puts |-> <<>>]
  ELSE [symbol |-> sym, calls |-> results[1][1].calls, puts |-> results[1][1].puts]

-----------------------------------------------------------------------------
(* Coinbase tickers *)

(* A ticker without a price is dropped; other fields that cannot be read   *)
(* are zero.  The change is derived from the percentage, and is zero when  *)
(* that is.                                                                *)
TickerToQuote(t) ==
  IF t.price = Null THEN Failed
  ELSE LET read(v) == IF v = Null THEN 0 ELSE v
           open == (t.price * 100) \div (100 + read(t.pct))
       IN [ok |-> TRUE, symbol |-> ToCoinbaseSymbol(t.product), price |-> t.price,
           pct |-> read(t.pct),
           change |-> IF read(t.pct) = 0 \/ t.price = 0 THEN 0 ELSE t.price - open,
           volume |-> read(t.volume)]

-----------------------------------------------------------------------------
(* FRED series, futures, DeFi, calendar and news *)

(* Lines of a CSV: the first that is not blank is its header. *)
ParseCSV(lines) ==
  LET said == SelectSeq(lines, LAMBDA l : ~l.blank)
      rows == SelectSeq(IF said = <<>> THEN <<>> ELSE Tail(said),
                        LAMBDA l : l.date # Null /\ l.value # Null)
  IN IF Len(rows) > MaxObservations THEN Failed
     ELSE [ok |-> TRUE, rows |-> Mapped(rows, LAMBDA l : [time |-> l.date, close |-> l.value])]

FilterByDate(rows, start, end) ==
  SelectSeq(rows, LAMBDA r : (start = Null \/ r.time >= start) /\ (end = Null \/ r.time <= end))

FREDHistory(lines, start, end, limit) ==
  LET parsed == ParseCSV(lines)
      rows == FilterByDate(parsed.rows, start, end)
  IN IF ~parsed.ok THEN Failed
     ELSE [ok |-> TRUE, rows |-> IF limit > 0 THEN Newest(rows, limit) ELSE rows]

(* The two halves of a futures snapshot arrive or fail on their own. *)
FuturesSnapshot(sym, premium, interest) ==
  LET had(r, v) == IF r.ok THEN v ELSE 0
  IN [symbol |-> sym, havePremium |-> premium.ok, haveOI |-> interest.ok,
      funding |-> had(premium, premium.body), interest |-> had(interest, interest.body),
      err |-> IF ~premium.ok THEN premium.status
              ELSE IF ~interest.ok THEN interest.status ELSE 200]
OK(snap) == snap.havePremium /\ snap.haveOI
Unavailable(snap) == ~snap.havePremium /\ ~snap.haveOI
Restricted(snap) == snap.err = 451

FetchChains(chains) ==
  SortSeq(SelectSeq(chains, LAMBDA c : c.name # ""), LAMBDA a, b : a.tvl > b.tvl)

ByTime(events) == SortSeq(events, LAMBDA a, b : a.time < b.time)
Upcoming(events, now, window) ==
  ByTime(SelectSeq(events, LAMBDA e : e.time >= now /\ e.time < now + window))

EarningsOf(ticker, dates) ==
  Mapped(SelectSeq(dates, LAMBDA d : d # 0), LAMBDA d : [time |-> d, symbol |-> ticker])
Earnings(perTicker) == ByTime(FlattenSeq(perTicker))

NewestFirst(headlines) == SortSeq(headlines, LAMBDA a, b : a.time > b.time)

(* headlines: those of all feeds, in the order in which the feeds answered *)
FetchAll(headlines) ==
  LET once == FoldLeft(LAMBDA out, h : IF \E k \in 1..Len(out) : out[k].link = h.link
                                       THEN out ELSE Append(out, h), <<>>, headlines)
  IN Upto(NewestFirst(once), MaxHeadlines)

(* A filing without a title says nothing; one without a kind is a filing.  *)
FilingsOf(ticker, entries) ==
  Mapped(SelectSeq(entries, LAMBDA e : e.title # ""),
         LAMBDA e : [time |-> e.time, source |-> ticker,
                     link |-> LET ok == SelectSeq(e.links, LAMBDA l : l.rel \in {"alternate", ""})
                              IN IF ok = <<>> THEN "" ELSE ok[1].href,
                     category |-> IF e.category = "" THEN "Filing" ELSE e.category])
FetchEDGAR(filings, limit) ==
  IF limit > 0 THEN Upto(NewestFirst(filings), limit) ELSE NewestFirst(filings)

(* The age of a headline, in the largest unit that is not zero. *)
TimeAgo(t, now) ==
  LET age == now - t IN
  CASE t = Null -> <<>>
    [] t # Null /\ age < Minute -> <<"just now">>
    [] t # Null /\ age >= Minute /\ age < Hour -> <<age \div Minute, "m">>
    [] t # Null /\ age >= Hour /\ age < Day -> <<age \div Hour, "h">>
    [] OTHER -> <<age \div Day, "d">>
=============================================================================
