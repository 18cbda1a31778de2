------------------------------ MODULE FigureLaws ------------------------------
(***************************************************************************)
(* What the figures must satisfy, each law over every short input.  The    *)
(* portfolio: the four ways to settle a log are ways to split one amount   *)
(* of money.  The statistics: definitions that scan every pair of points,  *)
(* and changes of scale, of order and of sampling that must not matter.    *)
(* The indicators: their reference definitions, their ranges and warm-ups, *)
(* and what one missing bar may change.                                    *)
(***************************************************************************)
EXTENDS Performance, Indicators

-----------------------------------------------------------------------------
(* The portfolio, over logs of two symbols *)

LOCAL Tx(type, symbol, qty, price, fee) ==
  [type |-> type, symbol |-> symbol, qty |-> Int2(qty), price |-> Int2(price),
   fee |-> Int2(fee), year |-> qty]
LOCAL BuysOfA == {Tx("buy", "A", q, p, f) : q \in {1, 2}, p \in {1, 3}, f \in {0, 1}}
LOCAL SalesOfA == {Tx("sell", "A", q, 2, 0) : q \in {1, 3}}
LOCAL OfB == {Tx("buy", "B", 1, 2, 0), Tx("sell", "B", 1, 4, 1), Tx("dividend", "B", 2, 1, 1)}
LOCAL Logs == {<<a, b, c, d>> : a \in BuysOfA, b \in BuysOfA \cup SalesOfA,
                                c \in BuysOfA \cup SalesOfA \cup OfB, d \in SalesOfA \cup OfB}
LOCAL Methods == {"average", "fifo", "lifo", "hifo"}

(* How many units each transaction really moves, counted without costs.    *)
LOCAL HeldBefore(txs, i) ==
  LET after(n, t) == CASE t.symbol # txs[i].symbol -> n
                       [] t.type = "buy" -> n ++ t.qty
                       [] t.type = "sell" -> n -- Lesser(t.qty, n)
                       [] OTHER -> n
  IN FoldLeft(after, Zero, SubSeq(txs, 1, i - 1))

LOCAL MoneyIn(txs) ==
  TotalOf([i \in 1..Len(txs) |->
    CASE txs[i].type = "buy" -> Zero -- ((txs[i].qty ** txs[i].price) ++ txs[i].fee)
      [] txs[i].type = "sell" /\ Positive(HeldBefore(txs, i)) ->
           (txs[i].price ** Lesser(txs[i].qty, HeldBefore(txs, i))) -- txs[i].fee
      [] OTHER -> Zero])

LOCAL CostOfLots(lots) == TotalOf(Each(lots, LAMBDA l : l.qty ** l.cost))
LOCAL UnitsOfLots(lots) == TotalOf(Each(lots, LAMBDA l : l.qty))
LOCAL CostLeft(txs, method) ==
  IF method = "average" THEN CostOfLots(DeriveHoldings(txs))
  ELSE LET lots == SettledLots(txs, method).lots
       IN CostOfLots(FoldLeft(LAMBDA acc, s : acc \o lots[s], <<>>, SetToSeq(DOMAIN lots)))

(* Every method splits the same money: what came in from sales less what   *)
(* was spent is the realized total less the cost of what is left.          *)
MethodsSplitTheSameMoney ==
  \A txs \in Logs, m \in Methods :
    RealizedByMethod(txs, m) = MoneyIn(txs) ++ CostLeft(txs, m)

(* Lots and holdings agree on how much of each symbol is held.             *)
LotsAreTheHoldings ==
  \A txs \in Logs, m \in Methods \ {"average"}, s \in {"A", "B"} :
    LET held == SelectSeq(DeriveHoldings(txs), LAMBDA h : h.symbol = s)
    IN s \in SymbolsOf(txs) =>
         /\ UnitsOfLots(SettledLots(txs, m).lots[s]) = UnitsOfLots(held)
         /\ Len(held) <= 1

(* Of the three, selling the dearest lots first realizes the least now.    *)
DearestFirstRealizesLeast ==
  \A a, b, c \in BuysOfA, t \in SalesOfA, m \in {"fifo", "lifo"} :
    LET lot(x) == [qty |-> x.qty, cost |-> x.price ++ (x.fee // x.qty)]
        lots == <<lot(a), lot(b), lot(c)>>
    IN ConsumeLots(lots, t, "hifo").gain \preceq ConsumeLots(lots, t, m).gain

(* A configured holding that a log sells part of keeps its name and its    *)
(* cost, and a log changes nothing about the holdings it does not mention. *)
MaterializeKeepsNames ==
  \A q \in {1, 2}, named \in {"", "Alpha"}, t \in SalesOfA :
    LET held == <<[symbol |-> "B", name |-> "Beta", qty |-> One, cost |-> Int2(5)],
                  [symbol |-> "A", name |-> named, qty |-> Int2(q), cost |-> Int2(3)]>>
        left == Materialize(held, <<t>>)
    IN /\ Materialize(held, <<>>) = held
       /\ left[1] = held[1]
       /\ IF t.qty[1] >= q THEN Len(left) = 1
          ELSE left[2] = [held[2] EXCEPT !.qty = @ -- t.qty]

LOCAL PricedQuotes == {("A" :> Int2(p)) : p \in {0, 4}} \cup {("BTC-USD" :> Int2(2)), ("A" :> NaN)}
                  \cup {("A" :> Int2(3)) @@ ("BTC-USD" :> Int2(1)), ("btc" :> Int2(7)) @@ ("A" :> One)}
LOCAL Spelling == [s \in {"A", "btc", "BTC-USD"} |-> IF s = "btc" THEN "BTC-USD" ELSE s]

(* The totals are those of the priced holdings, no more and no less, and   *)
(* the coverage says how much of the cost they stand for.                  *)
TotalsOfThePriced ==
  \A quotes \in PricedQuotes, a, b \in {0, 2} :
    LET held == <<[symbol |-> "A", name |-> "", qty |-> Int2(a), cost |-> Int2(3)],
                  [symbol |-> "btc", name |-> "", qty |-> Int2(b), cost |-> One]>>
        all == Evaluate(held, quotes, Spelling)
        priced == {i \in 1..2 : all.positions[i].priced}
        only == Evaluate(SelectSeq(held, LAMBDA h : Finite(PriceFor(quotes, h.symbol, Spelling))),
                         quotes, Spelling)
    IN /\ all.pnl = TotalOf(Each(all.positions, LAMBDA p : p.pnl))
       /\ <<all.cost, all.value, all.pct>> = <<only.cost, only.value, only.pct>>
       /\ FullyPriced(only) /\ (FullyPriced(all) <=> priced = {1, 2})
       /\ Zero \preceq Coverage(all) /\ Coverage(all) \preceq One
       /\ Coverage(all) = One <=> UnpricedCost(all) = Zero

(* A dividend belongs to one year, and a position risks what it was sized  *)
(* to risk, with its stop as far from the entry as it was asked to be.     *)
DividendsAndSizes ==
  /\ \A txs \in {<<a, b, c>> : a, b, c \in OfB \cup {Tx("dividend", "A", 1, 3, 0)}} :
       Dividends(txs) = DividendsYTD(txs, 1) ++ DividendsYTD(txs, 2)
  /\ \A equity, pct \in {0, 1, 200}, entry \in {10, 20}, atr \in {1, 2}, long \in BOOLEAN :
       LET stop == ATRStop(Int2(entry), Int2(atr), Int2(2), long)
           sized == PositionSize(Int2(equity), Int2(pct), Int2(entry), stop)
       IN /\ sized.shares ** Abs(Int2(entry) -- stop) = sized.risk
          /\ sized.risk = Frac(equity * pct, 100)
          /\ stop \prec Int2(entry) <=> long
          /\ Positive(sized.shares) /\ pct <= 100 =>
               PlanStop(Int2(equity), Int2(pct), Int2(entry), stop, Zero, Zero, long) = stop

-----------------------------------------------------------------------------
(* The statistics *)

LOCAL Prices == {Int2(1), Int2(2), Int2(4)}
LOCAL Curves(ps) == UNION {[1..n -> ps] : n \in 0..4}
LOCAL Scaled(s, k) == Each(s, LAMBDA x : x ** Int2(k))
LOCAL Steps == {Int2(-1), Zero, Int2(2)}

(* The drawdown is the deepest fall from any point to a later one.         *)
DrawdownIsTheDeepestFall ==
  \A s \in Curves(Prices \cup {Zero, NaN}) :
    LET falls == {<<i, j>> \in (1..Len(s)) \X (1..Len(s)) : i < j /\ Positive(s[i]) /\ s[j] \prec s[i]}
        worst == MaxDrawdown(s)
        fall(p) == (s[p[1]] -- s[p[2]]) // s[p[1]]
    IN Len(s) > 0 /\ Finite(s[1]) =>
         /\ \A p \in falls : fall(p) \preceq worst
         /\ IF falls = {} THEN worst = Zero ELSE \E p \in falls : fall(p) = worst

(* The figures are of the curve's shape: its scale does not matter, and    *)
(* neither does the order in which its marks were written.                 *)
StatsAreOfTheShape ==
  \A s \in [1..4 -> Prices], at \in {<<1, 2, 3, 7>>, <<7, 3, 2, 1>>, <<2, 1, 7, 3>>} :
    LET marks(x) == [i \in 1..4 |-> [time |-> at[i], name |-> "P", value |-> x[i]]]
        stats == StatsFromMarks(marks(s), Zero, 12)
    IN /\ StatsFromMarks(marks(Scaled(s, 3)), Zero, 12) = stats
       /\ StatsFromMarks(ByTime(marks(s)), Zero, 12) = stats
       /\ stats.spacing = 1 /\ stats.yearlySharpe = stats.sharpe ** Int2(12)
       /\ Finite(stats.sortino) => \E i \in 1..3 : Returns(MarkValues(marks(s)))[i] \prec Zero

(* Falling short of the target in one period of many makes the Sortino     *)
(* ratio larger than the Sharpe ratio: the shortfalls are averaged over    *)
(* every period.                                                           *)
SortinoCountsEveryPeriod ==
  \A n \in 2..5 :
    LET returns == [i \in 1..n |-> IF i = 1 THEN Int2(-1) ELSE Int2(2)]
    IN /\ DownsideSquare(returns, Zero) = Frac(1, n)
       /\ Sharpe(returns, Zero) \preceq Sortino(returns, Zero)

(* A correlation is the same both ways round, no larger than one, one with *)
(* itself, and that of the moves: scaling a series does not change it.     *)
CorrelationOfTheMoves ==
  \A a, b \in {s \in [1..4 -> Prices] : s[1] = One} :
    LET c == CorrelationReturns(a, b)
    IN /\ c = CorrelationReturns(b, a) /\ c = CorrelationReturns(a, Scaled(b, 4))
       /\ Finite(c) => Abs(c) \preceq One
       /\ Finite(CorrelationReturns(a, a)) => CorrelationReturns(a, a) = One
       /\ Finite(c) => Finite(CorrelationReturns(a, a)) /\ Finite(CorrelationReturns(b, b))

(* Beta is the slope: of a series on itself it is one, and it follows the  *)
(* asset when the asset moves twice as much.                               *)
BetaIsTheSlope ==
  \A a, b \in [1..3 -> Steps] :
    /\ Finite(Beta(a, a)) => Beta(a, a) = One
    /\ Beta(Scaled(a, 2), b) = Int2(2) ** Beta(a, b)
    /\ Beta(a, b) ** Products(b, b) = IF Finite(Beta(a, b)) THEN Products(a, b) ELSE NaN

LOCAL At(times, p) == [i \in 1..Len(times) |-> [time |-> times[i], price |-> Int2(2 ^ (p * i - p))]]
LOCAL Sampled == {At(<<1, 2, 3, 4, 5, 6>>, 1), At(<<2, 6>>, 1), At(<<3, 4, 8>>, 0), At(<<9, 4, 1>>, 1),
                  At(<<7, 8, 9>>, 1), At(<<5>>, 1), <<>>}

(* The grid lies in the span that both series cover and holds the newest   *)
(* buckets of it, and a bucket never shows a price from after its time.    *)
AlignNeverLooksAhead ==
  \A a, b \in Sampled, bucket \in 0..3 :
    LET grid == Align(<<a, b>>, bucket)
        span(s) == {t \in 1..9 : (\E i \in 1..Len(s) : s[i].time <= t) /\ (\E i \in 1..Len(s) : s[i].time >= t)}
        ticks == IF bucket = 0 THEN {} ELSE {t \in span(a) \cap span(b) : t % bucket = 0}
        latest(s, t) == CHOOSE i \in 1..Len(s) :
                          s[i].time <= t /\ \A j \in 1..Len(s) : s[j].time <= t => s[j].time <= s[i].time
    IN IF Cardinality(ticks) < 2 THEN grid = NoGrid
       ELSE /\ grid.times = NewestOf(SelectSeq([t \in 1..9 |-> t], LAMBDA t : t \in ticks), MaxAlignBuckets)
            /\ \A k \in 1..Len(grid.times) :
                 /\ grid.prices[1][k] = a[latest(a, grid.times[k])].price
                 /\ grid.prices[2][k] = b[latest(b, grid.times[k])].price

(* A series reported more often, with nothing new, correlates the same.    *)
SamplingRateDoesNotMatter ==
  \A a, b \in {s \in [1..4 -> Prices] : s[1] = One} :
    LET slow(s) == [i \in 1..4 |-> [time |-> 2 * i, price |-> s[i]]]
        often(s) == SamplesFrom([i \in 1..7 |-> s[(i + 1) \div 2]], [i \in 1..7 |-> i + 1])
        seen(s) == SubSeq(s, 5 - Min({4, MaxAlignBuckets}), 4)
    IN /\ CorrelationSeries(slow(a), often(b), 2) = CorrelationSeries(slow(a), slow(b), 2)
       /\ CorrelationSeries(slow(a), slow(b), 2) = CorrelationReturns(seen(a), seen(b))
       /\ LET m == CorrelationMatrixSeries(2, <<often(a), slow(b)>>, 2)
          IN m = CorrelationMatrix(2, <<seen(a), seen(b)>>)
             /\ m[1][2] = m[2][1] /\ m[1][2] = CorrelationSeries(slow(a), slow(b), 2)
             /\ m[1][1] = One /\ m[2][2] = One

(* A time that was never recorded, or a price that is none, is not a       *)
(* sample; the others keep their times.                                    *)
SamplesHaveTimes ==
  \A times \in [1..3 -> 0..2], prices \in [1..3 -> {Zero, One, NaN}] :
    LET samples == SamplesFrom(prices, times)
    IN ToSet(samples) = {[time |-> times[i], price |-> One] : i \in {j \in 1..3 : times[j] # 0 /\ prices[j] = One}}

(* Beta pairs the days both sides have, and only where there are enough.   *)
BetaPairsSharedDays ==
  \A days \in SUBSET (0..4) :
    LET day == [t \in 0..9 |-> t \div 2]
        value(d) == Int2(2 ^ ((d * d) % 5))
        marks == [i \in 1..10 |-> [time |-> i - 1, name |-> "P",
                                   value |-> IF i % 2 = 0 THEN value(day[i - 1]) ELSE Int2(9)]]
        beta == BetaAgainst(marks, [d \in days |-> value(d)], day)
    IN beta = IF Cardinality(days) < MinBetaDays THEN NaN ELSE One

(* Trimming the file as it grows changes nothing that a reader sees.       *)
TrimmingIsNotSeen ==
  \A most \in 0..2, n \in 0..7 :
    LET mark(i) == [ok |-> TRUE, name |-> IF i % 3 = 0 THEN "A" ELSE "B", value |-> i]
        all == [i \in 1..n |-> mark(i)]
        file == FoldLeft(LAMBDA f, m : AppendMark(f, m, most), [lines |-> <<>>, writes |-> 0], all)
        names == LoadByName(file, most)
    IN /\ LoadAll(file, most) = NewestOf(all, most)
       /\ \A name \in DOMAIN names : names[name] = SelectSeq(NewestOf(all, most), LAMBDA m : m.name = name)
       /\ most > 0 => Len(file.lines) <= 2 * most + CompactEvery

-----------------------------------------------------------------------------
(* The indicators, over short series of small prices with a bar missing *)

LOCAL Bar(c, spread, v) ==
  [open |-> Int2(c), high |-> Int2(c + spread), low |-> Int2(c - spread), close |-> Int2(c), volume |-> Int2(v)]
LOCAL Missing == [open |-> NaN, high |-> NaN, low |-> NaN, close |-> NaN, volume |-> NaN]
LOCAL Bars == {Bar(4, 0, 1), Bar(5, 2, 3), Bar(8, 1, 0), Missing}
LOCAL Sound(bars) == \A i \in 1..Len(bars) : bars[i] # Missing
LOCAL Within(x) == Finite(x) => Zero \preceq x /\ x \preceq Hundred
LOCAL Negated(s) == Each(s, Mirrored)

(* A moving average is the mean of its window, defined exactly where the   *)
(* window holds no gap; the exponential one, after a gap, is that of the   *)
(* bars after the gap; the bands close on the average where nothing moved. *)
AveragesForgetGaps ==
  \A s \in [1..5 -> {One, Int2(4), NaN}], n \in 1..3 :
    LET window(i) == SubSeq(s, i - n + 1, i)
        full(i) == i >= n /\ NaN \notin ToSet(window(i))
        gaps == {g \in 1..5 : s[g] = NaN}
        run(i) == i - Max({0} \cup (gaps \cap 1..i))
    IN \A i \in 1..5 :
         /\ SMA(s, n)[i] = IF full(i) THEN Mean(window(i)) ELSE NaN
         /\ Finite(EMA(s, n)[i]) <=> run(i) >= n
         /\ \A g \in gaps : g < i => EMA(s, n)[i] = EMA(SubSeq(s, g + 1, 5), n)[i - g]
         /\ Bollinger(s, n, Int2(2))[i].middle = SMA(s, n)[i]
         /\ full(i) => (Bollinger(s, n, Int2(2))[i].apart = Zero <=> Cardinality(ToSet(window(i))) = 1)

(* The signal is the average of the whole line, and nothing of a series    *)
(* that does not move diverges.                                            *)
SignalFollowsTheLine ==
  \A s \in [1..5 -> {One, Int2(4), NaN}] :
    LET macd == MACD(s, 1, 2, 2)
    IN /\ macd.signal = EMA(macd.line, 2)
       /\ \A i \in 1..5 : Finite(macd.histogram[i]) => Finite(macd.line[i]) /\ Finite(macd.signal[i])
       /\ Cardinality(ToSet(s)) = 1 => ToSet(macd.histogram) \subseteq {Zero, NaN}

(* The bounded indicators stay in their range whatever bar is missing, and *)
(* without one they are defined exactly after their warm-up, K except over *)
(* a flat window.                                                          *)
ReadingsInRange ==
  \A bars \in [1..5 -> Bars] :
    LET rsi == RSI(Closes(bars), 2)
        adx == ADX(bars, 2)
        stoch == Stochastic(bars, 2, 2)
    IN \A i \in 1..5 :
         /\ \A x \in {rsi[i], adx[i].plus, adx[i].minus, adx[i].adx, stoch.k[i], stoch.d[i]} : Within(x)
         /\ Finite(rsi[i]) <=> i > 2 /\ bars[i] # Missing
         /\ Finite(adx[i].plus) <=> i > 2
         /\ Finite(adx[i].adx) <=> i > 3
         /\ Sound(bars) => Finite(ATR(bars, 2)[i]) <=> i > 2
         /\ i > 1 /\ Sound(bars) => (stoch.k[i] = NaN <=> bars[i - 1] = Bar(4, 0, 1) /\ bars[i] = bars[i - 1])

(* A missing bar is reported as missing and spoils nothing later: two      *)
(* sound bars after it the true range is averaged again, unless the whole  *)
(* seed window was lost with it, when it never is; the running totals      *)
(* continue from where they were.                                          *)
OneBadBarHeals ==
  \A sound \in [1..5 -> Bars \ {Missing}], g \in 1..5 :
    LET bars == [sound EXCEPT ![g] = Missing]
        atr == ATR(bars, 2)
    IN /\ \A i \in 3..5 : Finite(atr[i]) <=> g # 2 /\ (i = 3 \/ (i # g /\ i # g + 1))
       /\ OBV(bars)[g] = IF g = 1 THEN Zero ELSE OBV(bars)[g - 1]
       /\ g < 5 => OBV(bars)[g + 1] = OBV(bars)[g]
       /\ \A i \in g..5 : VWAP(bars)[i] = IF i = 1 THEN NaN ELSE VWAP(RemoveAt(sound, g))[i - 1]

(* Turning the prices upside down exchanges what rises and what falls.     *)
UpsideDown ==
  \A s \in [1..5 -> {One, Int2(3), Int2(4)}] :
    LET bar(x) == [open |-> x, high |-> x ++ One, low |-> x -- One, close |-> x, volume |-> Int2(2)]
        bars == Each(s, bar)
        turned == Each(Negated(s), bar)
    IN /\ \A i \in 3..5 : RSI(s, 2)[i] ++ RSI(Negated(s), 2)[i] = Hundred
       /\ \A i \in 3..5 : ADX(turned, 2)[i] = [plus |-> ADX(bars, 2)[i].minus, minus |-> ADX(bars, 2)[i].plus,
                                                adx |-> ADX(bars, 2)[i].adx]
       /\ OBV(turned) = Negated(OBV(bars)) /\ VWAP(turned) = Negated(VWAP(bars))
       /\ ATR(turned, 2) = ATR(bars, 2)
       /\ \A i \in 2..5 : StochasticK(bars, 2)[i] ++ StochasticK(turned, 2)[i] = Hundred

LOCAL Candles == {[open |-> Int2(o), high |-> Int2(h), low |-> Int2(l), close |-> Int2(c), volume |-> One] :
                    o \in {0, 9, 16, 20}, h \in {20}, l \in {0}, c \in {1, 4, 11, 19, 20}}
LOCAL Turned(b) == [open |-> Mirrored(b.open), high |-> Mirrored(b.low), low |-> Mirrored(b.high),
                    close |-> Mirrored(b.close), volume |-> b.volume]

(* A pattern is bullish exactly where the same candles upside down show a  *)
(* bearish one.                                                            *)
PatternsMirror ==
  \A a, b \in Candles \cup {Missing} :
    LET shown == Patterns(<<a, b>>)
        turned == Patterns(<<IF a = Missing THEN a ELSE Turned(a), IF b = Missing THEN b ELSE Turned(b)>>)
    IN \A i \in 1..2 : /\ IsBullish(shown[i]) <=> IsBearish(turned[i])
                       /\ IsBearish(shown[i]) <=> IsBullish(turned[i])
                       /\ shown[i] = "doji" <=> turned[i] = "doji"

(* Every volume is counted in one share and the shares cover the range.    *)
EveryVolumeInOneShare ==
  \A bars \in [1..3 -> Bars], n \in 1..3 :
    LET bins == VolumeProfile(bars, n)
        volumes == Each(SelectSeq(bars, LAMBDA b : b # Missing), LAMBDA b : b.volume)
    IN bins # <<>> =>
         /\ TotalOf(Each(bins, LAMBDA k : k.volume)) = TotalOf(volumes)
         /\ \A k \in 1..(n - 1) : bins[k].max = bins[k + 1].min
         /\ \A i \in 1..3 : bars[i] # Missing => bins[1].min \preceq bars[i].low /\ bars[i].high \preceq bins[n].max
         /\ IF POC(bins) = 0 THEN TotalOf(volumes) = Zero
            ELSE \A k \in 1..n : bins[k].volume \preceq bins[POC(bins)].volume

(* The levels come in order when the close is within the session.          *)
LevelsInOrder ==
  \A l, c, h \in 1..5 : l <= c /\ c <= h =>
    LET levels == Pivots(Int2(h), Int2(l), Int2(c))
    IN \A i \in 1..6 : levels[i] \preceq levels[i + 1]
=============================================================================
