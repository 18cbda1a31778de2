----------------------------- MODULE Performance -----------------------------
(***************************************************************************)
(* What the recorded equity curve and the price series say: risk and       *)
(* return of one series, and the correlation of several that were sampled  *)
(* at different times.  Series are sequences of fractions, times are       *)
(* natural numbers, a mark is [time, name, value] and a sample is          *)
(* [time, price].  Sharpe, Sortino and Correlation are given as the signed *)
(* squares of what the code computes.                                      *)
(***************************************************************************)
EXTENDS Portfolio

CONSTANTS MaxAlignBuckets,   \* maxAlignBuckets, the length of the longest grid
          CompactEvery,      \* compactEvery, appends between two trims
          MinBetaDays        \* minBetaDays, the days a beta needs

(* By time; what carries the same time keeps its order.                    *)
ByTime(s) ==
  LET places == SortSeq([i \in 1..Len(s) |-> i],
                        LAMBDA i, j : s[i].time < s[j].time \/ (s[i].time = s[j].time /\ i < j))
  IN [i \in 1..Len(s) |-> s[places[i]]]

-----------------------------------------------------------------------------
(* One series *)

Mean(xs) == TotalOf(xs) // Int2(Len(xs))
Variance(xs, m) == TotalOf(Each(xs, LAMBDA x : (x -- m) ** (x -- m))) // Int2(Len(xs) - 1)

Sharpe(returns, rf) ==
  IF Len(returns) < 2 \/ Variance(returns, Mean(returns)) = Zero THEN NaN
  ELSE SignedSquare(Mean(returns) -- rf) // Variance(returns, Mean(returns))

DownsideSquare(returns, target) ==
  LET short(r) == IF r \prec target THEN (r -- target) ** (r -- target) ELSE Zero
  IN TotalOf(Each(returns, short)) // Int2(Len(returns))

Sortino(returns, rf) ==
  IF Len(returns) < 2 \/ DownsideSquare(returns, rf) = Zero THEN NaN
  ELSE SignedSquare(Mean(returns) -- rf) // DownsideSquare(returns, rf)

Products(a, b) ==
  LET mA == Mean(a)
      mB == Mean(b)
  IN TotalOf([i \in 1..Len(a) |-> (a[i] -- mA) ** (b[i] -- mB)])

Beta(asset, benchmark) ==
  IF Len(asset) # Len(benchmark) \/ Len(asset) < 2 THEN NaN
  ELSE Products(asset, benchmark) // Products(benchmark, benchmark)

MaxDrawdown(equity) ==
  LET after(acc, v) ==
        LET peak == Larger(acc.peak, v)
        IN [peak |-> peak,
            worst |-> IF Positive(peak) THEN Larger(acc.worst, (peak -- v) // peak) ELSE acc.worst]
  IN IF Len(equity) < 2 THEN Zero
     ELSE FoldLeft(after, [peak |-> equity[1], worst |-> Zero], equity).worst

(* One shorter than the values: a period that starts from nothing has no   *)
(* return, and keeps its place.                                            *)
Periods(values, Of(_, _)) == [i \in 1..(Len(values) - 1) |-> Of(values[i], values[i + 1])]

Returns(values) ==
  Periods(values, LAMBDA prev, cur : IF Positive(prev) THEN (cur // prev) -- One ELSE NaN)

LogReturns(values) ==
  Periods(values, LAMBDA prev, cur :
                    IF Positive(prev) /\ Positive(cur) THEN Log2(cur // prev) ELSE NaN)

MarkValues(marks) == Each(ByTime(marks), LAMBDA m : m.value)

MedianSpacing(marks) ==
  LET gaps == SelectSeq([i \in 1..(Len(marks) - 1) |-> marks[i + 1].time - marks[i].time],
                        LAMBDA d : d > 0)
  IN IF gaps = <<>> THEN 0 ELSE SortSeq(gaps, <)[Len(gaps) \div 2 + 1]

StatsFromMarks(marks, rf, year) ==
  LET sorted == ByTime(marks)
      values == MarkValues(sorted)
      rets == Returns(values)
      enough(x) == IF Len(rets) >= 2 THEN x ELSE NaN
      spacing == MedianSpacing(sorted)
      elapsed == Last(sorted).time - Head(sorted).time
      yearly(x) == IF spacing > 0 THEN x ** Frac(year, spacing) ELSE NaN
  IN IF marks = <<>> THEN [marks |-> 0, total |-> NaN, drawdown |-> Zero, sharpe |-> NaN,
                           sortino |-> NaN, variance |-> NaN, yearlySharpe |-> NaN,
                           yearlyVariance |-> NaN, spacing |-> 0, compounded |-> FALSE]
     ELSE [marks |-> Len(sorted), drawdown |-> MaxDrawdown(values),
           total |-> IF Positive(values[1]) THEN (Last(values) // values[1]) -- One ELSE NaN,
           sharpe |-> enough(Sharpe(rets, rf)), sortino |-> enough(Sortino(rets, rf)),
           variance |-> enough(Variance(rets, Mean(rets))),
           yearlySharpe |-> yearly(enough(Sharpe(rets, rf))),
           yearlyVariance |-> yearly(enough(Variance(rets, Mean(rets)))),
           spacing |-> spacing,
           compounded |-> elapsed > 0 /\ Positive(values[1]) /\ Positive(Last(values))]

(* Beta to a benchmark of daily closes: the last mark of each day, paired  *)
(* on the days that both have.                                             *)
DailyCloses(marks, day) ==
  LET sorted == ByTime(marks)
  IN [d \in {day[marks[i].time] : i \in 1..Len(marks)} |->
        Last(SelectSeq(sorted, LAMBDA m : day[m.time] = d)).value]

BetaAgainst(marks, bench, day) ==
  LET equity == DailyCloses(marks, day)
      days == SetToSortSeq(DOMAIN equity \cap DOMAIN bench, <)
  IN IF Cardinality(DOMAIN equity) < MinBetaDays \/ Len(days) < MinBetaDays THEN NaN
     ELSE Beta(Returns(Each(days, LAMBDA d : equity[d])), Returns(Each(days, LAMBDA d : bench[d])))

-----------------------------------------------------------------------------
(* Several series *)

Correlation(a, b) ==
  IF Len(a) # Len(b) \/ Len(a) < 2 THEN NaN
  ELSE SignedSquare(Products(a, b)) // (Products(a, a) ** Products(b, b))

(* Over the periods in which both have a return.                           *)
PearsonComplete(a, b) ==
  LET both == SelectSeq([i \in 1..Len(a) |-> i], LAMBDA i : Finite(a[i]) /\ Finite(b[i]))
  IN IF Len(a) # Len(b) THEN NaN
     ELSE Correlation(Each(both, LAMBDA i : a[i]), Each(both, LAMBDA i : b[i]))

CorrelationReturns(a, b) ==
  IF Len(a) # Len(b) \/ Len(a) < 3 THEN NaN ELSE PearsonComplete(LogReturns(a), LogReturns(b))

EmptyMatrix(n) == [i \in 1..n |-> [j \in 1..n |-> IF i = j THEN One ELSE NaN]]

FillMatrix(returns) ==
  [i \in 1..Len(returns) |-> [j \in 1..Len(returns) |->
     IF i = j THEN One
     ELSE IF i < j THEN PearsonComplete(returns[i], returns[j])
                   ELSE PearsonComplete(returns[j], returns[i])]]

CorrelationMatrix(n, prices) ==
  LET shortest == Min({Len(prices[i]) : i \in 1..n})
      newest(s) == SubSeq(s, Len(s) - shortest + 1, Len(s))
  IN IF n = 0 \/ Len(prices) < n \/ shortest < 3 THEN EmptyMatrix(n)
     ELSE FillMatrix([i \in 1..n |-> LogReturns(newest(prices[i]))])

(* A price without a time has no place on the axis; time 0 is none.        *)
SamplesFrom(prices, times) ==
  LET n == Min({Len(prices), Len(times)})
  IN ByTime(SelectSeq([i \in 1..n |-> [time |-> times[i], price |-> prices[i]]],
                      LAMBDA s : s.time # 0 /\ Positive(s.price)))

(* The span that every series covers, cut into buckets; each series gives  *)
(* a bucket the last price it had by then.                                 *)
NoGrid == [times |-> <<>>, prices |-> <<>>]

Align(series, bucket) ==
  LET sorted == Each(series, ByTime)
      start == Max({Head(sorted[i]).time : i \in 1..Len(sorted)})
      end == Min({Last(sorted[i]).time : i \in 1..Len(sorted)})
      first == ((start + bucket - 1) \div bucket) * bucket
      fits == (end - first) \div bucket + 1
      count == Min({fits, MaxAlignBuckets})
      times == [k \in 1..count |-> first + (fits - count + k - 1) * bucket]
      asOf(s, t) == Last(SelectSeq(s, LAMBDA x : x.time <= t)).price
  IN IF bucket <= 0 \/ series = <<>> \/ (\E i \in 1..Len(series) : series[i] = <<>>) THEN NoGrid
     ELSE IF end <= start \/ end <= first \/ fits < 2 THEN NoGrid
     ELSE [times |-> times,
           prices |-> [i \in 1..Len(series) |-> [k \in 1..count |-> asOf(sorted[i], times[k])]]]

CorrelationSeries(a, b, bucket) ==
  LET aligned == Align(<<a, b>>, bucket).prices
  IN IF Len(aligned) # 2 \/ Len(Head(aligned)) < 3 THEN NaN
     ELSE PearsonComplete(LogReturns(aligned[1]), LogReturns(aligned[2]))

CorrelationMatrixSeries(n, series, bucket) ==
  LET aligned == Align(SubSeq(series, 1, n), bucket).prices
  IN IF n = 0 \/ Len(series) < n \/ Len(aligned) # n \/ Len(aligned[1]) < 3 THEN EmptyMatrix(n)
     ELSE FillMatrix(Each(aligned, LogReturns))

-----------------------------------------------------------------------------
(* The equity file: lines, the malformed ones among them, and the number   *)
(* of appends since it was last looked at.                                 *)

NewestOf(s, most) == IF most > 0 /\ Len(s) > most THEN SubSeq(s, Len(s) - most + 1, Len(s)) ELSE s

LoadAll(file, most) == NewestOf(SelectSeq(file.lines, LAMBDA l : l.ok), most)

LoadByName(file, most) ==
  LET all == LoadAll(file, most)
  IN [n \in {all[i].name : i \in 1..Len(all)} |-> SelectSeq(all, LAMBDA m : m.name = n)]

AppendMark(file, mark, most) ==
  LET lines == Append(file.lines, mark)
      due == most > 0 /\ file.writes + 1 >= CompactEvery
  IN [lines |-> IF due /\ Len(lines) > 2 * most THEN NewestOf(lines, most) ELSE lines,
      writes |-> IF due THEN 0 ELSE file.writes + 1]
=============================================================================
