----------------------------- MODULE Indicators -----------------------------
(***************************************************************************)
(* The indicators drawn under a chart (internal/indicator), as functions   *)
(* from a series to a series of the same length.  NaN marks a bar whose    *)
(* figure is not defined: the warm-up, and what missing data leaves out.   *)
(* A bar is [open, high, low, close, volume]; a series of closes is a      *)
(* sequence of fractions.  A standard deviation is kept as its square.     *)
(***************************************************************************)
EXTENDS Ratio

Undefined(n) == [i \in 1..n |-> NaN]
From(a, b) == [k \in 1..(b - a + 1) |-> a + k - 1]
Places(s) == From(1, Len(s))
Closes(bars) == Each(bars, LAMBDA b : b.close)
Clamp(x) == IF Finite(x) THEN Lesser(Hundred, Larger(Zero, x)) ELSE NaN
OrZero(x) == IF Finite(x) THEN x ELSE Zero
Mirrored(x) == Zero -- x

(* Wilder's average: one nth of the newest, the rest of what it was.       *)
Smoothed(avg, x, n) == ((avg ** Int2(n - 1)) ++ x) // Int2(n)

-----------------------------------------------------------------------------
(* Moving averages *)

(* The running sum holds the finite samples of the window; the others are  *)
(* counted.                                                                *)
SMA(s, n) ==
  LET gap(x) == IF Finite(x) THEN 0 ELSE 1
      step(acc, i) ==
        LET left == IF i > n THEN s[i - n] ELSE Zero
            sum == (acc.sum ++ OrZero(s[i])) -- OrZero(left)
            missing == acc.missing + gap(s[i]) - gap(left)
        IN [sum |-> sum, missing |-> missing,
            out |-> Append(acc.out, IF i < n \/ missing > 0 THEN NaN ELSE sum // Int2(n))]
  IN IF n <= 0 THEN Undefined(Len(s))
     ELSE FoldLeft(step, [sum |-> Zero, missing |-> 0, out |-> <<>>], Places(s)).out

(* A gap empties the warm-up, and the average is seeded again after it.    *)
EMA(s, n) ==
  LET k == Frac(2, n + 1)
      fresh == [sum |-> Zero, seen |-> 0, prev |-> NaN]
      next(acc, c) ==
        CASE ~Finite(c) -> fresh
          [] Finite(c) /\ Finite(acc.prev) ->
               [acc EXCEPT !.prev = (c ** k) ++ (@ ** (One -- k))]
          [] OTHER -> [sum |-> acc.sum ++ c, seen |-> acc.seen + 1,
                       prev |-> IF acc.seen + 1 < n THEN NaN ELSE (acc.sum ++ c) // Int2(n)]
      step(acc, c) == LET now == next(acc.avg, c)
                      IN [avg |-> now, out |-> Append(acc.out, now.prev)]
  IN IF n <= 0 THEN Undefined(Len(s)) ELSE FoldLeft(step, [avg |-> fresh, out |-> <<>>], s).out

(* The signal averages the line from its first value on.                   *)
MACD(s, fast, slow, signal) ==
  LET quick == EMA(s, fast)
      late == EMA(s, slow)
      line == [i \in 1..Len(s) |-> quick[i] -- late[i]]
      first == SelectInSeq(line, Finite)
      signals == IF first = 0 THEN Undefined(Len(s))
                 ELSE Undefined(first - 1) \o EMA(SubSeq(line, first, Len(s)), signal)
  IN [line |-> line, signal |-> signals,
      histogram |-> [i \in 1..Len(s) |-> line[i] -- signals[i]]]

(* The bands are as far above the average as below it: apart is the square *)
(* of that distance, by the population estimator.                          *)
Bollinger(s, n, mult) ==
  LET middle == SMA(s, n)
      square(i) == TotalOf(Each(From(i - n + 1, i), LAMBDA j : (s[j] -- middle[i]) ** (s[j] -- middle[i])))
      defined(i) == Finite(middle[i]) /\ Finite(mult)
  IN [i \in 1..Len(s) |->
        IF defined(i) THEN [middle |-> middle[i], apart |-> (mult ** mult) ** (square(i) // Int2(n))]
        ELSE [middle |-> NaN, apart |-> NaN]]

-----------------------------------------------------------------------------
(* Ranges and directions *)

SplitDelta(prev, curr) ==
  LET delta == OrZero(curr -- prev)
  IN [gain |-> Larger(Zero, delta), loss |-> Larger(Zero, Mirrored(delta))]

WilderRSI(avg, c) ==
  CASE ~Finite(c) -> NaN
    [] Finite(c) /\ avg.gain = Zero /\ avg.loss = Zero -> Int2(50)
    [] Finite(c) /\ avg.gain # Zero /\ avg.loss = Zero -> Hundred
    [] OTHER -> Clamp(Hundred -- (Hundred // (One ++ (avg.gain // avg.loss))))

RSI(s, n) ==
  LET move(i) == SplitDelta(s[i - 1], s[i])
      mean(Of(_)) == TotalOf(Each(From(2, n + 1), LAMBDA i : Of(move(i)))) // Int2(n)
      seed == [gain |-> mean(LAMBDA m : m.gain), loss |-> mean(LAMBDA m : m.loss)]
      step(acc, i) ==
        LET avg == [gain |-> Smoothed(acc.avg.gain, move(i).gain, n),
                    loss |-> Smoothed(acc.avg.loss, move(i).loss, n)]
        IN [avg |-> avg, out |-> Append(acc.out, WilderRSI(avg, s[i]))]
  IN IF n <= 0 \/ Len(s) < n + 1 THEN Undefined(Len(s))
     ELSE FoldLeft(step, [avg |-> seed, out |-> Append(Undefined(n), WilderRSI(seed, s[n + 1]))],
                   From(n + 2, Len(s))).out

TrueRange(bars, i) ==
  LET hl == bars[i].high -- bars[i].low
      hc == Abs(bars[i].high -- bars[i - 1].close)
      lc == Abs(bars[i].low -- bars[i - 1].close)
  IN IF Finite(hl) /\ Finite(hc) THEN Larger(hl, Larger(hc, lc)) ELSE NaN

(* A bar with no true range is left out of the seed and of the smoothing.  *)
ATR(bars, n) ==
  LET seed == SelectSeq(Each(From(2, n + 1), LAMBDA i : TrueRange(bars, i)), Finite)
      mean == TotalOf(seed) // Int2(Len(seed))
      step(acc, i) ==
        LET range == TrueRange(bars, i)
            now == acc.atr ++ ((range -- acc.atr) // Int2(n))
        IN [atr |-> IF Finite(now) THEN now ELSE acc.atr, out |-> Append(acc.out, now)]
  IN IF n <= 0 \/ Len(bars) < n + 1 THEN Undefined(Len(bars))
     ELSE IF seed = <<>> THEN Undefined(Len(bars))
     ELSE FoldLeft(step, [atr |-> mean, out |-> Append(Undefined(n), mean)],
                   From(n + 2, Len(bars))).out

(* The true range and the dominant directional move of a bar: none where a *)
(* price of it or of the bar before is missing.                            *)
Move(bars, i) ==
  LET up == bars[i].high -- bars[i - 1].high
      down == bars[i - 1].low -- bars[i].low
      known == Finite(up) /\ Finite(down) /\ Finite(bars[i - 1].close)
  IN [range |-> IF known THEN TrueRange(bars, i) ELSE Zero,
      plus |-> IF known /\ down \prec up /\ Positive(up) THEN up ELSE Zero,
      minus |-> IF known /\ up \prec down /\ Positive(down) THEN down ELSE Zero]

Directions(sum) ==
  LET share(x) == IF Positive(sum.range) THEN Clamp((Hundred ** x) // sum.range) ELSE Zero
      plus == share(sum.plus)
      minus == share(sum.minus)
      both == plus ++ minus
  IN [plus |-> plus, minus |-> minus,
      dx |-> IF both = Zero THEN Zero ELSE Clamp((Hundred ** Abs(plus -- minus)) // both)]

ADX(bars, n) ==
  LET len == Len(bars)
      none == [i \in 1..len |-> [plus |-> NaN, minus |-> NaN, adx |-> NaN]]
      fields == {"range", "plus", "minus"}
      seed == [f \in fields |-> TotalOf(Each(From(2, n + 1), LAMBDA i : Move(bars, i)[f]))]
      next(sum, i) == [f \in fields |-> (sum[f] -- (sum[f] // Int2(n))) ++ Move(bars, i)[f]]
      sums == FoldLeft(LAMBDA acc, i : Append(acc, next(Last(acc), i)), <<seed>>, From(n + 2, len))
      way(i) == Directions(sums[i - n])
      adx == FoldLeft(LAMBDA acc, i : Append(acc, Smoothed(Last(acc), way(i).dx, n)),
                      <<TotalOf(Each(From(n + 1, 2 * n), LAMBDA i : way(i).dx)) // Int2(n)>>,
                      From(2 * n + 1, len))
  IN IF n <= 0 \/ len < 2 * n + 1 THEN none
     ELSE [i \in 1..len |->
             [plus |-> IF i <= n THEN NaN ELSE way(i).plus,
              minus |-> IF i <= n THEN NaN ELSE way(i).minus,
              adx |-> IF i < 2 * n THEN NaN ELSE adx[i - 2 * n + 1]]]

(* Where the close is in the range of the last n bars.                     *)
StochasticK(bars, n) ==
  [i \in 1..Len(bars) |->
     LET window == SubSeq(bars, i - n + 1, i)
         high == FoldLeft(Larger, window[1].high, Each(window, LAMBDA b : b.high))
         low == FoldLeft(Lesser, window[1].low, Each(window, LAMBDA b : b.low))
     IN IF i < n \/ ~Positive(high -- low) THEN NaN
        ELSE Clamp((Hundred ** (bars[i].close -- low)) // (high -- low))]

Stochastic(bars, n, d) ==
  IF n <= 0 \/ d <= 0 THEN [k |-> Undefined(Len(bars)), d |-> Undefined(Len(bars))]
  ELSE [k |-> StochasticK(bars, n), d |-> SMA(StochasticK(bars, n), d)]

-----------------------------------------------------------------------------
(* Volumes *)

OBV(bars) ==
  LET signed(i) ==
        CASE bars[i - 1].close \prec bars[i].close -> OrZero(bars[i].volume)
          [] bars[i].close \prec bars[i - 1].close -> Mirrored(OrZero(bars[i].volume))
          [] OTHER -> Zero
  IN FoldLeft(LAMBDA acc, i : Append(acc, IF i = 1 THEN Zero ELSE Last(acc) ++ signed(i)),
              <<>>, Places(bars))

Typical(b) == ((b.high ++ b.low) ++ b.close) // Int2(3)

VWAP(bars) ==
  LET usable(b) == Finite(Typical(b)) /\ Finite(b.volume) /\ ~(b.volume \prec Zero)
      step(acc, b) ==
        LET worth == IF usable(b) THEN acc.worth ++ (Typical(b) ** b.volume) ELSE acc.worth
            volume == IF usable(b) THEN acc.volume ++ b.volume ELSE acc.volume
        IN [worth |-> worth, volume |-> volume, out |-> Append(acc.out, worth // volume)]
  IN FoldLeft(step, [worth |-> Zero, volume |-> Zero, out |-> <<>>], bars).out

(* The volume of each of n equal shares of the prices traded.              *)
VolumeProfile(bars, n) ==
  LET ranged == SelectSeq(bars, LAMBDA b : Finite(b.high) /\ Finite(b.low))
      low == FoldLeft(Lesser, ranged[1].low, Each(ranged, LAMBDA b : b.low))
      high == FoldLeft(Larger, ranged[1].high, Each(ranged, LAMBDA b : b.high))
      width == (high -- low) // Int2(n)
      floor(x) == x[1] \div x[2]
      share(b) == LET at == floor((Typical(b) -- low) // width)
                  IN IF at >= n THEN n ELSE IF at < 0 THEN 1 ELSE at + 1
      counted == SelectSeq(bars, LAMBDA b : Finite(Typical(b)) /\ Finite(b.volume))
  IN IF n <= 0 \/ ranged = <<>> THEN <<>>
     ELSE IF ~(low \prec high) THEN <<>>
     ELSE [k \in 1..n |->
             [min |-> low ++ (width ** Int2(k - 1)), max |-> low ++ (width ** Int2(k)),
              volume |-> TotalOf(Each(SelectSeq(counted, LAMBDA b : share(b) = k),
                                      LAMBDA b : b.volume))]]

(* The first share with the largest volume, 0 when none has any.           *)
POC(bins) ==
  FoldLeft(LAMBDA best, k : IF (IF best = 0 THEN Zero ELSE bins[best].volume) \prec bins[k].volume
                            THEN k ELSE best,
           0, Places(bins))

-----------------------------------------------------------------------------
(* Single bars *)

Pattern(bars, i) ==
  LET b == bars[i]
      body == Abs(b.close -- b.open)
      range == b.high -- b.low
      above == b.high -- Larger(b.open, b.close)
      below == Lesser(b.open, b.close) -- b.low
      small == body \prec (range // Int2(3))
      twice == Int2(2) ** body
      before == bars[i - 1]
      covers(x, y) == x.open \preceq y.close /\ y.open \preceq x.close
      known == \A x \in {b.open, b.high, b.low, b.close} : Finite(x)
  IN CASE ~known \/ ~Positive(range) -> "none"
       [] known /\ Positive(range) /\ body \preceq (range // Int2(10)) -> "doji"
       [] OTHER ->
            IF small /\ twice \preceq below /\ above \preceq body THEN "hammer"
            ELSE IF small /\ twice \preceq above /\ below \preceq body THEN "shooting star"
            ELSE IF i = 1 THEN "none"
            ELSE IF before.close \prec before.open /\ b.open \prec b.close /\ covers(b, before)
            THEN "bullish engulfing"
            ELSE IF /\ before.open \prec before.close /\ b.close \prec b.open
                    /\ before.close \preceq b.open /\ b.close \preceq before.open
            THEN "bearish engulfing" ELSE "none"

Patterns(bars) == [i \in 1..Len(bars) |-> Pattern(bars, i)]
IsBullish(p) == p \in {"hammer", "bullish engulfing"}
IsBearish(p) == p \in {"shooting star", "bearish engulfing"}

(* The support and resistance levels of a session, lowest first.           *)
Pivots(high, low, close) ==
  LET p == Typical([high |-> high, low |-> low, close |-> close])
      range == high -- low
      twice(x) == Int2(2) ** x
  IN <<low -- twice(high -- p), p -- range, twice(p) -- high, p,
       twice(p) -- low, p ++ range, high ++ twice(p -- low)>>
=============================================================================
