-------------------------- MODULE AlertConditions --------------------------
(***************************************************************************)
(* What an alert condition says of a quote (evaluate) or of the cached     *)
(* prices (evaluateIndicator), internal/alert/engine.go, with the          *)
(* indicators they compute (internal/indicator).  Prices, volumes and      *)
(* thresholds are numbers of a small grid and every comparison of ratios   *)
(* is multiplied out, so the floating-point rounding of the code is left   *)
(* out.  A condition is a record [type, value, period]; macd_cross, which  *)
(* needs 35 samples, is the one condition not modelled.                    *)
(***************************************************************************)
EXTENDS Integers, Sequences, SequencesExt

LevelConditions ==
  {"above", "below", "pct_up", "pct_down", "volume_above",
   "rsi_above", "rsi_below", "stddev_above"}
IndicatorConditions ==
  {"rsi_above", "rsi_below", "sma_cross_above", "sma_cross_below", "stddev_above"}
ConditionTypes == LevelConditions \cup IndicatorConditions

(* The period of an indicator condition, or its default. *)
Period(c) ==
  CASE c.type \in {"rsi_above", "rsi_below"} /\ c.period <= 0 -> 14
    [] c.type \in {"sma_cross_above", "sma_cross_below"} /\ c.period <= 0 -> 20
    [] c.type = "stddev_above" /\ c.period <= 1 -> 20
    [] OTHER -> c.period

(* The samples a condition needs before it can be evaluated at all. *)
RequiredHistory(c) ==
  CASE c.type \notin IndicatorConditions -> 0
    [] c.type = "stddev_above" -> Period(c)
    [] OTHER -> Period(c) + 1

Total(seq) == FoldLeft(LAMBDA sum, x : sum + x, 0, seq)

(* The last n samples of those up to index i. *)
Window(prices, i, n) == SubSeq(prices, i - n + 1, i)

(* The price against its simple moving average, times the period. *)
AboveSMA(prices, i, n) == n * prices[i] - Total(Window(prices, i, n))

(* Wilder's smoothed gains and losses, up to the factor they share: the    *)
(* code divides by the period at every step, here scale is multiplied.     *)
Wilder(prices, n) ==
  LET delta(i) == prices[i] - prices[i - 1]
      gain(i) == IF delta(i) > 0 THEN delta(i) ELSE 0
      loss(i) == IF delta(i) < 0 THEN -delta(i) ELSE 0
      smooth(avg, i) ==
        [gain  |-> avg.gain * (n - 1) + gain(i) * avg.scale,
         loss  |-> avg.loss * (n - 1) + loss(i) * avg.scale,
         scale |-> avg.scale * n]
      seed == [gain  |-> Total([i \in 1..n |-> gain(i + 1)]),
               loss  |-> Total([i \in 1..n |-> loss(i + 1)]),
               scale |-> n]
  IN  FoldLeft(smooth, seed, [i \in 1..(Len(prices) - n - 1) |-> n + 1 + i])

(* RSI = 100 * gain / (gain + loss), and 50 when nothing moved: the sign   *)
(* of its distance from value.                                             *)
RSIAgainst(prices, n, value) ==
  LET avg == Wilder(prices, n)
  IN  IF avg.gain = 0 /\ avg.loss = 0
      THEN 50 - value
      ELSE 100 * avg.gain - value * (avg.gain + avg.loss)

(* 100 * sd / mean >= value, squared, with the sample estimator. *)
StddevReaches(prices, n, value) ==
  LET w == Window(prices, Len(prices), n)
      sum == Total(w)
      squares == Total([i \in 1..n |-> (n * w[i] - sum) * (n * w[i] - sum)])
  IN  sum # 0 /\ 10000 * squares >= value * value * sum * sum * (n - 1)

(* evaluate: the conditions on the quote itself.  base is the price the    *)
(* percentages are measured from.                                          *)
MetByQuote(c, q, base) ==
  CASE c.type = "above" -> q.price >= c.value
    [] c.type = "below" -> q.price <= c.value
    [] c.type = "pct_up" -> base > 0 /\ 100 * (q.price - base) >= c.value * base
    [] c.type = "pct_down" -> base > 0 /\ 100 * (base - q.price) >= c.value * base
    [] c.type = "volume_above" -> q.volume > c.value

(* evaluateIndicator: the conditions on the price history. *)
MetByHistory(c, prices) ==
  LET n == Period(c)
      last == Len(prices)
  IN  /\ last >= 2
      /\ last >= RequiredHistory(c)
      /\ CASE c.type = "rsi_above" -> RSIAgainst(prices, n, c.value) >= 0
           [] c.type = "rsi_below" -> RSIAgainst(prices, n, c.value) <= 0
           [] c.type = "sma_cross_above" ->
                AboveSMA(prices, last - 1, n) <= 0 /\ AboveSMA(prices, last, n) > 0
           [] c.type = "sma_cross_below" ->
                AboveSMA(prices, last - 1, n) >= 0 /\ AboveSMA(prices, last, n) < 0
           [] c.type = "stddev_above" -> StddevReaches(prices, n, c.value)

(* evalSub, and the two simple branches of Check. *)
Met(c, q, base, prices) ==
  IF c.type \in IndicatorConditions THEN MetByHistory(c, prices) ELSE MetByQuote(c, q, base)

=============================================================================
