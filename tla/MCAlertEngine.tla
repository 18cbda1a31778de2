--------------------------- MODULE MCAlertEngine ---------------------------
(* Two symbols, prices 1 and 2, and rule sets that mix a rule of each kind *)
(* with its like: a level, its copy switched off, a crossing, an "any", an *)
(* "all" and two sequences.                                                *)
EXTENDS AlertEngine

Cond(type, value, period) == [type |-> type, value |-> value, period |-> period]
RuleOf(symbol, match, conds) == [symbol |-> symbol, match |-> match, conds |-> conds]
On(content) == [content |-> content, enabled |-> TRUE]
Off(content) == [content |-> content, enabled |-> FALSE]

Level == RuleOf("BTC", "single", <<Cond("above", 2, 0)>>)
Other == RuleOf("ETH", "single", <<Cond("pct_down", 50, 0)>>)
Crossing == RuleOf("BTC", "single", <<Cond("sma_cross_above", 0, 2)>>)
Either == RuleOf("BTC", "any", <<Cond("pct_up", 100, 0), Cond("below", 1, 0)>>)
Both == RuleOf("BTC", "all", <<Cond("above", 2, 0), Cond("pct_down", 0, 0)>>)
Rebound == RuleOf("BTC", "sequence", <<Cond("below", 1, 0), Cond("above", 2, 0)>>)

MCSymbols == {"BTC", "ETH"}
MCContents == {Level, Other, Crossing, Either, Both, Rebound}
MCInitialRules ==
  {<<On(Level), Off(Level)>>, <<On(Crossing), On(Either)>>, <<On(Both), On(Rebound)>>}
MCAddable == {Level, Other}
MCQuotes ==
  {[symbol |-> "BTC", price |-> 1, volume |-> 0, close |-> 0],
   [symbol |-> "BTC", price |-> 2, volume |-> 0, close |-> 0],
   [symbol |-> "ETH", price |-> 1, volume |-> 0, close |-> 2]}

Laws == INSTANCE FigureLaws WITH MaxAlignBuckets <- 4, CompactEvery <- 2, MinBetaDays <- 3

(* SMA, EMA, Bollinger: a gap is forgotten as soon as the window holds     *)
(* none.                                                                   *)
ASSUME AveragesForgetGaps == Laws!AveragesForgetGaps

(* MACD: the signal is the average of the whole line, gaps included.       *)
ASSUME SignalFollowsTheLine == Laws!SignalFollowsTheLine

(* RSI, ADX, Stochastic: readings stay in their range and start after the  *)
(* warm-up.                                                                *)
ASSUME ReadingsInRange == Laws!ReadingsInRange

(* ATR, OBV, VWAP: a missing bar is reported as missing and spoils nothing *)
(* after it.                                                               *)
ASSUME OneBadBarHeals == Laws!OneBadBarHeals

(* RSI, ADX, Stochastic, Bollinger: prices upside down exchange rises and  *)
(* falls.                                                                  *)
ASSUME UpsideDown == Laws!UpsideDown

(* Patterns: bullish exactly where the mirrored candles are bearish.       *)
ASSUME PatternsMirror == Laws!PatternsMirror

(* VolumeProfile, POC: each bar's volume is spread over the shares it      *)
(* spans, once.                                                            *)
ASSUME EveryVolumeInOneShare == Laws!EveryVolumeInOneShare

(* PivotsClassic: the levels come in order.                                *)
ASSUME LevelsInOrder == Laws!LevelsInOrder

=============================================================================
