---------------------------- MODULE MCDataPlane ----------------------------
(* Two symbols with rings of two samples, so that history, live quotes and *)
(* both together fill one, one backfill slot, and two buckets to switch.   *)
EXTENDS DataPlane

MCSymbols == {"BTC", "ETH"}
MCMaxPushes == [BTC |-> 3, ETH |-> 0]
MCSubscribed == <<"BTC", "ETH">>
MCViews == {[syms |-> <<"BTC", "ETH">>, bucket |-> b] : b \in {30, 60}}

\* Filled is what pushing one by one onto a new ring comes to.
ASSUME FilledIsPushing ==
  \A n \in 0..RingSize :
    Filled(History(n)) = FoldLeft(Put, NewRing, History(n))

Laws == INSTANCE FigureLaws WITH MaxAlignBuckets <- 4, CompactEvery <- 2, MinBetaDays <- 3

(* Fold, FoldFIFO, FoldLIFO, FoldHIFO: a tax method moves money between    *)
(* realized and open, never creates it.                                    *)
ASSUME MethodsSplitTheSameMoney == Laws!MethodsSplitTheSameMoney

(* The open lots add up to the holdings.                                   *)
ASSUME LotsAreTheHoldings == Laws!LotsAreTheHoldings

(* HIFO: selling the dearest lots first realizes the least.                *)
ASSUME DearestFirstRealizesLeast == Laws!DearestFirstRealizesLeast

(* Materialize: a log keeps the name and the cost of a holding it sells    *)
(* part of, and leaves alone those it does not mention.                    *)
ASSUME MaterializeKeepsNames == Laws!MaterializeKeepsNames

(* Totals: only priced holdings count, in value and in cost alike.         *)
ASSUME TotalsOfThePriced == Laws!TotalsOfThePriced

(* DividendsYTD, PositionSize: a dividend belongs to one year, and a       *)
(* position risks what it was sized to risk.                               *)
ASSUME DividendsAndSizes == Laws!DividendsAndSizes

(* DrawdownSeries: the deepest fall from an earlier peak.                  *)
ASSUME DrawdownIsTheDeepestFall == Laws!DrawdownIsTheDeepestFall

(* StatsFromMarks: neither the scale of a curve nor the order its marks    *)
(* are in changes a figure.                                                *)
ASSUME StatsAreOfTheShape == Laws!StatsAreOfTheShape

(* Sortino: the deviation is over every period, not only the losing ones.  *)
ASSUME SortinoCountsEveryPeriod == Laws!SortinoCountsEveryPeriod

(* Correlation, the matrix: symmetric, in range, one on the diagonal, of   *)
(* the moves.                                                              *)
ASSUME CorrelationOfTheMoves == Laws!CorrelationOfTheMoves

(* Beta: the slope of the regression on the benchmark.                     *)
ASSUME BetaIsTheSlope == Laws!BetaIsTheSlope

(* Align: a grid point shows the last sample before it and never a later   *)
(* one.                                                                    *)
ASSUME AlignNeverLooksAhead == Laws!AlignNeverLooksAhead

(* Align: sampling one series more often changes no coefficient.           *)
ASSUME SamplingRateDoesNotMatter == Laws!SamplingRateDoesNotMatter

(* SamplesFrom: a price without a time takes no part.                      *)
ASSUME SamplesHaveTimes == Laws!SamplesHaveTimes

(* betaAgainst: only days that both series have are paired.                *)
ASSUME BetaPairsSharedDays == Laws!BetaPairsSharedDays

(* EquityFile: when compaction runs is not seen by a reader of sound       *)
(* lines.                                                                  *)
ASSUME TrimmingIsNotSeen == Laws!TrimmingIsNotSeen

=============================================================================
