------------------------------ MODULE Portfolio ------------------------------
(***************************************************************************)
(* What is held, what it cost, what was realized and what it is worth:     *)
(* the transaction log folded into holdings, settled lot by lot or at the  *)
(* average cost, and priced by the latest quotes.                          *)
(*                                                                         *)
(* A transaction is [type, symbol, qty, price, fee, year]; a holding is    *)
(* [symbol, name, qty, cost]; quotes are a function from the quoted        *)
(* symbols to prices.                                                      *)
(***************************************************************************)
EXTENDS Ratio

-----------------------------------------------------------------------------
(* The log at its average cost *)

Nothing == [qty |-> Zero, cost |-> Zero]
SymbolsOf(txs) == {txs[i].symbol : i \in 1..Len(txs)}

Sold(held, t) == Lesser(t.qty, held.qty)
AverageCost(held) == held.cost // held.qty

AfterTx(held, t) ==
  CASE t.type = "buy" ->
         [qty |-> held.qty ++ t.qty, cost |-> (held.cost ++ (t.qty ** t.price)) ++ t.fee]
    [] t.type = "sell" /\ Positive(held.qty) ->
         [qty |-> held.qty -- Sold(held, t),
          cost |-> held.cost -- (AverageCost(held) ** Sold(held, t))]
    [] OTHER -> held

(* What a sale adds to the realized total.                                 *)
GainAtAverage(held, t) ==
  IF t.type = "sell" /\ Positive(held.qty)
  THEN ((t.price ** Sold(held, t)) -- (AverageCost(held) ** Sold(held, t))) -- t.fee
  ELSE Zero

Realized(txs) ==
  FoldLeft(LAMBDA acc, t : [held |-> [acc.held EXCEPT ![t.symbol] = AfterTx(@, t)],
                            total |-> acc.total ++ GainAtAverage(acc.held[t.symbol], t)],
           [held |-> [s \in SymbolsOf(txs) |-> Nothing], total |-> Zero], txs).total

(* The symbols in the order they first appear, of those still held.        *)
DeriveHoldings(txs) ==
  LET held == FoldLeft(LAMBDA h, t : [h EXCEPT ![t.symbol] = AfterTx(@, t)],
                       [s \in SymbolsOf(txs) |-> Nothing], txs)
      order == FoldLeft(LAMBDA o, t : IF Contains(o, t.symbol) THEN o ELSE Append(o, t.symbol),
                        <<>>, txs)
  IN Each(SelectSeq(order, LAMBDA s : Positive(held[s].qty)),
          LAMBDA s : [symbol |-> s, name |-> "", qty |-> held[s].qty,
                      cost |-> AverageCost(held[s])])

(* Holdings configured by hand come before the log, as purchases at their  *)
(* cost, and give their names to what is left of them.                     *)
Materialize(existing, txs) ==
  LET opening == Each(SelectSeq(existing, LAMBDA h : Positive(h.qty)),
                      LAMBDA h : [type |-> "buy", symbol |-> h.symbol, qty |-> h.qty,
                                  price |-> h.cost, fee |-> Zero, year |-> 0])
      named(s) == SelectSeq(existing, LAMBDA h : h.symbol = s /\ h.name # "")
  IN IF txs = <<>> THEN existing
     ELSE Each(DeriveHoldings(opening \o txs),
               LAMBDA h : [h EXCEPT !.name = IF named(h.symbol) = <<>> THEN ""
                                             ELSE Last(named(h.symbol)).name])

-----------------------------------------------------------------------------
(* The log lot by lot *)

(* The places of the lots, in the order a method sells them.  HIFO is      *)
(* stable; a method that is not known sells the oldest first.              *)
ConsumeOrder(lots, method) ==
  LET places == [i \in 1..Len(lots) |-> i]
      dearer(i, j) == lots[j].cost \prec lots[i].cost \/ (lots[i].cost = lots[j].cost /\ i < j)
  IN CASE method = "lifo" -> Reverse(places)
       [] method = "hifo" -> SortSeq(places, dearer)
       [] OTHER -> places

ConsumeLots(lots, t, method) ==
  LET take(acc, i) ==
        LET used == IF Positive(acc.left) THEN Lesser(acc.lots[i].qty, acc.left) ELSE Zero
        IN [lots |-> [acc.lots EXCEPT ![i].qty = @ -- used],
            left |-> acc.left -- used,
            gain |-> acc.gain ++ ((t.price -- acc.lots[i].cost) ** used)]
      taken == FoldLeft(take, [lots |-> lots, left |-> t.qty, gain |-> Zero],
                        ConsumeOrder(lots, method))
  IN [gain |-> taken.gain -- t.fee,
      lots |-> SelectSeq(taken.lots, LAMBDA l : Positive(l.qty))]

LotsAfter(lots, t, method) ==
  CASE t.type = "buy" /\ Positive(t.qty) ->
         Append(lots, [qty |-> t.qty, cost |-> t.price ++ (t.fee // t.qty)])
    [] t.type = "sell" /\ lots # <<>> -> ConsumeLots(lots, t, method).lots
    [] OTHER -> lots

SettledLots(txs, method) ==
  FoldLeft(LAMBDA acc, t :
             [lots |-> [acc.lots EXCEPT ![t.symbol] = LotsAfter(@, t, method)],
              total |-> IF t.type = "sell" /\ acc.lots[t.symbol] # <<>>
                        THEN acc.total ++ ConsumeLots(acc.lots[t.symbol], t, method).gain
                        ELSE acc.total],
           [lots |-> [s \in SymbolsOf(txs) |-> <<>>], total |-> Zero], txs)

RealizedByMethod(txs, method) ==
  IF method = "average" THEN Realized(txs) ELSE SettledLots(txs, method).total

-----------------------------------------------------------------------------
(* Dividends and sizes *)

Dividends(txs) ==
  TotalOf(Each(SelectSeq(txs, LAMBDA t : t.type = "dividend"),
               LAMBDA t : (t.qty ** t.price) -- t.fee))

DividendsYTD(txs, year) == Dividends(SelectSeq(txs, LAMBDA t : t.year = year))

PositionSize(equity, riskPct, entry, stop) ==
  LET risk == equity ** (riskPct // Hundred)
  IN IF ~Positive(equity) \/ ~Positive(riskPct) \/ entry = stop
     THEN [shares |-> Zero, risk |-> Zero]
     ELSE [shares |-> risk // Abs(entry -- stop), risk |-> risk]

ATRStop(entry, atr, mult, long) ==
  IF long THEN entry -- (mult ** atr) ELSE entry ++ (mult ** atr)

(* The stop of a trade: the one that was given, or the one its ATR gives,  *)
(* on the losing side of the entry.  NaN where the plan is refused.        *)
PlanStop(equity, riskPct, entry, stop, atr, mult, long) ==
  LET planned == IF stop = Zero THEN ATRStop(entry, atr, mult, long) ELSE stop
  IN IF /\ \A x \in {equity, riskPct, entry, planned} : Positive(x)
        /\ riskPct \preceq Hundred
        /\ ~(stop \prec Zero)
        /\ stop = Zero => Positive(atr) /\ Positive(mult)
        /\ IF long THEN planned \prec entry ELSE entry \prec planned
     THEN planned ELSE NaN

-----------------------------------------------------------------------------
(* The holdings at the latest prices *)

(* A symbol is looked up as it is written, then in its canonical spelling. *)
PriceFor(quotes, sym, canonical) ==
  LET key == IF sym \in DOMAIN quotes THEN sym ELSE canonical[sym]
  IN IF key \in DOMAIN quotes /\ Positive(quotes[key]) THEN quotes[key] ELSE NaN

Evaluate(holdings, quotes, canonical) ==
  LET price(h) == PriceFor(quotes, h.symbol, canonical)
      priced(h) == Finite(price(h))
      cost(h) == h.qty ** h.cost
      shown(h) == IF priced(h) THEN price(h) ELSE h.cost
      value(h) == h.qty ** shown(h)
      pnl(h) == IF priced(h) THEN value(h) -- cost(h) ELSE Zero
      pct(gain, of) == IF Positive(of) THEN (gain // of) ** Hundred ELSE Zero
      counted == SelectSeq(holdings, priced)
      totalCost == TotalOf(Each(counted, cost))
      totalValue == TotalOf(Each(counted, value))
  IN [positions |-> Each(holdings, LAMBDA h :
                      [holding |-> h, price |-> shown(h), value |-> value(h), pnl |-> pnl(h),
                       pct |-> IF priced(h) THEN pct(pnl(h), cost(h)) ELSE Zero,
                       priced |-> priced(h)]),
      unpriced |-> Each(SelectSeq(holdings, LAMBDA h : ~priced(h)), LAMBDA h : h.symbol),
      cost |-> totalCost, value |-> totalValue,
      pnl |-> totalValue -- totalCost, pct |-> pct(totalValue -- totalCost, totalCost)]

FullyPriced(summary) == summary.unpriced = <<>>

UnpricedCost(summary) ==
  TotalOf(Each(SelectSeq(summary.positions, LAMBDA p : ~p.priced),
               LAMBDA p : p.holding.qty ** p.holding.cost))

Coverage(summary) ==
  LET all == summary.cost ++ UnpricedCost(summary)
  IN IF Positive(all) THEN summary.cost // all ELSE One
=============================================================================
