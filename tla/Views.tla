------------------------------- MODULE Views -------------------------------
(***************************************************************************)
(* What the dashboard's tabs compute from their size, their cursor and     *)
(* their data: columns that fit a frame (format/columns.go), windows over  *)
(* lists (format/format.go), the treemap and its tiles (heatmap), the      *)
(* watchlist's order and search, the chart's zoom, the alerts tab's split, *)
(* the tab bar and the options chain.                                      *)
(*                                                                         *)
(* Each is drawn by one function and clicked on through another: the laws  *)
(* of module MCDashboard say that what is drawn fits, and that a click     *)
(* means what is drawn under it.  Prices and widths are integers; styles   *)
(* and text are left out, a label being its width.                         *)
(***************************************************************************)
EXTENDS Integers, Sequences, SequencesExt, FiniteSets, FiniteSetsExt

Bound(v, lo, hi) == Max({lo, Min({v, hi})})

-----------------------------------------------------------------------------
(* Columns *)

Col(key, width, min, prio, flex) ==
  [key |-> key, width |-> width, min |-> min, prio |-> prio, flex |-> flex]
Keys(layout) == {layout[i].key : i \in DOMAIN layout}
Total(layout, gutter) ==
  IF layout = <<>> THEN 0
  ELSE FoldLeft(LAMBDA n, c : n + c.width, gutter + Len(layout) - 1, layout)

ByPrioAsc(layout) ==
  SortSeq([i \in 1..Len(layout) |-> i],
          LAMBDA i, j : layout[i].prio < layout[j].prio \/ (layout[i].prio = layout[j].prio /\ i < j))
DropLowest(layout) ==
  LET least == Min({layout[i].prio : i \in DOMAIN layout})
  IN RemoveAt(layout, Max({i \in DOMAIN layout : layout[i].prio = least}))

(* The columns that can be squeezed are, the least valuable first; a       *)
(* column whose Min is 0 cannot.                                           *)
Squeezed(live, width, gutter) ==
  LET shrink(layout, i) ==
        LET over == Total(layout, gutter) - width
            slack == IF layout[i].min = 0 THEN 0 ELSE layout[i].width - layout[i].min
        IN [layout EXCEPT ![i].width = @ - Bound(over, 0, slack)]
  IN FoldLeft(shrink, live, ByPrioAsc(live))

(* What is left over is shared by the flexible ones, the first getting the *)
(* odd cells.  <<>> when the set does not fit.                             *)
Squeeze(live, width, gutter) ==
  LET out == Squeezed(live, width, gutter)
      spare == width - Total(out, gutter)
      flex == {i \in DOMAIN out : out[i].flex}
      rank(i) == Cardinality({j \in flex : j < i})
      share(i) == spare \div Cardinality(flex) + (IF rank(i) < spare % Cardinality(flex) THEN 1 ELSE 0)
  IN IF spare < 0 THEN <<>>
     ELSE [i \in DOMAIN out |-> IF i \in flex THEN [out[i] EXCEPT !.width = @ + share(i)] ELSE out[i]]

Fit(cols, width, gutter) ==
  LET clean(c) == LET w == Max({c.width, 0}) IN [c EXCEPT !.width = w, !.min = Bound(@, 0, w)]
      shed[n \in 0..Len(cols)] ==
        IF n = 0 THEN [i \in DOMAIN cols |-> clean(cols[i])] ELSE DropLowest(shed[n - 1])
      fitting == {n \in 0..(Len(cols) - 1) : Squeeze(shed[n], width, gutter) # <<>>}
  IN IF width <= 0 \/ gutter < 0 \/ fitting = {} THEN <<>>
     ELSE Squeeze(shed[Min(fitting)], width, gutter)

(* The options chain: a call column and its put counterpart go together.   *)
ChainCols ==
  << Col("call_bid", 12, 8, 6, FALSE), Col("call_last", 8, 6, 4, FALSE), Col("call_iv", 8, 6, 2, FALSE),
     Col("strike", 9, 7, 7, FALSE),
     Col("put_bid", 8, 6, 6, FALSE), Col("put_last", 8, 6, 4, FALSE), Col("put_iv", 12, 6, 2, FALSE) >>
ChainMate == [call_bid |-> "put_bid", call_last |-> "put_last", call_iv |-> "put_iv",
              put_bid |-> "call_bid", put_last |-> "call_last", put_iv |-> "call_iv"]
ChainGutter == 2
ChainSepExtra == 4
ChainLayout(width) ==
  LET fitted == Fit(ChainCols, width - ChainSepExtra, ChainGutter)
      paired(c) == c.key \in Keys(fitted) /\ (c.key \in DOMAIN ChainMate => ChainMate[c.key] \in Keys(fitted))
      kept == SelectSeq(ChainCols, paired)
  IN IF fitted = <<>> \/ Len(kept) = Len(fitted) THEN fitted
     ELSE Fit(kept, width - ChainSepExtra, ChainGutter)

(* The holdings table.                                                     *)
ColumnPlan ==
  << Col("symbol", 8, 6, 7, FALSE), Col("name", 22, 8, 1, TRUE), Col("qty", 10, 8, 3, FALSE),
     Col("cost", 10, 8, 2, FALSE), Col("price", 12, 8, 4, FALSE), Col("value", 12, 10, 5, FALSE),
     Col("pnl", 22, 10, 6, FALSE) >>

-----------------------------------------------------------------------------
(* Windows over lists.  Positions count from 0, as the cursors do.         *)

VisibleRows(height, fixed, total) == IF total <= 0 THEN 0 ELSE Bound(height - fixed, 1, total)
ViewportStart(cursor, total, visible) ==
  IF visible < 1 \/ visible >= total THEN 0
  ELSE Min({Max({cursor - visible + 1, 0}), total - visible})

Clamp(v, maxScroll) == Bound(v, 0, Max({maxScroll, 0}))

(* The correlation matrix is square: what runs out first bounds both axes. *)
CorrelationVisible(width, height, symbols, labelWidth, cellWidth, chrome) ==
  LET cols == (width - labelWidth) \div cellWidth
      rows == height - chrome
  IN IF cols < 1 \/ rows < 1 THEN 0 ELSE VisibleRows(Min({cols, rows}), 0, symbols)

(* The alerts tab: the rules' rows and the recent alerts'.                 *)
RulesHeaderLines == 3
RulesFooterLines == 2
HistoryChrome == 2
HistoryMax == 10
AlertsLayout(height, rules, history) ==
  LET shown == Min({history, HistoryMax})
      fixed == RulesHeaderLines + RulesFooterLines
      want == Min({shown + HistoryChrome, (height - fixed) \div 2})
      reserved == fixed + (IF shown > 0 THEN Max({want, 0}) ELSE 0)
      ruleRows == VisibleRows(height, reserved, rules)
  IN IF rules = 0 THEN [rules |-> 0, history |-> VisibleRows(height, HistoryChrome, shown)]
     ELSE [rules |-> ruleRows,
           history |-> Min({Max({height - fixed - ruleRows - HistoryChrome, 0}), shown})]

-----------------------------------------------------------------------------
(* The treemap *)

RECURSIVE LayoutRecursive(_, _, _, _, _)
LayoutRecursive(count, x, y, w, h) ==
  LET half == count \div 2
      leftW == Max({(w * half) \div count, 1})
      topH == Max({(h * half) \div count, 1})
  IN IF count <= 0 THEN <<>>
     ELSE IF count = 1 THEN << [x |-> x, y |-> y, w |-> w, h |-> h] >>
     ELSE IF 2 * w >= h
     THEN LayoutRecursive(half, x, y, leftW, h)
            \o LayoutRecursive(count - half, x + leftW, y, w - leftW, h)
     ELSE LayoutRecursive(half, x, y, w, topH)
            \o LayoutRecursive(count - half, x, y + topH, w, h - topH)
LayoutTreemap(n, width, height) ==
  IF width <= 0 \/ height <= 0 THEN <<>> ELSE LayoutRecursive(n, 0, 0, width, height)

Holds(r, x, y) == x >= r.x /\ x < r.x + r.w /\ y >= r.y /\ y < r.y + r.h

(* A sector's tiles: as many columns as View draws, and as many as the     *)
(* keys and clicks take it to draw.                                        *)
TileWidth == 22
TileHeight == 4
DrawnCols(width) == Max({(width - 4) \div TileWidth, 1})
TileCols(width) == Max({(width - 4) \div 14, 1})

(* The tiles on screen, from and to (excluded), and the one at a row and   *)
(* column of the screen; what a click there selects.                       *)
Drawn(width, height, n, cursor) ==
  LET cols == DrawnCols(width)
      rows == Max({(height - 5) \div TileHeight, 1})
      start == Max({cursor \div cols - rows + 1, 0}) * cols
  IN [start |-> start, end |-> Min({start + Min({rows * cols, n}), n})]
DrawnTile(width, height, n, cursor, row, col) == Drawn(width, height, n, cursor).start + row * DrawnCols(width) + col
ClickedTile(width, row, col) == row * TileCols(width) + col

NormalizeSectors(sectors, default) ==
  LET out == SelectSeq(sectors, LAMBDA s : s.symbols # <<>>)
      name(s) == IF s.name = "" THEN "Unnamed" ELSE s.name
  IN IF out = <<>> THEN default ELSE [i \in DOMAIN out |-> [out[i] EXCEPT !.name = name(out[i])]]

(* Quoted symbols first, by change, the best first; then as they came.     *)
Before(change, a, b) ==
  \/ a \in DOMAIN change /\ b \notin DOMAIN change
  \/ a \in DOMAIN change /\ b \in DOMAIN change /\ change[a] > change[b]
RankSymbols(symbols, change) ==
  LET sorted == SortSeq([i \in 1..Len(symbols) |-> i],
        LAMBDA i, j : \/ Before(change, symbols[i], symbols[j])
                      \/ ~Before(change, symbols[j], symbols[i]) /\ i < j)
  IN [i \in 1..Len(symbols) |-> symbols[sorted[i]]]

(* The order is kept while the sector is open, unless its symbols changed. *)
DrilldownSymbols(frozen, symbols, change) ==
  IF Len(frozen) = Len(symbols) /\ ToSet(frozen) \subseteq ToSet(symbols) THEN frozen
  ELSE RankSymbols(symbols, change)

(* Only symbols with a price count; without any there is no change.        *)
SectorChange(symbols, quotes) ==
  LET priced == SelectSeq(symbols, LAMBDA s : s \in DOMAIN quotes /\ quotes[s].price > 0)
  IN [sum |-> FoldLeft(LAMBDA n, s : n + quotes[s].change, 0, priced), count |-> Len(priced)]

-----------------------------------------------------------------------------
(* The watchlist: its order, its cursor over that order, its search.       *)

Order(symbols, value) ==
  SortSeq([i \in 1..Len(symbols) |-> i],
          LAMBDA i, j : \/ Before(value, symbols[i], symbols[j])
                        \/ ~Before(value, symbols[j], symbols[i]) /\ i < j)
PosOf(order, i) == IF i \in ToSet(order) THEN Min({p \in DOMAIN order : order[p] = i}) - 1 ELSE 0
SelectedSymbol(symbols, order, cursor) == IF cursor < Len(order) THEN symbols[order[cursor + 1]] ELSE ""

(* "s" sorts anew, and the cursor goes with its symbol.                    *)
Resorted(symbols, old, new, cursor) ==
  LET selected == SelectedSymbol(symbols, old, cursor)
      at == {p \in DOMAIN new : symbols[new[p]] = selected}
  IN IF at = {} THEN cursor ELSE Min(at) - 1

(* A query matches what has its letters in their order; every letter takes *)
(* the first that is left.                                                 *)
FuzzyMatch(target, query) ==
  LET next(at, c) ==
        LET places == {i \in (at + 1)..Len(target) : target[i] = c}
        IN IF at = -1 \/ places = {} THEN -1 ELSE Min(places)
  IN FoldLeft(next, 0, query) # -1
ComputeFiltered(targets, query) ==
  SelectSeq([i \in 1..Len(targets) |-> i], LAMBDA i : FuzzyMatch(targets[i], query))

SwitchGroup(active, delta, groups) == IF groups <= 1 THEN active ELSE (active + delta + groups) % groups

-----------------------------------------------------------------------------
(* The chart's window: zoom, how many candles fit, how many there are.     *)

MinZoom == 10
ZoomStep == 10
VisibleCount(zoom, auto, fit, n) ==
  IF n = 0 \/ fit < 1 THEN 0 ELSE Min({IF auto \/ zoom < 1 THEN fit ELSE zoom, fit, n})
ZoomLimit(fit, n) == Max({IF n > 0 THEN Min({fit, n}) ELSE fit, MinZoom})
ZoomBy(delta, zoom, auto, fit, n) ==
  LET seen == VisibleCount(zoom, auto, fit, n)
      cur == IF seen >= 1 THEN seen ELSE IF zoom >= 1 THEN zoom ELSE ZoomLimit(fit, n)
  IN Max({Min({cur + delta, ZoomLimit(fit, n)}), MinZoom})
ShortestSeries(lengths) == LET some == ToSet(lengths) \ {0} IN IF some = {} THEN 0 ELSE Min(some)

-----------------------------------------------------------------------------
(* The tab bar: the active tab, and as many around it as fit.              *)

TabBarLeadPad == 1
TabSegments(labels, active, width, sep, branding, marker) ==
  LET room == width - TabBarLeadPad - branding
      span(lo, hi) == FoldLeft(+, sep * (hi - lo), SubSeq(labels, lo, hi))
      tight == room - marker
      wider(lo, hi) == lo >= 1 /\ hi <= Len(labels) /\ span(lo, hi) <= tight
      grown[n \in 0..Len(labels)] ==
        IF n = 0 THEN <<active, active>>
        ELSE LET lo == grown[n - 1][1]
                 hi == grown[n - 1][2]
                 right == IF wider(lo, hi + 1) THEN hi + 1 ELSE hi
             IN <<IF wider(lo - 1, right) THEN lo - 1 ELSE lo, right>>
      shown == grown[Len(labels)]
      start(lo, i) == TabBarLeadPad + (IF i = lo THEN 0 ELSE span(lo, i - 1) + sep)
      segments(lo, hi) == [k \in 1..(hi - lo + 1) |->
        [tab |-> lo + k - 1, start |-> start(lo, lo + k - 1), width |-> labels[lo + k - 1]]]
  IN IF width <= 0 \/ room <= 0 THEN <<>>
     ELSE IF span(1, Len(labels)) <= room THEN segments(1, Len(labels))
     ELSE IF tight <= 0 THEN <<>>
     ELSE IF labels[active] > tight THEN << [tab |-> active, start |-> TabBarLeadPad, width |-> tight] >>
     ELSE segments(shown[1], shown[2])
TabAtX(segments, x) ==
  LET hit == {i \in DOMAIN segments : x >= segments[i].start /\ x < segments[i].start + segments[i].width}
  IN IF hit = {} THEN -1 ELSE segments[Min(hit)].tab

-----------------------------------------------------------------------------
(* The options chain's strikes, and where its writers owe least.  The      *)
(* strikes come in the order of a map: of equal ones any is the answer.    *)

UniqueStrikes(chain) == {chain.calls[i].strike : i \in DOMAIN chain.calls}
                          \cup {chain.puts[i].strike : i \in DOMAIN chain.puts}
TotalPainAtStrike(chain, settle) ==
  FoldLeft(LAMBDA n, c : n + Max({settle - c.strike, 0}) * c.open, 0, chain.calls)
    + FoldLeft(LAMBDA n, p : n + Max({p.strike - settle, 0}) * p.open, 0, chain.puts)
MaxPain(chain) ==
  LET strikes == UniqueStrikes(chain)
  IN {s \in strikes : \A t \in strikes : TotalPainAtStrike(chain, s) <= TotalPainAtStrike(chain, t)}

-----------------------------------------------------------------------------
(* Glyphs: where a price stands in the day's range, -1 when it has none;   *)
(* a sparkline's heights, of eight.                                        *)

DayRange(price, low, high, width) ==
  IF width <= 0 \/ high = low \/ high = 0 \/ low = 0 THEN -1
  ELSE ((Bound(price, low, high) - low) * (width - 1)) \div (high - low)
Sparkline(prices, width) ==
  LET seen == IF Len(prices) > width THEN SubSeq(prices, Len(prices) - width + 1, Len(prices)) ELSE prices
      low == Min(ToSet(seen))
      range == Max({Max(ToSet(seen)) - low, 0})
  IN IF prices = <<>> \/ width <= 0 THEN <<>>
     ELSE [i \in DOMAIN seen |-> IF range = 0 THEN 0 ELSE ((seen[i] - low) * 7) \div range]

(* A symbol list as the hub subscribes to it: canonical spellings, once.   *)
CanonicalAll(symbols, canonical) ==
  LET spelt == [i \in DOMAIN symbols |-> canonical[symbols[i]]]
      firsts == SelectSeq([i \in DOMAIN symbols |-> i],
        LAMBDA i : spelt[i] # "" /\ \A j \in 1..(i - 1) : spelt[j] # spelt[i])
  IN [k \in DOMAIN firsts |-> spelt[firsts[k]]]
=============================================================================
