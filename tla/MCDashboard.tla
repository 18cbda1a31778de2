---------------------------- MODULE MCDashboard ----------------------------
(* One watchlist symbol with an order book and one without, two intervals, *)
(* a cache of two series; and the laws of what the tabs compute, over the  *)
(* frames and lists given here.                                            *)
EXTENDS Dashboard, Views

Widths == -2..110
Disjoint(r, s) == r.x + r.w <= s.x \/ s.x + s.w <= r.x \/ r.y + r.h <= s.y \/ s.y + s.h <= r.y

(* A table never is wider than its frame, loses its columns from the least *)
(* valuable up, none while squeezing would do, and shows no fewer in a     *)
(* wider frame (Fit): a row that wraps would displace every click.         *)
ASSUME ColumnsFit ==
  \A cols \in {ChainCols, ColumnPlan}, w \in Widths, gutter \in {0, 2} :
    LET l == Fit(cols, w, gutter)
        gone == SelectSeq(cols, LAMBDA c : c.key \notin Keys(l))
        tightest == FoldLeft(LAMBDA n, c : n + c.min, gutter + Len(l), l)
        lastGone == gone[Last(ByPrioAsc(gone))]
    IN /\ Total(l, gutter) <= Max({w, 0})
       /\ Keys(l) \subseteq Keys(Fit(cols, w + 1, gutter))
       /\ \A c \in ToSet(l) : /\ \E d \in ToSet(cols) : d.key = c.key /\ c.width >= d.min
                              /\ \A g \in ToSet(gone) : g.prio <= c.prio
       /\ gone # <<>> => \E g \in ToSet(gone) : g.prio = lastGone.prio /\ tightest + g.min > w

(* A call column is shown with its put column or not at all, and what the  *)
(* frames around the strike cost is within the width (chainLayout).        *)
ASSUME ChainPaired ==
  \A w \in Widths :
    LET l == ChainLayout(w)
    IN /\ \A k \in Keys(l) \cap DOMAIN ChainMate : ChainMate[k] \in Keys(l)
       /\ l # <<>> => "strike" \in Keys(l) /\ Total(l, ChainGutter) + ChainSepExtra <= w

(* The row of the cursor is among the rows drawn, and they are rows of the *)
(* list (ViewportStart): a click on a row drawn selects that row.          *)
ASSUME CursorInWindow ==
  \A total \in 1..12, height \in 0..14, fixed \in 0..4, cursor \in 0..11 :
    LET rows == VisibleRows(height, fixed, total)
        start == ViewportStart(cursor, total, rows)
    IN cursor < total => /\ start \in 0..cursor /\ cursor < start + rows /\ start + rows <= total
                         /\ (height - fixed >= 1 => rows <= height - fixed)

(* The correlation window stays inside the symbols wherever it is scrolled *)
(* to, and scrolling on from a page reaches the last symbol (clamp).       *)
ASSUME WindowInList ==
  \A w \in {0, 8, 15, 30, 80}, h \in {0, 5, 6, 9, 24}, n \in 0..12, v \in -3..15 :
    LET seen == CorrelationVisible(w, h, n, 8, 7, 5)
        start == Clamp(v, n - seen)
    IN start >= 0 /\ start + seen <= Max({n, seen}) /\ seen <= n /\ (v >= n => start = n - seen)

(* The alerts tab never paints more rows than its frame has, shows a rule  *)
(* if there is one, and leaves the rules a half of the frame at least.     *)
ASSUME AlertsSplit ==
  \A height \in 6..40, rules \in 0..12, history \in 0..12 :
    LET l == AlertsLayout(height, rules, history)
        chrome == IF l.history > 0 THEN HistoryChrome ELSE 0
    IN /\ l.rules <= rules /\ l.history <= Min({history, HistoryMax})
       /\ rules > 0 => /\ l.rules >= 1
                       /\ RulesHeaderLines + l.rules + RulesFooterLines + chrome + l.history <= height
                       /\ l.rules >= Min({rules, (height - 5) \div 2})

(* The tiles of the treemap cover its frame and do not overlap, in every   *)
(* frame in which it is drawn at all and with the eleven sectors built in: *)
(* a click selects the sector drawn there.                                 *)
ASSUME TilesCover ==
  \A n \in 1..11, w \in 10..40, h \in 3..14 :
    LET rects == LayoutTreemap(n, w, h)
    IN /\ FoldLeft(LAMBDA a, r : a + r.w * r.h, 0, rects) = w * h
       /\ \A i \in 1..n : /\ rects[i].w >= 1 /\ rects[i].h >= 1 /\ rects[i].x >= 0 /\ rects[i].y >= 0
                          /\ rects[i].x + rects[i].w <= w /\ rects[i].y + rects[i].h <= h
                          /\ \A j \in 1..(i - 1) : Disjoint(rects[i], rects[j])

(* A sector's tile that has the cursor is drawn; but a click selects the   *)
(* tile drawn under it only in the first row, or while keys, clicks and    *)
(* drawing count the same columns, and never once the tiles scrolled.      *)
ASSUME ClicksOnTiles ==
  \A w \in 0..100, h \in {5, 9, 13, 21}, n \in {1, 5, 14}, cursor \in 0..13 :
    LET d == Drawn(w, h, n, cursor)
        cells == {<<r, c>> \in (0..4) \X (0..(DrawnCols(w) - 1)) : DrawnTile(w, h, n, cursor, r, c) < d.end}
    IN cursor < n =>
         /\ cursor \in d.start..(d.end - 1)
         /\ (\A cell \in cells : ClickedTile(w, cell[1], cell[2]) = DrawnTile(w, h, n, cursor, cell[1], cell[2]))
              <=> d.start = 0 /\ (DrawnCols(w) = TileCols(w) \/ d.end <= DrawnCols(w))

Tickers == <<"a", "b", "c">>
Figures == UNION {[q -> {1, 2}] : q \in SUBSET ToSet(Tickers)}

(* Whatever is quoted, the order is of all symbols, with quoted ones first *)
(* and better ones before worse, equal ones as configured; unsorted it is  *)
(* the configured one.  "s" keeps the symbol selected, and enter in the    *)
(* search selects the symbol it shows (order, posOf, Update).              *)
ASSUME SelectionKept ==
  \A old \in Figures, new \in Figures, cursor \in 0..2 :
    LET a == Order(Tickers, old)
        b == Order(Tickers, new)
    IN /\ ToSet(b) = 1..3
       /\ \A p \in 1..2 : LET x == Tickers[b[p]] y == Tickers[b[p + 1]] IN
            ~Before(new, y, x) /\ (Before(new, x, y) \/ b[p] < b[p + 1])
       /\ SelectedSymbol(Tickers, b, Resorted(Tickers, a, b, cursor)) = SelectedSymbol(Tickers, a, cursor)
       /\ SelectedSymbol(Tickers, b, PosOf(b, cursor + 1)) = Tickers[cursor + 1]
       /\ [i \in 1..3 |-> Tickers[b[i]]] = RankSymbols(Tickers, new)
       /\ Order(Tickers, <<>>) = <<1, 2, 3>>

(* A sector's tiles keep their places while prices move, and are ranked    *)
(* anew only when the sector has other symbols (drilldownSymbols).         *)
ASSUME TilesStayPut ==
  \A first \in Figures, later \in Figures :
    LET frozen == RankSymbols(Tickers, first)
    IN /\ DrilldownSymbols(frozen, Tickers, later) = frozen
       /\ ToSet(DrilldownSymbols(frozen, <<"a", "b", "d">>, later)) = {"a", "b", "d"}

(* A query matches exactly the symbols it is a subsequence of, so another  *)
(* letter never brings a symbol back (fuzzyMatch, computeFiltered).        *)
ASSUME SearchNarrows ==
  LET words == UNION {[1..n -> {"x", "y"}] : n \in 0..4}
      within(q, w) == \E s \in SUBSET (1..Len(w)) :
        q = LET at == SelectSeq([i \in 1..Len(w) |-> i], LAMBDA i : i \in s) IN [k \in DOMAIN at |-> w[at[k]]]
  IN \A w \in words, q \in words :
       /\ FuzzyMatch(w, q) = within(q, w)
       /\ \A c \in {"x", "y"} : ToSet(ComputeFiltered(<<w>>, Append(q, c))) \subseteq ToSet(ComputeFiltered(<<w>>, q))
       /\ ComputeFiltered(<<w, q>>, <<>>) = <<1, 2>>

(* "[" undoes "]" in the watchlist's groups, and both stay within them.    *)
ASSUME GroupsTurn ==
  \A n \in 1..4, i \in 0..3 : i < n =>
    SwitchGroup(i, 1, n) \in 0..(n - 1) /\ SwitchGroup(SwitchGroup(i, 1, n), -1, n) = i

(* The chart shows what fits and what there is, "-" never shows fewer      *)
(* candles and "+" never more, unless fewer than MinZoom are seen already; *)
(* from the fitted window "-" changes nothing (zoomBy, visibleCount).      *)
ASSUME ZoomMoves ==
  \A fit \in {0, 1, 5, 10, 37, 60}, n \in {0, 1, 9, 10, 25, 200}, zoom \in {0, 10, 15, 30, 90}, auto \in BOOLEAN :
    LET seen == VisibleCount(zoom, auto, fit, n)
        after(delta) == VisibleCount(ZoomBy(delta, zoom, auto, fit, n), FALSE, fit, n)
    IN /\ seen <= fit /\ seen <= n /\ (auto => seen = Min({fit, n}))
       /\ after(ZoomStep) >= seen
       /\ after(-ZoomStep) <= Max({seen, Min({MinZoom, fit, n})})
       /\ auto => after(ZoomStep) = seen

(* In every frame in which tabs are drawn the active one is, the labels do *)
(* not overlap nor reach past the frame, they are tabs in a row, and a     *)
(* click on a label selects its tab (tabSegments, tabAtX).                 *)
ASSUME TabsWhereDrawn ==
  LET labels == <<7, 11, 8, 7, 7, 6, 9, 9, 8>>
  IN \A active \in 1..9, width \in 0..130 :
       LET segs == TabSegments(labels, active, width, 3, 6, 5)
       IN segs # <<>> =>
            /\ \E i \in DOMAIN segs : segs[i].tab = active
            /\ \A i \in DOMAIN segs :
                 /\ segs[i].start + segs[i].width <= width
                 /\ segs[i].tab = segs[1].tab + i - 1
                 /\ i > 1 => segs[i].start >= segs[i - 1].start + segs[i - 1].width + 3
                 /\ \A x \in segs[i].start..(segs[i].start + segs[i].width - 1) :
                      TabAtX(segs, x) = segs[i].tab
            /\ Last(segs).start + Last(segs).width + 6 <= width

(* Max pain is a strike of the chain, the least when only calls are open   *)
(* and the greatest when only puts are; what is an answer has no gaps.     *)
(* Without open interest any strike is one (MaxPain): two frames of the    *)
(* same chain can then differ.                                             *)
ASSUME PainWithinOpen ==
  \A open \in [{"c1", "c3", "p2", "p4"} -> 0..2] :
    LET chain == [calls |-> <<[strike |-> 1, open |-> open["c1"]], [strike |-> 3, open |-> open["c3"]]>>,
                  puts |-> <<[strike |-> 2, open |-> open["p2"]], [strike |-> 4, open |-> open["p4"]]>>]
        least == Min(MaxPain(chain))
        most == Max(MaxPain(chain))
    IN /\ MaxPain(chain) # {} /\ MaxPain(chain) \subseteq 1..4
       /\ (open["p2"] = 0 /\ open["p4"] = 0) => 1 \in MaxPain(chain)
       /\ (open["c1"] = 0 /\ open["c3"] = 0) => 4 \in MaxPain(chain)
       /\ \A s \in least..most : s \in MaxPain(chain)

(* The day's marker is inside its track, at its ends when the price is at  *)
(* or past the day's low or high, and moves with the price.                *)
ASSUME MarkerInTrack ==
  \A low \in 1..4, high \in 1..6, price \in 0..7, width \in 1..12 : low < high =>
    LET at == DayRange(price, low, high, width)
    IN /\ at \in 0..(width - 1) /\ DayRange(price + 1, low, high, width) >= at
       /\ (price <= low => at = 0) /\ (price >= high => at = width - 1)

(* A sparkline has a glyph per price seen, the newest at the right, the    *)
(* lowest at the bottom and the highest at the top unless all are equal.   *)
ASSUME SparkOrder ==
  \A prices \in UNION {[1..n -> 1..3] : n \in 1..4}, width \in 1..5 :
    LET s == Sparkline(prices, width)
        off == Len(prices) - Len(s)
    IN /\ Len(s) = Min({width, Len(prices)})
       /\ \A i \in DOMAIN s : s[i] \in 0..7
       /\ \A i, j \in DOMAIN s : prices[off + i] < prices[off + j] => s[i] < s[j]
       /\ 0 \in ToSet(s) /\ (7 \in ToSet(s) \/ Cardinality(ToSet(s)) = 1)

(* Spellings of one instrument are one symbol, where the first of them was *)
(* (canonicalAll); doing it twice changes nothing.                         *)
ASSUME OncePerInstrument ==
  LET canonical == [s \in {"", "btc", "BTC", "ETH"} |-> IF s = "btc" THEN "BTC" ELSE s]
  IN \A list \in UNION {[1..n -> {"", "btc", "BTC", "ETH"}] : n \in 0..4} :
       LET out == CanonicalAll(list, canonical)
       IN /\ ToSet(out) = {canonical[list[i]] : i \in DOMAIN list} \ {""}
          /\ Cardinality(ToSet(out)) = Len(out) /\ CanonicalAll(out, canonical) = out

(* The heatmap always has a sector to draw, and none without symbols; and  *)
(* a sector without any priced symbol has no change to show.               *)
ASSUME SectorsDrawn ==
  LET sector(name, symbols) == [name |-> name, symbols |-> symbols]
      some == {sector("", <<"a">>), sector("x", <<>>), sector("y", <<"a", "b">>)}
      default == <<sector("Default", <<"c">>)>>
  IN \A list \in UNION {[1..n -> some] : n \in 0..2} :
       LET out == NormalizeSectors(list, default)
       IN /\ out # <<>> /\ \A i \in DOMAIN out : out[i].symbols # <<>> /\ out[i].name # ""
          /\ \A i \in DOMAIN out : SectorChange(out[i].symbols, [c |-> [price |-> 0, change |-> 1]]).count = 0
=============================================================================
