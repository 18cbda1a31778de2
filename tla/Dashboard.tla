----------------------------- MODULE Dashboard -----------------------------
(***************************************************************************)
(* The dashboard's root model (internal/tui/app.go) and the surfaces that  *)
(* load something on their own: the detail panel with its order book, the  *)
(* chart and the comparison, the symbol card and the options chain.        *)
(*                                                                         *)
(* One event loop handles keys, clicks and answers one at a time; loads    *)
(* and streams run beside it and answer when they like, in any order.      *)
(* Everything drawn beneath a title was asked for under some title: the    *)
(* hazard is that by the time it comes the title is another one.           *)
(*                                                                         *)
(* The symbol a Watch key acts on is any of the watchlist: its cursor is   *)
(* module Views's.  Prices, bars and books are told apart by what they are *)
(* of.  The delete prompt's effect on the rules is RulePersistence's.      *)
(***************************************************************************)
EXTENDS Integers, Sequences, SequencesExt

CONSTANTS
  Symbols,        \* what the watchlist can have selected
  Crypto,         \* those that have an order book
  Intervals,      \* the chart's intervals, counted from 1
  MaxCompare,     \* maxCompareSymbols
  CacheSize,      \* historyCacheSize
  MaxInputs       \* bound: the keys and clicks of a session

ASSUME DashboardAssumption ==
  /\ Crypto \subseteq Symbols /\ "none" \notin Symbols
  /\ Intervals \in Nat \ {0} /\ MaxCompare \in Nat \ {0} /\ CacheSize \in Nat \ {0}
  /\ MaxInputs \in Nat

VARIABLES
  app,       \* App: what has the keys, and whether the program has ended
  detail,    \* detail.Model
  streams,   \* the level-2 goroutines: of which symbol, and not cancelled
  chart,     \* chart.Model
  cache,     \* its historyCache: the keys, oldest first
  compare,   \* chart.CompareModel
  card,      \* symbolinfo.Model
  options,   \* options.Model
  loads,     \* the commands under way, and answers not yet handled
  inputs     \* keys and clicks so far

dashboardVars == <<app, detail, streams, chart, cache, compare, card, options, loads, inputs>>

Tabs == {"Watch", "Alerts", "Chart", "Options"}   \* the other tabs open nothing: as Options
NoData == [symbol |-> "none", interval |-> 0]

DashboardInit ==
  /\ app = [tab |-> "Watch", palette |-> FALSE, search |-> FALSE, help |-> FALSE, dialog |-> FALSE,
            prompt |-> FALSE, alertsConfirming |-> FALSE, over |-> FALSE]
  /\ detail = [active |-> FALSE, symbol |-> "none", quote |-> "none", book |-> "none"]
  /\ streams = {}
  /\ chart = [active |-> FALSE, symbol |-> "none", interval |-> Intervals, data |-> NoData,
              loading |-> FALSE, failed |-> FALSE, menu |-> FALSE, reqSeq |-> 0]
  /\ cache = <<>>
  /\ compare = [active |-> FALSE, symbols |-> <<>>, interval |-> Intervals, entries |-> <<>>,
                loading |-> FALSE, reqSeq |-> 0]
  /\ card = [active |-> FALSE, loading |-> FALSE, shown |-> "none"]
  /\ options = [symbol |-> "none", loading |-> FALSE, chain |-> "none", failed |-> FALSE]
  /\ loads = {} /\ inputs = 0

-----------------------------------------------------------------------------
(* Loads.  A command carries what it was asked, never what is shown now.   *)

Load(of, symbols, interval, seq, answer) ==
  [of |-> of, symbols |-> symbols, interval |-> interval, seq |-> seq, answer |-> answer]
Begin(load) == loads' = loads \cup {load}

(* The history cache: bounded, the first to come goes first, and a series  *)
(* that is fetched again keeps its place.                                  *)
Put(keys, key) ==
  LET all == IF Contains(keys, key) THEN keys ELSE Append(keys, key)
  IN IF Len(all) > CacheSize THEN Tail(all) ELSE all
Drop(keys, key) == SelectSeq(keys, LAMBDA k : k # key)

(* A series that is cached and fresh is an answer already; one that is not *)
(* cached, or too old, is fetched.                                         *)
FetchHistory(c) ==
  LET key == <<c.symbol, c.interval>>
      seq == c.reqSeq + 1
      ask(answer) == Begin(Load("chart", <<c.symbol>>, c.interval, seq, answer))
  IN \/ /\ Contains(cache, key) /\ ask("ok")
        /\ chart' = [c EXCEPT !.reqSeq = seq, !.loading = FALSE]
        /\ UNCHANGED cache
     \/ /\ cache' = Drop(cache, key) /\ ask("none")
        /\ chart' = [c EXCEPT !.reqSeq = seq, !.loading = TRUE]

FetchAll(c) ==
  /\ compare' = [c EXCEPT !.reqSeq = @ + 1, !.loading = TRUE]
  /\ Begin(Load("compare", c.symbols, c.interval, c.reqSeq + 1, "none"))

(* A load ends, well or badly; a request that was cancelled may still      *)
(* answer, and what it fetched is kept, but not a series without a bar.    *)
Fetched(l) ==
  /\ l.answer = "none"
  /\ \E answer \in {"ok", "failed"} :
       /\ loads' = (loads \ {l}) \cup {[l EXCEPT !.answer = answer]}
       /\ cache' \in {cache} \cup (IF l.of = "chart" /\ answer = "ok"
                               THEN {Put(cache, <<l.symbols[1], l.interval>>)} ELSE {})
  /\ UNCHANGED <<app, detail, streams, chart, compare, card, options, inputs>>

-----------------------------------------------------------------------------
(* Answers *)

SlipAcceptsBySymbol(c, l) == l.symbols[1] = c.symbol
Accepts(c, l) == l.seq = c.reqSeq /\ l.symbols[1] = c.symbol
ChartAnswered(l) ==
  IF ~Accepts(chart, l) THEN chart
  ELSE IF l.answer = "ok"
       THEN [chart EXCEPT !.data = [symbol |-> l.symbols[1], interval |-> l.interval],
                          !.loading = FALSE, !.failed = FALSE]
       ELSE [chart EXCEPT !.loading = FALSE, !.failed = TRUE]

(* The series that came, in the order they were asked for.                 *)
Came(symbols, got) == SelectSeq(symbols, LAMBDA s : s \in got)
Entries(symbols, interval) == [i \in 1..Len(symbols) |-> [symbol |-> symbols[i], interval |-> interval]]
WithoutSymbol(entries, sym) == SelectSeq(entries, LAMBDA e : e.symbol # sym)
CompareAnswered(l, got) ==
  IF l.seq # compare.reqSeq THEN compare
  ELSE [compare EXCEPT !.loading = FALSE, !.entries = Entries(Came(l.symbols, got), l.interval)]

CardAnswered(l) ==
  [card EXCEPT !.loading = FALSE, !.shown = IF l.answer = "ok" THEN l.symbols[1] ELSE @]
OptionsAnswered(l) ==
  [options EXCEPT !.loading = FALSE, !.chain = IF l.answer = "ok" THEN l.symbols[1] ELSE @,
                  !.failed = @ \/ l.answer # "ok"]

(* A book of another symbol is not shown; a failed one is no message.      *)
BookShown(symbol) == [detail EXCEPT !.book = IF symbol = detail.symbol THEN symbol ELSE @]
BookAnswered(l) == IF l.answer = "ok" THEN BookShown(l.symbols[1]) ELSE detail

SlipAsyncTargetsForgetsOne == {"chart", "options", "detail", "card"}
AsyncTargets == {"chart", "options", "compare", "detail", "card"}

(* An answer is offered to every surface that may have asked, whatever is  *)
(* on screen; only the one whose type of message it is takes it.           *)
RouteAsyncResult(l) ==
  /\ l.answer # "none" /\ loads' = loads \ {l}
  /\ LET taken(of) == l.of = of /\ of \in AsyncTargets
     IN /\ chart' = IF taken("chart") THEN ChartAnswered(l) ELSE chart
        /\ \E got \in IF taken("compare") THEN SUBSET ToSet(l.symbols) ELSE {{}} :
             compare' = IF taken("compare") THEN CompareAnswered(l, got) ELSE compare
        /\ card' = IF taken("card") THEN CardAnswered(l) ELSE card
        /\ options' = IF taken("options") THEN OptionsAnswered(l) ELSE options
        /\ detail' = IF taken("detail") THEN BookAnswered(l) ELSE detail
  /\ UNCHANGED <<app, streams, cache, inputs>>

(* A stream sends books until it ends, which it does once it is cancelled; *)
(* what it had on the way still comes.                                     *)
StreamSends(s) ==
  /\ detail' = IF "detail" \in AsyncTargets THEN BookShown(s.symbol) ELSE detail
  /\ UNCHANGED <<app, streams, chart, cache, compare, card, options, loads, inputs>>
StreamEnds(s) ==
  /\ ~s.running /\ streams' = streams \ {s}
  /\ UNCHANGED <<app, detail, chart, cache, compare, card, options, loads, inputs>>

(* A quote is the detail panel's if it is of its symbol.  What the panel   *)
(* had of the symbol before stays until then.                              *)
UpdateQuote(s) ==
  /\ s = detail.symbol /\ detail' = [detail EXCEPT !.quote = s]
  /\ UNCHANGED <<app, streams, chart, cache, compare, card, options, loads, inputs>>

-----------------------------------------------------------------------------
(* Who has the keys, and what is on top *)

Up == [palette |-> app.palette, search |-> app.tab = "Watch" /\ app.search, help |-> app.help,
       dialog |-> app.dialog, card |-> card.active, prompt |-> app.tab = "Alerts" /\ app.alertsConfirming,
       detail |-> detail.active, chart |-> chart.active, compare |-> compare.active, tab |-> TRUE]
FirstUp(order) == order[CHOOSE i \in DOMAIN order : Up[order[i]] /\ \A j \in 1..(i - 1) : ~Up[order[j]]]

KeyOrder == <<"palette", "search", "help", "dialog", "card", "prompt", "detail", "chart", "compare", "tab">>
KeysGoTo == FirstUp(KeyOrder)
ModalActive == app.palette \/ app.dialog \/ card.active \/ app.help

(* What View draws over everything else, the palette's line aside.         *)
ViewOrder == <<"chart", "compare", "detail", "help", "card", "dialog", "search", "tab">>
Top == FirstUp(ViewOrder)

StopLive == {[s EXCEPT !.running = FALSE] : s \in streams}

(* An input at a surface; past the alerts prompt the mirror of that prompt *)
(* is down.                                                                *)
Input == ~app.over /\ inputs < MaxInputs /\ inputs' = inputs + 1
KeyAt(surface) == Input /\ KeysGoTo = surface
Unarmed == [app EXCEPT !.alertsConfirming = FALSE]
TabKey == KeyAt("tab")
WatchKey == TabKey /\ app.tab = "Watch" /\ app' = Unarmed

-----------------------------------------------------------------------------
(* Keys *)

KeyInPalette ==
  /\ KeyAt("palette")
  /\ \/ app' = [app EXCEPT !.palette = FALSE]
     \/ \E t \in Tabs : app' = [app EXCEPT !.palette = FALSE, !.tab = t]
     \/ app' = [app EXCEPT !.palette = FALSE, !.over = TRUE]
  /\ UNCHANGED <<detail, streams, chart, cache, compare, card, options, loads>>

KeyInSearch ==
  /\ KeyAt("search") /\ app' = [app EXCEPT !.search = FALSE]
  /\ UNCHANGED <<detail, streams, chart, cache, compare, card, options, loads>>

KeyInHelp ==
  /\ KeyAt("help") /\ app' = [app EXCEPT !.help = FALSE]
  /\ UNCHANGED <<detail, streams, chart, cache, compare, card, options, loads>>

OpenPalette ==
  /\ Input /\ KeysGoTo \notin {"palette", "search", "help"}
  /\ app' = [app EXCEPT !.palette = TRUE]
  /\ UNCHANGED <<detail, streams, chart, cache, compare, card, options, loads>>

KeyInDialog ==
  /\ KeyAt("dialog") /\ app' = [app EXCEPT !.dialog = FALSE]
  /\ UNCHANGED <<detail, streams, chart, cache, compare, card, options, loads>>

KeyInCard ==
  /\ KeyAt("card") /\ card' = [card EXCEPT !.active = FALSE]
  /\ UNCHANGED <<app, detail, streams, chart, cache, compare, options, loads>>

(* Any key resolves the prompt, and the mirror goes with it.               *)
KeyAtPrompt ==
  /\ KeyAt("prompt") /\ app' = [app EXCEPT !.alertsConfirming = FALSE, !.prompt = FALSE]
  /\ UNCHANGED <<detail, streams, chart, cache, compare, card, options, loads>>

Quit ==
  /\ Input /\ KeysGoTo \in {"detail", "chart", "compare", "tab"}
  /\ app' = [Unarmed EXCEPT !.over = TRUE]
  /\ UNCHANGED <<detail, streams, chart, cache, compare, card, options, loads>>

CloseDetail ==
  /\ KeyAt("detail") /\ app' = Unarmed
  /\ detail' = [detail EXCEPT !.active = FALSE] /\ streams' = StopLive
  /\ UNCHANGED <<chart, cache, compare, card, options, loads>>

(* The menu of indicators takes every key of the chart until "i" or "esc"  *)
(* closes it.                                                              *)
ChartKey == Input /\ app' = Unarmed /\ (KeysGoTo = "chart" \/ (KeysGoTo = "tab" /\ app.tab = "Chart"))
IndicatorMenu ==
  /\ ChartKey /\ chart' = [chart EXCEPT !.menu = ~@]
  /\ UNCHANGED <<detail, streams, cache, compare, card, options, loads>>

CloseChart ==
  /\ KeyAt("chart") /\ ~chart.menu /\ app' = Unarmed
  /\ chart' = [chart EXCEPT !.active = FALSE]
  /\ UNCHANGED <<detail, streams, cache, compare, card, options, loads>>
(* The keys of the Chart tab reach the chart although it is not drawn.     *)
ChartInterval ==
  /\ ChartKey /\ ~chart.menu
  /\ \E i \in {chart.interval - 1, chart.interval + 1} \cap (1..Intervals) :
       IF chart.symbol = "none" THEN chart' = [chart EXCEPT !.interval = i] /\ UNCHANGED <<cache, loads>>
       ELSE FetchHistory([chart EXCEPT !.interval = i])
  /\ UNCHANGED <<detail, streams, compare, card, options>>

CloseCompare ==
  /\ KeyAt("compare") /\ app' = Unarmed
  /\ compare' = [compare EXCEPT !.active = FALSE]
  /\ UNCHANGED <<detail, streams, chart, cache, card, options, loads>>
CompareInterval ==
  /\ KeyAt("compare") /\ app' = Unarmed
  /\ \E i \in {compare.interval - 1, compare.interval + 1} \cap (1..Intervals) :
       FetchAll([compare EXCEPT !.interval = i])
  /\ UNCHANGED <<detail, streams, chart, cache, card, options>>

(* The symbol added last goes, and with the last of all the chart.         *)
CompareDrop ==
  /\ KeyAt("compare") /\ app' = Unarmed /\ compare.symbols # <<>>
  /\ LET left == [compare EXCEPT !.symbols = Front(@), !.entries = WithoutSymbol(@, Last(compare.symbols))]
     IN IF left.symbols = <<>> THEN compare' = [left EXCEPT !.active = FALSE] /\ UNCHANGED loads
        ELSE FetchAll(left)
  /\ UNCHANGED <<detail, streams, chart, cache, card, options>>

OpenHelp ==
  /\ TabKey /\ app' = [Unarmed EXCEPT !.help = TRUE]
  /\ UNCHANGED <<detail, streams, chart, cache, compare, card, options, loads>>
SwitchTab ==
  /\ TabKey /\ \E t \in Tabs : app' = [Unarmed EXCEPT !.tab = t]
  /\ UNCHANGED <<detail, streams, chart, cache, compare, card, options, loads>>

(* The panel forgets the book and the stream of the symbol it showed, but  *)
(* not its quote.                                                          *)
OpenDetail ==
  /\ WatchKey
  /\ \E s \in Symbols :
       /\ detail' = [detail EXCEPT !.active = TRUE, !.symbol = s, !.book = "none"]
       /\ streams' = StopLive \cup {[symbol |-> t, running |-> TRUE] : t \in {s} \cap Crypto}
       /\ IF s \in Crypto THEN Begin(Load("detail", <<s>>, 0, inputs, "none")) ELSE UNCHANGED loads
  /\ UNCHANGED <<chart, cache, compare, card, options>>
OpenChart ==
  /\ WatchKey
  /\ \E s \in Symbols : FetchHistory([chart EXCEPT !.symbol = s, !.active = TRUE, !.failed = FALSE])
  /\ UNCHANGED <<detail, streams, compare, card, options>>
AddToCompare ==
  /\ WatchKey
  /\ \E s \in Symbols \ ToSet(compare.symbols) :
       Len(compare.symbols) < MaxCompare /\ compare' = [compare EXCEPT !.symbols = Append(@, s)]
  /\ UNCHANGED <<detail, streams, chart, cache, card, options, loads>>
OpenCompare ==
  /\ WatchKey /\ compare.symbols # <<>> /\ FetchAll([compare EXCEPT !.active = TRUE])
  /\ UNCHANGED <<detail, streams, chart, cache, card, options>>
OpenDialog ==
  /\ TabKey /\ app.tab = "Watch" /\ app' = [Unarmed EXCEPT !.dialog = TRUE]
  /\ UNCHANGED <<detail, streams, chart, cache, compare, card, options, loads>>
OpenCard ==
  /\ WatchKey
  /\ \E s \in Symbols :
       /\ card' = [active |-> TRUE, loading |-> TRUE, shown |-> s]
       /\ Begin(Load("card", <<s>>, 0, inputs, "none"))
  /\ UNCHANGED <<detail, streams, chart, cache, compare, options>>
OpenOptions ==
  /\ TabKey /\ app.tab = "Watch" /\ app' = [Unarmed EXCEPT !.tab = "Options"]
  /\ \E s \in Symbols :
       /\ options' = [options EXCEPT !.symbol = s, !.loading = TRUE, !.failed = FALSE]
       /\ Begin(Load("options", <<s>>, 0, inputs, "none"))
  /\ UNCHANGED <<detail, streams, chart, cache, compare, card>>
StartSearch ==
  /\ TabKey /\ app.tab = "Watch" /\ app' = [Unarmed EXCEPT !.search = TRUE]
  /\ UNCHANGED <<detail, streams, chart, cache, compare, card, options, loads>>

(* "d" at the alerts tab raises the prompt and its mirror; any key the tab *)
(* gets while the prompt is up resolves it, and "d" raises the mirror all  *)
(* the same.                                                               *)
KeyAtAlerts ==
  /\ TabKey /\ app.tab = "Alerts"
  /\ \E d \in BOOLEAN : app' = [app EXCEPT !.alertsConfirming = d, !.prompt = d /\ ~app.prompt]
  /\ UNCHANGED <<detail, streams, chart, cache, compare, card, options, loads>>

-----------------------------------------------------------------------------
(* The mouse: a click on a tab's name closes the panel that covers the tab *)

ClickTab ==
  /\ Input /\ ~chart.active /\ ~compare.active /\ ~ModalActive
  /\ \E t \in Tabs : app' = [app EXCEPT !.tab = t]
  /\ detail' = [detail EXCEPT !.active = FALSE] /\ streams' = StopLive
  /\ UNCHANGED <<chart, cache, compare, card, options, loads>>

Key ==
  \/ KeyInPalette \/ KeyInSearch \/ KeyInHelp \/ OpenPalette \/ KeyInDialog \/ KeyInCard \/ KeyAtPrompt
  \/ Quit \/ CloseDetail \/ CloseChart \/ IndicatorMenu \/ ChartInterval
  \/ CloseCompare \/ CompareInterval \/ CompareDrop \/ OpenHelp \/ SwitchTab \/ OpenDetail \/ OpenChart \/ AddToCompare \/ OpenCompare \/ OpenDialog
  \/ OpenCard \/ OpenOptions \/ StartSearch \/ KeyAtAlerts

DashboardNext ==
  \/ Key \/ ClickTab
  \/ ~app.over /\ \/ \E l \in loads : Fetched(l) \/ RouteAsyncResult(l)
                  \/ \E s \in streams : StreamSends(s) \/ StreamEnds(s)
                  \/ \E s \in Symbols : UpdateQuote(s)

(* Every load has a deadline, and the loop handles what it is sent.        *)
DashboardSpec == DashboardInit /\ [][DashboardNext]_dashboardVars
        /\ WF_dashboardVars(~app.over /\ \E l \in loads : Fetched(l))
        /\ WF_dashboardVars(~app.over /\ \E l \in loads : RouteAsyncResult(l))

-----------------------------------------------------------------------------
(* Properties *)

(* The chart draws bars of the symbol and the interval in its header,      *)
(* unless it says it is loading, the newest request has failed, or its     *)
(* answer is on its way from the cache (fetchHistory, accepts).            *)
ChartTitled ==
  \/ chart.symbol = "none" \/ chart.loading \/ chart.failed
  \/ chart.data = [symbol |-> chart.symbol, interval |-> chart.interval]
  \/ \E l \in loads : l.of = "chart" /\ l.seq = chart.reqSeq /\ l.answer = "ok"

(* The comparison draws series of the symbols in its legend, in that order *)
(* and all at the interval in its header (fetchAll, the "x" key).          *)
CompareTitled ==
  compare.active /\ ~compare.loading =>
    \E got \in SUBSET ToSet(compare.symbols) :
      compare.entries = Entries(Came(compare.symbols, got), compare.interval)

(* The order book is of the symbol in the panel's title, and a stream is   *)
(* open only for the symbol of an open panel, one at most: what closes or  *)
(* moves the panel ends it (SetSymbol, SetActive, forThisSymbol).          *)
BookTitled ==
  /\ detail.book \in {"none", detail.symbol}
  /\ \A s \in streams : s.running => detail.active /\ s.symbol = detail.symbol

(* What has the keys is what the frame shows on top (handleKey, View): at  *)
(* most one of the surfaces that take every key is up, whatever opened it. *)
KeysReachTheTop ==
  /\ ~app.palette => KeysGoTo = Top \/ (KeysGoTo = "prompt" /\ Top = "tab")
  /\ \A x, y \in {"dialog", "help", "card", "detail", "chart", "compare"} : Up[x] /\ Up[y] => x = y

(* What says it is loading has asked: there is a load whose answer it      *)
(* would take, so a series cancelled or overtaken, a symbol dropped or a   *)
(* surface closed leaves no spinner behind (reqSeq, loading).              *)
LoadingAsked ==
  /\ chart.loading => \E l \in loads : l.of = "chart" /\ Accepts(chart, l)
  /\ compare.loading => \E l \in loads : l.of = "compare" /\ l.seq = compare.reqSeq
  /\ card.loading => \E l \in loads : l.of = "card"
  /\ options.loading => \E l \in loads : l.of = "options"

DashboardInv == ChartTitled /\ CompareTitled /\ BookTitled /\ KeysReachTheTop /\ LoadingAsked

Loading == [chart |-> chart.loading, compare |-> compare.loading, card |-> card.loading,
            options |-> options.loading]

(* Nothing says that it is loading for ever: its answer reaches it         *)
(* wherever the user has gone meanwhile (routeAsyncResult, bindSurfaces).  *)
LoadsEnd ==
  \A s \in {"chart", "compare", "card", "options"} : []<>(~Loading[s] \/ app.over)
=============================================================================
