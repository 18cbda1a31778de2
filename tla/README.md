# mkt in TLA+

`mkt` is a terminal dashboard for market data: providers stream quotes into a
hub, the hub feeds a cache, an alert engine and any number of dashboard
sessions (one local program, or many over SSH with `mkt serve`). These modules
model the parts of it that run concurrently or keep state across a long
sequence of calls, and the pure functions that decide what it shows; they check
them with TLC and prove with TLAPS what matters most about the hub, the
broadcaster, the cache, the alert engine, the notifiers, the rules' way to the
file and the config store. Paths below are relative to `src/`.

## The system

```
 Coinbase WS ─┐                      ┌─ observer queue ── alert Check ── onAlert ─┐
 Yahoo poll  ─┼─ quoteCh ── reader ──┤                        └── notifier queues   │
 replay      ─┘   (128)       │      └─ dispatchCh (256) ── onQuote ───────────────┤
                              ▼                                                   ▼
     history ── backfill ── cache ── correlation memo, watchlist, ...   broadcaster.Send
                                                                          │ one ring each
     config.yaml ◄── persistence ◄── rule edits ◄── sessions ◄────────────┘
```

| Component | State | Operations | Hard part | What makes it correct |
|---|---|---|---|---|
| Hub, `internal/market/hub.go` | channels, observers with queue and taken batch, drop counters | Start, AddObserver, notify, shutdown | four kinds of goroutine, wedged consumers, registration and shutdown at any time | observers get every quote in order until a bounded valve opens; every loss is counted; nobody waits for a wedged consumer |
| Cache, `internal/market/cache.go` | ring and last quote per symbol, seeded set, generation | Push, Seed, Series, Generation | backfill racing live quotes; the generation read without the lock | history never displaces live data; a memo keyed by the generation is never stale |
| Backfill, `cmd/dataplane_seed.go` | four slots, requests under way | seedCache | failures, timeout, shutdown while asking for a slot | every symbol seeded or failed; it returns |
| Correlation tab, `internal/tui/correlation` | memo | matrixFor | reads several rings one by one | see the cache |
| Broadcaster, `internal/broadcast` | subscribers, ring and drop counter each, retired count | Add, Remove, Send, Drops, pumps | concurrent Sends against joining, leaving and wedged sessions | newest wins, counted, in order; isolation; no leaked pump |
| Alert engine, `internal/alert/engine.go` | rules; cooldown, edge, progress and warning per rule; baselines per symbol | Check, SetRules, AddRule, RemoveRule, ToggleRule, Inject, Flush | long sequences: edges through cooldowns, latches, rules that come and go between checks | the alerts are those the history of the conditions calls for |
| Notifiers, `internal/alert/dispatch.go`, `history.go`, `cmd/daemon.go` | queues of 64 and limiter per destination, inflight and drop counts, the history file | send, pump, Notify, Flush, Append, Compact, webhook handler, shutdown | full queue, rate limit, 5 s timeout against a 3 s Flush, two processes on one file | no caller waits; inflight returns to zero; every drop is counted; "drained" means settled |
| Alerts tab and persistence, `internal/tui/alerts`, `cmd/backend.go` | pending channel of one, debounce timer, writable flag, cursors | edits, persistRules | several sessions; callbacks outside the lock; shutdown | the file ends up with the rules in force |
| Config store, `internal/config` | config.yaml and its backups | Load, SaveSafely, Backup, RestoreBackup | two writers, crash between steps, same-second backups | no silent loss of settings; the newest backups are kept |
| Coinbase, `internal/provider/coinbase` | connection, backoff, status channel, order book | Subscribe, connect, keepAlive, StreamOrderBook | reconnects, lossy status, throttle | the delay is bounded and reset; a dead connection is given up; the book shown is one the server had |
| Yahoo, `internal/provider/yahoo` | session and crumb, failures, rate gate | Subscribe, getJSON, fallback | retries of concurrent requests, lost sessions | a cycle's requests are bounded; health follows the calls; a chart that is asked for comes back |
| Recording and replay, `internal/provider/recording`, `cmd/backend_record.go` | file, copiers' channels | tee, Close, replay, preserved captures | cancellation between copying and sending | what was delivered is in the capture |
| Indicators, `internal/indicator`; portfolio, `internal/portfolio`, `internal/importer` | none | pure functions | boundaries, gaps, non-finite values | the laws below |
| Dashboard, `internal/tui` | one model per program; loads and streams beside it | Update, View | answers that come late, modal state, cursors against lists that change | what is drawn beneath a title is of that title; keys go to what is on top; loads end |
| HTTP API and metrics, `internal/api`, `internal/observe` | histograms | requests | flags and tokens in any combination | nothing is open without a token that should not be |
| Other feeds, `internal/news`, `fred`, `binance`, `calendar`, `defillama` | none | fetches on a timer | halves that failed, limits | the laws below |
| MCP server, backtest | none | requests | see "Not modelled" | |

`PROJECT.json` lists every component with its status, and under `hazards` what
is hard to test in each, at its line.

## Modules

| Module | Models |
|---|---|
| `LossyFifo` | what every hand-off queue of mkt promises to each of its consumers: in order, at most once, every loss counted, closing only winds down |
| `Hub` | the hub; a quote is its arrival number, and the step between caching a quote and fanning it out is visible to AddObserver; its observer queues and its dispatch path as instances of `LossyFifo` |
| `Cache` | the cache's rings, seeding and generation; a write moves the counter as its last step |
| `DataPlane` | the reader, the backfill pool and the correlation tab, all using one `Cache` |
| `Broadcast` | the broadcaster, its Sends as one visit per queue under the read lock, its sessions and pumps; each session's queue as an instance of `LossyFifo` |
| `BroadcastDrops` | `Broadcast` with the poller that reads Drops |
| `AlertConditions` | what a condition says of a quote or of the cached prices, with SMA, RSI and standard deviation in exact arithmetic |
| `AlertEngine` | Check, one rule per step under the engine's lock, and the rule edits of the sessions |
| `RulePersistence` | the way of a rule edit from a key press to config.yaml: sessions, the engine's callback, the persistence goroutine, shutdown |
| `ConfigStore` | config.yaml and its backups under several processes, file operation by file operation |
| `Delivery` | from an alert to its destinations: registration, the check and the webhook as producers, queues, limiter, pumps with their deadline, Flush and the end of the process; each destination's queue as an instance of `LossyFifo` |
| `AlertHistory` | the history file and its compaction under two processes; `Delivery` extends it |
| `ReadAPI` | the HTTP surface as functions of a request, tokens and keys; quoting, cleaning and redacting of text that leaves the process; histograms and the registry behind `/metrics` |
| `Recording` | providers, the copiers of a capture, the hub's channel; preserved captures and replay as operators |
| `CoinbaseFeed` | the two WebSocket streams: dial, read, ping, back off, status; the level-2 book between the server, a session and the screen |
| `YahooClient` | the quote poll and the charts over one session, one gate and one retry policy |
| `Feeds` | the composition of the three, with what a configuration makes run |
| `Symbols`, `FeedData` | spellings and routing; what each feed makes of an answer |
| `Ratio` | exact fractions with a NaN, for the pure modules |
| `Indicators` | the indicators under a chart |
| `Portfolio`, `Performance` | lots, gains, valuation; statistics, correlation, beta, the equity file |
| `Imports` | brokers' files, and which of their transactions are new |
| `ConfigFile` | what a configuration is written as, what a write removes, validation, watch-list edits |
| `FigureLaws`, `FileLaws` | the laws of those modules, each over every short input |
| `Dashboard` | the root model, its surfaces that load, their loads and streams |
| `Views` | what the tabs compute: layouts, windows, hit-tests, orders, searches |
| `HubProofs`, `AlertEngineProofs`, `DeliveryProofs` | theorems about the module of that name |
| `DataPlaneProofs` | theorems about the cache with its users, and about the feeds |
| `SessionProofs` | theorems about `Broadcast` and `Dashboard`: what a session is handed and what it draws |
| `PersistenceProofs` | theorems about `RulePersistence` and `ConfigStore`: what reaches config.yaml and what it holds |
| `SequenceLemmas` | what those proofs share about sequences: filters, concatenations, shifts |
| `MC...` | instances for TLC |

How state and actions correspond to the code:

* **Hub.** `subs`, `unroutable` are what `route` computes; `quoteCh`,
  `dispatchCh` the channels; `reader`, `dispatcher` where those goroutines are;
  `registered`, `hubStopped` the hub's fields, `toStop` the slice that
  `stopObservers` copied; `queue`, `batch`, `stopped` an observer's queue, the
  rest of the batch `run` took, and its flag. `Receive` and `FanOut` are the two
  halves of the reader's case; `Take`, `Deliver`, `PumpExit` are `run`. A wedged
  callback is one whose `Deliver` is not fair. `onQuote` is whether Start was
  given a callback; without one nothing is dispatched. A spelling may canonicalize
  to nothing (`NoSymbol`), and is then neither routed nor reported. `arrivals`,
  `got`, `since`, `lost`, `discarded`, `shown` are history.
* **Cache and DataPlane.** `holder` is the write lock. Samples are numbered in
  the order they were pushed, history with negative numbers, so that a ring's
  content says which samples survived. `fetching` and `Slots` are the requests
  and slots of `seedCache`; `memo` and `pending` the matrix memo and the
  computation under way.
* **Broadcast.** `sending` are the goroutines that hold the read lock in `Send`,
  `todo` the queues they have still to visit; `Add` and `RemoveSession` (the
  code's `Remove`) need `sending = {}`. `Stop` is a step of its own, because
  `Remove` calls it outside the lock. A session's queue is the code's ring: `buf`,
  `head` and `count`, with the index arithmetic of `push` and `next`; its slots hold
  positions in `pushed`, the history of what the session was offered. `queue` reads
  the ring from its head.
* **AlertEngine.** `check` holds the locals of the Check that has the lock and
  its position in the rule loop. The per-rule maps are total, with a value that
  stands for a missing entry, which the code never tells from it; a reference price
  that is missing is `NoPrice`, which is no price. `log` and
  `reports` are history: for each rule content, what its conditions said at each
  evaluation and whether it alerted, and each time it was short of history,
  whether that was reported; `pruneStateLocked` forgets them with the rest, so
  they begin when the rule does. The cache is only the series of a symbol here, and
  it is ahead of the observer's queue, as it is in the hub.

* **RulePersistence.** `at` is where a session's goroutine is in `Update` or in
  the callback, `seen` the copy of the rules the handler works on, `snapshot` the
  rules the engine hands to the callback after it has unlocked. An event is two
  steps, the copy and the decision, since other sessions edit in between.
  `pending` is the channel, `latest`, `armed`, `timer`, `saver` the locals of the
  goroutine. SaveSafely is one step with the outcomes it can have. A config that
  is not writable at the start has no goroutine and no callback (`saver` is "off"):
  edits stay in the engine. `Return` is the end of the process, which waits for
  nobody. `asked`, `lastSent`, `late` and `overlapped` are history. `Events` are the events an instance has; adding
  a rule is the dialog's last step.
* **ConfigStore.** A process is a record of its locals and of the operation that
  comes next (`pc`). What a file holds is a set of things the user could lose;
  `Broken` does not parse, `Torn` is a file half written. `SaveSafely` is
  `Read`, `Examine`, `Confirm`, then `Backup` (`BackupRead`, `BackupName`,
  `Create`, `Fill`, `RenameBackup`, `Prune`), then `Create`, `Fill`,
  `RenameConfig`; a restore reads its backup (`Restore`), looks whether there is a
  file to back up (`RestoreStat`) and joins there; a seed joins at `Create`. The
  search for a free name is one step, and so is a listing with its removals, of
  which any may fail; the bounds stay below the hundred names a second has.
  `born`, `made` and `stale` are history: which backup was made when, and
  whether the file changed after the process last looked at it.

* **Delivery.** `conf` are the flags and the configuration, fixed at the start;
  `Registered` is `registerNotifiers`. A producer takes a destination after the
  other: `CountIn` adds to inflight, `Send` queues or drops, as two steps, since
  the counter is added to before the send. `Take`, `Answer`, `Deadline`, `Settle`
  are the pump; a destination's `Answer` may never come, its `Deadline` does.
  `phase` is how far the end has come: cancelled, HTTP surface shut, flushing,
  "drained" or "gave up", exited. `mark`, `taken`, `overflowed`, `limited` are
  history. In `AlertHistory` `at` is where a process is between opening the file
  and renaming over it; `racing` are the lines whose append overlapped the
  other process's compaction, which the code may lose. An append may fail
  (`AppendFails`: the file cannot be opened, the line not encoded or not written);
  what a write that was cut short leaves in the file is left out. The other
  process's lines are -1, -2, and so on.
* **Feeds.** A stream's `phase` is dialing, subscribing, live, down, waiting: the
  dial has a time limit, the write of the subscription has none of its own and
  ends when the network takes or refuses it or the context is done. `wire` is what
  the network makes of a connection (good, standing still, broken), which the
  program sees only by errors and unanswered pings. `served` is every book the
  server had; `told` and `transit` are how far the session has been told. In
  `YahooClient` `at` is where a caller is in `getJSON` (waiting for the session,
  the cooldown or a token, the request in flight, asleep before a retry for any
  time within the jitter), and an answer is one of nine outcomes; a body that
  decodes makes the client healthy, also when it has no quotes ("empty": no
  fallback) or an error of Yahoo's own ("refused": the batch falls back to
  charts). A caller that waits for the session goes on only when its holder is
  through, cancelled or not. `tee`, `hand` and `out` are the channel, the
  quote in hand of a copier, and the hub's channel. Time is one `Tick` for all.
* **Dashboard.** One record per surface with the fields that decide what is
  drawn; data are named by what they are of. `loads` are commands: each carries
  what it was asked (`seq`, symbols, interval), gets an answer (`Fetched`) and is
  handled later (`RouteAsyncResult`), in any order. `streams` are level-2
  goroutines, which may still send after they were cancelled. Each key that
  changes any of this is an action, guarded as `handleKey` orders the surfaces; the
  chart's menu of indicators takes the chart's keys while it is open. A series that
  came back empty is drawn and not cached. Every surface has its providers: the one
  caller, `NewApp` in `cmd/backend.go`, always passes them, so that the branches for
  a missing provider cannot be taken.
* **Pure modules.** An operator per function of the code, with its early
  returns; numbers are exact fractions and NaN is a value. Recursion is by folds
  and recursive functions. They have no runs of their own: their laws are
  assumptions of the `MC` modules, which TLC evaluates before the run.

Definitions named `Slip...` are the neighbouring definition with one plausible
bug in it. No specification uses them; they exist so that it can be checked that
each property notices such a bug (`PROJECT.json`, `mutants`).

## Runs

Every run is finished by TLC within three minutes with two workers.

| Run | Instance | Shows |
|---|---|---|
| `MCHub` | 2 providers, 3 symbols with an alias, a typo and a blank, with and without `onQuote`, 2 observers of which one may wedge, quote and dispatch buffers of 1, observer queue of 2, 3 quotes | `Reliable`, `BacklogBounded`, `DropsAccounted`, `CacheLeadsDelivery`; both paths refine `LossyFifo`; `ReliableDelivery` and `ShutdownCompletes` |
| `MCDataPlane` | 2 symbols, rings of 2, histories of up to 2 bars, 3 live quotes, 1 slot, 2 buckets | `CacheSound` (types, and rings that hold the newest), `MemoNeverStale`, `BackfillComplete`, `BackfillReturnsAlways`; the laws of the portfolio figures |
| `MCBroadcast` | 2 producers with 3 messages, 2 sessions of which one may wedge, rings of 2 | `QueuesSound` (types, and every drop counted once), `NewestKept` (through the ring's arithmetic), `NoneSkipped`; the queues refine `LossyFifo`; `SendAlwaysReturns`, `Isolation`, `RemovedPumpExits` |
| `MCAlertEngine` | 3 rule sets with a rule of each kind, prices 1 and 2, 5 quotes of 2 symbols, rings of 3, a cooldown of 1 and a clock of 2, one edit | `LevelsSound` (types, and level rules alert on exactly the rises), `LatchedCompletions`, `ShortHistoryReportedOnce`, `RuleEditsKeepState`; the laws of the indicators |
| `MCRulePersistence` | 2 sessions, 2 rules and a third to be added, 2 edits, the keys `d`, `y`, `t` and the mouse wheel, a config that is writable or not | `SettledMeansSaved`, `DeletesWhatWasAsked`, `EditorsReturn`, `EditsReachFile` |
| `MCDelivery` | 2 configurations: a webhook destination with the history, fed by the check and an HTTP request; the history alone with a second process on its file. Queues of 1, 2 alerts a destination, a compaction after every append that keeps 1 line, one append that fails in each process, deadlines of one tick | `DeliveryInv` (inflight is exactly what is counted in and not settled; drops are exactly the losses; nothing enters without a token), `FlushSettles`, `HistoryKeepsNewest`, `DeliveryProgress`; the queues refine `LossyFifo`; the laws of the API, metrics and text |
| `MCFeeds` | 7 plans: the tickers over three redials; one session with quotes and cancellation, without and with a capture; the book over a reconnection; the poll; two charts; poll and chart together; sleeps within 30% of their length, as in the code | `FeedsInv` (`BackoffCountsFlaps`, `CycleIsBounded`, `ClientConsistent`), `CaptureLeadsDelivery`, `BookIsServers`, `FeedsProgress`; the laws of symbols, candles, feeds and captures |
| `MCDashboard` | a symbol with an order book and one without, 2 intervals, a comparison of 2, a history cache of 2, 5 keys or clicks | `DashboardInv` (`ChartTitled`, `CompareTitled`, `BookTitled`, `KeysReachTheTop`, `LoadingAsked`), `LoadsEnd`; the laws of the tabs |
| `MCConfigStore` | 2 processes (symmetric), one thing to lose, `MaxBackups` of 2, 3 backups a second, 2 seconds, 3 writes, one edit by hand, one crash | `NeverTorn`, `ReplacedIsRecoverable`, `OldestPrunedFirst` (while a second has at most one backup more than are kept), removals that fail included; the laws of the file's contents |
| `BroadcastDrops` | 1 producer, 1 session, 3 messages | `DropsMonotonic` fails (finding) |
| `MCAlertSequence.cfg` on `MCAlertEngine` | as above, without edits | `FiresOnCompletion` fails (finding) |
| `MCBackupNames.cfg` on `MCConfigStore` | 1 process, 12 writes in one second, `MaxBackups` of 10 as in the code | `OldestPrunedFirst` fails (finding) |

Why the bounds are enough: the hub overflows the dispatch channel with the
second quote and an observer's queue of 2 with the third, while the observer is
inside its callback or has not run at all; both values matter, since the queue
and the batch are bounded separately. Rings of 2 take history and live samples
in every proportion (none, one, all). A broadcaster ring of 2 is filled, wraps and
gives up its oldest with the third message, from two producers, before, during and
after a removal, with its head at either slot. Five quotes are the
fewest in which a sequence of two conditions alerts, is completed again during
the cooldown, and meets the quote after it; a ring of 3 is the shortest that a
crossing of a 2-sample average needs, and the fourth quote evicts from it. Two
clock values put the cooldown's end exactly on a tick, and quotes without a time
of their own let event time run backwards.

Two edits are enough for the persistence hazards: two snapshots of which the
older comes second, an edit that is taken while a save is due, one in the channel
at shutdown, and a rule removed while another session is being asked about it;
the wheel moves a cursor between question and answer. Three writes with two
backups kept is the fewest that prunes, and with two processes gives every
overlap of a backup, a seed, a restore and a save.

Two alerts overflow a destination's queue of 1 while its pump holds another
alert, with a deadline and a Flush that end in either order, and the check and a
request are between counting and queuing at once. Three redials double the delay
to its ceiling and, with a session that lasted, start again. Two attempts and one
chart in place of a batch are the fewest with which the bound of a cycle's
requests could be missed; the plans that have a poll and a chart together share
the session and the gate. Five inputs are: open a surface, change it, leave it,
open another and change that, with every answer late.

The laws of the pure modules are over every input up to the lengths given there:
short logs and series of few values, lists of a few entries, frames of every width
and height in which something still changes. What makes their functions go wrong (an empty input, one element, ties,
gaps, a value at the boundary) is among them.

All runs are made with `CHECK_DEADLOCK FALSE`: the behaviours end when the
bounded quotes, sends or edits are used up, or after shutdown.

### Fairness

Goroutines that are not blocked run (weak fairness of their steps). Three
assumptions say more, and are what Go provides: a `select` that finds `ctx.Done`
ready for ever picks it in the end (it picks at random: strong fairness of
`StopObservers`); a writer waiting for a `sync.RWMutex` gets it (strong fairness
of `Spawn` and of the requests' ends, which use the cache's lock); and a history
request ends, because it has a timeout. Nothing makes a provider send, a session
come or go, or `onQuote` and the callbacks of observers or sessions outside
`Responsive` return; the liveness properties are about the others. A removed
session's `Send` does return, since its program's context is done. The alert
engine's and the config store's properties need no fairness. In
`RulePersistence` the callback's loop, the persistence goroutine and its timer
are fair; key presses, cancellation and the end of the process are not, and a
leads-to that the end of the process may cut short says so.

In `Delivery` time passes, pumps and producers run, and a destination's answer
is not fair: a Notify ends because its context has a deadline. In `Feeds` time
passes, timers fire, goroutines run and the hub reads its channel, while nothing
is asked of the network: a connection may stand still for ever, and a request
ends because `http.Client` has a timeout. In `Dashboard` a load ends, since each
of its requests has a deadline, and the loop handles what it is sent; no key is
ever pressed by force.

## Findings

* `DropsMonotonic`: `Broadcaster.Drops` reads the retired count before it locks
  (`internal/broadcast/broadcast.go:141`); a session removed in between is in
  neither part of the sum, and the total goes down, although `retired` exists
  "so Drops stays monotonic across session churn".
* `FiresOnCompletion`: an "all" or "sequence" rule completed during its cooldown
  keeps its completed progress and alerts on the first quote after the cooldown,
  whatever it is (`internal/alert/engine.go:389`), although it should fire "on
  the transition that completes it" and the branch that does so is called
  "defensive".
* `OldestPrunedFirst`: pruning frees the bare name of a second, the next backup
  of that second takes it, and `listBackups` orders it as the oldest, so it is
  removed by the very save that made it (`internal/config/backup.go:55`), although
  "the oldest are pruned first" and "the newest 10 are kept". It takes twelve
  writes in a second. `MCConfigStore` has the usual case, in which it holds.

Two races are modelled and not counted as findings, since no text excludes them:
callbacks of two sessions may overtake each other, and then the older rules are
saved (`SettledMeansSaved` makes the exception, `overlapped`: it shows that the
next edit made alone puts the file right, and would not catch the race itself);
and two processes may find the same backup name free, and then one backup replaces
the other (`ReplacedIsRecoverable` makes the exception). Likewise a session may
confirm the deletion of an index that another session's removal has shifted:
`DeletesWhatWasAsked` excepts exactly that.

### Known differences

Met while modelling. The models do what the code does, so the properties are
stated around them; each is small, and none has a run of its own.

* Statuses: both providers' `notifyStatus` drop the new value when the channel
  is full, so the last transition can be lost, although `pumpStatus` is written
  so as to forward only ever the latest one (`cmd/backend.go:609`).
* Yahoo: a 401 during a poll clears the crumb, and the poll sets up a session
  only once, at its start; charts set it up again. `initSession` does not pass
  the gate that `client.go:145` says every Yahoo request goes through.
* Order book: the throttle drops a change that comes too early, so that the last
  one before a quiet time is not shown until the next.
* `config/diff.go:20` calls a write whose list of removals is empty "purely
  additive"; transactions and authorized keys are only counted, and changed
  quantities and settings are not looked at.
* Equity history: a compaction keeps the newest lines, malformed ones included,
  so that it is seen by a reader when there are any.
* ATR: when every bar of its seed window is missing it never starts, although
  one bad bar is meant to heal.
* Chart: a failed fetch leaves the old candles under the new title until the
  next answer (`ChartTitled` excepts `failed`), although the header "never claims
  a resolution the chart is not drawing". The history cache gives a series that
  is fetched again its old place in the order of eviction.
* Detail panel: `SetSymbol` keeps the last symbol's quote; a status message of a
  cancelled stream of the same symbol can mark the book of a panel opened again.
* Options and symbol card: their answers carry no request number, so that a late
  answer for one symbol is shown under another, and a stale error hides a chain.
* Alerts prompt: its mirror in the root model can be lost by a click on another
  tab, a key there and a click back; then `q` quits instead of answering it.
* Palette: opened over the chart, the comparison or the detail panel it is not
  drawn and takes the keys; its jump to a tab leaves the detail panel on top,
  which a click on the tab closes. Keys at the Chart tab reach a chart that is
  not drawn.
* Heatmap drilldown: keys and clicks count columns of 14, tiles are drawn 22
  wide, and clicks ignore the scroll. `ClicksOnTiles` says where they agree.
* Options: `MaxPain` settles a tie by the order of a map, so that the header can
  change from frame to frame. Search in the watchlist works on bytes.
  `format.resample` divides by zero for one column.

## Proofs

The theorems hold for every value of the constants that the assumptions of the
module allow (`HubAssumption`, `BroadcastAssumption`, `CacheAssumption` and
`DataPlaneAssumption`, `AlertAssumption`, `DestinationsAssumption` with
`DeliveryAssumption` and `HistoryAssumption`, `PersistenceAssumption`,
`StoreAssumption`; for the feeds `RecordingAssumption`, `CoinbaseAssumption`,
`BookAssumption`, `YahooAssumption` and `FeedsAssumption`; `DashboardAssumption`):
any number of providers, sessions, rules, destinations, streams and processes,
any sizes of buffers, any bounds. Every invariant of a passing run is proved.
Hardly any is inductive alone; what follows says what each proof adds to it. A
step lemma has one case per action and, below it, one step per conjunct that the
action can disturb.

`LossyFifo`: `FifosAreSound`. What the four queues are shown to implement is
worth something by itself: in any behaviour of `LossyFifo` a consumer gets
messages in the order offered and none twice (`Ordered`), and what was offered is
delivered, waiting, lost and counted, or discarded by the close (`Accounted`). The
invariant `Ledgers` adds that every message is among those offered so far, so that
the next one goes behind all of them. The theorem is cited, under each module's
refinement mapping, in `HubFeedsInOrderAndAccounted`,
`SessionsInOrderAndAccounted` and `DestinationsInOrderAndAccounted`.

`HubProofs`: `TypeCorrect`, `ReliableAlways`, `BacklogAlwaysBounded`,
`DropsAlwaysAccounted`, `CacheAlwaysLeadsDelivery`, `HubFeedsAreLossyFifos`,
`HubFeedsInOrderAndAccounted`. The invariant is `IInv == TypeOK /\ Lifecycle /\ Books`. `Lifecycle` relates the phase
of the reader to who is registered: nobody is registered once the hub has stopped,
and an observer that is registered is neither stopped nor about to be. `Books` is
the bookkeeping per observer: what a registered observer was handed, plus what is
in its batch and queue, plus what it lost or discarded when it was stopped, is
what was fanned out since it was added; as long as nothing was lost the three
follow one another without a gap; batch and queue are bounded, and something is
lost only after more than `ObserverMax` quotes. `FanOut`, which both appends and
evicts, is where `Books` is needed in full. `DropsAccounted` compares the counter
with no other counter but with `Missing`, the quotes that observers are owed by
when they were added and that are neither delivered nor in a batch or queue. The
proof adds that an observer holds only what it is owed (`Spans`), and shows of each
step how what is held changes: only an eviction takes one quote away, and only `stop`
takes more, uncounted, which is why the equality ends with the hub and a bound
remains. That the cache leads follows
once whatever a path carries is known to have been read (`Cached`). The refinement
maps every observer's got, batch and queue, and the dispatcher's, to a `LossyFifo`;
one step of the reader offers to all of them at once.

`SessionProofs`, the broadcaster: `QueuesAlwaysSound`, `NewestAlwaysKept`,
`NoneEverSkipped`, `SessionQueuesAreLossyFifos`, `SessionsInOrderAndAccounted`.
`Locking`: the sessions that a Send has still to visit stay registered, since it
holds the lock. `Books`: what a session was offered is handled, in hand, queued,
evicted or discarded, and its queue is the newest of what was offered. The queue is
what the ring holds from its head on; that a write at head + count modulo the size
puts a message behind it, and a move of the head takes the oldest from it, also when
both wrap, are lemmas about `Slot`. For `NoneSkipped` the invariant says of every producer that the
numbers of its messages in the queue of a session are exactly those since it was
added, without the one whose Send has still to come by (`Streams`).

`DataPlaneProofs`, the cache: `CacheAlwaysSound`, `MemoIsNeverStale`, `BackfillAlwaysComplete`.
A ring, read from its head, is the last `RingSize` of history followed by the live
quotes, at whatever point history arrives; this needs what index arithmetic modulo
the size does to a buffer that is filled, wraps, or is filled from the front. A
matrix, stored or half made, agrees with the rings it was made of while the
generation is the one it was begun at and no write is under way (`MemoInv`): the
counter moves as the last step of a write and is read before the first series. The
pool's loop has passed over nothing that is not seeded, failed or in flight.

`DataPlaneProofs`, the feeds: `FeedsAlwaysSound`, `CaptureAlwaysLeads`,
`BookAlwaysServers`. The feeds meet in a few steps only (a connection starts the
book, a Subscribe that returns closes its copier, a quote leaves its provider), so
that `FeedsIInv` is a conjunction of four parts, each proved of the actions that
touch it. `RecordingInv`: the capture is ahead of what its copiers hold and have
passed on, and behind what still waits for them, which is of one provider and in
its order. `CoinbaseInv`: the next delay is the shortest doubled once per failure
since the last session that lasted, and the one waited for stands for all failures
but the last; that doubling a capped power of two gives the next one, capped, is a
lemma. `BookInv`: each message under way is a snapshot of the server's book at its
number, or carries exactly what changed since the message before it, which is the
one read last for the first of them (`InStep`); so the client, which applies what
it reads, has the server's book whenever it has a number. `YahooInv`: what is left
of a poll cycle is a line of charts followed by batches; what was spent, without
the tries of the request in hand, and what the line may still cost, never exceed
the cost of a whole cycle (`CycleInv`), although a batch that fails becomes several
charts and a request may be retried.

`AlertEngineProofs`: `LevelsAlwaysSound`, `CompletionsAlwaysLatched`,
`ShortHistoryAlwaysReportedOnce`, `RuleEditsAlwaysKeepState`. The invariant says
what each of the engine's maps is in terms of the log of the rule: the cooldown ends
one cooldown after the last alert; the level state is what the last evaluation said;
the progress of an "all" is what has held since the last alert, and that of a
"sequence" is the most conditions that came true in turn since then, for which one
needs that the greedy progress of the code is never behind any other choice of
evaluations; a rule that was not evaluated yet is marked as warned of exactly when
it was reported (`RuleKept`). A ring never shrinks, so that a rule with enough
history has enough for good (`HistoryKept`). What was right of an evaluation stays
right, because a log only grows (`RuleRight`).

`DeliveryProofs`: `DeliveryAlwaysExact`, `FlushAlwaysSettles`,
`HistoryAlwaysKeepsNewest`, `DestinationQueuesAreLossyFifos`,
`DestinationsInOrderAndAccounted`. `IInv`: a producer
that has counted an alert in is in the middle of its round, and inflight and the
drop counters are the cardinalities of the sets of what is held and lost. For
Flush: every alert offered is taken, queued or overflowed, and every one that the
history's pump took is written, limited, counted as a failed append, or in its hand
with the line not written (`HistoryBook`). For the file: it, and what a compaction under way would make of
it, goes through the lines written forwards and has the newest `Keep` of them but
for those that raced a compaction; a line not yet written is a new one, which holds
because queue and pump carry ascending numbers (`OwnNumbers`).

`PersistenceProofs`, the rules: `PersistenceTypeCorrect`, `SettledMeansSavedAlways`
and `DeletesWhatWasAskedAlways`. The invariant adds four parts to the types. `Aimed`:
the index a session is asked to confirm still means the rule the question named,
as long as no removal at or before it has come between. `Newest`: what was sent
last is in the channel, else in the goroutine's hands, else in the file, except
while somebody in the callback has emptied the channel to send again. `InForce`:
unless the last edit was made while another was in the callback, nobody else is in
it, and what a callback holds, or sent last, are the rules in force. `Phase`: a timer that runs or has fired means that there is
something to be saved, without which the expiry of a stale timer could save what
was never sent.

`PersistenceProofs`, the file: `TypeCorrect`, `NeverTornAlways`, `OldestAlwaysPrunedFirst`,
`ReplacedAlwaysRecoverable`. A process that is about to rename has a temporary file
that holds all of what it means to write, and what it means to write came from a
whole file (`Prepared`). For the backups the invariant is about names
(`RestorePoints`): those of a second are found in the order of their numbers,
without holes while there are any left in this second; what a process has read to
back up is what the file holds unless it is out of date; and what it backed up is
there, or another has its name, or `MaxBackups` more were started. The last two
theorems assume `MaxPerSecond <= MaxBackups + 1` (and `<= 10`, beyond which text
puts -10 before -2). This is not a convenience but the limit: with one more write
in the same second pruning frees a name that is found again, and both statements
are false of the code, which is the third finding. Since a removal may fail there
may be any number of backups, so that what goes is bounded from below: MaxBackups
later ones are there (`Later`).

`SessionProofs`, the dashboard: `DashboardAlwaysSound`. None of the titles can be
shown from what is on screen alone. `ChartLoads` and `CompareLoads`: a request
never has a number beyond the newest, and one that has the newest asked for the
symbol and the interval in the header, so that the one answer `Accepts` lets in is
the right one; a change of symbols or interval that did not renew the number would
break it. A comparison that was closed keeps its number and may gain symbols,
which is why `CompareLoads` says so only of an open one and opening asks again.
`BookTitled` is inductive as it is: a book is looked at again when it arrives,
whichever stream it comes from. `KeysTaken`: at most one surface is up and beneath it
neither search nor prompt is, which is what makes the order in which `handleKey`
asks and the order in which `View` draws agree; the mirror of the alerts prompt is
the one exception that `KeysReachTheTop` names. `LoadingAsked` was found here: it
is the safety half of `LoadsEnd`, nothing says it is loading without a request
whose answer it would take, and a part of `DashboardInv` since.

Only model-checked: the laws of the pure modules, which say what recursive
definitions compute; and everything under fairness (`ReliableDelivery`,
`ShutdownCompletes`, `SendAlwaysReturns`, `Isolation`, `RemovedPumpExits`,
`BackfillReturnsAlways`, `EditorsReturn`, `EditsReachFile`, `DeliveryProgress`,
`FeedsProgress`, `LoadsEnd`), since liveness and ENABLED are outside the prover's
reach. Only proved: two recorded providers, whose copiers share one capture
(`CaptureAlwaysLeads` is for any number of providers; a plan of `MCFeeds` with both
recorded has several times the states of all the others). The types of the hub,
the persistence and the config store are not properties of a run: they are proved.

Three things came to light in proving. Two bulleted conjunctions (`FlushSettles`
and the law `TabsWhereDrawn`) had a line out of its column, so that less was
checked than was meant; they are stated in full now and hold. `NoneSkipped` is
stated now by what is offered, not by what is counted. And
`OldestPrunedFirst` is provable up to exactly the number of writes in a second
that the finding exceeds.

## Plan

The modules planned at first are written. What is left, in order:

1. Theorems about the laws of the pure modules whose operators are not recursive
   (layouts, windows, hit-tests, routing of symbols).
2. `SettledMeansSaved` as a specification of its own, a store of rules that only
   the persistence step changes, implemented by `RulePersistence`.
3. The answers of the options tab and the symbol card, which carry no request
   number, when the code tells them apart.
4. The pool of workers of the MCP server's pricing tool.

Recursion is by recursive functions and folds in all modules, so each can be
proved about.

## Not modelled

Drawing (colours, glyphs, grids, the portfolio, macro and news tabs beyond their
layout, the status bar), formatting and wording, HTTP, WebSocket, SSH and JSON
themselves, flags, default values and other tables (`config/defaults.go`,
`theme/presets.go`, the calendar's dates), floating-point rounding and overflow
(numbers are exact fractions; a standard deviation is compared as its square),
what a write to the alert history that was cut short leaves behind,
`macd_cross` as an alert (it needs 35 samples; the indicator is modelled), and
the wall clock except as ticks and as the engine's event time. In the
concurrent modules symbols are names; what a spelling is, is `Symbols`.
`DropsFor`, `Len`, `Statuses` and other read-only views of modelled state are
left out, as are `Seed` without times (nothing calls it) and the backfill's
effect on the alert engine's history, which in `AlertEngine` only grows by live
quotes.

The MCP server answers one request after the other and keeps nothing between
them; its tools format what the modelled packages compute. The backtest runs a
capture through cache and engine on one goroutine; with a clock that follows the
capture it is a behaviour of `AlertEngine`. `watch`, `poll.go`, `logsink.go` and
`dataplane_wiring.go` pass values on.
