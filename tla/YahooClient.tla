----------------------------- MODULE YahooClient -----------------------------
(***************************************************************************)
(* The Yahoo client under its callers: the quote poll, and the charts that *)
(* a user opens.  They share the session (a crumb), the gate that paces    *)
(* requests, and the health that the status bar shows.                     *)
(*                                                                         *)
(* A cycle of the poll is a batch after batch of symbols, and for each     *)
(* batch that fails a few charts in its place.  Time passes in YahooTick,  *)
(* which the composition takes with the ticks of the other feeds.          *)
(***************************************************************************)
EXTENDS Recording, Integers

CONSTANTS
  Callers,                   \* "poll" and "chart"
  Batches, BatchSymbols,     \* batches of a cycle, and symbols of a batch
  MaxChartFallbacks,
  MaxAttempts, RetryBase, RetryMax,
  RetryJitter,               \* percent of a sleep, either way
  Cooldown, CooldownMax,     \* ticks
  RetryAfters,               \* what a 429 may ask for, in ticks; 0 for nothing
  Burst,                     \* tokens of the gate; one more with each tick
  UnhealthyAfter,
  PollInterval,
  MaxCrumbs                  \* bound: crumbs fetched

ASSUME YahooAssumption ==
  /\ Callers = {"poll", "chart"}
  /\ {Batches, BatchSymbols, MaxAttempts, RetryBase, RetryMax, Burst, UnhealthyAfter, PollInterval}
       \subseteq Nat \ {0}
  /\ {MaxChartFallbacks, Cooldown, CooldownMax, MaxCrumbs} \subseteq Nat
  /\ RetryJitter \in 0..99
  /\ RetryAfters \subseteq Nat

VARIABLES
  at,        \* where each caller is
  todo,      \* the requests that are left of its call, the current one first
  attempt,   \* the attempt of the current request
  pause,     \* ticks left of its sleep
  fetcher,    \* who holds sessionMu
  crumb,     \* the number of the crumb in use, 0 for none
  crumbs,    \* crumbs fetched so far
  cooling,   \* ticks left of the gate's cooldown
  tokens,    \* tokens of the limiter
  healthy, failures,
  report,    \* the change of health a caller has still to report
  yahooCh,   \* Provider.statusCh
  pollDue,   \* ticks until the poll's ticker fires
  ticked,    \* it has fired and the poll has not seen it
  cycles, charts, \* bounds: cycles of the poll, and charts, that are left
  spent,     \* requests of the current cycle
  got        \* quotes of the last answer still to send

sessionMuVars == <<fetcher, crumb, crumbs>>
gateVars == <<cooling, tokens>>
healthVars == <<healthy, failures, report, yahooCh>>
boundVars == <<pollDue, ticked, cycles, charts, spent, got>>
callVars == <<at, todo, attempt, pause>>
yahooVars == <<callVars, sessionMuVars, gateVars, healthVars, boundVars>>

(* A body that decodes makes the client healthy, whether it has quotes,    *)
(* none ("empty"), or an error of Yahoo's own ("refused").                 *)
Decoded == {"ok", "empty", "refused"}
Outcomes == Decoded \cup {"garbage", "auth", "missing", "limited", "server", "net", "late"}
Nothing == "nothing"

YahooInit(on, bounds) ==
  /\ at = [c \in Callers |-> IF c \notin on THEN "off" ELSE IF c = "poll" THEN "lock" ELSE "idle"]
  /\ todo = [c \in Callers |-> <<>>]
  /\ attempt = [c \in Callers |-> 1]
  /\ pause = [c \in Callers |-> 0]
  /\ fetcher = "nobody"
  /\ crumb = 0
  /\ crumbs = 0
  /\ cooling = 0
  /\ tokens = Burst
  /\ healthy = TRUE
  /\ failures = 0
  /\ report = [c \in Callers |-> Nothing]
  /\ yahooCh = <<>>
  /\ pollDue = PollInterval
  /\ ticked = FALSE
  /\ cycles = bounds.cycles
  /\ charts = bounds.charts
  /\ spent = 0
  /\ got = 0

Goes(c, place) == at' = [at EXCEPT ![c] = place]

-----------------------------------------------------------------------------
(* The session: one caller at a time fetches a crumb, past the gate *)

(* A poll opens the session once, before its first cycle; a chart each     *)
(* time.                                                                   *)
Opened(c) == Goes(c, "begin")

LockSession(c) ==
  /\ at[c] = "lock"
  /\ fetcher = "nobody"
  /\ IF crumb # 0 \/ cancelled
     THEN Opened(c) /\ UNCHANGED fetcher
     ELSE Goes(c, "page") /\ fetcher' = c
  /\ UNCHANGED <<todo, attempt, pause, crumb, crumbs, gateVars, healthVars, boundVars>>

(* The page holds a crumb, or not, or fails; then the crumb's own address  *)
(* does, and a caller goes on without a crumb when there is none.          *)
FetchCrumb(c) ==
  /\ fetcher = c
  /\ \/ /\ at[c] = "page" /\ ~cancelled
        /\ Goes(c, "crumb")
        /\ UNCHANGED sessionMuVars
     \/ /\ ~cancelled
        /\ crumbs < MaxCrumbs
        /\ crumbs' = crumbs + 1
        /\ crumb' = crumbs + 1
        /\ fetcher' = "nobody"
        /\ Opened(c)
     \/ /\ fetcher' = "nobody"
        /\ Opened(c)
        /\ UNCHANGED <<crumb, crumbs>>
  /\ UNCHANGED <<todo, attempt, pause, gateVars, healthVars, boundVars>>

-----------------------------------------------------------------------------
(* One request *)

Begin(c) ==
  /\ at[c] = "begin"
  /\ todo' = [todo EXCEPT ![c] = IF c = "poll" THEN [b \in 1..Batches |-> "batch"]
                                 ELSE <<"history">>]
  /\ attempt' = [attempt EXCEPT ![c] = 1]
  /\ Goes(c, "gate")
  /\ spent' = IF c = "poll" THEN 0 ELSE spent
  /\ cycles' = IF c = "poll" THEN cycles - 1 ELSE cycles
  /\ UNCHANGED <<pause, sessionMuVars, gateVars, healthVars, pollDue, ticked, charts, got>>

(* The cooldown is read first and the token is waited for after it: one    *)
(* that begins in between holds nobody back.                               *)
PassCooldown(c) ==
  /\ at[c] = "gate"
  /\ cooling = 0
  /\ Goes(c, "token")
  /\ UNCHANGED <<todo, attempt, pause, sessionMuVars, gateVars, healthVars, boundVars>>

TakeToken(c) ==
  /\ at[c] = "token"
  /\ tokens > 0
  /\ tokens' = tokens - 1
  /\ spent' = IF c = "poll" THEN spent + 1 ELSE spent
  /\ Goes(c, "flying")
  /\ UNCHANGED <<todo, attempt, pause, sessionMuVars, cooling, healthVars, pollDue, ticked, cycles,
                 charts, got>>

(* A call that ran into the client's own time limit reads as one that was  *)
(* cancelled, which is never tried again.                                  *)
Retryable(outcome) == outcome \in {"limited", "server", "net"}
BackoffDelays(n) ==
  LET d == Min({RetryBase * 2 ^ (n - 1), RetryMax})
  IN ((d * (100 - RetryJitter)) \div 100)..((d * (100 + RetryJitter) + 99) \div 100)
Penalize(asked, n) ==
  LET d == IF asked > 0 THEN asked ELSE Cooldown * 2 ^ (n - 1)
  IN Max({cooling, Min({d, CooldownMax})})

MarkHealthy(c) ==
  /\ failures' = 0
  /\ healthy' = TRUE
  /\ report' = [report EXCEPT ![c] = IF healthy THEN Nothing ELSE "up"]
  /\ UNCHANGED yahooCh
MarkFailure(c) ==
  /\ failures' = Min({failures + 1, UnhealthyAfter})
  /\ healthy' = (healthy /\ failures' < UnhealthyAfter)
  /\ report' = [report EXCEPT ![c] = IF healthy /\ ~healthy' THEN "down" ELSE Nothing]
  /\ UNCHANGED yahooCh

(* What takes the place of a batch that failed. *)
\* Fallback, for every symbol of the batch
SlipFallbackEverySymbol(rest) == [s \in 1..BatchSymbols |-> "chart"] \o rest
Fallback(rest) == [s \in 1..Min({BatchSymbols, MaxChartFallbacks}) |-> "chart"] \o rest

(* The request is over: an answer with quotes is sent on; a batch without  *)
(* any is not an error, and has no fallback; and 401 or 403 clears the     *)
(* crumb, whichever it is by now.                                          *)
Over(c, outcome) ==
  LET rest == Tail(todo[c])
  IN /\ todo' = [todo EXCEPT ![c] = IF Head(@) = "batch" /\ outcome \notin {"ok", "empty"}
                                    THEN Fallback(rest) ELSE rest]
     /\ got' = IF c = "poll" /\ outcome = "ok" THEN 1 ELSE got
     /\ Goes(c, "next")
     /\ attempt' = [attempt EXCEPT ![c] = 1]
     /\ crumb' = IF outcome = "auth" THEN 0 ELSE crumb
     /\ UNCHANGED pause

TriesAgain(c, outcome) == Retryable(outcome) /\ attempt[c] < MaxAttempts

Answer(c, outcome) ==
  /\ at[c] = "flying"
  /\ cancelled => outcome = "late"
  /\ IF outcome = "limited"
     THEN \E asked \in RetryAfters : cooling' = Penalize(asked, attempt[c])
     ELSE UNCHANGED cooling
  /\ IF TriesAgain(c, outcome)
     THEN /\ Goes(c, "asleep")
          /\ attempt' = [attempt EXCEPT ![c] = @ + 1]
          /\ \E d \in BackoffDelays(attempt[c]) : pause' = [pause EXCEPT ![c] = d]
          /\ UNCHANGED <<todo, got, crumb, healthVars>>
     ELSE /\ Over(c, outcome)
          /\ CASE outcome \in Decoded -> MarkHealthy(c)
               [] Retryable(outcome) -> MarkFailure(c)
               [] OTHER -> UNCHANGED healthVars
  /\ UNCHANGED <<fetcher, crumbs, tokens, pollDue, ticked, cycles, charts, spent>>

SleepIsOver(c) ==
  /\ at[c] = "asleep"
  /\ pause[c] = 0
  /\ Goes(c, "gate")
  /\ UNCHANGED <<todo, attempt, pause, sessionMuVars, gateVars, healthVars, boundVars>>

(* notifyStatus, after the lock of the health was let go: another caller   *)
(* may have reported a later change first, and a full channel loses it.    *)
Report(c) ==
  /\ report[c] # Nothing
  /\ yahooCh' = IF yahooCh = <<>> THEN <<report[c]>> ELSE yahooCh
  /\ report' = [report EXCEPT ![c] = Nothing]
  /\ UNCHANGED <<callVars, sessionMuVars, gateVars, healthy, failures, boundVars>>

PumpYahooStatus ==
  /\ yahooCh # <<>>
  /\ ~cancelled
  /\ yahooCh' = <<>>
  /\ UNCHANGED <<callVars, sessionMuVars, gateVars, healthy, failures, report, boundVars>>

-----------------------------------------------------------------------------
(* Calls *)

(* A quote goes the way of Recording. *)
SendYahooQuote ==
  /\ got = 1
  /\ Send("yahoo")
  /\ got' = 0
  /\ UNCHANGED <<callVars, sessionMuVars, gateVars, healthVars, pollDue, ticked, cycles, charts, spent>>

Continue(c) ==
  /\ at[c] = "next"
  /\ report[c] = Nothing
  /\ ~cancelled
  /\ c = "poll" => got = 0
  /\ Goes(c, IF todo[c] = <<>> THEN "idle" ELSE "gate")
  /\ UNCHANGED <<todo, attempt, pause, sessionMuVars, gateVars, healthVars, boundVars>>

(* The ticker keeps one tick for a poll that is late. *)
NextCycle ==
  /\ at["poll"] = "idle"
  /\ ticked
  /\ ~cancelled
  /\ cycles > 0
  /\ ticked' = FALSE
  /\ Goes("poll", "begin")
  /\ UNCHANGED <<todo, attempt, pause, sessionMuVars, gateVars, healthVars, pollDue, cycles,
                 charts, spent, got>>

OpenChart ==
  /\ at["chart"] = "idle"
  /\ ~cancelled
  /\ charts > 0
  /\ charts' = charts - 1
  /\ Goes("chart", "lock")
  /\ UNCHANGED <<todo, attempt, pause, sessionMuVars, gateVars, healthVars, pollDue, ticked, cycles,
                 spent, got>>

(* Every wait ends with the context but the one for sessionMu, which its    *)
(* holder ends.                                                            *)
CallerStops(c) ==
  /\ cancelled
  /\ at[c] \in {"idle", "begin", "gate", "token", "asleep", "next"}
  /\ report[c] = Nothing
  /\ Goes(c, "ended")
  /\ got' = IF c = "poll" THEN 0 ELSE got
  /\ UNCHANGED <<todo, attempt, pause, sessionMuVars, gateVars, healthVars, pollDue, ticked, cycles,
                 charts, spent>>

Caller(c) ==
  \/ LockSession(c) \/ FetchCrumb(c) \/ Begin(c) \/ PassCooldown(c) \/ TakeToken(c)
  \/ SleepIsOver(c) \/ Continue(c)
  \/ \E outcome \in Outcomes : Answer(c, outcome)

YahooTick ==
  LET down(n) == IF n > 0 THEN n - 1 ELSE 0
      polling == cycles > 0 /\ at["poll"] \notin {"off", "lock", "page", "crumb"}
  IN
  /\ cooling' = down(cooling)
  /\ tokens' = Min({tokens + 1, Burst})
  /\ pause' = [c \in Callers |-> down(pause[c])]
  /\ pollDue' = IF ~polling \/ pollDue = 1 THEN PollInterval ELSE pollDue - 1
  /\ ticked' = (polling /\ (ticked \/ pollDue = 1))
  /\ UNCHANGED <<at, todo, attempt, sessionMuVars, healthVars, cycles, charts, spent, got>>

-----------------------------------------------------------------------------

(* An outage costs a bounded number of requests: a cycle of the poll never *)
(* makes more than the retries of its batches and of the few charts that   *)
(* each is replaced by.                                                    *)
CycleIsBounded ==
  spent <= Batches * MaxAttempts * (1 + MaxChartFallbacks)

(* The health that is reported is that of the last calls, the cooldown is  *)
(* never longer than its ceiling, and nobody fetches a crumb while there   *)
(* is one.                                                                 *)
ClientConsistent ==
  /\ healthy <=> failures < UnhealthyAfter
  /\ cooling <= CooldownMax
  /\ fetcher # "nobody" => crumb = 0 /\ at[fetcher] \in {"page", "crumb"}
=============================================================================
