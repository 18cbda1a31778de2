----------------------------- MODULE ConfigFile -----------------------------
(***************************************************************************)
(* What config.yaml says and what a write to it would take away: the       *)
(* settings a configuration is written as, the losses that SaveSafely      *)
(* names before it asks, and the problems that `mkt config validate`       *)
(* reports (internal/config/config.go, diff.go, cmd/validate.go).          *)
(*                                                                         *)
(* A configuration is a record with a field for each top-level key; ""     *)
(* stands for a text that is not there and "unset" for a toggle that is    *)
(* not there.                                                              *)
(***************************************************************************)
EXTENDS Symbols, Integers

Secrets == {"webhook_url", "ntfy_topic", "ntfy_server", "pushover_user", "pushover_token"}
Toggles == {"desktop_notify", "notifications"}
Feeds == {"binance", "defillama", "news", "macro"}

Always == {"schema_version", "watchlist", "portfolios", "alerts", "poll_interval", "sparkline_len", "theme"}
NoServe == [addr |-> "", host_key |-> "", authorized_keys |-> <<>>, authorized_keys_file |-> ""]
NoProviders == [f \in Feeds |-> "unset"]

(* What a key that is not in the file means.                               *)
Absent(key) ==
  CASE key \in Secrets -> ""
    [] key \in Toggles -> "unset"
    [] key = "serve" -> NoServe
    [] key = "providers" -> NoProviders
    [] key = "schema_version" -> 0
    [] OTHER -> <<>>

KnownSections ==
  Always \cup Secrets \cup Toggles
    \cup {"watchlists", "edgar_tickers", "notes", "serve", "providers", "news_feeds"}

(* The file is rebuilt from the configuration: what is empty is left out,  *)
(* what is not modelled is not written, and the schema is this build's.    *)
SchemaVersion == 1
EncodeConfig(cfg) ==
  [key \in Always \cup {k \in KnownSections \ Always : cfg[k] # Absent(k)} |->
     IF key = "schema_version" THEN SchemaVersion ELSE cfg[key]]

ParseFile(settings) ==
  [key \in KnownSections |-> IF key \in DOMAIN settings THEN settings[key] ELSE Absent(key)]

-----------------------------------------------------------------------------
(* What a write drops *)

(* What is lost, whose it is, and which of them.                           *)
Loss(what, whose, which) == <<what, whose, which>>
Names(list) == {list[i].name : i \in 1..Len(list)}

(* Of two entries with one name, the last is compared with.                *)
LastNamed(list, name) == Last(SelectSeq(list, LAMBDA e : e.name = name))

ListRemoval(what, whose, old, next) ==
  LET gone == ToSet(old) \ ToSet(next) IN IF gone = {} THEN {} ELSE {Loss(what, whose, gone)}

Fewer(what, whose, old, next) ==
  IF Len(old) > Len(next) THEN {Loss(what, whose, Len(old) - Len(next))} ELSE {}

SymbolsHeld(p) == {p.holdings[i].symbol : i \in 1..Len(p.holdings)}

PortfolioRemovals(old, next) ==
  UNION {LET p == old.portfolios[i]
             kept == LastNamed(next.portfolios, p.name)
         IN IF p.name \notin Names(next.portfolios) THEN {Loss("portfolio", p.name, SymbolsHeld(p))}
            ELSE {Loss("holding", p.name, s) : s \in SymbolsHeld(p) \ SymbolsHeld(kept)}
                 \cup Fewer("transactions", p.name, p.transactions, kept.transactions)
         : i \in 1..Len(old.portfolios)}

(* A rule is all that makes it behave as it does; losing one of two equal  *)
(* rules is a loss.                                                        *)
AlertRemovals(old, next) ==
  LET count(list, r) == Cardinality({i \in 1..Len(list) : list[i] = r})
      lost(r) == count(old.alerts, r) - count(next.alerts, r)
  IN {Loss("alert", r, lost(r)) : r \in {q \in ToSet(old.alerts) : lost(q) > 0}}

WatchlistRemovals(old, next) ==
  ListRemoval("watchlist symbols", "", old.watchlist, next.watchlist)
    \cup UNION {LET w == old.watchlists[i]
                IN IF w.name \notin Names(next.watchlists)
                   THEN {Loss("watchlist group", w.name, Len(w.symbols))}
                   ELSE ListRemoval("symbols from watchlist group", w.name, w.symbols,
                                    LastNamed(next.watchlists, w.name).symbols)
                : i \in 1..Len(old.watchlists)}

Note(cfg, s) == IF s \in DOMAIN cfg.notes THEN cfg.notes[s] ELSE ""
NoteRemovals(old, next) ==
  {Loss(IF Note(next, s) = "" THEN "note" ELSE "previous note", s, old.notes[s]) :
     s \in {t \in DOMAIN old.notes : Note(next, t) # old.notes[t]}}

ServeRemovals(old, next) ==
  {Loss("serve", f, old.serve[f]) : f \in {g \in {"addr", "host_key", "authorized_keys_file"} :
                                             old.serve[g] # "" /\ next.serve[g] = ""}}
    \cup Fewer("authorized keys", "", old.serve.authorized_keys, next.serve.authorized_keys)

FeedRemovals(old, next) ==
  {Loss("news feed", f.name, f.url) : f \in ToSet(old.news_feeds) \ ToSet(next.news_feeds)}

SettingRemovals(old, next) ==
  {Loss("cleared", k, "") : k \in {s \in Secrets : old[s] # "" /\ next[s] = ""}
                                  \cup {t \in Toggles : old[t] # "unset" /\ next[t] = "unset"}
                                  \cup {f \in Feeds : old.providers[f] # "unset" /\ next.providers[f] = "unset"}}

SectionRemovals(oldKeys, nextKeys) ==
  {Loss("section", k, "") : k \in {s \in DOMAIN oldKeys \ (KnownSections \cup DOMAIN nextKeys) :
                                     oldKeys[s] # "empty"}}

Removals(old, next, oldKeys, nextKeys) ==
  PortfolioRemovals(old, next) \cup AlertRemovals(old, next) \cup WatchlistRemovals(old, next)
    \cup NoteRemovals(old, next) \cup ListRemoval("edgar tickers", "", old.edgar_tickers, next.edgar_tickers)
    \cup ServeRemovals(old, next) \cup FeedRemovals(old, next) \cup SettingRemovals(old, next)
    \cup SectionRemovals(oldKeys, nextKeys)

-----------------------------------------------------------------------------
(* mkt config validate *)

CONSTANTS Themes, Conditions   \* the theme names, and alert.AllConditions

Issue(where, what) == [where |-> where, what |-> what]
Routable(s) == IsCrypto(s) \/ IsStock(s) \/ IsFRED(s)
Issues(of, when) == IF when THEN {of} ELSE {}

SymbolIssues(where, s) ==
  Issues(Issue(where, "symbol required"), s = <<>>) \cup Issues(Issue(where, "unroutable"), s # <<>> /\ ~Routable(s))

AlertIssues(i, r) ==
  SymbolIssues(<<"alerts", i>>, r.symbol)
    \cup IF r.conditions = <<>>
         THEN Issues(Issue(<<"alerts", i>>, "condition"), r.condition \notin Conditions)
         ELSE Issues(Issue(<<"alerts", i>>, "match"), r.match \notin {"", "all", "any", "sequence"})
              \cup {Issue(<<"alerts", i, j>>, "condition") :
                      j \in {k \in 1..Len(r.conditions) : r.conditions[k] \notin Conditions}}

PortfolioIssues(i, p) ==
  LET at(section, j) == <<"portfolios", i, section, j>>
  IN Issues(Issue(<<"portfolios", i>>, "tax_method"), p.tax_method \notin {"", "fifo", "lifo", "hifo"})
     \cup UNION {SymbolIssues(at("holdings", j), p.holdings[j].symbol)
                   \cup Issues(Issue(at("holdings", j), "negative quantity"), p.holdings[j].quantity < 0)
                 : j \in 1..Len(p.holdings)}
     \cup UNION {Issues(Issue(at("transactions", j), "type"),
                        p.transactions[j].type \notin {"buy", "sell", "dividend"})
                   \cup Issues(Issue(at("transactions", j), "time"), p.transactions[j].time = "unreadable")
                 : j \in 1..Len(p.transactions)}

ListIssues(where, list) == {Issue(Append(where, j), "unroutable") : j \in {k \in 1..Len(list) : ~Routable(list[k])}}

ValidateConfig(cfg) ==
  Issues(Issue(<<"schema_version">>, "range"), cfg.schema_version \notin 0..SchemaVersion)
    \cup Issues(Issue(<<"poll_interval">>, "duration"), cfg.poll_interval = "unreadable")
    \cup Issues(Issue(<<"poll_interval">>, "positive"), cfg.poll_interval = "not positive")
    \cup Issues(Issue(<<"sparkline_len">>, "positive"), cfg.sparkline_len <= 0)
    \cup Issues(Issue(<<"theme">>, "unknown"), cfg.theme \notin Themes \cup {"", "dark"})
    \cup UNION {AlertIssues(i, cfg.alerts[i]) : i \in 1..Len(cfg.alerts)}
    \cup UNION {PortfolioIssues(i, cfg.portfolios[i]) : i \in 1..Len(cfg.portfolios)}
    \cup UNION {LET w == cfg.watchlists[i]
                IN Issues(Issue(<<"watchlists", i>>, "name"), w.name = "")
                   \cup Issues(Issue(<<"watchlists", i>>, "no symbols"), w.symbols = <<>>)
                   \cup ListIssues(<<"watchlists", i>>, w.symbols)
                : i \in 1..Len(cfg.watchlists)}
    \cup ListIssues(<<"watchlist">>, cfg.watchlist)

(* Every symbol the file mentions, as it is written there.                 *)
SymbolsWritten(cfg) ==
  ToSet(cfg.watchlist) \cup UNION {ToSet(cfg.watchlists[i].symbols) : i \in 1..Len(cfg.watchlists)}
    \cup UNION {SymbolsHeld(cfg.portfolios[i]) : i \in 1..Len(cfg.portfolios)}
    \cup {cfg.alerts[i].symbol : i \in 1..Len(cfg.alerts)}

CanonicalNotes(cfg) ==
  LET logged == UNION {{cfg.portfolios[i].transactions[j].symbol : j \in 1..Len(cfg.portfolios[i].transactions)}
                       : i \in 1..Len(cfg.portfolios)}
  IN {<<s, Canonical(s)>> : s \in {t \in SymbolsWritten(cfg) \cup logged : Canonical(t) \notin {<<>>, t}}}

ConfigSymbols(cfg) == SymbolsWritten(cfg) \ {<<>>}

(* Every symbol that was asked for before the time was up and had no bar;  *)
(* what was not asked for is not reported.                                 *)
CheckSymbolData(cfg, bars) == {s \in ConfigSymbols(cfg) \cap DOMAIN bars : bars[s] = 0}

(* What the command ends with: its issues fail it, its warnings never, and *)
(* of a file that does not parse nothing else is said.                     *)
RunValidate(parses, cfg, bars) ==
  [ok |-> parses /\ ValidateConfig(cfg) = {},
   issues |-> IF parses THEN ValidateConfig(cfg) ELSE {},
   warnings |-> IF parses THEN CheckSymbolData(cfg, bars) ELSE {}]

(* mkt config set: a value that is refused changes nothing.                *)
SetKey(cfg, key, value) ==
  CASE key = "poll_interval" /\ value \notin {"unreadable", "not positive"} -> [cfg EXCEPT !.poll_interval = value]
    [] key = "theme" /\ value \in Themes \cup {"dark"} -> [cfg EXCEPT !.theme = value]
    [] OTHER -> cfg

(* mkt config repair --from-backup: a number counts the backups, the       *)
(* newest first; anything else is the path of a file.                      *)
ResolveBackupRef(ref, backups, files) ==
  CASE ref.isNumber /\ ref.number \in 1..Len(backups) -> backups[ref.number]
    [] ~ref.isNumber /\ ref.path \in files -> ref.path
    [] OTHER -> "none"
=============================================================================
