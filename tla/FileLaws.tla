------------------------------ MODULE FileLaws ------------------------------
(***************************************************************************)
(* What the encoding, the losses and the validation of a configuration     *)
(* must satisfy, over configurations that differ in one section or in      *)
(* several, and what an import must do, over small files in both formats.  *)
(***************************************************************************)
EXTENDS ConfigFile, Imports

LOCAL A == <<"BTC", "-", "USD">>
LOCAL B == <<"X">>
LOCAL Rule(symbol, condition) ==
  [symbol |-> symbol, condition |-> condition, value |-> 1, enabled |-> TRUE, match |-> "", conditions |-> <<>>]
LOCAL Held(name, symbols, logged) ==
  [name |-> name, tax_method |-> "",
   holdings |-> [i \in 1..Len(symbols) |-> [symbol |-> symbols[i], quantity |-> 1]],
   transactions |-> [i \in 1..logged |-> [type |-> "buy", symbol |-> A, time |-> "day"]]]
LOCAL Group(name, symbols) == [name |-> name, symbols |-> symbols]
LOCAL Feed(name) == [name |-> name, url |-> "u"]

(* The forms each section takes, the emptiest first.                       *)
LOCAL Forms(key) ==
  CASE key = "watchlist" -> {<<>>, <<A>>, <<A, B>>, <<B>>}
    [] key = "watchlists" -> {<<>>, <<Group("g", <<A>>)>>, <<Group("g", <<A, B>>), Group("h", <<A>>)>>, <<Group("h", <<>>)>>}
    [] key = "portfolios" -> {<<>>, <<Held("p", <<A>>, 0)>>, <<Held("p", <<A, B>>, 1)>>,
                              <<Held("p", <<B>>, 2), Held("q", <<>>, 0)>>}
    [] key = "alerts" -> {<<>>, <<Rule(A, "above")>>, <<Rule(A, "above"), Rule(A, "above")>>,
                          <<Rule(A, "below"), Rule(A, "above")>>}
    [] key \in Secrets -> {"", "one", "two"}
    [] key \in Toggles -> {"unset", "on", "off"}
    [] key = "edgar_tickers" -> {<<>>, <<"T">>, <<"T", "U">>}
    [] key = "notes" -> UNION {[S -> {"n", "m"}] : S \in SUBSET {A, B}}
    [] key = "serve" -> {[addr |-> a, host_key |-> "", authorized_keys |-> k, authorized_keys_file |-> f] :
                           a, f \in {"", "there"}, k \in {<<>>, <<"k">>, <<"k", "l">>}}
    [] key = "providers" -> {[NoProviders EXCEPT !.news = n, !.macro = m] : n, m \in {"unset", "on"}}
    [] key = "news_feeds" -> {<<>>, <<Feed("a")>>, <<Feed("a"), Feed("b")>>, <<Feed("b")>>}
    [] key = "poll_interval" -> {"15s", "unreadable", "not positive"}
    [] key = "theme" -> {"", "dark", "plain", "odd"}
    [] key = "sparkline_len" -> {60, 0}
    [] key = "schema_version" -> {0, 1, 2}

LOCAL Plain == [key \in KnownSections |-> CASE key = "poll_interval" -> "15s" [] key = "sparkline_len" -> 60
                                            [] key = "theme" -> "" [] OTHER -> Absent(key)]
LOCAL Varied(cfg, key) == {[cfg EXCEPT ![key] = f] : f \in Forms(key)}
LOCAL Sections == KnownSections \ {"schema_version", "poll_interval", "theme", "sparkline_len"}
LOCAL Gone(old, next) == Removals(old, next, EncodeConfig(old), EncodeConfig(next))
LOCAL Silent(old, next) == Gone(old, next) = {}

(* A configuration that is written and read again is the same, whichever   *)
(* of its sections are empty; a write of what is there drops nothing.      *)
WrittenIsRead ==
  \A k \in KnownSections, l \in Sections :
    \A cfg \in UNION {Varied(c, l) : c \in Varied(Plain, k)} :
      LET again == ParseFile(EncodeConfig(cfg))
      IN again = [cfg EXCEPT !.schema_version = SchemaVersion] /\ Silent(cfg, again)

(* The things a section holds that can be missed one by one.               *)
LOCAL Things(cfg) ==
  {<<"watched", s>> : s \in ToSet(cfg.watchlist)} \cup {<<"edgar", t>> : t \in ToSet(cfg.edgar_tickers)}
    \cup UNION {{<<"group", cfg.watchlists[i].name>>}
                  \cup {<<"in group", cfg.watchlists[i].name, s>> : s \in ToSet(cfg.watchlists[i].symbols)}
                : i \in 1..Len(cfg.watchlists)}
    \cup UNION {{<<"portfolio", cfg.portfolios[i].name>>}
                  \cup {<<"held", cfg.portfolios[i].name, s>> : s \in SymbolsHeld(cfg.portfolios[i])}
                  \cup {<<"logged", cfg.portfolios[i].name, n>> : n \in 1..Len(cfg.portfolios[i].transactions)}
                : i \in 1..Len(cfg.portfolios)}
    \cup {<<"rule", cfg.alerts[i], Cardinality({j \in 1..i : cfg.alerts[j] = cfg.alerts[i]})>> : i \in 1..Len(cfg.alerts)}
    \cup {<<"note", s, cfg.notes[s]>> : s \in DOMAIN cfg.notes}
    \cup {<<"set", k>> : k \in {s \in Secrets : cfg[s] # ""} \cup {t \in Toggles : cfg[t] # "unset"}
                               \cup {f \in Feeds : cfg.providers[f] # "unset"}
                               \cup {f \in {"addr", "host_key", "authorized_keys_file"} : cfg.serve[f] # ""}}
    \cup {<<"key", n>> : n \in 1..Len(cfg.serve.authorized_keys)}
    \cup {<<"feed", f>> : f \in ToSet(cfg.news_feeds)}

(* A write is silent exactly when nothing that was there is missing: a     *)
(* section the losses forgot would be one a write drops without a word.    *)
SilentWhenNothingGoes ==
  \A k \in Sections : \A old, next \in Varied(Plain, k) :
    Silent(old, next) <=> Things(old) \subseteq Things(next)

(* A section mkt does not know is lost with any write, and named if there  *)
(* is anything in it.                                                      *)
UnknownSectionIsNamed ==
  \A value \in {"empty", "some"} :
    LET keys == [k \in DOMAIN EncodeConfig(Plain) \cup {"mine"} |-> IF k = "mine" THEN value ELSE Plain[k]]
    IN Removals(Plain, Plain, keys, EncodeConfig(Plain)) = IF value = "some" THEN {Loss("section", "mine", "")} ELSE {}

(* A symbol that is added is never asked about; one that is removed, in    *)
(* whatever spelling, is named in the one the list has.                    *)
AddIsSilentRemoveIsNamed ==
  \A list \in Forms("watchlist"), s \in {A, B, <<"btc">>, <<"x">>, <<"7">>} :
    LET old == [Plain EXCEPT !.watchlist = list]
        added == [old EXCEPT !.watchlist = AddSymbol(@, s)]
        removed == [old EXCEPT !.watchlist = RemoveSymbol(@, s)]
    IN /\ Silent(old, added)
       /\ Gone(old, removed) = IF Contains(list, Canonical(s))
                               THEN {Loss("watchlist symbols", "", {Canonical(s)})} ELSE {}

(* Each problem is one issue of its own, whatever else the file has, and   *)
(* setting a value never adds one.                                         *)
EachProblemIsAnIssue ==
  LET bad == [watchlist |-> <<<<"7">>, A>>, theme |-> "odd", sparkline_len |-> 0, poll_interval |-> "not positive",
              schema_version |-> 2, watchlists |-> <<Group("", <<B>>)>>,
              alerts |-> <<[Rule(A, "above") EXCEPT !.conditions = <<"above", "odd">>]>>,
              portfolios |-> <<[Held("p", <<A>>, 1) EXCEPT !.holdings[1].quantity = -1,
                                                           !.transactions[1].time = "unreadable"]>>]
      broken(S) == [k \in KnownSections |-> IF k \in S THEN bad[k] ELSE Plain[k]]
  IN /\ \A S \in SUBSET DOMAIN bad :
          Cardinality(ValidateConfig(broken(S))) = Cardinality(S) + (IF "portfolios" \in S THEN 1 ELSE 0)
     /\ \A S \in SUBSET DOMAIN bad, v \in Forms("poll_interval") \cup Forms("theme"), k \in {"poll_interval", "theme", "notes"} :
          ValidateConfig(SetKey(broken(S), k, v)) \subseteq ValidateConfig(broken(S))

(* What the dashboard shows is what the file says once it is canonical:    *)
(* nothing more to note, and the same symbols to route.                    *)
NotesGoAway ==
  \A a, b \in {A, B, <<"btc">>, <<"x">>, <<"MATIC">>, <<"7">>} :
    LET typed == [Plain EXCEPT !.watchlist = <<a, b>>]
        read == [Plain EXCEPT !.watchlist = CanonicalDedupe(<<a, b>>)]
    IN /\ CanonicalNotes(read) = {}
       /\ CanonicalNotes(typed) = {} => read.watchlist = FirstOfEach(typed.watchlist)
       /\ RunValidate(TRUE, typed, <<>>).ok <=> RunValidate(TRUE, read, <<>>).ok
       /\ RunValidate(TRUE, read, [s \in ConfigSymbols(read) |-> 0]).warnings = ToSet(read.watchlist)

-----------------------------------------------------------------------------
(* Imports *)

LOCAL GenericHeader == <<<<"date">>, <<"type">>, <<"symbol">>, <<"quantity">>, <<"price">>, <<"fee">>>>
LOCAL SchwabHeader ==
  <<<<"date">>, <<"action">>, <<"symbol">>, <<"description">>, <<"quantity">>, <<"price">>, <<"fees & comm">>>>
LOCAL Amounts == {<<"1">>, <<"$", "5">>, <<"(", "2", ")">>, <<>>, <<"n/a">>, <<"-", "-">>}
LOCAL Kinds == {"buy", "sell", "dividend"}

LOCAL GenericRow(kind, qty, price, fee) == <<<<"mon">>, <<kind>>, <<"A">>, qty, price, fee>>
LOCAL SchwabRow(kind, qty, price, fee) ==
  <<<<"mon">>, (IF kind = "dividend" THEN <<"cash", "dividend">> ELSE <<kind>>), <<"A">>, <<"note">>, qty, price, fee>>
LOCAL GenericFile(rows) == <<<<>>, GenericHeader>> \o rows
LOCAL Row(kind, n) == GenericRow(kind, <<n>>, <<"5">>, <<>>)
LOCAL Files == {GenericFile(<<>>)} \cup {GenericFile(<<a>>) : a \in {Row("buy", "1"), Row("sell", "2")}}
                 \cup {GenericFile(<<a, b, c>>) : a, b, c \in {Row("buy", "1"), Row("sell", "2"), Row("split", "1")}}

(* Each header has its format, a few of the columns of both have none, and *)
(* a file and its other form are the same transactions.                    *)
FormatsAgree ==
  /\ Detect(GenericFile(<<>>)) = "generic" /\ Detect(<<SchwabHeader>>) = "schwab"
  /\ Detect(<<>>) = "none" /\ Detect(<<Tail(GenericHeader)>>) = "none"
  /\ \A kind \in Kinds, qty, price, fee \in Amounts :
       LET one == Parse("generic", GenericFile(<<GenericRow(kind, qty, price, fee)>>))
           other == Parse("schwab", <<SchwabHeader, SchwabRow(kind, qty, price, fee)>>)
       IN /\ one.ok /\ one = other
          /\ Len(one.txs) = IF IsNumber(StripNumeric(qty)) /\ IsNumber(StripNumeric(price)) THEN 1 ELSE 0

(* Importing a file again adds nothing; of every kind of transaction the   *)
(* log has, in the end, as many as it had or as many as the file has,      *)
(* whichever is more.  Nothing else about any log changes.                 *)
ImportTwiceIsOnce ==
  \A first, second \in Files, dry, force \in BOOLEAN :
    LET start == [degraded |-> FALSE, logs |-> [n \in {"other"} |-> Parse("generic", second).txs]]
        once == Import(start, first, "auto", "main", FALSE, FALSE)
        then == Import([degraded |-> FALSE, logs |-> once.logs], second, "auto", "main", dry, force)
        log(r) == IF "main" \in DOMAIN r.logs THEN r.logs["main"] ELSE <<>>
        count(txs, k) == Cardinality({i \in 1..Len(txs) : TxKey(txs[i]) = k})
        keys == {TxKey(t) : t \in ToSet(Parse("generic", first).txs) \cup ToSet(Parse("generic", second).txs)}
    IN /\ then.logs["other"] = start.logs["other"] /\ IsPrefix(log(once), log(then))
       /\ dry => ~then.save /\ then.logs = once.logs
       /\ then.save <=> Len(log(then)) > Len(log(once))
       /\ ~dry => \A k \in keys :
            LET a == count(Parse("generic", first).txs, k)
                b == count(Parse("generic", second).txs, k)
            IN count(log(then), k) = IF force THEN a + b ELSE IF a < b THEN b ELSE a

(* A configuration that could not be read is never quietly reported on.    *)
DegradedImportFails ==
  \A file \in Files, dry \in BOOLEAN :
    LET r == Import([degraded |-> TRUE, logs |-> [n \in {} |-> <<>>]], file, "auto", "main", dry, FALSE)
    IN r.ok => r.save
=============================================================================
