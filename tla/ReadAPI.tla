------------------------------ MODULE ReadAPI ------------------------------
(***************************************************************************)
(* The HTTP surface as functions of a request: how `mkt` decides whether   *)
(* to open it, which token it asks for, and what each route answers; the   *)
(* metrics that it renders; and the text that leaves the process for a     *)
(* place that reads more into it than its words (a script literal, a       *)
(* terminal, a log line).  The effects of an accepted webhook are in       *)
(* Delivery.                                                               *)
(*                                                                         *)
(* Text is a sequence of character classes: "a" a ticker letter, "x" any   *)
(* other printable character, " " white space (tab and newline included),  *)
(* "ctl" a control or formatting character, "bad" a byte that is no UTF-8. *)
(***************************************************************************)
EXTENDS Naturals, Sequences, SequencesExt, FiniteSetsExt

CONSTANTS
  MaxSymbolRunes,    \* maxWebhookSymbolRunes
  MaxMessageRunes    \* maxWebhookMessageRunes

-----------------------------------------------------------------------------
(* Text that leaves the process.                                           *)

(* For script literals: "bs" backslash, "dq" double quote, "nl" newline,   *)
(* "apos" and "curly" the quotes of PowerShell, "n" and "o" anything else. *)
ScriptChars == {"bs", "dq", "nl", "apos", "curly", "n", "o"}

Spelled(text, spell(_)) == FlattenSeq([i \in 1..Len(text) |-> spell(text[i])])

EscapeAppleScript(text) ==
  Spelled(text, LAMBDA c : CASE c \in {"bs", "dq"} -> <<"bs", c>>
                             [] c = "nl" -> <<"bs", "n">>
                             [] OTHER -> <<c>>)

AppleScriptLiteral(text) == <<"dq">> \o EscapeAppleScript(text) \o <<"dq">>

IsPowerShellQuote(c) == c \in {"apos", "curly"}

QuotePowerShell(text) ==
  <<"apos">> \o Spelled(text, LAMBDA c : IF IsPowerShellQuote(c) THEN <<c, c>> ELSE <<c>>)
  \o <<"apos">>

(* The readers of the two scripting languages: what a literal at the start *)
(* of a script says, and how many characters it took.                      *)
AppleScriptReads(script) ==
  LET step(s, c) ==
        CASE s.closed -> s
          [] ~s.closed /\ s.escaped ->
               [s EXCEPT !.text = Append(@, IF c = "n" THEN "nl" ELSE c), !.escaped = FALSE,
                         !.took = @ + 1]
          [] ~s.closed /\ ~s.escaped /\ c = "bs" -> [s EXCEPT !.escaped = TRUE, !.took = @ + 1]
          [] ~s.closed /\ ~s.escaped /\ c = "dq" -> [s EXCEPT !.closed = TRUE, !.took = @ + 1]
          [] OTHER -> [s EXCEPT !.text = Append(@, c), !.took = @ + 1]
  IN FoldLeft(step, [text |-> <<>>, escaped |-> FALSE, closed |-> FALSE, took |-> 1],
              Tail(script))

PowerShellReads(script) ==
  LET step(s, c) ==
        CASE s.closed -> s
          [] ~s.closed /\ s.quoted /\ IsPowerShellQuote(c) ->
               [s EXCEPT !.text = Append(@, c), !.quoted = FALSE, !.took = @ + 1]
          [] ~s.closed /\ s.quoted /\ ~IsPowerShellQuote(c) -> [s EXCEPT !.closed = TRUE]
          [] ~s.closed /\ ~s.quoted /\ IsPowerShellQuote(c) ->
               [s EXCEPT !.quoted = TRUE, !.took = @ + 1]
          [] OTHER -> [s EXCEPT !.text = Append(@, c), !.took = @ + 1]
  IN FoldLeft(step, [text |-> <<>>, quoted |-> FALSE, closed |-> FALSE, took |-> 1],
              Tail(script))

-----------------------------------------------------------------------------

(* For terminals: "x" printable, " " white space, "ctl" a control or       *)
(* formatting character, "bad" a byte that is no UTF-8.                    *)
Squeeze(text) ==
  LET step(sofar, c) ==
        IF c = " " /\ (sofar = <<>> \/ Last(sofar) = " ") THEN sofar ELSE Append(sofar, c)
      folded == FoldLeft(step, <<>>, text)
  IN IF folded # <<>> /\ Last(folded) = " " THEN Front(folded) ELSE folded

(* A run of bad bytes becomes one replacement character. *)
ValidUTF8(text) ==
  Spelled([i \in 1..Len(text) |-> <<i, text[i]>>],
          LAMBDA p : CASE p[2] # "bad" -> <<p[2]>>
                       [] p[2] = "bad" /\ p[1] > 1 /\ text[p[1] - 1] = "bad" -> <<>>
                       [] OTHER -> <<"x">>)

Clean(text) == Squeeze(SelectSeq(ValidUTF8(text), LAMBDA c : c # "ctl"))

Truncate(text, n) ==
  CASE n = 0 -> <<>>
    [] n > 0 /\ Len(text) <= n -> text
    [] OTHER -> Append(SubSeq(text, 1, n), "ellipsis")

-----------------------------------------------------------------------------

(* For logs: of a destination's URL only scheme and host are shown, and    *)
(* whether there is more.  A URL without a host is not shown at all.       *)
Nothing == "nothing"
Placeholder == [scheme |-> Nothing, host |-> "<redacted url>", more |-> FALSE]

RedactURL(u) ==
  IF ~u.parses \/ u.host = Nothing THEN Placeholder
  ELSE [scheme |-> u.scheme, host |-> u.host,
        more |-> u.path \notin {Nothing, "/"} \/ u.query # Nothing]

(* The error of an HTTP client names the URL it was asked for. *)
RedactErr(err) == [err EXCEPT !.url = RedactURL(@)]

-----------------------------------------------------------------------------
(* Opening the surface.                                                    *)

Chars == {"a", "x", " ", "ctl", "bad"}

NoToken == "no token"

(* What the flags and the environment can say about the token.  A file    *)
(* is "absent", "unreadable", or has a token (blank: NoToken).            *)
TokenFiles == {"absent", "unreadable", NoToken, "filed"}
TokenSources ==
  [ argv : {NoToken, "argued"}, file : TokenFiles, env : {NoToken, "exported"} ]

(* The token in force, or "error" when the process refuses to start. *)
ResolvedToken(src) ==
  CASE src.argv # NoToken -> src.argv
    [] src.argv = NoToken /\ src.file = "absent" -> src.env
    [] src.argv = NoToken /\ src.file \in {"unreadable", NoToken} -> "error"
    [] OTHER -> src.file

Options ==
  [ listen : {"off", "loopback", "any"}, token : {NoToken, "secret"},
    requireToken : BOOLEAN, enableWebhook : BOOLEAN ]

(* The surface opens only when every check of startReadAPI passes. *)
Serves(opts) ==
  /\ opts.listen # "off"
  /\ opts.requireToken => opts.token # NoToken
  /\ opts.enableWebhook => opts.token # NoToken
  /\ ~opts.requireToken => (opts.token # NoToken \/ opts.listen = "loopback")

(* A command refuses to start where a surface was asked for and not opened. *)
Starts(opts) == opts.listen = "off" \/ Serves(opts)

-----------------------------------------------------------------------------

(* cleanText: white space collapses to single blanks, the ends are trimmed, *)
(* and anything that could reach a terminal as a command is refused.        *)
Refused == <<"refused">>

CleanText(text, maxRunes) ==
  IF \/ \E i \in 1..Len(text) : text[i] \in {"ctl", "bad"}
     \/ Len(Squeeze(text)) > maxRunes
  THEN Refused
  ELSE Squeeze(text)

Blank(text) == \A i \in 1..Len(text) : text[i] = " "

FirstNonEmpty(texts) ==
  LET some == {i \in 1..Len(texts) : ~Blank(texts[i])}
  IN IF some = {} THEN <<>> ELSE texts[CHOOSE i \in some : \A j \in some : i <= j]

(* symbolPattern, on a symbol that is already clean and upper case. *)
LooksLikeTicker(sym) == sym # <<>> /\ \A i \in 1..Len(sym) : sym[i] = "a"

-----------------------------------------------------------------------------

(* A request: credential is what the Authorization header carries; body is *)
(* "big" past the size cap, "garbage" when it is not JSON.  Symbol and     *)
(* message are two spellings each, of which the first that says something  *)
(* counts.                                                                 *)
Symbol(req) == CleanText(FirstNonEmpty(<<req.symbol, req.ticker>>), MaxSymbolRunes)
Message(req) == CleanText(FirstNonEmpty(<<req.message, req.alert>>), MaxMessageRunes)

(* Reads are GET or HEAD; only the webhook changes anything. *)
ReadRoutes == {"quotes", "quote", "alerts", "metrics"}
Probes == {"healthz", "readyz"}
Webhook == "webhook"

Authorized(opts, req) ==
  opts.token = NoToken \/ (req.scheme = "bearer" /\ req.credential = opts.token)

(* The checks of a route in the order they are made, each with the status  *)
(* that its failure answers, for a route that is mounted.                  *)
ReadChecks(opts, req) ==
  << [ok |-> req.route \in Probes \/ Authorized(opts, req), status |-> 401],
     [ok |-> req.method \in {"GET", "HEAD"}, status |-> 405] >>

WebhookChecks(opts, req, allowed, alertsOn) ==
  << [ok |-> Authorized(opts, req), status |-> 401],
     [ok |-> req.method = "POST", status |-> 405],
     [ok |-> ~req.origin, status |-> 403],
     [ok |-> allowed, status |-> 429],
     [ok |-> alertsOn, status |-> 503],
     [ok |-> req.body # "big", status |-> 413],
     [ok |-> req.body # "garbage", status |-> 400],
     [ok |-> Symbol(req) # Refused /\ (Symbol(req) = <<>> \/ LooksLikeTicker(Symbol(req))),
      status |-> 400],
     [ok |-> Message(req) # Refused, status |-> 400] >>

FirstFailure(checks) ==
  LET failed == {i \in 1..Len(checks) : ~checks[i].ok}
  IN IF failed = {} THEN 200
     ELSE checks[CHOOSE i \in failed : \A j \in failed : i <= j].status

(* readyz answers 503 until some quote is cached; a quote asked for by a   *)
(* symbol that is not cached is not found.                                 *)
ReadStatus(opts, req, cached) ==
  LET refused == FirstFailure(ReadChecks(opts, req))
  IN CASE refused # 200 -> refused
       [] refused = 200 /\ req.route = "readyz" /\ cached = {} -> 503
       [] refused = 200 /\ req.route = "quote" /\ req.sym \notin cached -> 404
       [] OTHER -> 200

(* /quotes: an entry per cached symbol, stamped only where the provider    *)
(* stamped the quote.  The quotes are read one by one while others land.   *)
Direction(pct) == CASE pct > 0 -> "up" [] pct < 0 -> "down" [] OTHER -> "flat"
QuoteEntry(sym, q) ==
  [symbol |-> sym, price |-> q.price, change_pct |-> q.pct, dir |-> Direction(q.pct),
   time |-> q.stamp]

(* /alerts: rules without the URLs of their webhooks, which are secrets. *)
AlertRuleView(rule) ==
  [f \in (DOMAIN rule \ {"webhooks"}) \cup {"has_webhooks"} |->
     IF f = "has_webhooks" THEN rule.webhooks # {} ELSE rule[f]]

(* /metrics: a price and a change for every cached symbol, an age where    *)
(* the provider stamped the quote (a stamp of 0 is none), from one look.   *)
Gauges(quotes, now) ==
  {[name |-> "mkt_price", sym |-> s, value |-> quotes[s].price] : s \in DOMAIN quotes} \cup
  {[name |-> "mkt_change_pct", sym |-> s, value |-> quotes[s].pct] : s \in DOMAIN quotes} \cup
  {[name |-> "mkt_quote_age_seconds", sym |-> s, value |-> now - quotes[s].stamp] :
     s \in {t \in DOMAIN quotes : quotes[t].stamp # 0}}

-----------------------------------------------------------------------------

(* Histograms with fixed buckets and the registry that a scrape renders.   *)
(* Bucket edges and observations are numbers; a series is its name and its *)
(* value.                                                                  *)

(* NewHistogram sorts its edges and drops repeated ones. *)
Edges(bounds) == SetToSortSeq({bounds[i] : i \in 1..Len(bounds)}, <)

NewHistogram(bounds) ==
  [bounds |-> Edges(bounds), counts |-> [i \in 1..(Len(Edges(bounds)) + 1) |-> 0], sum |-> 0]

(* An observation belongs to the first bucket whose edge is not below it;  *)
(* past the last edge it belongs to the +Inf bucket.                       *)
BucketOf(h, v) ==
  1 + Cardinality({i \in 1..Len(h.bounds) : h.bounds[i] < v})

Observed(h, v) ==
  [h EXCEPT !.counts[BucketOf(h, v)] = @ + 1, !.sum = @ + v]

Count(h) == FoldLeft(+, 0, h.counts)

(* What a scrape shows: one cumulative count per edge, then +Inf. *)
Cumulative(h) == [i \in 1..Len(h.counts) |-> FoldLeft(+, 0, SubSeq(h.counts, 1, i))]

(* The registry holds one series per name: the last one registered. *)
Register(registry, metric) ==
  [n \in DOMAIN registry \cup {metric.name} |->
     IF n = metric.name THEN metric.value ELSE registry[n]]

(* A scrape renders every series once, in the order of the names. *)
Rendered(registry) ==
  LET names == SetToSortSeq(DOMAIN registry, <)
  IN [i \in 1..Len(names) |-> [name |-> names[i], value |-> registry[names[i]]]]

-----------------------------------------------------------------------------

(* The SSH surface opens to the keys listed inline and in a file.  A line  *)
(* is "key", "comment", "blank" or "garbage"; inline garbage is an error.  *)
(* The parser of the file skips what it cannot read on the way to the next *)
(* key, and fails when anything but blank lines follows the last.          *)
InlineFails(inline) == "garbage" \in ToSet(inline)

FileFails(file) ==
  \E i \in 1..Len(file) : file[i] # "blank" /\ \A j \in i..Len(file) : file[j] # "key"

ServeOpens(inline, file) ==
  /\ ~InlineFails(inline) /\ ~FileFails(file)
  /\ "key" \in ToSet(inline) \cup ToSet(file)

(* The statuses that handleTradingView answers through rejectWebhook. *)
CountedRejections == {403, 429, 503, 413, 400}

=============================================================================
