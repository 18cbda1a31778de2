---------------------------- MODULE MCDelivery ----------------------------
(* Two configurations: a webhook destination beside the history, fed by    *)
(* the alert check and by the inbound webhook; and the history alone, with *)
(* a second process that appends to the same file.                         *)
EXTENDS Delivery

CONSTANTS checker, handler, self, other

Tokenless == [listen |-> "loopback", token |-> NoToken, requireToken |-> FALSE,
              enableWebhook |-> TRUE]
NoSurface == [Tokenless EXCEPT !.listen = "off"]
Plain == [noNotify |-> FALSE, notifications |-> TRUE, noDesktopNotify |-> TRUE,
          desktopNotify |-> "unset", serveMode |-> FALSE, webhookURL |-> FALSE,
          ruleWebhooks |-> 2, ntfyTopic |-> FALSE, pushover |-> FALSE, shared |-> FALSE,
          opts |-> Tokenless]

MCConfigs ==
  {[Plain EXCEPT !.opts = o] : o \in {Tokenless, [Tokenless EXCEPT !.token = "secret"]}}
  \cup {[Plain EXCEPT !.noNotify = TRUE, !.shared = TRUE, !.opts = NoSurface]}

Good == [route |-> Webhook, method |-> "POST", scheme |-> "bearer", credential |-> "secret",
         origin |-> FALSE, body |-> "json", symbol |-> <<>>, ticker |-> <<"a">>,
         message |-> <<"x">>, alert |-> <<>>]
MCRequests == {Good, [Good EXCEPT !.scheme = "basic"], [Good EXCEPT !.message = <<"ctl">>]}

MCDestinations == {"webhook", History}
MCHandlers == {handler}
MCProcesses == {self, other}

(* A name registered again replaces the series: a scrape has it once. *)
ASSUME RegistryHasNoDuplicates ==
  \A a, b, c \in 1..3 :
    LET reg(r, n, v) == Register(r, [name |-> n, value |-> v])
        shown == Rendered(reg(reg(reg(<<>>, a, "old"), b, "old"), c, "new"))
    IN /\ \A i, j \in 1..Len(shown) : i < j => shown[i].name < shown[j].name
       /\ {shown[i].name : i \in 1..Len(shown)} = {a, b, c}
       /\ \A i \in 1..Len(shown) : shown[i].name = c <=> shown[i].value = "new"

-----------------------------------------------------------------------------
(* The pure operators against what they are for, over all short inputs.    *)

Texts == UNION {[1..n -> Chars] : n \in 0..4}
NoBlanks(t) == SelectSeq(t, LAMBDA c : c # " ")

(* Clean text keeps its words and nothing that is not printable, has       *)
(* single blanks between words and none at the ends, and cleaning it again *)
(* changes nothing.                                                        *)
ASSUME CleanTextIsClean ==
  \A t \in Texts : LET c == CleanText(t, 3) IN
    c # Refused =>
      /\ Len(c) <= 3 /\ NoBlanks(c) = NoBlanks(t) /\ CleanText(c, 3) = c
      /\ \A i \in 1..Len(c) : c[i] = " " => i # 1 /\ i # Len(c) /\ c[i + 1] # " "

(* No combination of flags opens the surface to other hosts, or mounts the *)
(* webhook, without a token.                                               *)
ASSUME SurfaceIsGuarded ==
  \A o \in Options : Serves(o) /\ o.token = NoToken =>
    o.listen = "loopback" /\ ~o.enableWebhook /\ ~o.requireToken

(* A token file that was named is never passed over: without a token in it *)
(* the command stops instead of falling back to the environment, and only  *)
(* the token on the command line goes before it.                           *)
ASSUME TokenFileIsNotIgnored ==
  \A src \in TokenSources : src.argv = NoToken /\ src.file # "absent" =>
    ResolvedToken(src) \in {"error", "filed"}

(* With a token in force only the probes answer without it, and a surface  *)
(* that has cached nothing says so.                                        *)
ASSUME ReadsAreGuarded ==
  \A o \in Options, route \in ReadRoutes \cup Probes, scheme \in {"bearer", "basic"},
    credential \in {NoToken, "secret"}, method \in {"GET", "DELETE"}, cached \in {{}, {"BTC"}} :
    LET req == [route |-> route, method |-> method, scheme |-> scheme,
                credential |-> credential, sym |-> "BTC"]
        status == ReadStatus(o, req, cached)
    IN /\ status = 200 => method = "GET" /\ (route \in Probes \/ Authorized(o, req))
       /\ route = "readyz" /\ cached = {} => status # 200

(* Observations land in the bucket that a scrape reads them from: the      *)
(* count at an edge is the number of observations not above it.            *)
ASSUME HistogramCounts ==
  \A e1, e2 \in 1..3, a, b \in 0..4 :
    LET h == Observed(Observed(NewHistogram(<<e1, e2>>), a), b)
        cum == Cumulative(h)
        upto(v) == (IF a <= v THEN 1 ELSE 0) + (IF b <= v THEN 1 ELSE 0)
    IN /\ \A i \in 1..Len(h.bounds) : cum[i] = upto(h.bounds[i])
       /\ cum[Len(cum)] = 2 /\ Count(h) = 2

(* Whatever an alert says, the helper that shows it reads the text back    *)
(* as it was and goes on behind its closing quote.                         *)
ASSUME LiteralsEndWhereTheyShould ==
  \A t \in UNION {[1..n -> ScriptChars] : n \in 0..3} :
    /\ LET r == AppleScriptReads(AppleScriptLiteral(t) \o <<"o">>)
       IN r.closed /\ r.text = t /\ r.took = Len(AppleScriptLiteral(t))
    /\ LET r == PowerShellReads(QuotePowerShell(t) \o <<"o">>)
       IN r.closed /\ r.text = t /\ r.took = Len(QuotePowerShell(t))

(* What is cleaned for a terminal keeps every printable character, has no  *)
(* other, and needs no second cleaning; what is validated instead is the   *)
(* same text wherever it is accepted.                                      *)
ASSUME CleanIsPrintable ==
  \A t \in Texts : LET c == Clean(t) IN
    /\ \A i \in 1..Len(c) : c[i] \in {"a", "x", " "}
    /\ Clean(c) = c
    /\ SelectSeq(c, LAMBDA k : k = "a") = SelectSeq(t, LAMBDA k : k = "a")
    /\ CleanText(t, 4) # Refused => CleanText(t, 4) = c

(* Two destinations that differ in their secrets only look the same. *)
Secrets == [parses : BOOLEAN, scheme : {"https"}, host : {Nothing, "h"},
            path : {Nothing, "/", "s1", "s2"}, query : {Nothing, "s1", "s2"}]
ASSUME RedactionHidesSecrets ==
  \A u, v \in Secrets :
    /\ u.parses = v.parses /\ u.host = v.host
    /\ u.path \notin {Nothing, "/"} /\ v.path \notin {Nothing, "/"}
    => RedactErr([op |-> "Post", url |-> u]) = RedactErr([op |-> "Post", url |-> v])

(* The SSH surface never opens without a key: a file that holds no key is  *)
(* an error or says nothing, and an entry that is no key keeps it shut.    *)
Lines == UNION {[1..n -> {"key", "comment", "blank", "garbage"}] : n \in 0..3}
ASSUME ServeNeedsKeys ==
  \A inline, f \in Lines : ServeOpens(inline, f) =>
    /\ "key" \in ToSet(inline) \cup ToSet(f)
    /\ "garbage" \notin ToSet(inline)
    /\ f # <<>> => Last(f) \in {"key", "blank"}

(* No view of a rule holds the URL of its webhooks, and a scrape gives an  *)
(* age to none but stamped quotes and shows a symbol in all gauges or none. *)
ASSUME ViewsHideAndAgree ==
  /\ \A r \in [symbol : {"s"}, enabled : BOOLEAN, webhooks : SUBSET {"u", "v"}] :
       "webhooks" \notin DOMAIN AlertRuleView(r)
  /\ \A quotes \in [{"s", "t"} -> [price : {1}, pct : {0, 1} , stamp : {0, 3}]] :
       LET g == Gauges(quotes, 4) IN
       /\ \A e \in g : e.name = "mkt_quote_age_seconds" => e.value = 1
       /\ \A e \in g : \E f \in g : f.sym = e.sym /\ f.name = "mkt_price"
       /\ \A s \in {"s", "t"} : QuoteEntry(s, quotes[s]).dir = "up" <=> quotes[s].pct > 0

=============================================================================
