------------------------------ MODULE Symbols ------------------------------
(***************************************************************************)
(* What a symbol is: which provider owns a spelling, and the one spelling  *)
(* that every cache entry, rule and holding is keyed by.                   *)
(*                                                                         *)
(* A symbol is a sequence of words.  A word is a run of characters that    *)
(* the classifier looks for or a single character; Spellings gives the     *)
(* words considered: their upper case, their length, and their kind.       *)
(***************************************************************************)
EXTENDS Naturals, Sequences, SequencesExt, FiniteSets, FiniteSetsExt

Word(up, len, kind) == [up |-> up, len |-> len, kind |-> kind]

(* "BTC" stands for the known bases, "LONG" for a run past maxTickerLen.   *)
Spellings ==
  [ w \in {"BTC", "btc", "POL", "MATIC", "X", "x", "LONG", "7", "USD", "usd", "USDT",
           "BUSD", "USDC", "-", "^", ".", "=", "FRED:", "fred:", " ", "$"} |->
      CASE w \in {"BTC", "btc"} -> Word("BTC", 3, "letters")
        [] w = "POL" -> Word(w, 3, "letters")
        [] w = "MATIC" -> Word(w, 5, "letters")
        [] w \in {"X", "x"} -> Word("X", 1, "letters")
        [] w = "LONG" -> Word(w, 11, "letters")
        [] w = "7" -> Word(w, 1, "digits")
        [] w \in {"USD", "usd"} -> Word("USD", 3, "letters")
        [] w \in {"USDT", "BUSD", "USDC"} -> Word(w, 4, "letters")
        [] w \in {"-", "^", ".", "="} -> Word(w, 1, "mark")
        [] w \in {"FRED:", "fred:"} -> Word("FRED:", 5, "prefix")
        [] OTHER -> Word(w, 1, "other") ]

MaxTickerLen == 10
CryptoBases == {"BTC", "POL"}
CryptoRenames == [w \in {"MATIC"} |-> "POL"]
PairQuotes == {"USD", "USDT", "BUSD"}
BareQuotes == {"USDT", "BUSD"}

Kind(w) == Spellings[w].kind
Length(u) == SumFunction([i \in 1..Len(u) |-> Spellings[u[i]].len])
Upper(s) == [i \in 1..Len(s) |-> Spellings[s[i]].up]
All(u, P(_)) == \A i \in 1..Len(u) : P(u[i])

Trim(s) ==
  LET said == {i \in 1..Len(s) : s[i] # " "}
  IN IF said = {} THEN <<>> ELSE SubSeq(s, Min(said), Max(said))

IsBaseShape(b) ==
  b # <<>> /\ Length(b) <= MaxTickerLen /\ All(b, LAMBDA w : Kind(w) \in {"letters", "digits"})

IsKnownBase(b) == \E w \in CryptoBases \cup DOMAIN CryptoRenames : b = <<w>>

RenameBase(b) ==
  IF \E w \in DOMAIN CryptoRenames : b = <<w>> THEN <<CryptoRenames[b[1]]>> ELSE b

(* Words glued to one another are told apart, so that a base is what is    *)
(* left of the last one.                                                   *)
NoBase == <<"none">>
CryptoBase(u) ==
  LET dash == {i \in 1..Len(u) : u[i] = "-"}
      tail(qs) == Len(u) > 1 /\ Last(u) \in qs
      base == IF dash # {} THEN SubSeq(u, 1, Min(dash) - 1) ELSE Front(u)
      quote == SubSeq(u, Min(dash) + 1, Len(u))
      taken == CASE dash # {} /\ Min(dash) > 1 ->
                      Len(quote) = 1 /\ quote[1] \in PairQuotes /\ IsBaseShape(base)
                 [] tail(BareQuotes) /\ IsBaseShape(Front(u)) -> TRUE
                 [] tail({"USD"}) /\ IsKnownBase(Front(u)) -> TRUE
                 [] OTHER -> FALSE
  IN CASE taken -> RenameBase(base)
       [] ~taken /\ IsKnownBase(u) -> RenameBase(u)
       [] OTHER -> NoBase

IsTickerShape(u) ==
  LET body == IF u # <<>> /\ u[1] = "^" THEN Tail(u) ELSE u
  IN /\ body # <<>> /\ Length(body) <= MaxTickerLen
     /\ All(body, LAMBDA w : Kind(w) \in {"letters", "digits"} \/ w \in {".", "-", "="})
     /\ \E i \in 1..Len(body) : Kind(body[i]) = "letters"

Classify(s) ==
  LET u == Trim(Upper(s)) IN
  CASE u = <<>> -> [class |-> "unknown", canon |-> <<>>]
    [] u # <<>> /\ u[1] = "FRED:" -> [class |-> "fred", canon |-> <<"FRED:">> \o Trim(Tail(u))]
    [] u # <<>> /\ u[1] # "FRED:" /\ CryptoBase(u) # NoBase ->
         [class |-> "crypto", canon |-> CryptoBase(u) \o <<"-", "USD">>]
    [] OTHER -> [class |-> IF IsTickerShape(u) THEN "stock" ELSE "unknown", canon |-> u]

Canonical(s) == Classify(s).canon
IsFRED(s) == Classify(s).class = "fred"
IsCrypto(s) == Classify(s).class = "crypto"
IsStock(s) == Classify(s).class = "stock"

-----------------------------------------------------------------------------
(* Who serves a symbol *)

Supports(provider, s) ==
  CASE provider = "fred" -> IsFRED(s)
    [] provider = "coinbase" -> IsCrypto(s)
    [] provider = "yahoo" -> IsStock(s)
    [] OTHER -> TRUE

Refused == <<"refused">>

(* A FRED series id goes into a query, so anything but letters and digits  *)
(* is refused.                                                             *)
SeriesID(s) ==
  LET id == Trim(Upper(SubSeq(Trim(s), 2, Len(Trim(s)))))
  IN IF IsFRED(s) /\ id # <<>> /\ All(id, LAMBDA w : Kind(w) \in {"letters", "digits"})
     THEN id ELSE Refused

(* The product of a symbol at Coinbase; the second part is reached only by *)
(* entry points that ask for any symbol at all.                            *)
QuoteSuffixes == {"USDT", "USDC", "BUSD", "USD"}
ToCoinbaseSymbol(s) ==
  LET u == Trim(Upper(s))
      dash == {i \in 1..Len(u) : u[i] = "-"}
      base == CASE dash # {} -> SubSeq(u, 1, Min(dash) - 1)
                [] dash = {} /\ Len(u) > 1 /\ Last(u) \in QuoteSuffixes -> Front(u)
                [] OTHER -> u
  IN CASE IsCrypto(s) -> Canonical(s)
       [] ~IsCrypto(s) /\ base = <<>> -> <<>>
       [] OTHER -> base \o <<"-", "USD">>

(* The first provider of a list that supports the symbol, or none. *)
HistoryRoute(providers, s) ==
  LET able == SelectSeq(providers, LAMBDA p : Supports(p, s))
  IN IF able = <<>> THEN "none" ELSE able[1]

-----------------------------------------------------------------------------
(* Lists of symbols: one entry for each canonical spelling, at its first   *)
(* place, and none for a blank.                                            *)

FirstOfEach(list) ==
  FoldLeft(LAMBDA out, s : IF s = <<>> \/ Contains(out, s) THEN out ELSE Append(out, s),
           <<>>, list)
Mapped(list, F(_)) == [i \in 1..Len(list) |-> F(list[i])]

CanonicalDedupe(list) == FirstOfEach(Mapped(list, Canonical))
ProductIDs(list) == FirstOfEach(Mapped(list, ToCoinbaseSymbol))

StockTickers(list) ==
  LET plain(c) == c # <<>> /\ ~IsCrypto(c) /\ ~IsFRED(c) /\ All(c, LAMBDA w : w \notin {"^", "="})
  IN SelectSeq(Mapped(list, Canonical), plain)

AddSymbol(watchlist, s) ==
  LET want == Canonical(s)
  IN IF want = <<>> \/ \E i \in 1..Len(watchlist) : Canonical(watchlist[i]) = want
     THEN watchlist ELSE Append(watchlist, want)

RemoveSymbol(watchlist, s) ==
  LET same == {i \in 1..Len(watchlist) : Canonical(watchlist[i]) = Canonical(s)}
  IN IF Canonical(s) = <<>> \/ same = {} THEN watchlist ELSE RemoveAt(watchlist, Min(same))

(* A configuration's watchlists: the flat list first, under its own name,  *)
(* and one empty group rather than none.                                   *)
WatchlistGroups(c) ==
  LET flat == IF c.watchlist = <<>> THEN <<>>
              ELSE <<[name |-> "Default", symbols |-> c.watchlist]>>
      groups == flat \o c.watchlists
  IN IF groups = <<>> THEN <<[name |-> "Default", symbols |-> <<>>]>> ELSE groups

(* What the data plane subscribes to: everything watched, held or traded.  *)
SubscribeSymbols(c) ==
  LET watched == FlattenSeq(Mapped(WatchlistGroups(c), LAMBDA g : g.symbols))
      owned == FlattenSeq(Mapped(c.portfolios, LAMBDA p : p.holdings \o p.transactions))
  IN CanonicalDedupe(watched \o owned)

(* Two notes whose symbols are spellings of one leave either text: the map *)
(* they are copied from has no order.                                      *)
Normalized(c) ==
  {[c EXCEPT !.watchlist = CanonicalDedupe(@),
             !.watchlists = Mapped(@, LAMBDA g : [g EXCEPT !.symbols = CanonicalDedupe(@)]),
             !.portfolios = Mapped(@, LAMBDA p :
                [p EXCEPT !.holdings = Mapped(@, Canonical),
                          !.transactions = Mapped(@, Canonical)]),
             !.alerts = Mapped(@, Canonical),
             !.notes = picked] :
     picked \in {f \in [{Canonical(s) : s \in DOMAIN c.notes} ->
                          {c.notes[s] : s \in DOMAIN c.notes}] :
                   \A k \in DOMAIN f :
                     \E s \in DOMAIN c.notes : Canonical(s) = k /\ f[k] = c.notes[s]}}
=============================================================================
