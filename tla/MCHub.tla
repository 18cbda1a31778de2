------------------------------- MODULE MCHub -------------------------------
(* A small hub: the venue providers of mkt in their order (1 Coinbase,     *)
(* 2 Yahoo), a watch list with an alias, a blank and a typo, one responsive *)
(* and one possibly wedged observer, and buffers small enough to fill.     *)
EXTENDS Hub

CONSTANTS o1, o2, btc, btcusdt, aapl, appl, blank, BTC, AAPL, APPL

MCProviders == {1, 2}
MCSymbols == {BTC, AAPL, APPL}
MCSpellings == {btc, btcusdt, aapl, appl, blank}
MCCanon == (btc :> BTC) @@ (btcusdt :> BTC) @@ (aapl :> AAPL) @@ (appl :> APPL)
           @@ (blank :> NoSymbol)
MCVenue == (BTC :> btcusdt) @@ (AAPL :> aapl) @@ (APPL :> appl)
MCSupported == <<{BTC}, {BTC, AAPL}>>
MCWatchList == <<btc, blank, btcusdt, appl>>
MCObservers == {o1, o2}
MCResponsive == {o1}

=============================================================================
