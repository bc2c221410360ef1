---------------------------- MODULE MCSimTrading ----------------------------
(***************************************************************************)
(* Small instances of SimTrading.  A rate of 4 or 2 makes a fee that the   *)
(* small amounts can show; with Scale 2 and prices up to 2 every quantity  *)
(* bought is an integer.  A price of 1 on upbit stands for a price in USD. *)
(***************************************************************************)
EXTENDS SimTrading, TLC

MCRateOf == [x \in {"binance", "upbit", "unknown"} |-> IF x = "upbit" THEN 2 ELSE 4]
MCMinKrwPrice == [coin \in Coins |-> 2]

MCPortfolios1 == 1..1
MCPortfolios2 == 1..2
MCPrices == {1, 2}

Sym == Permutations(Clients)
=============================================================================
