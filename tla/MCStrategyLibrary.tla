------------------------- MODULE MCStrategyLibrary -------------------------
(* Small instances of StrategyLibrary: requests are interchangeable. *)
EXTENDS StrategyLibrary, TLC

Sym == Permutations(Clients) \union Permutations(Keys)
=============================================================================
