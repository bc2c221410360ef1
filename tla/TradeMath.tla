------------------------------ MODULE TradeMath ------------------------------
(***************************************************************************)
(* The accounts of the simulated trading of bob-crypto-pilot and the       *)
(* arithmetic of one trade (services/simulation.go), shared by the book it *)
(* promises (SimLedger) and the requests that implement it (SimTrading).   *)
(* Money and coin quantities are integers in small units.                  *)
(***************************************************************************)
EXTENDS Integers, Sequences

CONSTANTS
  Portfolios,      \* portfolio ids
  Coins,           \* BTC, ETH, SOL
  Prices,          \* prices a client may send
  Amounts,         \* BUY amounts a client may send; 0 stands for "all cash"
  Capitals,        \* initial capitals
  Rates,           \* fee divisors: a fee is the gross amount \div a rate
  Scale            \* units per coin, so that coin quantities are integers

Keys == Portfolios \X Coins

Closed == [cash |-> -1, units |-> 0, cost |-> 0, capital |-> 0]

Opened(capital) ==
  [cash |-> capital, units |-> 0, cost |-> 0, capital |-> capital]

(***************************************************************************)
(* The arithmetic of one trade (services/simulation.go, ExecuteTrade).     *)
(***************************************************************************)
Fee(gross, rate) == gross \div rate

Spend(cash, amount) == IF amount > 0 THEN amount ELSE cash

Bought(spend, price, rate) == ((spend - Fee(spend, rate)) * Scale) \div price

Gross(units, price) == (units * price) \div Scale

\* The account after a BUY of `amount`, and after selling everything.
AfterBuy(a, price, amount, rate) ==
  LET spend == Spend(a.cash, amount) IN
    [a EXCEPT !.cash  = @ - spend,
              !.units = @ + Bought(spend, price, rate),
              !.cost  = @ + spend]

\* Mutant: the cost of what was sold is kept.
AfterSellKeepsCost(a, price, rate) ==
  LET gross == Gross(a.units, price) IN
    [a EXCEPT !.cash = @ + gross - Fee(gross, rate), !.units = 0]

AfterSell(a, price, rate) ==
  LET gross == Gross(a.units, price) IN
    [a EXCEPT !.cash = @ + gross - Fee(gross, rate), !.units = 0, !.cost = 0]

\* A BUY needs the money it asks for, a SELL something to sell.
MayBuy(a, amount) ==
  /\ ~ (a.units > 0 /\ a.cash = 0)
  /\ amount <= a.cash

MaySell(a) == a.units # 0

Entry(action, before, after) ==
  [action |-> action,
   cashBefore |-> before.cash, cashAfter |-> after.cash,
   unitsBefore |-> before.units, unitsAfter |-> after.units]
==============================================================================
