------------------------------ MODULE SimLedger ------------------------------
(***************************************************************************)
(* What the simulated trading book of bob-crypto-pilot promises: for every *)
(* portfolio and coin an account and the book of its trades, in which a    *)
(* trade, a reset and a removal each happen at once.  SimTrading, where    *)
(* the same operations are the SQL statements of concurrent requests, is   *)
(* checked to implement this specification.                                *)
(***************************************************************************)
EXTENDS TradeMath

VARIABLES
  account,         \* account[k]: the account of k, or Closed
  book             \* book[k]: the trades of k, oldest first

ledgerVars == <<account, book>>

LedgerInit ==
  /\ account = [k \in Keys |-> Closed]
  /\ book = [k \in Keys |-> << >>]

Open(k, capital) ==
  /\ account[k] = Closed
  /\ account' = [account EXCEPT ![k] = Opened(capital)]
  /\ UNCHANGED book

Record(k, action, after) ==
  /\ book' = [book EXCEPT ![k] = Append(@, Entry(action, account[k], after))]
  /\ account' = [account EXCEPT ![k] = after]

Buy(k, price, amount, rate) ==
  /\ account[k] # Closed
  /\ MayBuy(account[k], amount)
  /\ Record(k, "BUY", AfterBuy(account[k], price, amount, rate))

Sell(k, price, rate) ==
  /\ account[k] # Closed
  /\ MaySell(account[k])
  /\ Record(k, "SELL", AfterSell(account[k], price, rate))

\* Every account of portfolio p is as it was opened, and its book is empty.
ResetAll(p) ==
  /\ account' = [k \in Keys |->
       IF k[1] = p /\ account[k] # Closed THEN Opened(account[k].capital)
                                          ELSE account[k]]
  /\ book' = [k \in Keys |-> IF k[1] = p THEN << >> ELSE book[k]]

Close(k) ==
  /\ account' = [account EXCEPT ![k] = Closed]
  /\ book' = [book EXCEPT ![k] = << >>]

LedgerNext ==
  \/ \E k \in Keys, capital \in Capitals : Open(k, capital)
  \/ \E k \in Keys, price \in Prices \ {0}, rate \in Rates :
       \/ \E amount \in Amounts : Buy(k, price, amount, rate)
       \/ Sell(k, price, rate)
  \/ \E p \in Portfolios : ResetAll(p)
  \/ \E k \in Keys : Close(k)

LedgerSpec == LedgerInit /\ [][LedgerNext]_ledgerVars
==============================================================================
