----------------------------- MODULE SimTrading -----------------------------
(***************************************************************************)
(* The simulated trading of bob-crypto-pilot: the HTTP requests that read  *)
(* and write the tables portfolios, sim_state and sim_trades.  A request   *)
(* runs in a goroutine of its own and no handler opens a transaction, so   *)
(* every SQL statement is one atomic step and the statements of different  *)
(* requests interleave.  The first statement of a request is taken in the  *)
(* step that starts it: what precedes it touches no shared state.          *)
(***************************************************************************)
EXTENDS TradeMath

CONSTANTS
  Clients,         \* requests in flight at once
  Exchanges,       \* values of the column portfolios.exchange
  KrwExchanges,    \* those that quote in KRW: upbit and bithumb
  MinKrwPrice,     \* krwMinPrice, for each coin
  RateOf,          \* exchangeFeeRate as a divisor: 1/1000, 1/2000, 1/400
  Unknown,         \* the exchange of a portfolio id that has no row
  LastProtected,   \* portfolios up to this id cannot be deleted: 2
  DefaultCapital,  \* capital of a row made on first use: 100
  Served,          \* the kinds of request clients send
  Exclusive,       \* TRUE: one request at a time on each portfolio
  MaxRequests,     \* bound on the requests started
  MaxFaults        \* bound on failing statements and process crashes

ASSUME PortfoliosAssumption == Portfolios \subseteq Nat
ASSUME PricesAssumption == Prices \subseteq Nat /\ Amounts \subseteq Nat
ASSUME CapitalsAssumption ==
  Capitals \subseteq Nat \ {0} /\ DefaultCapital \in Capitals
ASSUME RatesAssumption ==
  /\ Rates \subseteq Nat \ {0}
  /\ Unknown \notin Exchanges
  /\ RateOf \in [Exchanges \cup {Unknown} -> Rates]
ASSUME ScaleAssumption == Scale \in Nat \ {0}
ASSUME KrwAssumption ==
  KrwExchanges \subseteq Exchanges /\ MinKrwPrice \in [Coins -> Nat]
ASSUME BoundsAssumption ==
  /\ LastProtected \in Nat /\ MaxRequests \in Nat /\ MaxFaults \in Nat
  /\ Exclusive \in BOOLEAN

(***************************************************************************)
(* A request: what the client asked for.  A request that is over leaves    *)
(* NoCall behind.                                                          *)
(***************************************************************************)
TradeCalls ==
  [kind: {"trade"}, p: Portfolios, coin: Coins,
   action: {"BUY", "SELL", "HOLD"}, price: Prices, amount: Amounts]
StatusCalls == [kind: {"status"}, p: Portfolios, coin: Coins]
CreateCalls ==
  [kind: {"create"}, p: Portfolios, coins: SUBSET Coins, capital: Capitals]
ResetCalls  == [kind: {"reset"}, p: Portfolios]
RemoveCalls == [kind: {"remove"}, p: Portfolios, coin: Coins]

Calls ==
  TradeCalls \cup StatusCalls \cup CreateCalls \cup ResetCalls \cup RemoveCalls

NoCall == [kind |-> "none", p |-> -1]

KeyOf(r) == <<r.p, r.coin>>

\* A row of sim_state is an account with a position column; avg_cost is kept as
\* the cost of the units held, avg_cost * units.
NoRow ==
  [cash |-> -1, units |-> 0, cost |-> 0, capital |-> 0, position |-> "NONE"]

FreshRow(capital) ==
  [cash |-> capital, units |-> 0, cost |-> 0, capital |-> capital,
   position |-> "CASH"]

Positioned(row) ==
  [row EXCEPT !.position = IF row.units > 0 THEN "HOLDING" ELSE "CASH"]

AccountOf(row) ==
  [cash |-> row.cash, units |-> row.units, cost |-> row.cost,
   capital |-> row.capital]

VARIABLES
  exchangeOf,      \* table portfolios: the exchange of each id, or Unknown
  lastId,          \* the AUTOINCREMENT id of the last portfolio made
  state,           \* table sim_state: a row per key, or NoRow
  trades,          \* table sim_trades, per key in id order
  pc,              \* pc[c]: the statement request c executes next
  call,            \* call[c]: what request c asked for
  rate,            \* rate[c]: feeRate of the trade request c
  seen,            \* seen[c]: the row the trade request c has read
  forgotten,       \* history: requests whose trade was deleted before their UPDATE
  requests,        \* how many requests have started
  faults           \* how many statements have failed or processes crashed

tables  == <<exchangeOf, lastId, state, trades, forgotten>>
locals  == <<pc, call, rate, seen>>
vars    == <<exchangeOf, lastId, state, trades, forgotten, pc, call, rate, seen,
             requests, faults>>

Init ==
  /\ exchangeOf = [p \in Portfolios |-> Unknown]
  /\ lastId = 0
  /\ state = [k \in Keys |-> NoRow]
  /\ trades = [k \in Keys |-> << >>]
  /\ forgotten = {}
  /\ pc = [c \in Clients |-> "idle"]
  /\ call = [c \in Clients |-> NoCall]
  /\ rate = [c \in Clients |-> RateOf[Unknown]]
  /\ seen = [c \in Clients |-> NoRow]
  /\ requests = 0
  /\ faults = 0

(***************************************************************************)
(* Control of a request.                                                   *)
(***************************************************************************)
\* No other request works on portfolio p, if clients take turns.
Admitted(p) == Exclusive => \A d \in Clients : call[d].p # p

Arrives(kind, p) ==
  /\ kind \in Served
  /\ Admitted(p)
  /\ requests < MaxRequests
  /\ requests' = requests + 1

Starts(c, r, at) ==
  /\ pc[c] = "idle"
  /\ Arrives(r.kind, r.p)
  /\ pc' = [pc EXCEPT ![c] = at]
  /\ call' = [call EXCEPT ![c] = r]

Moves(c, from, to) ==
  /\ pc[c] = from
  /\ pc' = [pc EXCEPT ![c] = to]
  /\ UNCHANGED <<call, requests>>

Ends(c, from) ==
  /\ pc[c] \in from
  /\ pc' = [pc EXCEPT ![c] = "idle"]
  /\ call' = [call EXCEPT ![c] = NoCall]
  /\ rate' = [rate EXCEPT ![c] = RateOf[Unknown]]
  /\ seen' = [seen EXCEPT ![c] = NoRow]
  /\ UNCHANGED requests

\* A statement succeeds, or fails: SQLITE_BUSY, a full disk, ...
Executes(ok) ==
  \/ ok /\ UNCHANGED faults
  \/ ~ ok /\ faults < MaxFaults /\ faults' = faults + 1

\* History: the requests between their INSERT and their UPDATE whose trade is
\* deleted with the trades of ks.
WithDeleted(ks) ==
  forgotten \cup {c \in Clients : pc[c] = "update" /\ KeyOf(call[c]) \in ks}

(***************************************************************************)
(* POST /simulation/trade and GET /simulation/status.                      *)
(***************************************************************************)
\* A BUY or SELL needs a price, and on a KRW exchange one that is not in USD.
PriceAccepted(r, exchange) ==
  r.action \in {"BUY", "SELL"} =>
    /\ r.price > 0
    /\ exchange \in KrwExchanges => r.price >= MinKrwPrice[r.coin]

\* The exchange is looked up first; an error of that SELECT is ignored, like a
\* missing row.  A trade whose price is refused changes nothing.
BeginTrade(c, ok) ==
  \E r \in TradeCalls :
    LET exchange == IF ok THEN exchangeOf[r.p] ELSE Unknown IN
      /\ PriceAccepted(r, exchange)
      /\ Starts(c, r, "find")
      /\ Executes(ok)
      /\ rate' = [rate EXCEPT ![c] = RateOf[exchange]]
      /\ UNCHANGED <<tables, seen>>

BeginStatus(c) ==
  \E r \in StatusCalls :
    /\ Starts(c, r, "find")
    /\ UNCHANGED <<tables, rate, seen, faults>>

\* Mutant: the amount asked for is not compared with the cash.
RefusedWithoutBudget(r, row) ==
  \/ r.action = "BUY" /\ row.units > 0 /\ row.cash = 0
  \/ r.action = "SELL" /\ row.units = 0

\* The checks ExecuteTrade makes on the row it has read.
Refused(r, row) ==
  \/ /\ r.action = "BUY"
     /\ row.position = "HOLDING" /\ row.units > 0 /\ row.cash = 0
  \/ r.action = "BUY" /\ r.amount > 0 /\ r.amount > row.cash
  \/ r.action = "SELL" /\ row.units = 0

\* What goes on after it: a BUY or SELL that is not refused.
GoesOn(r, row) ==
  r.kind = "trade" /\ r.action \in {"BUY", "SELL"} /\ ~ Refused(r, row)

\* GetSimState: the row is there and the request goes on to trade with it.
FindRow(c) ==
  LET r == call[c]  row == state[KeyOf(r)] IN
    /\ pc[c] \in {"find", "refind"}
    /\ row # NoRow /\ GoesOn(r, row)
    /\ Moves(c, pc[c], "insert")
    /\ seen' = [seen EXCEPT ![c] = row]
    /\ UNCHANGED <<tables, rate, faults>>

\* ... or it is answered now: a status, a HOLD, a refused trade, or a row that
\* is missing although it was just made.
AnswerFromRow(c) ==
  /\ pc[c] \in {"find", "refind"}
  /\ LET r == call[c]  row == state[KeyOf(r)] IN
       IF row = NoRow THEN pc[c] = "refind" ELSE ~ GoesOn(r, row)
  /\ Ends(c, {"find", "refind"})
  /\ UNCHANGED <<tables, faults>>

MissRow(c) ==
  /\ pc[c] = "find"
  /\ state[KeyOf(call[c])] = NoRow
  /\ Moves(c, "find", "init")
  /\ UNCHANGED <<tables, rate, seen, faults>>

\* Mutant: an existing row is replaced.
WithNewRow(rows, k, capital) == [rows EXCEPT ![k] = FreshRow(capital)]

\* INSERT ... WHERE NOT EXISTS, or INSERT OR IGNORE: an existing row is kept.
WithRow(rows, k, capital) ==
  IF rows[k] = NoRow THEN [rows EXCEPT ![k] = FreshRow(capital)] ELSE rows

InitSimState(c) ==
  /\ Moves(c, "init", "refind")
  /\ state' = WithRow(state, KeyOf(call[c]), DefaultCapital)
  /\ UNCHANGED <<exchangeOf, lastId, trades, forgotten, rate, seen, faults>>

\* The row a trade leaves, from the row it has read.
NewRow(r, row, div) ==
  Positioned(IF r.action = "BUY" THEN AfterBuy(row, r.price, r.amount, div)
                                 ELSE AfterSell(row, r.price, div))

InsertTrade(c) ==
  LET r == call[c]  after == NewRow(r, seen[c], rate[c]) IN
    /\ Moves(c, "insert", "update")
    /\ trades' = [trades EXCEPT ![KeyOf(r)] =
                    Append(@, Entry(r.action, seen[c], after))]
    /\ forgotten' = forgotten \ {c}
    /\ UNCHANGED <<exchangeOf, lastId, state, rate, seen, faults>>

\* Mutants: the UPDATE leaves out the cash, or the position.
OverwrittenButCash(row, new) ==
  IF row = NoRow THEN NoRow
  ELSE [new EXCEPT !.capital = row.capital, !.cash = row.cash]

OverwrittenButPosition(row, new) ==
  IF row = NoRow THEN NoRow
  ELSE [new EXCEPT !.capital = row.capital, !.position = row.position]

\* UPDATE sim_state SET cash=?, units=?, position=?, avg_cost=?: the values
\* computed from the row read before, and no row when it is gone.
Overwritten(row, new) ==
  IF row = NoRow THEN NoRow ELSE [new EXCEPT !.capital = row.capital]

\* Mutant: the row is read again and the trade applied to what it holds now.
UpdateFromCurrentRow(c) ==
  LET k == KeyOf(call[c]) IN
    /\ Ends(c, {"update"})
    /\ state' = [state EXCEPT ![k] =
                   Overwritten(@, NewRow(call[c], @, rate[c]))]
    /\ forgotten' = forgotten \ {c}
    /\ UNCHANGED <<exchangeOf, lastId, trades, faults>>

UpdateState(c) ==
  LET k == KeyOf(call[c]) IN
    /\ Ends(c, {"update"})
    /\ state' = [state EXCEPT ![k] =
                   Overwritten(@, NewRow(call[c], seen[c], rate[c]))]
    /\ forgotten' = forgotten \ {c}
    /\ UNCHANGED <<exchangeOf, lastId, trades, faults>>

(***************************************************************************)
(* The portfolio endpoints.                                                *)
(***************************************************************************)
CreatePortfolio(c) ==
  \E r \in CreateCalls, exchange \in Exchanges :
    /\ r.p = lastId + 1
    /\ r.coins # {}
    /\ Starts(c, r, "open")
    /\ exchangeOf' = [exchangeOf EXCEPT ![r.p] = exchange]
    /\ lastId' = r.p
    /\ UNCHANGED <<state, trades, forgotten, rate, seen, faults>>

\* The loop over the coins of the body; an error of an INSERT is ignored.
OpenCoin(c, ok) ==
  /\ pc[c] = "open"
  /\ \E coin \in call[c].coins :
       /\ call' = [call EXCEPT ![c].coins = @ \ {coin}]
       /\ state' = IF ok THEN WithRow(state, <<call[c].p, coin>>, call[c].capital)
                         ELSE state
  /\ Executes(ok)
  /\ UNCHANGED <<exchangeOf, lastId, trades, forgotten, pc, rate, seen, requests>>

CreateDone(c) ==
  /\ pc[c] = "open" /\ call[c].coins = {}
  /\ Ends(c, {"open"})
  /\ UNCHANGED <<tables, faults>>

\* DELETE FROM portfolios: sim_state and sim_trades keep their rows.
DeletePortfolio(p) ==
  /\ Arrives("delete", p)
  /\ p > LastProtected
  /\ exchangeOf[p] # Unknown
  /\ exchangeOf' = [exchangeOf EXCEPT ![p] = Unknown]
  /\ UNCHANGED <<lastId, state, trades, forgotten, locals, faults>>

AddCoinToPortfolio(p, coin, capital) ==
  /\ Arrives("add", p)
  /\ state' = WithRow(state, <<p, coin>>, capital)
  /\ UNCHANGED <<exchangeOf, lastId, trades, forgotten, locals, faults>>

\* DELETE FROM sim_trades, then UPDATE sim_state; errors of both are ignored.
ResetPortfolio(c, ok) ==
  \E r \in ResetCalls :
    /\ Starts(c, r, "restore")
    /\ Executes(ok)
    /\ trades' = [k \in Keys |-> IF ok /\ k[1] = r.p THEN << >> ELSE trades[k]]
    /\ forgotten' = WithDeleted({k \in Keys : ok /\ k[1] = r.p})
    /\ UNCHANGED <<exchangeOf, lastId, state, rate, seen>>

\* Mutant: the reset restores the cash and leaves the units.
RestoreCashOnly(c, ok) ==
  /\ Ends(c, {"restore"})
  /\ Executes(ok)
  /\ state' = [k \in Keys |->
       IF ok /\ k[1] = call[c].p /\ state[k] # NoRow
       THEN [state[k] EXCEPT !.cash = state[k].capital] ELSE state[k]]
  /\ UNCHANGED <<exchangeOf, lastId, trades, forgotten>>

RestoreCapital(c, ok) ==
  /\ Ends(c, {"restore"})
  /\ Executes(ok)
  /\ state' = [k \in Keys |->
       IF ok /\ k[1] = call[c].p /\ state[k] # NoRow
       THEN FreshRow(state[k].capital) ELSE state[k]]
  /\ UNCHANGED <<exchangeOf, lastId, trades, forgotten>>

\* DELETE FROM sim_state, then FROM sim_trades; errors of both are ignored.
RemoveCoinFromPortfolio(c, ok) ==
  \E r \in RemoveCalls :
    /\ Starts(c, r, "purge")
    /\ Executes(ok)
    /\ state' = IF ok THEN [state EXCEPT ![KeyOf(r)] = NoRow] ELSE state
    /\ UNCHANGED <<exchangeOf, lastId, trades, forgotten, rate, seen>>

PurgeTrades(c, ok) ==
  /\ Ends(c, {"purge"})
  /\ Executes(ok)
  /\ trades' = IF ok THEN [trades EXCEPT ![KeyOf(call[c])] = << >>] ELSE trades
  /\ forgotten' = WithDeleted(IF ok THEN {KeyOf(call[c])} ELSE {})
  /\ UNCHANGED <<exchangeOf, lastId, state>>

(***************************************************************************)
(* Failures: a statement of a trade or status request returns an error and *)
(* the handler answers it, undoing nothing; or the process dies, with every *)
(* request in flight, and is started again over the same tables.           *)
(***************************************************************************)
FailStatement(c) ==
  /\ Ends(c, {"find", "init", "refind", "insert", "update"})
  /\ Executes(FALSE)
  /\ UNCHANGED tables

Crash ==
  /\ \E c \in Clients : pc[c] # "idle"
  /\ Executes(FALSE)
  /\ pc' = [c \in Clients |-> "idle"]
  /\ call' = [c \in Clients |-> NoCall]
  /\ rate' = [c \in Clients |-> RateOf[Unknown]]
  /\ seen' = [c \in Clients |-> NoRow]
  /\ UNCHANGED <<tables, requests>>

TradeStep(c) ==
  \/ \E ok \in BOOLEAN : BeginTrade(c, ok)
  \/ BeginStatus(c)
  \/ FindRow(c) \/ AnswerFromRow(c) \/ MissRow(c) \/ InitSimState(c)
  \/ InsertTrade(c) \/ UpdateState(c)
  \/ FailStatement(c)

PortfolioStep(c) ==
  \/ CreatePortfolio(c) \/ CreateDone(c)
  \/ \E ok \in BOOLEAN :
       \/ OpenCoin(c, ok)
       \/ ResetPortfolio(c, ok) \/ RestoreCapital(c, ok)
       \/ RemoveCoinFromPortfolio(c, ok) \/ PurgeTrades(c, ok)

Next ==
  \/ \E c \in Clients : TradeStep(c) \/ PortfolioStep(c)
  \/ \E p \in Portfolios : DeletePortfolio(p)
  \/ \E p \in Portfolios, coin \in Coins, capital \in Capitals :
       AddCoinToPortfolio(p, coin, capital)
  \/ Crash

Spec == Init /\ [][Next]_vars
-----------------------------------------------------------------------------
(***************************************************************************)
(* Properties.                                                             *)
(***************************************************************************)
Rows ==
  [cash: Nat, units: Nat, cost: Nat, capital: Nat,
   position: {"CASH", "HOLDING"}]
Entries ==
  [action: {"BUY", "SELL"}, cashBefore: Nat, cashAfter: Nat,
   unitsBefore: Nat, unitsAfter: Nat]

PcValues ==
  {"idle", "find", "init", "refind", "insert", "update", "open", "restore",
   "purge"}

\* Type invariant.  Amounts and quantities are naturals: no interleaving and no
\* stale read lets a BUY spend more than the row it was checked against held.
TypeOK ==
  /\ exchangeOf \in [Portfolios -> Exchanges \cup {Unknown}]
  /\ lastId \in Nat
  /\ state \in [Keys -> Rows \cup {NoRow}]
  /\ trades \in [Keys -> Seq(Entries)]
  /\ pc \in [Clients -> PcValues]
  /\ call \in [Clients -> Calls \cup {NoCall}]
  /\ rate \in [Clients -> Rates]
  /\ seen \in [Clients -> Rows \cup {NoRow}]
  /\ forgotten \subseteq Clients
  /\ requests \in Nat /\ faults \in Nat

\* A sim_state row changes only to its initial capital or to amounts that a trade
\* still in sim_trades records: ExecuteTrade books first and updates after, and
\* no failure between the two writes the row without the trade.  The exception
\* is a request whose trade was deleted meanwhile: its late UPDATE brings amounts
\* that no trade explains back into a row that was just reset.
UpdateIsBooked ==
  [][\A k \in Keys :
       (state[k] # NoRow /\ state'[k] \notin {state[k], NoRow}) =>
         \/ state'[k] = FreshRow(state[k].capital)
         \/ \E i \in DOMAIN trades[k] :
              /\ trades[k][i].cashAfter = state'[k].cash
              /\ trades[k][i].unitsAfter = state'[k].units
         \/ \E c \in forgotten :
              /\ pc[c] = "update" /\ pc'[c] = "idle"
              /\ KeyOf(call[c]) = k]_vars

InFlight(p) == \E c \in Clients : call[c].p = p

\* The position column of a sim_state row, which the BUY check of ExecuteTrade
\* and the pages of the front end rely on, says HOLDING exactly when units are held.
PositionMatchesUnits ==
  \A k \in Keys : state[k] # NoRow =>
    (state[k].position = "HOLDING" <=> state[k].units > 0)

\* Each trade of a key starts from the cash and units the one before it left:
\* no trade of the history was computed from a row another trade had replaced.
LedgerChain ==
  \A k \in Keys : \A i \in 1..(Len(trades[k]) - 1) :
    /\ trades[k][i].cashAfter = trades[k][i+1].cashBefore
    /\ trades[k][i].unitsAfter = trades[k][i+1].unitsBefore

\* While no request works on its portfolio, a sim_state row holds what the last
\* trade of its key left, or its initial capital if the key has no trade; and a
\* key without a row has no trades.
StateMatchesLedger ==
  \A k \in Keys : ~ InFlight(k[1]) =>
    IF trades[k] = << >>
    THEN state[k] # NoRow => state[k] = FreshRow(state[k].capital)
    ELSE /\ state[k].cash = trades[k][Len(trades[k])].cashAfter
         /\ state[k].units = trades[k][Len(trades[k])].unitsAfter

\* The money the trades of a book have put into the units now held.
BookCost(entries) ==
  LET cost[n \in 0..Len(entries)] ==
        IF n = 0 THEN 0
        ELSE IF entries[n].action = "SELL" THEN 0
             ELSE cost[n - 1] + entries[n].cashBefore - entries[n].cashAfter
  IN cost[Len(entries)]

\* avg_cost of a sim_state row agrees with the book: avg_cost * units is the sum
\* of what the BUYs since the last SELL have spent, fees included.
AvgCostIsBookCost ==
  \A k \in Keys :
    state[k] # NoRow /\ ~ InFlight(k[1]) => state[k].cost = BookCost(trades[k])

(***************************************************************************)
(* The refinement mapping: a trade takes effect with its INSERT, a reset   *)
(* and a removal with their first statement.                               *)
(***************************************************************************)
Writers(k) == {c \in Clients : pc[c] = "update" /\ KeyOf(call[c]) = k}

Working(at, p) == \E c \in Clients : pc[c] = at /\ call[c].p = p

AccountBar(k) ==
  IF Writers(k) # {} THEN
    LET c == CHOOSE c \in Writers(k) : TRUE IN
      AccountOf(Overwritten(state[k], NewRow(call[c], seen[c], rate[c])))
  ELSE IF Working("restore", k[1]) /\ state[k] # NoRow
  THEN Opened(state[k].capital)
  ELSE AccountOf(state[k])

BookBar(k) ==
  IF \E c \in Clients : pc[c] = "purge" /\ KeyOf(call[c]) = k THEN << >>
                                                              ELSE trades[k]

Ledger == INSTANCE SimLedger WITH
  account <- [k \in Keys |-> AccountBar(k)],
  book    <- [k \in Keys |-> BookBar(k)]

\* While clients take turns on each portfolio and nothing fails, the requests
\* implement the abstract book, in which every operation happens at once.
ImplementsLedger == Ledger!LedgerSpec
=============================================================================
