-------------------------- MODULE SimTrading_proofs --------------------------
(***************************************************************************)
(* Proofs about SimTrading for every set of portfolios, coins, clients and *)
(* prices, every interleaving of the requests and any number of failures.  *)
(***************************************************************************)
EXTENDS SimTrading, TLAPS

(***************************************************************************)
(* The type invariant is not inductive: that a trade leaves naturals rests *)
(* on the checks made when its row was read.  CallOK carries them over the *)
(* steps between the check and the use.                                    *)
(***************************************************************************)
CallOK(c) ==
  /\ pc[c] \in {"find", "init", "refind", "insert", "update"} =>
       call[c] \in TradeCalls \cup StatusCalls
  /\ pc[c] = "purge" => call[c] \in RemoveCalls
  /\ pc[c] = "open" => call[c] \in CreateCalls
  /\ (call[c] \in TradeCalls /\ call[c].action \in {"BUY", "SELL"}) =>
       call[c].price > 0
  /\ pc[c] \in {"insert", "update"} =>
       seen[c] \in Rows /\ GoesOn(call[c], seen[c])

LocalOK == \A c \in Clients : CallOK(c)

IInv == TypeOK /\ LocalOK /\ PositionMatchesUnits

(***************************************************************************)
(* Arithmetic.                                                             *)
(***************************************************************************)
\* Integer division of a natural gives a natural that is no larger.
LEMMA DivRange ==
  ASSUME NEW a \in Nat, NEW b \in Nat \ {0}
  PROVE  a \div b \in Nat /\ a \div b <= a
<1>1. a \div b \in Int
  BY SMT
<1>2. a = b * (a \div b) + (a % b) /\ a % b \in 0..(b - 1)
  BY SMT
<1>3. a \div b >= 0
  BY <1>1, <1>2, SMT
<1>4. a \div b <= a
  BY <1>1, <1>2, <1>3, SMT
<1> QED
  BY <1>1, <1>3, <1>4

\* Replacing the amounts of a row by naturals gives a row.
LEMMA UpdateRange ==
  ASSUME NEW row \in Rows, NEW cash \in Nat, NEW units \in Nat, NEW cost \in Nat
  PROVE  [row EXCEPT !.cash = cash, !.units = units, !.cost = cost] \in Rows
BY DEF Rows

\* A BUY that passed the checks of ExecuteTrade leaves naturals: it spends at
\* most the cash of the row it was checked against.
LEMMA BuyRange ==
  ASSUME NEW row \in Rows, NEW price \in Nat \ {0}, NEW amount \in Nat,
         NEW div \in Rates, amount <= row.cash
  PROVE  AfterBuy(row, price, amount, div) \in Rows
<1> DEFINE spend == Spend(row.cash, amount)
           paid  == spend - Fee(spend, div)
<1>1. spend \in Nat /\ spend <= row.cash
  BY DEF Spend, Rows
<1>2. div \in Nat \ {0}
  BY RatesAssumption
<1>3. paid \in Nat
  BY <1>1, <1>2, DivRange DEF Fee
<1>4. paid * Scale \in Nat
  BY <1>3, ScaleAssumption
<1>5. Bought(spend, price, div) \in Nat
  BY <1>4, DivRange DEF Bought
<1>6. /\ row.cash - spend \in Nat
      /\ row.units + Bought(spend, price, div) \in Nat
      /\ row.cost + spend \in Nat
  BY <1>1, <1>5 DEF Rows
<1> QED
  BY <1>6, UpdateRange DEF AfterBuy

\* A SELL leaves naturals: its fee is part of what it earns.
LEMMA SellRange ==
  ASSUME NEW row \in Rows, NEW price \in Nat, NEW div \in Rates
  PROVE  AfterSell(row, price, div) \in Rows
<1> DEFINE gross == Gross(row.units, price)
<1>1. row.units * price \in Nat
  BY DEF Rows
<1>2. gross \in Nat
  BY <1>1, DivRange, ScaleAssumption DEF Gross
<1>3. Fee(gross, div) \in Nat /\ Fee(gross, div) <= gross
  BY <1>2, DivRange, RatesAssumption DEF Fee
<1>4. row.cash + gross - Fee(gross, div) \in Nat
  BY <1>2, <1>3 DEF Rows
<1> QED
  BY <1>4, UpdateRange DEF AfterSell

\* What a trade that goes on writes: a row whose position fits its units, and an
\* entry of naturals.
LEMMA NewRowRange ==
  ASSUME NEW r \in TradeCalls \cup StatusCalls, NEW row \in Rows,
         NEW div \in Rates, GoesOn(r, row),
         r \in TradeCalls /\ r.action \in {"BUY", "SELL"} => r.price > 0
  PROVE  /\ NewRow(r, row, div) \in Rows
         /\ NewRow(r, row, div).position = "HOLDING"
              <=> NewRow(r, row, div).units > 0
         /\ Entry(r.action, row, NewRow(r, row, div)) \in Entries
<1>1. /\ r \in TradeCalls /\ r.action \in {"BUY", "SELL"} /\ r.price \in Nat \ {0}
      /\ r.amount \in Nat
  <2>1. r.kind = "trade" /\ r.action \in {"BUY", "SELL"}
    BY Zenon DEF GoesOn
  <2>2. r \in TradeCalls
    BY <2>1 DEF StatusCalls
  <2>3. r.price \in Nat /\ r.amount \in Nat
    BY <2>2, PricesAssumption DEF TradeCalls
  <2> QED
    BY <2>1, <2>2, <2>3
<1>2. r.action = "BUY" => AfterBuy(row, r.price, r.amount, div) \in Rows
  <2>1. r.action = "BUY" => r.amount <= row.cash
    BY <1>1 DEF GoesOn, Refused, Rows
  <2> QED
    BY <1>1, <2>1, BuyRange
<1>3. AfterSell(row, r.price, div) \in Rows
  BY <1>1, SellRange
<1>4. PICK after \in Rows : NewRow(r, row, div) = Positioned(after)
  BY <1>1, <1>2, <1>3 DEF NewRow
<1>5. /\ Positioned(after) \in Rows
      /\ Positioned(after).position = "HOLDING" <=> Positioned(after).units > 0
  BY DEF Positioned, Rows
<1>6. Entry(r.action, row, Positioned(after)) \in Entries
  BY <1>1, <1>5 DEF Entry, Entries, Rows
<1> QED
  BY <1>4, <1>5, <1>6

\* NoRow is no row, and NoCall no call.
LEMMA NoneDistinct ==
  /\ NoRow \notin Rows
  /\ NoCall \notin Calls
BY DEF NoRow, Rows, NoCall, Calls, TradeCalls, StatusCalls, CreateCalls,
       ResetCalls, RemoveCalls

\* The key a trade, status or removal works on.
LEMMA KeyRange ==
  ASSUME NEW r \in TradeCalls \cup StatusCalls \cup RemoveCalls
  PROVE  KeyOf(r) \in Keys
BY DEF KeyOf, Keys, TradeCalls, StatusCalls, RemoveCalls

-----------------------------------------------------------------------------
LEMMA InitIInv == Init => IInv
<1> SUFFICES ASSUME Init PROVE IInv
  OBVIOUS
<1>1. TypeOK
  BY RatesAssumption DEF Init, TypeOK, PcValues
<1>2. LocalOK
  BY NoneDistinct DEF Init, LocalOK, CallOK, Calls
<1>3. PositionMatchesUnits
  BY DEF Init, PositionMatchesUnits
<1> QED
  BY <1>1, <1>2, <1>3 DEF IInv

\* A step of request c leaves the other requests as they were.
LEMMA OthersKeep ==
  ASSUME IInv, NEW c \in Clients, CallOK(c)',
         \A d \in Clients \ {c} :
           pc'[d] = pc[d] /\ call'[d] = call[d] /\ seen'[d] = seen[d]
  PROVE  LocalOK'
<1>1. ASSUME NEW d \in Clients \ {c} PROVE CallOK(d)'
  <2>1. CallOK(d)
    BY DEF IInv, LocalOK
  <2>2. pc'[d] = pc[d] /\ call'[d] = call[d] /\ seen'[d] = seen[d]
    OBVIOUS
  <2> QED
    BY <2>1, <2>2 DEF CallOK
<1> QED
  BY <1>1 DEF LocalOK

LocalsTyped ==
  /\ pc \in [Clients -> PcValues]
  /\ call \in [Clients -> Calls \cup {NoCall}]
  /\ rate \in [Clients -> Rates]
  /\ seen \in [Clients -> Rows \cup {NoRow}]
  /\ requests \in Nat
  /\ LocalOK

\* A request that starts with a call of its kind.
LEMMA StartsRange ==
  ASSUME IInv, NEW c \in Clients, NEW r \in Calls, NEW at \in PcValues,
         Starts(c, r, at), rate' \in [Clients -> Rates], seen' = seen,
         at \notin {"insert", "update"},
         at \in {"find", "init", "refind"} => r \in TradeCalls \cup StatusCalls,
         at = "purge" => r \in RemoveCalls,
         at = "open" => r \in CreateCalls,
         (r \in TradeCalls /\ r.action \in {"BUY", "SELL"}) => r.price > 0
  PROVE  LocalsTyped'
<1>1. /\ pc' \in [Clients -> PcValues]
      /\ call' \in [Clients -> Calls \cup {NoCall}]
      /\ seen' \in [Clients -> Rows \cup {NoRow}]
      /\ requests' \in Nat
  BY DEF IInv, TypeOK, Starts, Arrives
<1>2. pc'[c] = at /\ call'[c] = r
  BY DEF IInv, TypeOK, Starts
<1>3. CallOK(c)'
  BY <1>2 DEF CallOK
<1>4. \A d \in Clients \ {c} :
        pc'[d] = pc[d] /\ call'[d] = call[d] /\ seen'[d] = seen[d]
  BY DEF IInv, TypeOK, Starts
<1>5. LocalOK'
  BY <1>3, <1>4, OthersKeep
<1> QED
  BY <1>1, <1>5 DEF LocalsTyped

\* A request that goes on to another statement of its handler.
LEMMA MovesRange ==
  ASSUME IInv, NEW c \in Clients, NEW from, NEW to \in PcValues,
         Moves(c, from, to), rate' = rate,
         seen' \in [Clients -> Rows \cup {NoRow}],
         \A d \in Clients \ {c} : seen'[d] = seen[d],
         from \in {"find", "init", "refind", "insert"},
         to \in {"init", "refind", "insert", "update"},
         to \in {"insert", "update"} =>
           seen'[c] \in Rows /\ GoesOn(call[c], seen'[c])
  PROVE  LocalsTyped'
<1>1. /\ pc' \in [Clients -> PcValues]
      /\ call' \in [Clients -> Calls \cup {NoCall}]
      /\ rate' \in [Clients -> Rates]
      /\ requests' \in Nat
  BY DEF IInv, TypeOK, Moves
<1>2. pc[c] = from /\ pc'[c] = to /\ call'[c] = call[c]
  BY DEF IInv, TypeOK, Moves
<1>3. CallOK(c)
  BY DEF IInv, LocalOK
<1>4. CallOK(c)'
  BY <1>2, <1>3 DEF CallOK
<1>5. \A d \in Clients \ {c} : pc'[d] = pc[d] /\ call'[d] = call[d]
  BY DEF IInv, TypeOK, Moves
<1>6. LocalOK'
  BY <1>4, <1>5, OthersKeep
<1> QED
  BY <1>1, <1>6 DEF LocalsTyped

\* A request that ends.
LEMMA EndsRange ==
  ASSUME IInv, NEW c \in Clients, NEW from, Ends(c, from)
  PROVE  LocalsTyped'
<1>1. RateOf[Unknown] \in Rates
  BY RatesAssumption
<1>2. /\ pc' \in [Clients -> PcValues]
      /\ call' \in [Clients -> Calls \cup {NoCall}]
      /\ rate' \in [Clients -> Rates]
      /\ seen' \in [Clients -> Rows \cup {NoRow}]
      /\ requests' \in Nat
  BY <1>1 DEF IInv, TypeOK, Ends, PcValues
<1>3. pc'[c] = "idle" /\ call'[c] = NoCall
  BY DEF IInv, TypeOK, Ends
<1>4. CallOK(c)'
  BY <1>3, NoneDistinct DEF CallOK, Calls
<1>5. \A d \in Clients \ {c} :
        pc'[d] = pc[d] /\ call'[d] = call[d] /\ seen'[d] = seen[d]
  BY DEF IInv, TypeOK, Ends
<1>6. LocalOK'
  BY <1>4, <1>5, OthersKeep
<1> QED
  BY <1>2, <1>6 DEF LocalsTyped

\* The tables: what IInv says of them.
TablesTyped ==
  /\ exchangeOf \in [Portfolios -> Exchanges \cup {Unknown}]
  /\ lastId \in Nat
  /\ state \in [Keys -> Rows \cup {NoRow}]
  /\ trades \in [Keys -> Seq(Entries)]
  /\ forgotten \subseteq Clients
  /\ PositionMatchesUnits

LEMMA Parts == IInv <=> TablesTyped /\ LocalsTyped /\ faults \in Nat
BY DEF IInv, TypeOK, TablesTyped, LocalsTyped

LEMMA PartsNext == IInv' <=> TablesTyped' /\ LocalsTyped' /\ faults' \in Nat
BY DEF IInv, TypeOK, TablesTyped, LocalsTyped

LEMMA FaultsRange ==
  ASSUME faults \in Nat, NEW ok \in BOOLEAN, Executes(ok)
  PROVE  faults' \in Nat
BY DEF Executes

LEMMA TablesKept ==
  ASSUME TablesTyped, UNCHANGED tables
  PROVE  TablesTyped'
BY DEF TablesTyped, tables, PositionMatchesUnits

\* A fresh row, and a table with one more row.
LEMMA WithRowRange ==
  ASSUME TablesTyped, NEW k \in Keys, NEW capital \in Capitals,
         state' = WithRow(state, k, capital)
  PROVE  /\ state' \in [Keys -> Rows \cup {NoRow}]
         /\ PositionMatchesUnits'
<1>1. FreshRow(capital) \in Rows
  BY CapitalsAssumption DEF FreshRow, Rows
<1>2. /\ FreshRow(capital).position = "CASH"
      /\ FreshRow(capital).units = 0
  BY DEF FreshRow
<1>3. state' \in [Keys -> Rows \cup {NoRow}]
  BY <1>1 DEF TablesTyped, WithRow
<1>4. ASSUME NEW j \in Keys, state'[j] # NoRow
      PROVE  state'[j].position = "HOLDING" <=> state'[j].units > 0
  <2>1. CASE state'[j] = FreshRow(capital)
    BY <2>1, <1>2
  <2>2. CASE state'[j] = state[j]
    BY <2>2, <1>4 DEF TablesTyped, PositionMatchesUnits
  <2> QED
    BY <2>1, <2>2 DEF TablesTyped, WithRow
<1> QED
  BY <1>3, <1>4 DEF PositionMatchesUnits

-----------------------------------------------------------------------------
\* Every step of a trade or status request preserves the invariant.
LEMMA TradeStepIInv ==
  ASSUME IInv, NEW c \in Clients, TradeStep(c)
  PROVE  IInv'
<1> USE Parts, PartsNext
<1>1. ASSUME NEW ok \in BOOLEAN, BeginTrade(c, ok) PROVE IInv'
  <2>1. PICK r \in TradeCalls :
          /\ PriceAccepted(r, IF ok THEN exchangeOf[r.p] ELSE Unknown)
          /\ Starts(c, r, "find")
          /\ Executes(ok)
          /\ rate' = [rate EXCEPT
               ![c] = RateOf[IF ok THEN exchangeOf[r.p] ELSE Unknown]]
          /\ UNCHANGED <<tables, seen>>
    BY <1>1, Zenon DEF BeginTrade
  <2>2. r.p \in Portfolios /\ r.price \in Nat
    BY PricesAssumption DEF TradeCalls
  <2>3. (IF ok THEN exchangeOf[r.p] ELSE Unknown) \in Exchanges \cup {Unknown}
    BY <2>2 DEF TablesTyped
  <2>4. RateOf[IF ok THEN exchangeOf[r.p] ELSE Unknown] \in Rates
    BY <2>3, RatesAssumption
  <2>5. rate' \in [Clients -> Rates]
    BY <2>1, <2>4 DEF LocalsTyped
  <2>6. r.action \in {"BUY", "SELL"} => r.price > 0
    BY <2>1, <2>2 DEF PriceAccepted
  <2>7. LocalsTyped'
    BY <2>1, <2>5, <2>6, StartsRange DEF Calls, PcValues
  <2>8. TablesTyped' /\ faults' \in Nat
    BY <2>1, TablesKept, FaultsRange
  <2> QED
    BY <2>7, <2>8
<1>2. ASSUME BeginStatus(c) PROVE IInv'
  <2>1. PICK r \in StatusCalls :
          Starts(c, r, "find") /\ UNCHANGED <<tables, rate, seen, faults>>
    BY <1>2 DEF BeginStatus
  <2>2. rate' \in [Clients -> Rates]
    BY <2>1 DEF LocalsTyped
  <2>3. r \notin TradeCalls
    BY DEF StatusCalls, TradeCalls
  <2>4. LocalsTyped'
    BY <2>1, <2>2, <2>3, StartsRange DEF Calls, PcValues
  <2> QED
    BY <2>1, <2>4, TablesKept
<1>3. ASSUME FindRow(c) PROVE IInv'
  <2> DEFINE r == call[c]  row == state[KeyOf(r)]
  <2>1. /\ pc[c] \in {"find", "refind"}
        /\ row # NoRow /\ GoesOn(r, row)
        /\ Moves(c, pc[c], "insert")
        /\ seen' = [seen EXCEPT ![c] = row]
        /\ UNCHANGED <<tables, rate, faults>>
    BY <1>3 DEF FindRow
  <2>2. KeyOf(r) \in Keys
    BY <2>1, KeyRange DEF LocalsTyped, LocalOK, CallOK
  <2>3. row \in Rows
    BY <2>1, <2>2 DEF TablesTyped
  <2>4. /\ seen' \in [Clients -> Rows \cup {NoRow}]
        /\ seen'[c] = row
        /\ \A d \in Clients \ {c} : seen'[d] = seen[d]
    BY <2>1, <2>3 DEF LocalsTyped
  <2> HIDE DEF r, row
  <2>5. LocalsTyped'
    BY <2>1, <2>3, <2>4, MovesRange DEF PcValues, r
  <2> QED
    BY <2>1, <2>5, TablesKept
<1>4. ASSUME AnswerFromRow(c) PROVE IInv'
  BY <1>4, EndsRange, TablesKept DEF AnswerFromRow
<1>5. ASSUME MissRow(c) PROVE IInv'
  <2>1. Moves(c, "find", "init") /\ UNCHANGED <<tables, rate, seen, faults>>
    BY <1>5 DEF MissRow
  <2>2. seen' \in [Clients -> Rows \cup {NoRow}]
    BY <2>1 DEF LocalsTyped
  <2>3. LocalsTyped'
    BY <2>1, <2>2, MovesRange DEF PcValues
  <2> QED
    BY <2>1, <2>3, TablesKept
<1>6. ASSUME InitSimState(c) PROVE IInv'
  <2>1. /\ Moves(c, "init", "refind")
        /\ state' = WithRow(state, KeyOf(call[c]), DefaultCapital)
        /\ UNCHANGED <<exchangeOf, lastId, trades, forgotten, rate, seen, faults>>
    BY <1>6 DEF InitSimState
  <2>2. KeyOf(call[c]) \in Keys
    BY <2>1, KeyRange DEF LocalsTyped, LocalOK, CallOK, Moves
  <2>3. TablesTyped'
    BY <2>1, <2>2, WithRowRange, CapitalsAssumption DEF TablesTyped
  <2>4. seen' \in [Clients -> Rows \cup {NoRow}]
    BY <2>1 DEF LocalsTyped
  <2>5. LocalsTyped'
    BY <2>1, <2>4, MovesRange DEF PcValues
  <2> QED
    BY <2>1, <2>3, <2>5
<1>7. ASSUME InsertTrade(c) PROVE IInv'
  <2> DEFINE r == call[c]  after == NewRow(r, seen[c], rate[c])
  <2>1. /\ Moves(c, "insert", "update")
        /\ trades' = [trades EXCEPT ![KeyOf(r)] =
                        Append(@, Entry(r.action, seen[c], after))]
        /\ forgotten' = forgotten \ {c}
        /\ UNCHANGED <<exchangeOf, lastId, state, rate, seen, faults>>
    BY <1>7 DEF InsertTrade
  <2>2. /\ CallOK(c) /\ pc[c] = "insert"
        /\ rate[c] \in Rates
    BY <2>1 DEF LocalsTyped, LocalOK, Moves
  <2>3. /\ r \in TradeCalls \cup StatusCalls /\ seen[c] \in Rows
        /\ GoesOn(r, seen[c])
        /\ (r \in TradeCalls /\ r.action \in {"BUY", "SELL"}) => r.price > 0
    BY <2>2 DEF CallOK
  <2>4. Entry(r.action, seen[c], after) \in Entries
    BY <2>2, <2>3, NewRowRange
  <2>5. KeyOf(r) \in Keys
    BY <2>3, KeyRange
  <2> HIDE DEF r, after
  <2>6. trades' \in [Keys -> Seq(Entries)]
    <3>1. trades[KeyOf(r)] \in Seq(Entries)
      BY <2>5 DEF TablesTyped
    <3>2. Append(trades[KeyOf(r)], Entry(r.action, seen[c], after))
            \in Seq(Entries)
      BY <3>1, <2>4
    <3> QED
      BY <2>1, <3>2 DEF TablesTyped
  <2>7. TablesTyped'
    BY <2>1, <2>6 DEF TablesTyped, PositionMatchesUnits
  <2>8. /\ seen' \in [Clients -> Rows \cup {NoRow}]
        /\ seen'[c] = seen[c]
        /\ \A d \in Clients \ {c} : seen'[d] = seen[d]
    BY <2>1 DEF LocalsTyped
  <2>9. LocalsTyped'
    BY <2>1, <2>3, <2>8, MovesRange DEF PcValues, r
  <2> QED
    BY <2>1, <2>7, <2>9
<1>8. ASSUME UpdateState(c) PROVE IInv'
  <2> DEFINE k == KeyOf(call[c])  new == NewRow(call[c], seen[c], rate[c])
  <2>1. /\ Ends(c, {"update"})
        /\ state' = [state EXCEPT ![k] = Overwritten(state[k], new)]
        /\ forgotten' = forgotten \ {c}
        /\ UNCHANGED <<exchangeOf, lastId, trades, faults>>
    BY <1>8 DEF UpdateState
  <2>2. /\ CallOK(c) /\ pc[c] = "update" /\ rate[c] \in Rates
    BY <2>1 DEF LocalsTyped, LocalOK, Ends
  <2>3. /\ call[c] \in TradeCalls \cup StatusCalls /\ seen[c] \in Rows
        /\ GoesOn(call[c], seen[c])
        /\ (call[c] \in TradeCalls /\ call[c].action \in {"BUY", "SELL"}) =>
             call[c].price > 0
    BY <2>2 DEF CallOK
  <2>4. new \in Rows /\ (new.position = "HOLDING" <=> new.units > 0)
    BY <2>2, <2>3, NewRowRange
  <2>5. k \in Keys
    BY <2>3, KeyRange
  <2> HIDE DEF k, new
  <2>6. ASSUME NEW row \in Rows
        PROVE  LET o == [new EXCEPT !.capital = row.capital] IN
                 o \in Rows /\ (o.position = "HOLDING" <=> o.units > 0)
    BY <2>4 DEF Rows
  <2>7. Overwritten(state[k], new) = NoRow \/
          /\ Overwritten(state[k], new) \in Rows
          /\ Overwritten(state[k], new).position = "HOLDING"
               <=> Overwritten(state[k], new).units > 0
    BY <2>5, <2>6 DEF Overwritten, TablesTyped
  <2>8. TablesTyped'
    BY <2>1, <2>5, <2>7 DEF TablesTyped, PositionMatchesUnits
  <2> QED
    BY <2>1, <2>8, EndsRange
<1>9. ASSUME FailStatement(c) PROVE IInv'
  BY <1>9, EndsRange, TablesKept, FaultsRange DEF FailStatement
<1> QED
  BY <1>1, <1>2, <1>3, <1>4, <1>5, <1>6, <1>7, <1>8, <1>9 DEF TradeStep

\* Every step of a portfolio request preserves the invariant.
LEMMA PortfolioStepIInv ==
  ASSUME IInv, NEW c \in Clients, PortfolioStep(c)
  PROVE  IInv'
<1> USE Parts, PartsNext
<1>1. ASSUME CreatePortfolio(c) PROVE IInv'
  <2>1. PICK r \in CreateCalls, exchange \in Exchanges :
          /\ Starts(c, r, "open")
          /\ exchangeOf' = [exchangeOf EXCEPT ![r.p] = exchange]
          /\ lastId' = r.p
          /\ UNCHANGED <<state, trades, forgotten, rate, seen, faults>>
    BY <1>1 DEF CreatePortfolio
  <2>2. r.p \in Portfolios /\ r.p \in Nat
    BY PortfoliosAssumption DEF CreateCalls
  <2>3. TablesTyped'
    BY <2>1, <2>2 DEF TablesTyped, PositionMatchesUnits
  <2>4. rate' \in [Clients -> Rates] /\ r \notin TradeCalls
    BY <2>1 DEF LocalsTyped, CreateCalls, TradeCalls
  <2>5. LocalsTyped'
    BY <2>1, <2>4, StartsRange DEF Calls, PcValues
  <2> QED
    BY <2>1, <2>3, <2>5
<1>2. ASSUME CreateDone(c) PROVE IInv'
  BY <1>2, EndsRange, TablesKept DEF CreateDone
<1>3. ASSUME NEW ok \in BOOLEAN, OpenCoin(c, ok) PROVE IInv'
  <2>1. PICK coin \in call[c].coins :
          /\ pc[c] = "open"
          /\ call' = [call EXCEPT ![c].coins = @ \ {coin}]
          /\ state' = IF ok THEN WithRow(state, <<call[c].p, coin>>, call[c].capital)
                            ELSE state
          /\ Executes(ok)
          /\ UNCHANGED <<exchangeOf, lastId, trades, forgotten, pc, rate, seen, requests>>
    BY <1>3 DEF OpenCoin
  <2>2. call[c] \in CreateCalls
    BY <2>1 DEF LocalsTyped, LocalOK, CallOK
  <2>3. <<call[c].p, coin>> \in Keys /\ call[c].capital \in Capitals
    BY <2>2 DEF CreateCalls, Keys
  <2>4. TablesTyped'
    <3>1. CASE ok
      BY <2>1, <2>3, <3>1, WithRowRange DEF TablesTyped
    <3>2. CASE ~ ok
      BY <2>1, <3>2 DEF TablesTyped, PositionMatchesUnits
    <3> QED
      BY <3>1, <3>2
  <2>5. [call[c] EXCEPT !.coins = @ \ {coin}] \in CreateCalls
    BY <2>2 DEF CreateCalls
  <2>6. /\ call' \in [Clients -> Calls \cup {NoCall}]
        /\ call'[c] \in CreateCalls
        /\ \A d \in Clients \ {c} : call'[d] = call[d]
    BY <2>1, <2>5 DEF LocalsTyped, Calls
  <2>7. call'[c] \notin TradeCalls
    BY <2>6 DEF CreateCalls, TradeCalls
  <2>8. CallOK(c)'
    BY <2>1, <2>6, <2>7 DEF CallOK
  <2>9. LocalOK'
    BY <2>1, <2>6, <2>8, OthersKeep
  <2> QED
    BY <2>1, <2>4, <2>6, <2>9, FaultsRange DEF LocalsTyped
<1>4. ASSUME NEW ok \in BOOLEAN, ResetPortfolio(c, ok) PROVE IInv'
  <2>1. PICK r \in ResetCalls :
          /\ Starts(c, r, "restore")
          /\ Executes(ok)
          /\ trades' = [k \in Keys |->
               IF ok /\ k[1] = r.p THEN << >> ELSE trades[k]]
          /\ forgotten' \subseteq forgotten \cup Clients
          /\ UNCHANGED <<exchangeOf, lastId, state, rate, seen>>
    BY <1>4 DEF ResetPortfolio, WithDeleted
  <2>2. TablesTyped'
    BY <2>1 DEF TablesTyped, PositionMatchesUnits
  <2>3. rate' \in [Clients -> Rates] /\ r \notin TradeCalls
    BY <2>1 DEF LocalsTyped, ResetCalls, TradeCalls
  <2>4. LocalsTyped'
    BY <2>1, <2>3, StartsRange DEF Calls, PcValues
  <2> QED
    BY <2>1, <2>2, <2>4, FaultsRange
<1>5. ASSUME NEW ok \in BOOLEAN, RestoreCapital(c, ok) PROVE IInv'
  <2>1. /\ Ends(c, {"restore"})
        /\ Executes(ok)
        /\ state' = [k \in Keys |->
             IF ok /\ k[1] = call[c].p /\ state[k] # NoRow
             THEN FreshRow(state[k].capital) ELSE state[k]]
        /\ UNCHANGED <<exchangeOf, lastId, trades, forgotten>>
    BY <1>5 DEF RestoreCapital
  <2>2. ASSUME NEW row \in Rows
        PROVE  /\ FreshRow(row.capital) \in Rows
               /\ FreshRow(row.capital).position = "CASH"
               /\ FreshRow(row.capital).units = 0
    BY DEF FreshRow, Rows
  <2>3. ASSUME NEW k \in Keys
        PROVE  /\ state'[k] \in Rows \cup {NoRow}
               /\ state'[k] # NoRow =>
                    (state'[k].position = "HOLDING" <=> state'[k].units > 0)
    <3>1. CASE ok /\ k[1] = call[c].p /\ state[k] # NoRow
      <4>1. state[k] \in Rows /\ state'[k] = FreshRow(state[k].capital)
        BY <2>1, <3>1 DEF TablesTyped
      <4> QED
        BY <4>1, <2>2
    <3>2. CASE ~ (ok /\ k[1] = call[c].p /\ state[k] # NoRow)
      <4>1. state'[k] = state[k]
        BY <2>1, <3>2
      <4> QED
        BY <4>1 DEF TablesTyped, PositionMatchesUnits
    <3> QED
      BY <3>1, <3>2
  <2>4. TablesTyped'
    BY <2>1, <2>3 DEF TablesTyped, PositionMatchesUnits
  <2> QED
    BY <2>1, <2>4, EndsRange, FaultsRange
<1>6. ASSUME NEW ok \in BOOLEAN, RemoveCoinFromPortfolio(c, ok) PROVE IInv'
  <2>1. PICK r \in RemoveCalls :
          /\ Starts(c, r, "purge")
          /\ Executes(ok)
          /\ state' = IF ok THEN [state EXCEPT ![KeyOf(r)] = NoRow] ELSE state
          /\ UNCHANGED <<exchangeOf, lastId, trades, forgotten, rate, seen>>
    BY <1>6 DEF RemoveCoinFromPortfolio
  <2>2. TablesTyped'
    BY <2>1 DEF TablesTyped, PositionMatchesUnits
  <2>3. rate' \in [Clients -> Rates] /\ r \notin TradeCalls
    BY <2>1 DEF LocalsTyped, RemoveCalls, TradeCalls
  <2>4. LocalsTyped'
    BY <2>1, <2>3, StartsRange DEF Calls, PcValues
  <2> QED
    BY <2>1, <2>2, <2>4, FaultsRange
<1>7. ASSUME NEW ok \in BOOLEAN, PurgeTrades(c, ok) PROVE IInv'
  <2> DEFINE k == KeyOf(call[c])
  <2>1. /\ trades' = IF ok THEN [trades EXCEPT ![k] = << >>] ELSE trades
        /\ forgotten' \subseteq forgotten \cup Clients
        /\ UNCHANGED <<exchangeOf, lastId, state>>
    BY <1>7 DEF PurgeTrades, WithDeleted
  <2> HIDE DEF k
  <2>2. trades' \in [Keys -> Seq(Entries)]
    <3>1. << >> \in Seq(Entries)
      OBVIOUS
    <3>2. trades \in [Keys -> Seq(Entries)]
      BY DEF TablesTyped
    <3> HIDE DEF Entries
    <3> QED
      BY <2>1, <3>1, <3>2
  <2>3. TablesTyped'
    BY <2>1, <2>2 DEF TablesTyped, PositionMatchesUnits
  <2> QED
    BY <1>7, <2>3, EndsRange, FaultsRange DEF PurgeTrades
<1> QED
  BY <1>1, <1>2, <1>3, <1>4, <1>5, <1>6, <1>7 DEF PortfolioStep

\* Every step preserves the invariant.
LEMMA NextIInv == IInv /\ [Next]_vars => IInv'
<1> SUFFICES ASSUME IInv, [Next]_vars PROVE IInv'
  OBVIOUS
<1> USE Parts, PartsNext
<1>1. ASSUME NEW c \in Clients, TradeStep(c) \/ PortfolioStep(c) PROVE IInv'
  BY <1>1, TradeStepIInv, PortfolioStepIInv
<1>2. ASSUME UNCHANGED locals, requests' \in Nat PROVE LocalsTyped'
  BY <1>2 DEF LocalsTyped, LocalOK, CallOK, locals
<1>3. ASSUME NEW p \in Portfolios, DeletePortfolio(p) PROVE IInv'
  <2>1. TablesTyped'
    BY <1>3 DEF DeletePortfolio, TablesTyped, PositionMatchesUnits
  <2>2. requests' \in Nat
    BY <1>3 DEF DeletePortfolio, Arrives, LocalsTyped
  <2> QED
    BY <1>2, <1>3, <2>1, <2>2 DEF DeletePortfolio
<1>4. ASSUME NEW p \in Portfolios, NEW coin \in Coins, NEW capital \in Capitals,
             AddCoinToPortfolio(p, coin, capital)
      PROVE  IInv'
  <2>1. <<p, coin>> \in Keys
    BY DEF Keys
  <2>2. TablesTyped'
    BY <1>4, <2>1, WithRowRange DEF AddCoinToPortfolio, TablesTyped
  <2>3. requests' \in Nat
    BY <1>4 DEF AddCoinToPortfolio, Arrives, LocalsTyped
  <2> QED
    BY <1>2, <1>4, <2>2, <2>3 DEF AddCoinToPortfolio
<1>5. ASSUME Crash PROVE IInv'
  <2>1. /\ pc' = [c \in Clients |-> "idle"]
        /\ call' = [c \in Clients |-> NoCall]
        /\ rate' = [c \in Clients |-> RateOf[Unknown]]
        /\ seen' = [c \in Clients |-> NoRow]
        /\ Executes(FALSE) /\ UNCHANGED <<tables, requests>>
    BY <1>5 DEF Crash
  <2>2. RateOf[Unknown] \in Rates
    BY RatesAssumption
  <2>3. LocalsTyped'
    BY <2>1, <2>2, NoneDistinct DEF LocalsTyped, LocalOK, CallOK, Calls, PcValues
  <2> QED
    BY <2>1, <2>3, TablesKept, FaultsRange
<1>6. CASE UNCHANGED vars
  <2>1. UNCHANGED tables /\ UNCHANGED locals /\ requests' \in Nat /\ faults' \in Nat
    BY <1>6 DEF vars, tables, locals, LocalsTyped
  <2> QED
    BY <1>2, <2>1, TablesKept
<1> QED
  BY <1>1, <1>3, <1>4, <1>5, <1>6 DEF Next

-----------------------------------------------------------------------------
\* The inductive invariant holds in every reachable state.
LEMMA Invariance == Spec => []IInv
<1>1. Init => IInv
  BY InitIInv
<1>2. IInv /\ [Next]_vars => IInv'
  BY NextIInv
<1> QED
  BY <1>1, <1>2, PTL DEF Spec

\* However requests interleave and whatever fails, every amount and quantity
\* that sim_state and sim_trades hold is a natural: no portfolio goes into debt.
THEOREM TypeCorrect == Spec => []TypeOK
<1>1. IInv => TypeOK
  BY DEF IInv
<1> QED
  BY <1>1, Invariance, PTL

\* However requests interleave and whatever fails, the position column of every
\* row of sim_state says HOLDING exactly when the row holds units.
THEOREM PositionCorrect == Spec => []PositionMatchesUnits
<1>1. IInv => PositionMatchesUnits
  BY DEF IInv
<1> QED
  BY <1>1, Invariance, PTL

-----------------------------------------------------------------------------
(***************************************************************************)
(* Every change of a row is explained by a trade of its key.  A request    *)
(* that has booked its trade and not yet written the row finds its entry,  *)
(* unless the entry was deleted meanwhile.                                 *)
(***************************************************************************)
Booked(c) ==
  (pc[c] = "update" /\ c \notin forgotten) =>
    LET book == trades[KeyOf(call[c])]
        new  == NewRow(call[c], seen[c], rate[c]) IN
      \E i \in DOMAIN book :
        book[i].cashAfter = new.cash /\ book[i].unitsAfter = new.units

AllBooked == \A c \in Clients : Booked(c)

\* A request whose locals and whose entries are left alone finds its entry again.
LEMMA KeptBooked ==
  ASSUME NEW d \in Clients, Booked(d),
         pc'[d] = "update" =>
           /\ pc[d] = "update" /\ call'[d] = call[d]
           /\ seen'[d] = seen[d] /\ rate'[d] = rate[d],
         (pc'[d] = "update" /\ d \notin forgotten') =>
           /\ d \notin forgotten
           /\ \A i \in DOMAIN trades[KeyOf(call[d])] :
                /\ i \in DOMAIN trades'[KeyOf(call[d])]
                /\ trades'[KeyOf(call[d])][i] = trades[KeyOf(call[d])][i]
  PROVE  Booked(d)'
BY DEF Booked

\* A step of c that is not its INSERT into sim_trades, and deletes no trade.
LEMMA QuietBooked ==
  ASSUME AllBooked, NEW c \in Clients, pc'[c] # "update",
         \A d \in Clients \ {c} : /\ pc'[d] = pc[d] /\ call'[d] = call[d]
                                  /\ seen'[d] = seen[d] /\ rate'[d] = rate[d],
         trades' = trades, forgotten \ {c} \subseteq forgotten'
  PROVE  AllBooked'
<1> SUFFICES ASSUME NEW d \in Clients PROVE Booked(d)'
  BY DEF AllBooked
<1>1. CASE d = c
  BY <1>1 DEF Booked
<1>2. CASE d # c
  BY <1>2, KeptBooked DEF AllBooked
<1> QED
  BY <1>1, <1>2

\* Deleting the trades of the keys in ks, by a step of c.
LEMMA DeletedBooked ==
  ASSUME IInv, AllBooked, NEW c \in Clients, NEW ks \in SUBSET Keys,
         pc[c] # "update", pc'[c] # "update",
         \A d \in Clients \ {c} : /\ pc'[d] = pc[d] /\ call'[d] = call[d]
                                  /\ seen'[d] = seen[d] /\ rate'[d] = rate[d],
         \A k \in Keys \ ks : trades'[k] = trades[k],
         forgotten' = WithDeleted(ks)
  PROVE  AllBooked'
<1> SUFFICES ASSUME NEW d \in Clients PROVE Booked(d)'
  BY DEF AllBooked
<1>1. CASE d = c
  BY <1>1 DEF Booked
<1>2. CASE d # c
  <2>1. pc[d] = "update" => KeyOf(call[d]) \in Keys
    BY KeyRange DEF IInv, LocalOK, CallOK
  <2>2. (pc[d] = "update" /\ d \notin forgotten') =>
          d \notin forgotten /\ KeyOf(call[d]) \notin ks
    BY DEF WithDeleted
  <2> QED
    BY <1>2, <2>1, <2>2, KeptBooked DEF AllBooked
<1> QED
  BY <1>1, <1>2

\* The locals after a request has started, moved or ended.
LEMMA OthersLocals ==
  ASSUME IInv, NEW c \in Clients
  PROVE  /\ \A r, at : Starts(c, r, at) =>
              /\ pc[c] = "idle" /\ pc'[c] = at
              /\ \A d \in Clients \ {c} : pc'[d] = pc[d] /\ call'[d] = call[d]
         /\ \A from, to : Moves(c, from, to) =>
              /\ pc[c] = from /\ pc'[c] = to /\ call' = call
              /\ \A d \in Clients \ {c} : pc'[d] = pc[d]
         /\ \A from : Ends(c, from) =>
              /\ pc[c] \in from /\ pc'[c] = "idle"
              /\ \A d \in Clients \ {c} :
                   /\ pc'[d] = pc[d] /\ call'[d] = call[d]
                   /\ seen'[d] = seen[d] /\ rate'[d] = rate[d]
BY DEF Starts, Moves, Ends, IInv, TypeOK

\* The INSERT of c into sim_trades appends the entry its UPDATE will repeat.
LEMMA InsertBooked ==
  ASSUME IInv, AllBooked, NEW c \in Clients, InsertTrade(c)
  PROVE  AllBooked'
<1> DEFINE new == NewRow(call[c], seen[c], rate[c])
           entry == Entry(call[c].action, seen[c], new)
<1>0. PICK k0 : k0 = KeyOf(call[c])
  OBVIOUS
<1>1. /\ Moves(c, "insert", "update")
      /\ trades' = [trades EXCEPT ![k0] = Append(trades[k0], entry)]
      /\ forgotten' = forgotten \ {c}
      /\ UNCHANGED <<rate, seen>>
  BY <1>0 DEF InsertTrade
<1>2. /\ pc[c] = "insert" /\ pc'[c] = "update" /\ call' = call
      /\ \A d \in Clients \ {c} : pc'[d] = pc[d]
  BY <1>1, OthersLocals
<1>3. k0 \in Keys
  BY <1>0, <1>2, KeyRange DEF IInv, LocalOK, CallOK
<1>4. trades[k0] \in Seq(Entries)
  BY <1>3 DEF IInv, TypeOK
<1>5. entry.cashAfter = new.cash /\ entry.unitsAfter = new.units
  BY DEF Entry
<1>6. /\ trades'[k0] = Append(trades[k0], entry)
      /\ \A k \in Keys : k # k0 => trades'[k] = trades[k]
  BY <1>1, <1>3 DEF IInv, TypeOK
<1>7. new = NewRow(call'[c], seen'[c], rate'[c]) /\ k0 = KeyOf(call'[c])
  BY <1>0, <1>1, <1>2
<1> HIDE DEF new, entry
<1>8. /\ Len(trades[k0]) + 1 \in DOMAIN trades'[k0]
      /\ trades'[k0][Len(trades[k0]) + 1] = entry
      /\ \A i \in DOMAIN trades[k0] :
           i \in DOMAIN trades'[k0] /\ trades'[k0][i] = trades[k0][i]
  BY <1>4, <1>6
<1>9. Booked(c)'
  BY <1>5, <1>7, <1>8 DEF Booked
<1>10. ASSUME NEW d \in Clients \ {c} PROVE Booked(d)'
  <2>1. pc[d] = "update" => KeyOf(call[d]) \in Keys
    BY KeyRange DEF IInv, LocalOK, CallOK
  <2>2. \A k \in Keys : \A i \in DOMAIN trades[k] :
          i \in DOMAIN trades'[k] /\ trades'[k][i] = trades[k][i]
    BY <1>6, <1>8
  <2> QED
    BY <1>1, <1>2, <2>1, <2>2, KeptBooked DEF AllBooked
<1> QED
  BY <1>9, <1>10 DEF AllBooked

\* Every step of a trade or status request.
LEMMA TradeStepBooked ==
  ASSUME IInv, AllBooked, NEW c \in Clients, TradeStep(c)
  PROVE  AllBooked'
<1>1. ASSUME NEW ok \in BOOLEAN, BeginTrade(c, ok) PROVE AllBooked'
  <2>1. PICK r \in TradeCalls :
          /\ Starts(c, r, "find")
          /\ \A d \in Clients \ {c} : rate'[d] = rate[d]
          /\ UNCHANGED <<trades, forgotten, seen>>
    BY <1>1 DEF BeginTrade, tables, IInv, TypeOK
  <2> QED
    BY <2>1, OthersLocals, QuietBooked
<1>2. ASSUME BeginStatus(c) PROVE AllBooked'
  <2>1. PICK r \in StatusCalls :
          Starts(c, r, "find") /\ UNCHANGED <<trades, forgotten, rate, seen>>
    BY <1>2 DEF BeginStatus, tables
  <2> QED
    BY <2>1, OthersLocals, QuietBooked
<1>3. ASSUME FindRow(c) PROVE AllBooked'
  <2>1. /\ Moves(c, pc[c], "insert")
        /\ \A d \in Clients \ {c} : seen'[d] = seen[d]
        /\ UNCHANGED <<trades, forgotten, rate>>
    BY <1>3 DEF FindRow, tables, IInv, TypeOK
  <2> QED
    BY <2>1, OthersLocals, QuietBooked
<1>4. ASSUME AnswerFromRow(c) PROVE AllBooked'
  <2>1. Ends(c, {"find", "refind"}) /\ UNCHANGED <<trades, forgotten>>
    BY <1>4 DEF AnswerFromRow, tables
  <2> QED
    BY <2>1, OthersLocals, QuietBooked
<1>5. ASSUME MissRow(c) PROVE AllBooked'
  <2>1. Moves(c, "find", "init") /\ UNCHANGED <<trades, forgotten, rate, seen>>
    BY <1>5 DEF MissRow, tables
  <2> QED
    BY <2>1, OthersLocals, QuietBooked
<1>6. ASSUME InitSimState(c) PROVE AllBooked'
  <2>1. Moves(c, "init", "refind") /\ UNCHANGED <<trades, forgotten, rate, seen>>
    BY <1>6 DEF InitSimState
  <2> QED
    BY <2>1, OthersLocals, QuietBooked
<1>7. ASSUME UpdateState(c) PROVE AllBooked'
  <2>1. Ends(c, {"update"}) /\ trades' = trades /\ forgotten' = forgotten \ {c}
    BY <1>7 DEF UpdateState
  <2> QED
    BY <2>1, OthersLocals, QuietBooked
<1>8. ASSUME FailStatement(c) PROVE AllBooked'
  <2>1. /\ Ends(c, {"find", "init", "refind", "insert", "update"})
        /\ UNCHANGED <<trades, forgotten>>
    BY <1>8 DEF FailStatement, tables
  <2> QED
    BY <2>1, OthersLocals, QuietBooked
<1> QED
  BY <1>1, <1>2, <1>3, <1>4, <1>5, <1>6, <1>7, <1>8, InsertBooked DEF TradeStep

\* Every step of a portfolio request.
LEMMA PortfolioStepBooked ==
  ASSUME IInv, AllBooked, NEW c \in Clients, PortfolioStep(c)
  PROVE  AllBooked'
<1>1. ASSUME CreatePortfolio(c) PROVE AllBooked'
  <2>1. PICK r \in CreateCalls :
          Starts(c, r, "open") /\ UNCHANGED <<trades, forgotten, rate, seen>>
    BY <1>1 DEF CreatePortfolio
  <2> QED
    BY <2>1, OthersLocals, QuietBooked
<1>2. ASSUME CreateDone(c) PROVE AllBooked'
  <2>1. Ends(c, {"open"}) /\ UNCHANGED <<trades, forgotten>>
    BY <1>2 DEF CreateDone, tables
  <2> QED
    BY <2>1, OthersLocals, QuietBooked
<1>3. ASSUME NEW ok \in BOOLEAN, OpenCoin(c, ok) PROVE AllBooked'
  <2>1. /\ pc[c] = "open" /\ pc' = pc
        /\ \A d \in Clients \ {c} : call'[d] = call[d]
        /\ UNCHANGED <<trades, forgotten, rate, seen>>
    BY <1>3 DEF OpenCoin, IInv, TypeOK
  <2> QED
    BY <2>1, QuietBooked
<1>4. ASSUME NEW ok \in BOOLEAN, ResetPortfolio(c, ok) PROVE AllBooked'
  <2>1. PICK r \in ResetCalls :
          /\ Starts(c, r, "restore")
          /\ trades' = [k \in Keys |->
               IF ok /\ k[1] = r.p THEN << >> ELSE trades[k]]
          /\ forgotten' = WithDeleted({k \in Keys : ok /\ k[1] = r.p})
          /\ UNCHANGED <<rate, seen>>
    BY <1>4 DEF ResetPortfolio
  <2> DEFINE ks == {k \in Keys : ok /\ k[1] = r.p}
  <2>2. ks \in SUBSET Keys /\ \A k \in Keys \ ks : trades'[k] = trades[k]
    BY <2>1
  <2> HIDE DEF ks
  <2>3. forgotten' = WithDeleted(ks)
    BY <2>1 DEF ks
  <2> QED
    BY <2>1, <2>2, <2>3, OthersLocals, DeletedBooked
<1>5. ASSUME NEW ok \in BOOLEAN, RestoreCapital(c, ok) PROVE AllBooked'
  <2>1. Ends(c, {"restore"}) /\ UNCHANGED <<trades, forgotten>>
    BY <1>5 DEF RestoreCapital
  <2> QED
    BY <2>1, OthersLocals, QuietBooked
<1>6. ASSUME NEW ok \in BOOLEAN, RemoveCoinFromPortfolio(c, ok) PROVE AllBooked'
  <2>1. PICK r \in RemoveCalls :
          Starts(c, r, "purge") /\ UNCHANGED <<trades, forgotten, rate, seen>>
    BY <1>6 DEF RemoveCoinFromPortfolio
  <2> QED
    BY <2>1, OthersLocals, QuietBooked
<1>7. ASSUME NEW ok \in BOOLEAN, PurgeTrades(c, ok) PROVE AllBooked'
  <2> DEFINE k0 == KeyOf(call[c])
             ks == IF ok THEN {k0} ELSE {}
  <2>1. /\ Ends(c, {"purge"})
        /\ trades' = IF ok THEN [trades EXCEPT ![k0] = << >>] ELSE trades
        /\ forgotten' = WithDeleted(ks)
    BY <1>7 DEF PurgeTrades
  <2>2. pc[c] = "purge"
    BY <2>1, OthersLocals
  <2>3. k0 \in Keys
    BY <2>2, KeyRange DEF IInv, LocalOK, CallOK
  <2>4. ks \in SUBSET Keys /\ \A k \in Keys \ ks : trades'[k] = trades[k]
    BY <2>1, <2>3 DEF IInv, TypeOK
  <2> HIDE DEF k0, ks
  <2> QED
    BY <2>1, <2>4, OthersLocals, DeletedBooked
<1> QED
  BY <1>1, <1>2, <1>3, <1>4, <1>5, <1>6, <1>7 DEF PortfolioStep

LEMMA NextBooked == IInv /\ AllBooked /\ [Next]_vars => AllBooked'
<1> SUFFICES ASSUME IInv, AllBooked, [Next]_vars PROVE AllBooked'
  OBVIOUS
<1>1. ASSUME UNCHANGED <<trades, forgotten, locals>> PROVE AllBooked'
  BY <1>1 DEF AllBooked, Booked, locals
<1>2. ASSUME Crash PROVE AllBooked'
  BY <1>2 DEF Crash, AllBooked, Booked
<1> QED
  BY <1>1, <1>2, TradeStepBooked, PortfolioStepBooked
     DEF Next, DeletePortfolio, AddCoinToPortfolio, vars, locals

\* A row of k that changed, and is still there.
RowChanged(k) == state[k] # NoRow /\ state'[k] \notin {state[k], NoRow}

\* The only statements that change a row are the UPDATE of a trade and that of a
\* reset.
LEMMA ChangeExplained ==
  ASSUME IInv, AllBooked, [Next]_vars, NEW k \in Keys, RowChanged(k)
  PROVE  \/ state'[k] = FreshRow(state[k].capital)
         \/ \E i \in DOMAIN trades[k] :
              /\ trades[k][i].cashAfter = state'[k].cash
              /\ trades[k][i].unitsAfter = state'[k].units
         \/ \E c \in forgotten :
              /\ pc[c] = "update" /\ pc'[c] = "idle"
              /\ KeyOf(call[c]) = k
<1>1. PICK c \in Clients :
        \/ UpdateState(c)
        \/ \E ok \in BOOLEAN : RestoreCapital(c, ok)
  <2>1. state' # state
    BY DEF RowChanged
  <2>2. ASSUME NEW j, NEW capital, state' = WithRow(state, j, capital)
        PROVE  FALSE
    BY <2>2 DEF RowChanged, WithRow, IInv, TypeOK
  <2>3. ASSUME NEW c \in Clients, TradeStep(c) PROVE UpdateState(c)
    <3>1. ~ InitSimState(c)
      BY <2>2 DEF InitSimState
    <3>2. /\ ~ \E ok \in BOOLEAN : BeginTrade(c, ok)
          /\ ~ BeginStatus(c) /\ ~ FindRow(c) /\ ~ AnswerFromRow(c) /\ ~ MissRow(c)
          /\ ~ FailStatement(c)
      BY <2>1 DEF BeginTrade, BeginStatus, FindRow, AnswerFromRow, MissRow,
           FailStatement, tables
    <3>3. ~ InsertTrade(c)
      BY <2>1 DEF InsertTrade
    <3> QED
      BY <2>3, <3>1, <3>2, <3>3 DEF TradeStep
  <2>4. ASSUME NEW c \in Clients, PortfolioStep(c)
        PROVE  \E ok \in BOOLEAN : RestoreCapital(c, ok)
    <3>1. ASSUME NEW ok \in BOOLEAN, RemoveCoinFromPortfolio(c, ok) PROVE FALSE
      BY <2>1, <3>1 DEF RemoveCoinFromPortfolio, RowChanged, IInv, TypeOK
    <3>2. ASSUME NEW ok \in BOOLEAN, OpenCoin(c, ok) PROVE FALSE
      BY <2>1, <2>2, <3>2 DEF OpenCoin
    <3>3. /\ ~ CreatePortfolio(c) /\ ~ CreateDone(c)
          /\ ~ \E ok \in BOOLEAN : ResetPortfolio(c, ok) \/ PurgeTrades(c, ok)
      BY <2>1 DEF CreatePortfolio, CreateDone, ResetPortfolio, PurgeTrades, tables
    <3> QED
      BY <2>4, <3>1, <3>2, <3>3 DEF PortfolioStep
  <2>5. ASSUME NEW p \in Portfolios, NEW coin \in Coins, NEW capital \in Capitals,
               AddCoinToPortfolio(p, coin, capital)
        PROVE  FALSE
    BY <2>2, <2>5 DEF AddCoinToPortfolio
  <2>6. /\ ~ \E p \in Portfolios : DeletePortfolio(p)
        /\ ~ Crash /\ ~ UNCHANGED vars
    BY <2>1 DEF DeletePortfolio, Crash, tables, vars
  <2> QED
    BY <2>3, <2>4, <2>5, <2>6 DEF Next
<1>2. ASSUME NEW ok \in BOOLEAN, RestoreCapital(c, ok)
      PROVE  state'[k] = FreshRow(state[k].capital)
  BY <1>2 DEF RestoreCapital, RowChanged
<1>3. ASSUME UpdateState(c)
      PROVE  \/ \E i \in DOMAIN trades[k] :
                  /\ trades[k][i].cashAfter = state'[k].cash
                  /\ trades[k][i].unitsAfter = state'[k].units
             \/ /\ c \in forgotten /\ pc[c] = "update" /\ pc'[c] = "idle"
                /\ KeyOf(call[c]) = k
  <2> DEFINE new == NewRow(call[c], seen[c], rate[c])
  <2>1. /\ Ends(c, {"update"})
        /\ state' = [state EXCEPT ![KeyOf(call[c])] =
                       Overwritten(state[KeyOf(call[c])], new)]
    BY <1>3 DEF UpdateState
  <2>2. pc[c] = "update" /\ pc'[c] = "idle"
    BY <2>1, OthersLocals
  <2>3. new \in Rows
    <3>1. /\ call[c] \in TradeCalls \cup StatusCalls /\ seen[c] \in Rows
          /\ GoesOn(call[c], seen[c]) /\ rate[c] \in Rates
          /\ (call[c] \in TradeCalls /\ call[c].action \in {"BUY", "SELL"}) =>
               call[c].price > 0
      BY <2>2 DEF IInv, TypeOK, LocalOK, CallOK
    <3> QED
      BY <3>1, NewRowRange
  <2>4. Booked(c)
    BY DEF AllBooked
  <2>5. (pc[c] = "update" /\ c \notin forgotten) =>
          \E i \in DOMAIN trades[KeyOf(call[c])] :
            /\ trades[KeyOf(call[c])][i].cashAfter = new.cash
            /\ trades[KeyOf(call[c])][i].unitsAfter = new.units
    BY <2>4 DEF Booked
  <2> HIDE DEF new
  <2>6. KeyOf(call[c]) = k
    BY <2>1 DEF RowChanged, IInv, TypeOK
  <2>7. state'[k] = [new EXCEPT !.capital = state[k].capital]
    BY <2>1, <2>6 DEF RowChanged, Overwritten, IInv, TypeOK
  <2>8. state'[k].cash = new.cash /\ state'[k].units = new.units
    BY <2>3, <2>7 DEF Rows
  <2> QED
    BY <2>2, <2>5, <2>6, <2>8
<1> QED
  BY <1>1, <1>2, <1>3

\* However requests interleave and whatever fails, a row of sim_state changes only
\* to its initial capital or to what a trade of sim_trades says, except by a request
\* whose trade was deleted before its UPDATE.
THEOREM UpdateCorrect == Spec => UpdateIsBooked
<1>1. Init => AllBooked
  BY DEF Init, AllBooked, Booked
<1>2. IInv /\ AllBooked /\ [Next]_vars =>
        [\A k \in Keys :
           (state[k] # NoRow /\ state'[k] \notin {state[k], NoRow}) =>
             \/ state'[k] = FreshRow(state[k].capital)
             \/ \E i \in DOMAIN trades[k] :
                  /\ trades[k][i].cashAfter = state'[k].cash
                  /\ trades[k][i].unitsAfter = state'[k].units
             \/ \E c \in forgotten :
                  /\ pc[c] = "update" /\ pc'[c] = "idle"
                  /\ KeyOf(call[c]) = k]_vars
  BY ChangeExplained DEF RowChanged
<1> QED
  BY <1>1, <1>2, NextBooked, Invariance, PTL DEF Spec, UpdateIsBooked
==============================================================================
