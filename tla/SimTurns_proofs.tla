--------------------------- MODULE SimTurns_proofs ---------------------------
(***************************************************************************)
(* Proofs about SimTrading when clients take turns on each portfolio: as   *)
(* long as no statement has failed the books are right, and if none fails  *)
(* the requests implement SimLedger.  They hold for every set of           *)
(* portfolios, coins, clients, prices and amounts.                         *)
(***************************************************************************)
EXTENDS SimTrading_proofs, SequenceTheorems, WellFoundedInduction

(***************************************************************************)
(* The inductive invariant.                                                *)
(***************************************************************************)
\* A request in flight holds its call, and no other request its portfolio.
CallKept(c) ==
  /\ pc[c] = "idle" => call[c] = NoCall
  /\ pc[c] # "idle" => call[c] \in Calls
  /\ pc[c] = "restore" => call[c] \in ResetCalls

InTurn(c) ==
  pc[c] # "idle" => \A d \in Clients \ {c} : call[d].p # call[c].p

\* The row of a key holds what its last trade left.
Settled(k) ==
  IF trades[k] = << >>
  THEN state[k] # NoRow => state[k] = FreshRow(state[k].capital)
  ELSE /\ state[k].cash = trades[k][Len(trades[k])].cashAfter
       /\ state[k].units = trades[k][Len(trades[k])].unitsAfter

\* Request c is between the two statements that change key k.
Halfway(c, k) ==
  \/ pc[c] \in {"update", "purge"} /\ KeyOf(call[c]) = k
  \/ pc[c] = "restore" /\ call[c].p = k[1]

\* What request c has read is what the table still holds, and what its first
\* statement has done is what its second one goes on from.
ReadIsCurrent(c) ==
  pc[c] \in {"insert", "update"} => seen[c] = state[KeyOf(call[c])]

FirstDone(c) ==
  /\ pc[c] = "update" =>
       LET book == trades[KeyOf(call[c])]
           new  == NewRow(call[c], seen[c], rate[c]) IN
         /\ book # << >>
         /\ book[Len(book)].cashAfter = new.cash
         /\ book[Len(book)].unitsAfter = new.units
  /\ pc[c] = "restore" =>
       \A k \in Keys : k[1] = call[c].p => trades[k] = << >>
  /\ pc[c] = "purge" => state[KeyOf(call[c])] = NoRow

ClientOK(c) == CallKept(c) /\ InTurn(c) /\ ReadIsCurrent(c) /\ FirstDone(c)

Chained(k) ==
  \A i \in 1..(Len(trades[k]) - 1) :
    /\ trades[k][i].cashAfter = trades[k][i+1].cashBefore
    /\ trades[k][i].unitsAfter = trades[k][i+1].unitsBefore

KeyOK(k) ==
  /\ Chained(k)
  /\ (\A c \in Clients : ~ Halfway(c, k)) => Settled(k)

Turns ==
  /\ \A c \in Clients : ClientOK(c)
  /\ \A k \in Keys : KeyOK(k)

TurnsInv == faults = 0 => Turns
-----------------------------------------------------------------------------
LEMMA CallRange ==
  ASSUME NEW r \in Calls
  PROVE  r.p \in Portfolios /\ r.p \in Nat
BY PortfoliosAssumption
   DEF Calls, TradeCalls, StatusCalls, CreateCalls, ResetCalls, RemoveCalls

LEMMA KeyPortfolio ==
  ASSUME NEW r \in TradeCalls \cup StatusCalls \cup RemoveCalls
  PROVE  KeyOf(r) \in Keys /\ KeyOf(r)[1] = r.p
BY KeyRange DEF KeyOf

\* The key and the portfolio of a request that has read a row or is halfway.
LEMMA BusyRange ==
  ASSUME IInv, NEW c \in Clients, CallKept(c), pc[c] # "idle"
  PROVE  /\ call[c].p \in Portfolios /\ call[c].p \in Nat
         /\ pc[c] \in {"find", "init", "refind", "insert", "update", "purge"} =>
              KeyOf(call[c]) \in Keys /\ KeyOf(call[c])[1] = call[c].p
<1>1. call[c] \in Calls
  BY DEF CallKept
<1>2. pc[c] \in {"find", "init", "refind", "insert", "update", "purge"} =>
        call[c] \in TradeCalls \cup StatusCalls \cup RemoveCalls
  BY DEF IInv, LocalOK, CallOK
<1> QED
  BY <1>1, <1>2, CallRange, KeyPortfolio

\* A key on which a request is halfway is one of its portfolio.
LEMMA HalfwayPortfolio ==
  ASSUME IInv, NEW c \in Clients, CallKept(c), NEW k \in Keys, Halfway(c, k)
  PROVE  pc[c] # "idle" /\ k[1] = call[c].p
<1>1. pc[c] # "idle"
  BY DEF Halfway
<1> QED
  BY <1>1, BusyRange DEF Halfway

\* A step that works on portfolio p leaves the requests S of other portfolios and
\* the keys of other portfolios as they were.
LEMMA Frame ==
  ASSUME IInv, Turns, NEW S \in SUBSET Clients, NEW p \in Portfolios,
         \A d \in S : /\ pc'[d] = pc[d] /\ call'[d] = call[d]
                      /\ seen'[d] = seen[d] /\ rate'[d] = rate[d]
                      /\ call[d].p # p,
         \A c \in Clients \ S : call[c].p \in {p, -1} /\ call'[c].p \in {p, -1},
         \A c, d \in Clients \ S : c = d,
         \A k \in Keys : k[1] # p => state'[k] = state[k] /\ trades'[k] = trades[k],
         \A c \in Clients \ S :
           CallKept(c)' /\ ReadIsCurrent(c)' /\ FirstDone(c)',
         \A k \in Keys : k[1] = p => KeyOK(k)'
  PROVE  Turns'
<1> USE DEF Turns, ClientOK
<1>1. p \in Nat
  BY PortfoliosAssumption
<1>2. ASSUME NEW d \in S
      PROVE  CallKept(d)' /\ ReadIsCurrent(d)' /\ FirstDone(d)'
  <2>1. CallKept(d) /\ ReadIsCurrent(d) /\ FirstDone(d)
    OBVIOUS
  <2>2. CallKept(d)'
    BY <2>1 DEF CallKept
  <2>3. pc[d] \in {"insert", "update", "purge"} =>
          /\ state'[KeyOf(call[d])] = state[KeyOf(call[d])]
          /\ trades'[KeyOf(call[d])] = trades[KeyOf(call[d])]
    BY <2>1, BusyRange
  <2>4. ReadIsCurrent(d)'
    BY <2>1, <2>3 DEF ReadIsCurrent
  <2>5. pc[d] = "restore" =>
          \A k \in Keys : k[1] = call[d].p => trades'[k] = << >>
    BY <2>1 DEF FirstDone
  <2>6. pc[d] = "update" =>
          LET book == trades'[KeyOf(call[d])]
              new  == NewRow(call[d], seen[d], rate[d]) IN
            /\ book # << >>
            /\ book[Len(book)].cashAfter = new.cash
            /\ book[Len(book)].unitsAfter = new.units
    BY <2>1, <2>3, Zenon DEF FirstDone
  <2>7. pc[d] = "purge" => state'[KeyOf(call[d])] = NoRow
    BY <2>1, <2>3 DEF FirstDone
  <2>8. FirstDone(d)'
    BY <2>5, <2>6, <2>7, Zenon DEF FirstDone
  <2> QED
    BY <2>2, <2>4, <2>8
<1>3. ASSUME NEW c \in Clients PROVE InTurn(c)'
  <2>1. ASSUME NEW d \in Clients \ {c}, pc'[c] # "idle" PROVE call'[d].p # call'[c].p
    <3>1. CASE c \in S /\ d \in S
      BY <2>1, <3>1 DEF InTurn
    <3>2. CASE c \in S /\ d \notin S
      <4>1. call[c].p \in Nat /\ call[c].p # p
        BY <2>1, <3>2, BusyRange
      <4> QED
        BY <4>1, <3>2
    <3>3. CASE c \notin S /\ d \in S
      <4>1. call'[c].p \in Nat
        <5>1. call'[c] \in Calls
          BY <2>1, <3>3 DEF CallKept
        <5> QED
          BY <5>1, CallRange
      <4>2. call'[c].p = p
        BY <4>1, <3>3
      <4> QED
        BY <4>2, <3>3
    <3>4. CASE c \notin S /\ d \notin S
      BY <3>4
    <3> QED
      BY <3>1, <3>2, <3>3, <3>4
  <2> QED
    BY <2>1 DEF InTurn
<1>4. ASSUME NEW k \in Keys, k[1] # p PROVE KeyOK(k)'
  <2>1. state'[k] = state[k] /\ trades'[k] = trades[k]
    BY <1>4
  <2>2. ASSUME NEW c \in Clients, Halfway(c, k) PROVE Halfway(c, k)'
    <3>1. pc[c] # "idle" /\ k[1] = call[c].p
      BY <2>2, HalfwayPortfolio
    <3>2. c \in S
      <4>1. call[c].p \in Nat
        BY <3>1, BusyRange
      <4> QED
        BY <3>1, <4>1, <1>4
    <3> QED
      BY <2>2, <3>2 DEF Halfway
  <2>3. Chained(k)'
    BY <2>1 DEF KeyOK, Chained
  <2>4. Settled(k) => Settled(k)'
    BY <2>1 DEF Settled
  <2> QED
    BY <2>2, <2>3, <2>4 DEF KeyOK
<1> QED
  BY <1>2, <1>3, <1>4

\* The same for a step of one request, c.
LEMMA FrameOne ==
  ASSUME IInv, Turns, NEW c \in Clients, NEW p \in Portfolios,
         \A d \in Clients \ {c} : /\ pc'[d] = pc[d] /\ call'[d] = call[d]
                                  /\ seen'[d] = seen[d] /\ rate'[d] = rate[d]
                                  /\ call[d].p # p,
         call[c].p \in {p, -1}, call'[c].p \in {p, -1},
         \A k \in Keys : k[1] # p => state'[k] = state[k] /\ trades'[k] = trades[k],
         CallKept(c)', ReadIsCurrent(c)', FirstDone(c)',
         \A k \in Keys : k[1] = p => KeyOK(k)'
  PROVE  Turns'
<1> DEFINE S == Clients \ {c}
<1>1. \A d \in Clients \ S : d = c
  OBVIOUS
<1>2. /\ S \in SUBSET Clients
      /\ \A d \in S : /\ pc'[d] = pc[d] /\ call'[d] = call[d]
                      /\ seen'[d] = seen[d] /\ rate'[d] = rate[d]
                      /\ call[d].p # p
  OBVIOUS
<1>3. /\ \A d \in Clients \ S : call[d].p \in {p, -1} /\ call'[d].p \in {p, -1}
      /\ \A d, e \in Clients \ S : d = e
      /\ \A d \in Clients \ S : CallKept(d)' /\ ReadIsCurrent(d)' /\ FirstDone(d)'
  BY <1>1
<1> HIDE DEF S
<1> QED
  BY <1>2, <1>3, Frame

\* A step of c that changes no table and leaves no work half done.
LEMMA FrameTables ==
  ASSUME IInv, Turns, NEW c \in Clients, NEW p \in Portfolios,
         \A d \in Clients \ {c} : /\ pc'[d] = pc[d] /\ call'[d] = call[d]
                                  /\ seen'[d] = seen[d] /\ rate'[d] = rate[d]
                                  /\ call[d].p # p,
         call[c].p \in {p, -1}, call'[c].p \in {p, -1},
         state' = state, trades' = trades,
         pc[c] \notin {"update", "restore", "purge"},
         pc'[c] \notin {"update", "restore", "purge"},
         CallKept(c)', ReadIsCurrent(c)'
  PROVE  Turns'
<1>1. FirstDone(c)'
  BY DEF FirstDone
<1>2. ASSUME NEW k \in Keys PROVE KeyOK(k)'
  <2>1. KeyOK(k)
    BY DEF Turns
  <2>2. \A d \in Clients : Halfway(d, k) => Halfway(d, k)'
    BY DEF Halfway
  <2>3. (Settled(k) => Settled(k)') /\ Chained(k)'
    BY <2>1 DEF Settled, KeyOK, Chained
  <2> QED
    BY <2>1, <2>2, <2>3 DEF KeyOK
<1> QED
  BY <1>1, <1>2, FrameOne

\* What a request that begins finds, and what it leaves to the others.
LEMMA Beginning ==
  ASSUME IInv, Turns, Exclusive, NEW c \in Clients, NEW r \in Calls,
         NEW at \in PcValues \ {"idle"}, Starts(c, r, at),
         at = "restore" => r \in ResetCalls
  PROVE  /\ r.p \in Portfolios
         /\ pc[c] = "idle" /\ call[c].p = -1
         /\ pc'[c] = at /\ call'[c] = r
         /\ CallKept(c)'
         /\ \A d \in Clients \ {c} :
              pc'[d] = pc[d] /\ call'[d] = call[d] /\ call[d].p # r.p
<1>1. CallKept(c)
  BY DEF Turns, ClientOK
<1>2. r.p \in Portfolios
  BY CallRange
<1>3. pc[c] = "idle" /\ call[c].p = -1
  BY <1>1 DEF CallKept, Starts, NoCall
<1>4. pc'[c] = at /\ call'[c] = r
  BY DEF Starts, IInv, TypeOK
<1>5. \A d \in Clients \ {c} :
        pc'[d] = pc[d] /\ call'[d] = call[d] /\ call[d].p # r.p
  BY DEF Starts, Arrives, Admitted, IInv, TypeOK
<1> QED
  BY <1>2, <1>3, <1>4, <1>5 DEF CallKept

\* A request in flight is alone on its portfolio.
LEMMA Alone ==
  ASSUME IInv, Turns, NEW c \in Clients, pc[c] # "idle"
  PROVE  /\ call[c] \in Calls /\ call[c].p \in Portfolios
         /\ \A d \in Clients \ {c} : call[d].p # call[c].p
         /\ ReadIsCurrent(c) /\ FirstDone(c)
BY BusyRange DEF Turns, ClientOK, CallKept, InTurn

LEMMA Going ==
  ASSUME IInv, Turns, NEW c \in Clients, NEW from \in PcValues \ {"idle"},
         NEW to \in PcValues \ {"idle", "restore"}, Moves(c, from, to)
  PROVE  /\ pc[c] = from /\ pc'[c] = to /\ call' = call
         /\ CallKept(c)'
         /\ \A d \in Clients \ {c} : pc'[d] = pc[d]
<1>1. /\ pc[c] = from /\ pc'[c] = to /\ call' = call
      /\ \A d \in Clients \ {c} : pc'[d] = pc[d]
  BY DEF Moves, IInv, TypeOK
<1> QED
  BY <1>1, Alone DEF CallKept

LEMMA Ending ==
  ASSUME IInv, NEW c \in Clients, NEW from, Ends(c, from)
  PROVE  /\ pc[c] \in from /\ pc'[c] = "idle" /\ call'[c] = NoCall /\ call'[c].p = -1
         /\ CallKept(c)' /\ ReadIsCurrent(c)' /\ FirstDone(c)'
         /\ \A d \in Clients \ {c} : /\ pc'[d] = pc[d] /\ call'[d] = call[d]
                                     /\ seen'[d] = seen[d] /\ rate'[d] = rate[d]
         /\ \A k \in Keys : ~ Halfway(c, k)'
<1>1. /\ pc[c] \in from /\ pc'[c] = "idle" /\ call'[c] = NoCall
      /\ \A d \in Clients \ {c} : /\ pc'[d] = pc[d] /\ call'[d] = call[d]
                                  /\ seen'[d] = seen[d] /\ rate'[d] = rate[d]
  BY DEF Ends, IInv, TypeOK
<1>2. NoCall.p = -1
  BY DEF NoCall
<1> QED
  BY <1>1, <1>2 DEF CallKept, ReadIsCurrent, FirstDone, Halfway

-----------------------------------------------------------------------------
LEMMA NoFault ==
  ASSUME faults \in Nat, NEW ok \in BOOLEAN, Executes(ok), faults' = 0
  PROVE  ok = TRUE /\ faults = 0
BY DEF Executes

\* Nobody is halfway on a key of a portfolio on which nobody is halfway.
LEMMA NoneHalfway ==
  ASSUME IInv, Turns, NEW p \in Portfolios,
         \A d \in Clients :
           call[d].p = p => pc[d] \notin {"update", "restore", "purge"}
  PROVE  \A k \in Keys : k[1] = p =>
           /\ \A d \in Clients : ~ Halfway(d, k)
           /\ Settled(k) /\ Chained(k)
<1>1. ASSUME NEW k \in Keys, k[1] = p, NEW d \in Clients PROVE ~ Halfway(d, k)
  BY <1>1, HalfwayPortfolio DEF Halfway, Turns, ClientOK
<1> QED
  BY <1>1 DEF Turns, KeyOK

\* A trade leaves naturals, so a key that has trades has a row while it is settled.
LEMMA SettledHasRow ==
  ASSUME IInv, NEW k \in Keys, Settled(k), state[k] = NoRow
  PROVE  trades[k] = << >>
<1>1. trades[k] \in Seq(Entries)
  BY DEF IInv, TypeOK
<1>2. ASSUME trades[k] # << >> PROVE FALSE
  <2>1. trades[k][Len(trades[k])] \in Entries
    BY <1>1, <1>2
  <2>2. trades[k][Len(trades[k])].cashAfter \in Nat
    BY <2>1 DEF Entries
  <2>3. state[k].cash = trades[k][Len(trades[k])].cashAfter
    BY <1>2 DEF Settled
  <2> QED
    BY <2>2, <2>3 DEF NoRow
<1> QED
  BY <1>2

\* A fresh row for a settled key without a row settles it.
LEMMA WithRowKeyOK ==
  ASSUME IInv, NEW k0 \in Keys, NEW capital \in Capitals,
         state' = WithRow(state, k0, capital), trades' = trades,
         NEW k \in Keys, Settled(k), Chained(k)
  PROVE  KeyOK(k)'
<1>1. Chained(k)'
  BY DEF Chained
<1>2. CASE k = k0 /\ state[k] = NoRow
  <2>1. trades'[k] = << >>
    BY <1>2, SettledHasRow
  <2>2. state'[k] = FreshRow(capital)
    BY <1>2 DEF WithRow, IInv, TypeOK
  <2>3. FreshRow(capital).capital = capital
    BY DEF FreshRow
  <2> QED
    BY <1>1, <2>1, <2>2, <2>3 DEF KeyOK, Settled
<1>3. CASE ~ (k = k0 /\ state[k] = NoRow)
  <2>1. state'[k] = state[k]
    BY <1>3 DEF WithRow, IInv, TypeOK
  <2> QED
    BY <1>1, <2>1 DEF KeyOK, Settled
<1> QED
  BY <1>2, <1>3

\* INSERT of a row by a request that is alone on its portfolio.
LEMMA WithRowTurns ==
  ASSUME IInv, Turns, NEW c \in Clients, pc[c] \in {"init", "open"},
         NEW k0 \in Keys, k0[1] = call[c].p, NEW capital \in Capitals,
         state' = WithRow(state, k0, capital), trades' = trades,
         pc'[c] \in {"refind", "open"}, CallKept(c)', call'[c].p = call[c].p,
         \A d \in Clients \ {c} : pc'[d] = pc[d] /\ call'[d] = call[d],
         UNCHANGED <<seen, rate>>
  PROVE  Turns'
<1> DEFINE p == call[c].p
<1>1. /\ p \in Portfolios /\ \A d \in Clients \ {c} : call[d].p # p
  BY Alone
<1>2. \A k \in Keys : k[1] = p => Settled(k) /\ Chained(k)
  BY <1>1, NoneHalfway
<1>3. \A k \in Keys : k[1] = p => KeyOK(k)'
  BY <1>2, WithRowKeyOK
<1>4. \A k \in Keys : k[1] # p => state'[k] = state[k]
  BY DEF WithRow, IInv, TypeOK
<1>5. ReadIsCurrent(c)' /\ FirstDone(c)'
  BY DEF ReadIsCurrent, FirstDone
<1> HIDE DEF p
<1>6. call[c].p \in {p, -1} /\ call'[c].p \in {p, -1}
  BY DEF p
<1> QED
  BY <1>1, <1>3, <1>4, <1>5, <1>6, FrameOne

-----------------------------------------------------------------------------
\* INSERT into sim_trades: the entry starts where the last one ended, since the row
\* it was computed from is still the row of the table.
LEMMA InsertTradeTurns ==
  ASSUME IInv, Turns, NEW c \in Clients, InsertTrade(c)
  PROVE  Turns'
<1> DEFINE r == call[c]  k0 == KeyOf(r)  p == r.p
           new == NewRow(r, seen[c], rate[c])
           entry == Entry(r.action, seen[c], new)
<1>1. /\ Moves(c, "insert", "update")
      /\ trades' = [trades EXCEPT ![k0] = Append(trades[k0], entry)]
      /\ UNCHANGED <<state, rate, seen>>
  BY DEF InsertTrade
<1>2. /\ pc[c] = "insert" /\ pc'[c] = "update" /\ call' = call
      /\ CallKept(c)' /\ \A d \in Clients \ {c} : pc'[d] = pc[d]
  BY <1>1, Going DEF PcValues
<1>3. /\ p \in Portfolios /\ \A d \in Clients \ {c} : call[d].p # p
      /\ seen[c] = state[k0]
  BY <1>2, Alone DEF ReadIsCurrent
<1>4. k0 \in Keys /\ k0[1] = p
  BY <1>2, BusyRange DEF Turns, ClientOK
<1>5. Settled(k0) /\ Chained(k0)
  BY <1>2, <1>3, <1>4, NoneHalfway
<1>6. seen[c] \in Rows
  BY <1>2 DEF IInv, LocalOK, CallOK
<1>7. /\ entry.cashBefore = state[k0].cash /\ entry.unitsBefore = state[k0].units
      /\ entry.cashAfter = new.cash /\ entry.unitsAfter = new.units
  BY <1>3 DEF Entry
<1>8. trades[k0] \in Seq(Entries)
  BY <1>4 DEF IInv, TypeOK
<1>9. /\ trades'[k0] = Append(trades[k0], entry)
      /\ \A k \in Keys : k # k0 => trades'[k] = trades[k]
  BY <1>1, <1>4 DEF IInv, TypeOK
<1> HIDE DEF r, k0, p, new, entry
<1>10. /\ Len(trades'[k0]) = Len(trades[k0]) + 1
       /\ trades'[k0] # << >>
       /\ trades'[k0][Len(trades'[k0])] = entry
       /\ \A i \in 1..Len(trades[k0]) : trades'[k0][i] = trades[k0][i]
  BY <1>8, <1>9
<1>11. ASSUME NEW k \in Keys, k = k0 PROVE Chained(k)'
  <2> DEFINE n == Len(trades[k0])
  <2>1. n \in Nat /\ (n # 0 => trades[k0] # << >>)
    BY <1>8
  <2>2. ASSUME NEW i \in 1..n
        PROVE  /\ trades'[k0][i].cashAfter = trades'[k0][i+1].cashBefore
               /\ trades'[k0][i].unitsAfter = trades'[k0][i+1].unitsBefore
    <3>1. CASE i = n
      <4>1. /\ trades[k0][n].cashAfter = state[k0].cash
            /\ trades[k0][n].unitsAfter = state[k0].units
        BY <1>5, <2>1, <3>1 DEF Settled
      <4>2. trades'[k0][i] = trades[k0][n] /\ trades'[k0][i+1] = entry
        BY <1>10, <2>1, <3>1
      <4> QED
        BY <4>1, <4>2, <1>7
    <3>2. CASE i # n
      <4>1. i \in 1..(n - 1) /\ i + 1 \in 1..n
        BY <2>1, <3>2
      <4>2. trades'[k0][i] = trades[k0][i] /\ trades'[k0][i+1] = trades[k0][i+1]
        BY <1>10, <4>1
      <4> QED
        BY <1>5, <4>1, <4>2 DEF Chained
    <3> QED
      BY <3>1, <3>2
  <2>3. \A i \in 1..(Len(trades'[k0]) - 1) : i \in 1..n
    BY <1>10, <2>1
  <2> QED
    BY <1>11, <2>2, <2>3 DEF Chained
<1>12. ASSUME NEW k \in Keys, k[1] = p PROVE KeyOK(k)'
  <2>1. CASE k = k0
    <3>1. Halfway(c, k)'
      BY <1>2, <2>1 DEF Halfway, k0, r
    <3> QED
      BY <1>11, <2>1, <3>1 DEF KeyOK
  <2>2. CASE k # k0
    <3>1. Settled(k) /\ Chained(k)
      BY <1>2, <1>3, <1>12, NoneHalfway DEF p, r
    <3>2. trades'[k] = trades[k] /\ state'[k] = state[k]
      BY <1>1, <1>9, <2>2
    <3> QED
      BY <3>1, <3>2 DEF KeyOK, Settled, Chained
  <2> QED
    BY <2>1, <2>2
<1>13. ReadIsCurrent(c)'
  BY <1>1, <1>2, <1>3 DEF ReadIsCurrent, k0, r
<1>14. FirstDone(c)'
  <2>1. trades'[KeyOf(call'[c])] = trades'[k0] /\ NewRow(call'[c], seen'[c], rate'[c]) = new
    BY <1>1, <1>2 DEF k0, r, new
  <2> QED
    BY <1>2, <1>7, <1>10, <2>1 DEF FirstDone
<1>15. \A k \in Keys : k[1] # p => trades'[k] = trades[k]
  BY <1>4, <1>9
<1>16. call[c].p \in {p, -1} /\ call'[c].p \in {p, -1}
  BY <1>2 DEF p, r
<1> QED
  BY <1>1, <1>2, <1>3, <1>12, <1>13, <1>14, <1>15, <1>16, FrameOne

\* UPDATE of sim_state: the row holds what the entry before it says.
LEMMA UpdateStateTurns ==
  ASSUME IInv, Turns, NEW c \in Clients, UpdateState(c)
  PROVE  Turns'
<1> DEFINE k0 == KeyOf(call[c])  p == call[c].p
           new == NewRow(call[c], seen[c], rate[c])
<1>1. /\ Ends(c, {"update"})
      /\ state' = [state EXCEPT ![k0] = Overwritten(state[k0], new)]
      /\ UNCHANGED trades
  BY DEF UpdateState
<1>2. /\ pc[c] = "update" /\ call'[c].p = -1
      /\ CallKept(c)' /\ ReadIsCurrent(c)' /\ FirstDone(c)'
      /\ \A d \in Clients \ {c} : /\ pc'[d] = pc[d] /\ call'[d] = call[d]
                                  /\ seen'[d] = seen[d] /\ rate'[d] = rate[d]
  BY <1>1, Ending
<1>3. /\ p \in Portfolios /\ \A d \in Clients \ {c} : call[d].p # p
      /\ seen[c] = state[k0]
      /\ trades[k0] # << >>
      /\ trades[k0][Len(trades[k0])].cashAfter = new.cash
      /\ trades[k0][Len(trades[k0])].unitsAfter = new.units
  BY <1>2, Alone DEF ReadIsCurrent, FirstDone
<1>4. k0 \in Keys /\ k0[1] = p
  BY <1>2, BusyRange DEF Turns, ClientOK
<1>5. state[k0] \in Rows /\ state[k0] # NoRow
  BY <1>2, <1>3, NoneDistinct DEF IInv, LocalOK, CallOK
<1>6. new \in Rows
  <2>1. /\ call[c] \in TradeCalls \cup StatusCalls /\ seen[c] \in Rows
        /\ GoesOn(call[c], seen[c]) /\ rate[c] \in Rates
        /\ (call[c] \in TradeCalls /\ call[c].action \in {"BUY", "SELL"}) =>
             call[c].price > 0
    BY <1>2 DEF IInv, TypeOK, LocalOK, CallOK
  <2> QED
    BY <2>1, NewRowRange
<1>7. state'[k0].cash = new.cash /\ state'[k0].units = new.units
  <2>1. state'[k0] = [new EXCEPT !.capital = state[k0].capital]
    BY <1>1, <1>4, <1>5 DEF Overwritten, IInv, TypeOK
  <2> QED
    BY <1>6, <2>1 DEF Rows
<1>8. \A k \in Keys : k # k0 => state'[k] = state[k]
  BY <1>1 DEF IInv, TypeOK
<1> HIDE DEF k0, p, new
<1>9. ASSUME NEW k \in Keys, k[1] = p PROVE KeyOK(k)'
  <2>1. KeyOK(k) /\ Chained(k)'
    BY <1>1 DEF Turns, KeyOK, Chained
  <2>2. CASE k = k0
    <3>1. Settled(k)'
      BY <1>1, <1>3, <1>7, <2>2 DEF Settled
    <3> QED
      BY <2>1, <3>1 DEF KeyOK
  <2>3. CASE k # k0
    <3>1. \A d \in Clients : ~ Halfway(d, k)
      <4>1. ~ Halfway(c, k)
        BY <1>2, <2>3 DEF Halfway, k0
      <4>2. ASSUME NEW d \in Clients \ {c}, Halfway(d, k) PROVE FALSE
        BY <4>2, <1>3, <1>9, HalfwayPortfolio DEF Turns, ClientOK
      <4> QED
        BY <4>1, <4>2
    <3>2. Settled(k) /\ state'[k] = state[k]
      BY <1>8, <2>1, <2>3, <3>1 DEF KeyOK
    <3>3. Settled(k)'
      BY <1>1, <3>2 DEF Settled
    <3> QED
      BY <2>1, <3>3 DEF KeyOK
  <2> QED
    BY <2>2, <2>3
<1>10. \A k \in Keys : k[1] # p => state'[k] = state[k]
  BY <1>4, <1>8
<1>11. call[c].p \in {p, -1}
  BY DEF p
<1> QED
  BY <1>1, <1>2, <1>3, <1>9, <1>10, <1>11, FrameOne

\* Every step of a trade or status request.
LEMMA TradeStepTurns ==
  ASSUME IInv, Turns, Exclusive, NEW c \in Clients, TradeStep(c), faults' = 0
  PROVE  Turns'
<1> USE DEF PcValues
<1>1. ASSUME NEW ok \in BOOLEAN, BeginTrade(c, ok) PROVE Turns'
  <2>1. PICK r \in TradeCalls :
          /\ Starts(c, r, "find")
          /\ \A d \in Clients \ {c} : rate'[d] = rate[d]
          /\ UNCHANGED <<tables, seen>>
    BY <1>1 DEF BeginTrade, IInv, TypeOK
  <2>2. r \in Calls
    BY DEF Calls
  <2>3. /\ r.p \in Portfolios /\ pc[c] = "idle" /\ call[c].p = -1
        /\ pc'[c] = "find" /\ call'[c] = r /\ CallKept(c)'
        /\ \A d \in Clients \ {c} :
             pc'[d] = pc[d] /\ call'[d] = call[d] /\ call[d].p # r.p
    BY <2>1, <2>2, Beginning
  <2>4. ReadIsCurrent(c)'
    BY <2>3 DEF ReadIsCurrent
  <2> QED
    BY <2>1, <2>3, <2>4, FrameTables DEF tables
<1>2. ASSUME BeginStatus(c) PROVE Turns'
  <2>1. PICK r \in StatusCalls :
          Starts(c, r, "find") /\ UNCHANGED <<tables, rate, seen, faults>>
    BY <1>2 DEF BeginStatus
  <2>2. r \in Calls
    BY DEF Calls
  <2>3. /\ r.p \in Portfolios /\ pc[c] = "idle" /\ call[c].p = -1
        /\ pc'[c] = "find" /\ call'[c] = r /\ CallKept(c)'
        /\ \A d \in Clients \ {c} :
             pc'[d] = pc[d] /\ call'[d] = call[d] /\ call[d].p # r.p
    BY <2>1, <2>2, Beginning
  <2>4. ReadIsCurrent(c)'
    BY <2>3 DEF ReadIsCurrent
  <2> QED
    BY <2>1, <2>3, <2>4, FrameTables DEF tables
<1>3. ASSUME FindRow(c) PROVE Turns'
  <2>1. /\ pc[c] \in {"find", "refind"} /\ Moves(c, pc[c], "insert")
        /\ seen' = [seen EXCEPT ![c] = state[KeyOf(call[c])]]
        /\ UNCHANGED <<tables, rate>>
    BY <1>3 DEF FindRow
  <2>2. /\ pc'[c] = "insert" /\ call' = call /\ CallKept(c)'
        /\ \A d \in Clients \ {c} : pc'[d] = pc[d]
    BY <2>1, Going
  <2>3. /\ call[c].p \in Portfolios
        /\ \A d \in Clients \ {c} : call[d].p # call[c].p
    BY <2>1, Alone
  <2>4. /\ seen'[c] = state[KeyOf(call[c])]
        /\ \A d \in Clients \ {c} : seen'[d] = seen[d]
    BY <2>1 DEF IInv, TypeOK
  <2>5. ReadIsCurrent(c)'
    BY <2>1, <2>2, <2>4 DEF ReadIsCurrent, tables
  <2> QED
    BY <2>1, <2>2, <2>3, <2>4, <2>5, FrameTables DEF tables
<1>4. ASSUME AnswerFromRow(c) PROVE Turns'
  <2>1. Ends(c, {"find", "refind"}) /\ UNCHANGED tables
    BY <1>4 DEF AnswerFromRow
  <2>2. pc[c] \in {"find", "refind"}
    BY <2>1, Ending
  <2> QED
    BY <2>1, <2>2, Alone, Ending, FrameTables DEF tables
<1>5. ASSUME MissRow(c) PROVE Turns'
  <2>1. Moves(c, "find", "init") /\ UNCHANGED <<tables, rate, seen>>
    BY <1>5 DEF MissRow
  <2>2. /\ pc[c] = "find" /\ pc'[c] = "init" /\ call' = call /\ CallKept(c)'
        /\ \A d \in Clients \ {c} : pc'[d] = pc[d]
    BY <2>1, Going
  <2>3. ReadIsCurrent(c)'
    BY <2>2 DEF ReadIsCurrent
  <2> QED
    BY <2>1, <2>2, <2>3, Alone, FrameTables DEF tables
<1>6. ASSUME InitSimState(c) PROVE Turns'
  <2>1. /\ Moves(c, "init", "refind")
        /\ state' = WithRow(state, KeyOf(call[c]), DefaultCapital)
        /\ UNCHANGED <<trades, rate, seen>>
    BY <1>6 DEF InitSimState
  <2>2. /\ pc[c] = "init" /\ pc'[c] = "refind" /\ call' = call /\ CallKept(c)'
        /\ \A d \in Clients \ {c} : pc'[d] = pc[d]
    BY <2>1, Going
  <2>3. KeyOf(call[c]) \in Keys /\ KeyOf(call[c])[1] = call[c].p
    BY <2>2, BusyRange DEF Turns, ClientOK
  <2> QED
    BY <2>1, <2>2, <2>3, WithRowTurns, CapitalsAssumption
<1>7. ASSUME FailStatement(c) PROVE FALSE
  BY <1>7 DEF FailStatement, Executes, IInv, TypeOK
<1> QED
  BY <1>1, <1>2, <1>3, <1>4, <1>5, <1>6, <1>7, InsertTradeTurns, UpdateStateTurns
     DEF TradeStep

\* Every step of a portfolio request.
LEMMA PortfolioStepTurns ==
  ASSUME IInv, Turns, Exclusive, NEW c \in Clients, PortfolioStep(c), faults' = 0
  PROVE  Turns'
<1> USE DEF PcValues
<1>0. faults \in Nat
  BY DEF IInv, TypeOK
<1>1. ASSUME CreatePortfolio(c) PROVE Turns'
  <2>1. PICK r \in CreateCalls :
          Starts(c, r, "open") /\ UNCHANGED <<state, trades, rate, seen>>
    BY <1>1 DEF CreatePortfolio
  <2>2. r \in Calls
    BY DEF Calls
  <2>3. /\ r.p \in Portfolios /\ pc[c] = "idle" /\ call[c].p = -1
        /\ pc'[c] = "open" /\ call'[c] = r /\ CallKept(c)'
        /\ \A d \in Clients \ {c} :
             pc'[d] = pc[d] /\ call'[d] = call[d] /\ call[d].p # r.p
    BY <2>1, <2>2, Beginning
  <2>4. ReadIsCurrent(c)'
    BY <2>3 DEF ReadIsCurrent
  <2> QED
    BY <2>1, <2>3, <2>4, FrameTables
<1>2. ASSUME CreateDone(c) PROVE Turns'
  <2>1. Ends(c, {"open"}) /\ UNCHANGED tables
    BY <1>2 DEF CreateDone
  <2>2. pc[c] = "open"
    BY <2>1, Ending
  <2> QED
    BY <2>1, <2>2, Alone, Ending, FrameTables DEF tables
<1>3. ASSUME NEW ok \in BOOLEAN, OpenCoin(c, ok) PROVE Turns'
  <2>1. PICK coin \in call[c].coins :
          /\ pc[c] = "open"
          /\ call' = [call EXCEPT ![c] = [call[c] EXCEPT !.coins = @ \ {coin}]]
          /\ state' = IF ok THEN WithRow(state, <<call[c].p, coin>>, call[c].capital)
                            ELSE state
          /\ UNCHANGED <<trades, pc, rate, seen>>
          /\ Executes(ok)
    BY <1>3 DEF OpenCoin
  <2>2. call[c] \in CreateCalls
    BY <2>1 DEF IInv, LocalOK, CallOK
  <2>3. /\ <<call[c].p, coin>> \in Keys /\ call[c].capital \in Capitals
        /\ <<call[c].p, coin>>[1] = call[c].p
    BY <2>2 DEF CreateCalls, Keys
  <2>4. /\ call'[c] = [call[c] EXCEPT !.coins = @ \ {coin}]
        /\ \A d \in Clients \ {c} : call'[d] = call[d]
    BY <2>1 DEF IInv, TypeOK
  <2>5. call'[c] \in CreateCalls /\ call'[c].p = call[c].p
    BY <2>2, <2>4 DEF CreateCalls
  <2>6. CallKept(c)'
    BY <2>1, <2>5 DEF CallKept, Calls
  <2>7. ok = TRUE
    BY <1>0, <2>1, NoFault
  <2> QED
    BY <2>1, <2>3, <2>4, <2>5, <2>6, <2>7, WithRowTurns
<1>4. ASSUME NEW ok \in BOOLEAN, ResetPortfolio(c, ok) PROVE Turns'
  <2>1. PICK r \in ResetCalls :
          /\ Starts(c, r, "restore")
          /\ Executes(ok)
          /\ trades' = [k \in Keys |->
               IF ok /\ k[1] = r.p THEN << >> ELSE trades[k]]
          /\ UNCHANGED <<state, rate, seen>>
    BY <1>4 DEF ResetPortfolio
  <2>2. r \in Calls /\ ok = TRUE
    BY <1>0, <2>1, NoFault DEF Calls
  <2>3. /\ r.p \in Portfolios /\ pc[c] = "idle" /\ call[c].p = -1
        /\ pc'[c] = "restore" /\ call'[c] = r /\ CallKept(c)'
        /\ \A d \in Clients \ {c} :
             pc'[d] = pc[d] /\ call'[d] = call[d] /\ call[d].p # r.p
    BY <2>1, <2>2, Beginning
  <2>4. ReadIsCurrent(c)'
    BY <2>3 DEF ReadIsCurrent
  <2>5. FirstDone(c)'
    BY <2>1, <2>2, <2>3 DEF FirstDone
  <2>6. ASSUME NEW k \in Keys, k[1] = r.p PROVE KeyOK(k)'
    <3>1. trades'[k] = << >>
      BY <2>1, <2>2, <2>6
    <3>2. Halfway(c, k)'
      BY <2>3, <2>6 DEF Halfway
    <3>3. Chained(k)'
      BY <3>1 DEF Chained
    <3> QED
      BY <3>2, <3>3 DEF KeyOK
  <2>7. \A k \in Keys : k[1] # r.p => trades'[k] = trades[k]
    BY <2>1
  <2> QED
    BY <2>1, <2>3, <2>4, <2>5, <2>6, <2>7, FrameOne
<1>5. ASSUME NEW ok \in BOOLEAN, RestoreCapital(c, ok) PROVE Turns'
  <2> DEFINE p == call[c].p
  <2>1. /\ Ends(c, {"restore"})
        /\ Executes(ok)
        /\ state' = [k \in Keys |->
             IF ok /\ k[1] = p /\ state[k] # NoRow
             THEN FreshRow(state[k].capital) ELSE state[k]]
        /\ UNCHANGED trades
    BY <1>5 DEF RestoreCapital
  <2>2. ok = TRUE
    BY <1>0, <2>1, NoFault
  <2>3. pc[c] = "restore"
    BY <2>1, Ending
  <2>4. /\ p \in Portfolios /\ \A d \in Clients \ {c} : call[d].p # p
        /\ \A k \in Keys : k[1] = p => trades[k] = << >>
    BY <2>3, Alone DEF FirstDone
  <2>5. call[c].p \in {p, -1}
    OBVIOUS
  <2> HIDE DEF p
  <2>6. ASSUME NEW k \in Keys, k[1] = p PROVE KeyOK(k)'
    <3>1. trades'[k] = << >>
      BY <2>1, <2>4, <2>6
    <3>2. state'[k] # NoRow => state'[k] = FreshRow(state'[k].capital)
      BY <2>1, <2>2, <2>6 DEF FreshRow
    <3> QED
      BY <3>1, <3>2 DEF KeyOK, Chained, Settled
  <2>7. \A k \in Keys : k[1] # p => state'[k] = state[k]
    BY <2>1
  <2> QED
    BY <2>1, <2>4, <2>5, <2>6, <2>7, Ending, FrameOne
<1>6. ASSUME NEW ok \in BOOLEAN, RemoveCoinFromPortfolio(c, ok) PROVE Turns'
  <2>1. PICK r \in RemoveCalls :
          /\ Starts(c, r, "purge")
          /\ Executes(ok)
          /\ state' = IF ok THEN [state EXCEPT ![KeyOf(r)] = NoRow] ELSE state
          /\ UNCHANGED <<trades, rate, seen>>
    BY <1>6 DEF RemoveCoinFromPortfolio
  <2>2. r \in Calls /\ ok = TRUE
    BY <1>0, <2>1, NoFault DEF Calls
  <2>3. /\ r.p \in Portfolios /\ pc[c] = "idle" /\ call[c].p = -1
        /\ pc'[c] = "purge" /\ call'[c] = r /\ CallKept(c)'
        /\ \A d \in Clients \ {c} :
             pc'[d] = pc[d] /\ call'[d] = call[d] /\ call[d].p # r.p
    BY <2>1, <2>2, Beginning
  <2>4. /\ KeyOf(r) \in Keys /\ KeyOf(r)[1] = r.p
        /\ state'[KeyOf(r)] = NoRow
        /\ \A k \in Keys : k # KeyOf(r) => state'[k] = state[k]
    BY <2>1, <2>2, KeyPortfolio DEF IInv, TypeOK
  <2>5. ReadIsCurrent(c)' /\ FirstDone(c)'
    BY <2>3, <2>4 DEF ReadIsCurrent, FirstDone
  <2>6. ASSUME NEW k \in Keys, k[1] = r.p PROVE KeyOK(k)'
    <3>1. Settled(k) /\ Chained(k)
      BY <2>3, <2>6, NoneHalfway
    <3>2. CASE k = KeyOf(r)
      <4>1. Halfway(c, k)'
        BY <2>3, <3>2 DEF Halfway
      <4> QED
        BY <2>1, <3>1, <4>1 DEF KeyOK, Chained
    <3>3. CASE k # KeyOf(r)
      BY <2>1, <2>4, <3>1, <3>3 DEF KeyOK, Chained, Settled
    <3> QED
      BY <3>2, <3>3
  <2> QED
    BY <2>1, <2>3, <2>4, <2>5, <2>6, FrameOne
<1>7. ASSUME NEW ok \in BOOLEAN, PurgeTrades(c, ok) PROVE Turns'
  <2> DEFINE p == call[c].p  k0 == KeyOf(call[c])
  <2>1. /\ Ends(c, {"purge"})
        /\ Executes(ok)
        /\ trades' = IF ok THEN [trades EXCEPT ![k0] = << >>] ELSE trades
        /\ UNCHANGED state
    BY <1>7 DEF PurgeTrades
  <2>2. ok = TRUE
    BY <1>0, <2>1, NoFault
  <2>3. pc[c] = "purge"
    BY <2>1, Ending
  <2>4. /\ p \in Portfolios /\ \A d \in Clients \ {c} : call[d].p # p
        /\ state[k0] = NoRow /\ k0 \in Keys /\ k0[1] = p
    BY <2>3, Alone, BusyRange DEF FirstDone, CallKept
  <2>5. call[c].p \in {p, -1}
    OBVIOUS
  <2>6. /\ trades'[k0] = << >>
        /\ \A k \in Keys : k # k0 => trades'[k] = trades[k]
    BY <2>1, <2>2, <2>4 DEF IInv, TypeOK
  <2>7. \A k \in Keys : k # k0 => ~ Halfway(c, k)
    BY <2>3 DEF Halfway
  <2> HIDE DEF p, k0
  <2>8. ASSUME NEW k \in Keys, k[1] = p PROVE KeyOK(k)'
    <3>1. CASE k = k0
      BY <2>1, <2>4, <2>6, <3>1 DEF KeyOK, Chained, Settled
    <3>2. CASE k # k0
      <4>1. ASSUME NEW d \in Clients \ {c}, Halfway(d, k) PROVE FALSE
        BY <4>1, <2>4, <2>8, HalfwayPortfolio DEF Turns, ClientOK
      <4>2. Settled(k) /\ Chained(k)
        BY <2>7, <3>2, <4>1 DEF Turns, KeyOK
      <4> QED
        BY <2>1, <2>6, <3>2, <4>2 DEF KeyOK, Chained, Settled
    <3> QED
      BY <3>1, <3>2
  <2>9. \A k \in Keys : k[1] # p => trades'[k] = trades[k]
    BY <2>4, <2>6
  <2> QED
    BY <2>1, <2>4, <2>5, <2>8, <2>9, Ending, FrameOne
<1> QED
  BY <1>1, <1>2, <1>3, <1>4, <1>5, <1>6, <1>7 DEF PortfolioStep

-----------------------------------------------------------------------------
\* A statement that has failed stays counted.
LEMMA FaultsGrow ==
  ASSUME IInv, [Next]_vars
  PROVE  faults' \in {faults, faults + 1} /\ (faults' = faults \/ faults < MaxFaults)
<1>1. ASSUME NEW c \in Clients, TradeStep(c)
      PROVE  faults' = faults \/ (faults' = faults + 1 /\ faults < MaxFaults)
  BY <1>1 DEF TradeStep, BeginTrade, BeginStatus, FindRow, AnswerFromRow, MissRow,
       InitSimState, InsertTrade, UpdateState, FailStatement, Executes
<1>2. ASSUME NEW c \in Clients, PortfolioStep(c)
      PROVE  faults' = faults \/ (faults' = faults + 1 /\ faults < MaxFaults)
  BY <1>2 DEF PortfolioStep, CreatePortfolio, CreateDone, OpenCoin, ResetPortfolio,
       RestoreCapital, RemoveCoinFromPortfolio, PurgeTrades, Executes
<1>3. ASSUME NEW p \in Portfolios, DeletePortfolio(p) PROVE faults' = faults
  BY <1>3 DEF DeletePortfolio
<1>4. ASSUME NEW p \in Portfolios, NEW coin \in Coins, NEW capital \in Capitals,
             AddCoinToPortfolio(p, coin, capital)
      PROVE  faults' = faults
  BY <1>4 DEF AddCoinToPortfolio
<1>5. ASSUME Crash PROVE faults' = faults + 1 /\ faults < MaxFaults
  BY <1>5 DEF Crash, Executes
<1>6. ASSUME UNCHANGED vars PROVE faults' = faults
  BY <1>6 DEF vars
<1> QED
  BY <1>1, <1>2, <1>3, <1>4, <1>5, <1>6 DEF Next

LEMMA InitTurns == Init => TurnsInv
<1> SUFFICES ASSUME Init PROVE Turns
  BY DEF TurnsInv
<1>1. ASSUME NEW c \in Clients PROVE ClientOK(c)
  BY DEF Init, ClientOK, CallKept, InTurn, ReadIsCurrent, FirstDone
<1>2. ASSUME NEW k \in Keys PROVE KeyOK(k)
  BY DEF Init, KeyOK, Settled, Chained
<1> QED
  BY <1>1, <1>2 DEF Turns

\* While clients take turns every step preserves the invariant.
LEMMA NextTurns ==
  ASSUME Exclusive, IInv, TurnsInv, [Next]_vars
  PROVE  TurnsInv'
<1> SUFFICES ASSUME faults' = 0 PROVE Turns'
  BY DEF TurnsInv
<1>1. faults = 0 /\ Turns
  BY FaultsGrow DEF IInv, TypeOK, TurnsInv
<1>2. ASSUME NEW c \in Clients, TradeStep(c) \/ PortfolioStep(c) PROVE Turns'
  BY <1>1, <1>2, TradeStepTurns, PortfolioStepTurns
<1>3. ASSUME UNCHANGED <<state, trades, pc, call, rate, seen>> PROVE Turns'
  BY <1>1, <1>3 DEF Turns, ClientOK, CallKept, InTurn, ReadIsCurrent, FirstDone,
       KeyOK, Chained, Settled, Halfway
<1>4. ASSUME NEW p \in Portfolios, DeletePortfolio(p) PROVE Turns'
  BY <1>3, <1>4 DEF DeletePortfolio, locals
<1>5. ASSUME NEW p \in Portfolios, NEW coin \in Coins, NEW capital \in Capitals,
             AddCoinToPortfolio(p, coin, capital)
      PROVE  Turns'
  <2>1. /\ Admitted(p) /\ state' = WithRow(state, <<p, coin>>, capital)
        /\ UNCHANGED <<trades, pc, call, rate, seen>>
    BY <1>5 DEF AddCoinToPortfolio, Arrives, locals
  <2>2. \A d \in Clients : call[d].p # p
    BY <2>1 DEF Admitted
  <2>3. <<p, coin>> \in Keys /\ <<p, coin>>[1] = p
    BY DEF Keys
  <2>4. \A k \in Keys : k[1] = p => KeyOK(k)'
    BY <1>1, <2>1, <2>2, <2>3, NoneHalfway, WithRowKeyOK
  <2>5. \A k \in Keys : k[1] # p => state'[k] = state[k] /\ trades'[k] = trades[k]
    BY <2>1, <2>3 DEF WithRow, IInv, TypeOK
  <2>6. Clients \in SUBSET Clients /\ Clients \ Clients = {}
    OBVIOUS
  <2> QED
    BY <1>1, <2>1, <2>2, <2>4, <2>5, <2>6, Frame
<1>6. ASSUME Crash PROVE FALSE
  BY <1>6 DEF Crash, Executes, IInv, TypeOK
<1>7. ASSUME UNCHANGED vars PROVE Turns'
  BY <1>3, <1>7 DEF vars
<1> QED
  BY <1>2, <1>4, <1>5, <1>6, <1>7 DEF Next

LEMMA TurnsInvariance == ASSUME Exclusive PROVE Spec => [](IInv /\ TurnsInv)
<1>1. Init => IInv /\ TurnsInv
  BY InitIInv, InitTurns
<1>2. IInv /\ TurnsInv /\ [Next]_vars => IInv' /\ TurnsInv'
  BY NextIInv, NextTurns
<1> QED
  BY <1>1, <1>2, PTL DEF Spec

\* While clients take turns on each portfolio and no statement has failed, each
\* trade in sim_trades starts from the cash and units the one before it left.
THEOREM ChainCorrect ==
  ASSUME Exclusive PROVE Spec => [](faults = 0 => LedgerChain)
<1>1. TurnsInv => (faults = 0 => LedgerChain)
  BY DEF TurnsInv, Turns, KeyOK, Chained, LedgerChain
<1> QED
  BY <1>1, TurnsInvariance, PTL

\* While clients take turns on each portfolio and no statement has failed, a row of
\* sim_state on whose portfolio no request works holds what the last trade left.
THEOREM StateCorrect ==
  ASSUME Exclusive PROVE Spec => [](faults = 0 => StateMatchesLedger)
<1>1. ASSUME IInv, Turns, NEW k \in Keys, ~ InFlight(k[1]) PROVE Settled(k)
  <2>1. k[1] \in Portfolios
    BY DEF Keys
  <2> QED
    BY <1>1, <2>1, NoneHalfway DEF InFlight
<1>2. IInv /\ TurnsInv => (faults = 0 => StateMatchesLedger)
  BY <1>1 DEF TurnsInv, StateMatchesLedger, Settled
<1> QED
  BY <1>2, TurnsInvariance, PTL

-----------------------------------------------------------------------------
(***************************************************************************)
(* The refinement of SimLedger.  The account and the book of a key are the *)
(* row and the trades of the tables, unless a request is halfway on it.    *)
(***************************************************************************)
\* The arithmetic of the two specifications is the same.
LEMMA SameArithmetic ==
  /\ \A a, price, amount, div :
       Ledger!AfterBuy(a, price, amount, div) = AfterBuy(a, price, amount, div)
  /\ \A a, price, div : Ledger!AfterSell(a, price, div) = AfterSell(a, price, div)
  /\ \A action, a, b : Ledger!Entry(action, a, b) = Entry(action, a, b)
  /\ \A a, amount : Ledger!MayBuy(a, amount) <=> MayBuy(a, amount)
  /\ \A a : Ledger!MaySell(a) <=> MaySell(a)
  /\ \A capital : Ledger!Opened(capital) = Opened(capital)
  /\ Ledger!Closed = Closed
  /\ Ledger!Keys = Keys
BY DEF Ledger!AfterBuy, AfterBuy, Ledger!AfterSell, AfterSell, Ledger!Entry, Entry,
       Ledger!MayBuy, MayBuy, Ledger!MaySell, MaySell, Ledger!Opened, Opened,
       Ledger!Closed, Closed, Ledger!Keys, Keys, Ledger!Spend, Spend,
       Ledger!Bought, Bought, Ledger!Gross, Gross, Ledger!Fee, Fee

Plain(k) == \A d \in Clients : ~ Halfway(d, k)

LEMMA PlainBars ==
  ASSUME NEW k \in Keys, Plain(k)
  PROVE  AccountBar(k) = AccountOf(state[k]) /\ BookBar(k) = trades[k]
<1>1. Writers(k) = {} /\ ~ Working("restore", k[1])
  BY DEF Plain, Halfway, Writers, Working
<1>2. ~ \E c \in Clients : pc[c] = "purge" /\ KeyOf(call[c]) = k
  BY DEF Plain, Halfway
<1> QED
  BY <1>1, <1>2 DEF AccountBar, BookBar

LEMMA PlainBarsNext ==
  ASSUME NEW k \in Keys, Plain(k)'
  PROVE  AccountBar(k)' = AccountOf(state'[k]) /\ BookBar(k)' = trades'[k]
<1>1. Writers(k)' = {} /\ ~ Working("restore", k[1])'
  BY DEF Plain, Halfway, Writers, Working
<1>2. ~ \E c \in Clients : pc'[c] = "purge" /\ KeyOf(call'[c]) = k
  BY DEF Plain, Halfway
<1> QED
  BY <1>1, <1>2 DEF AccountBar, BookBar

\* A step on portfolio p by the requests outside S leaves the accounts and books
\* of the other portfolios.
LEMMA BarFrame ==
  ASSUME IInv, Turns, NEW S \in SUBSET Clients, NEW p \in Portfolios,
         \A d \in S : /\ pc'[d] = pc[d] /\ call'[d] = call[d]
                      /\ seen'[d] = seen[d] /\ rate'[d] = rate[d],
         \A c \in Clients \ S : call[c].p \in {p, -1},
         \A c \in Clients \ S, k \in Keys : Halfway(c, k)' => k[1] = p,
         \A k \in Keys : k[1] # p => state'[k] = state[k] /\ trades'[k] = trades[k],
         NEW k \in Keys, k[1] # p
  PROVE  AccountBar(k)' = AccountBar(k) /\ BookBar(k)' = BookBar(k)
<1>1. ASSUME NEW c \in Clients \ S PROVE ~ Halfway(c, k) /\ ~ Halfway(c, k)'
  <2>1. ASSUME Halfway(c, k) PROVE FALSE
    <3>1. pc[c] # "idle" /\ k[1] = call[c].p
      BY <2>1, HalfwayPortfolio DEF Turns, ClientOK
    <3>2. call[c].p \in Nat
      BY <3>1, BusyRange DEF Turns, ClientOK
    <3> QED
      BY <3>1, <3>2
  <2> QED
    BY <2>1
<1>2. \A d \in Clients : Halfway(d, k) => d \in S
  BY <1>1
<1>3. \A d \in Clients : Halfway(d, k)' => d \in S
  BY <1>1
<1>4. Writers(k)' = Writers(k) /\ Writers(k) \subseteq S
  BY <1>2, <1>3 DEF Writers, Halfway
<1>5. Working("restore", k[1])' <=> Working("restore", k[1])
  BY <1>2, <1>3 DEF Working, Halfway
<1>6. (\E c \in Clients : pc'[c] = "purge" /\ KeyOf(call'[c]) = k)
        <=> \E c \in Clients : pc[c] = "purge" /\ KeyOf(call[c]) = k
  BY <1>2, <1>3 DEF Halfway
<1>7. BookBar(k)' = BookBar(k)
  BY <1>6 DEF BookBar
<1>8. AccountBar(k)' = AccountBar(k)
  <2>1. CASE Writers(k) = {}
    BY <1>4, <1>5, <2>1 DEF AccountBar
  <2>2. CASE Writers(k) # {}
    <3> DEFINE w == CHOOSE c \in Writers(k) : TRUE
    <3>1. w \in Writers(k) /\ w \in S
      BY <1>4, <2>2
    <3>2. AccountBar(k) = AccountOf(Overwritten(state[k], NewRow(call[w], seen[w], rate[w])))
      BY <2>2 DEF AccountBar
    <3>3. AccountBar(k)' =
            AccountOf(Overwritten(state'[k], NewRow(call'[w], seen'[w], rate'[w])))
      BY <1>4, <2>2 DEF AccountBar
    <3> HIDE DEF w
    <3> QED
      BY <3>1, <3>2, <3>3
  <2> QED
    BY <2>1, <2>2
<1> QED
  BY <1>7, <1>8

LEMMA Stutter ==
  ASSUME \A k \in Keys : AccountBar(k)' = AccountBar(k) /\ BookBar(k)' = BookBar(k)
  PROVE  UNCHANGED Ledger!ledgerVars
BY DEF Ledger!ledgerVars

\* Keys of portfolio p on which nobody is halfway, because only c works on p.
LEMMA PlainAlone ==
  ASSUME IInv, Turns, NEW c \in Clients, NEW p \in Portfolios,
         \A d \in Clients \ {c} :
           pc'[d] = pc[d] /\ call'[d] = call[d] /\ call[d].p # p,
         NEW k \in Keys, k[1] = p
  PROVE  /\ ~ Halfway(c, k) => Plain(k)
         /\ ~ Halfway(c, k)' => Plain(k)'
<1>1. ASSUME NEW d \in Clients \ {c} PROVE ~ Halfway(d, k) /\ ~ Halfway(d, k)'
  <2>1. ~ Halfway(d, k)
    BY HalfwayPortfolio DEF Turns, ClientOK
  <2> QED
    BY <2>1 DEF Halfway
<1> QED
  BY <1>1 DEF Plain

\* A step of c that changes no table, with nothing half done before or after.
LEMMA QuietBars ==
  ASSUME IInv, Turns, NEW c \in Clients, NEW p \in Portfolios,
         \A d \in Clients \ {c} : /\ pc'[d] = pc[d] /\ call'[d] = call[d]
                                  /\ seen'[d] = seen[d] /\ rate'[d] = rate[d]
                                  /\ call[d].p # p,
         call[c].p \in {p, -1},
         state' = state, trades' = trades,
         pc[c] \notin {"update", "restore", "purge"},
         pc'[c] \notin {"update", "restore", "purge"}
  PROVE  UNCHANGED Ledger!ledgerVars
<1>1. \A k \in Keys : ~ Halfway(c, k) /\ ~ Halfway(c, k)'
  BY DEF Halfway
<1>2. ASSUME NEW k \in Keys, k[1] = p
      PROVE  AccountBar(k)' = AccountBar(k) /\ BookBar(k)' = BookBar(k)
  <2>1. Plain(k) /\ Plain(k)'
    BY <1>1, <1>2, PlainAlone
  <2> QED
    BY <2>1, PlainBars, PlainBarsNext
<1>3. ASSUME NEW k \in Keys, k[1] # p
      PROVE  AccountBar(k)' = AccountBar(k) /\ BookBar(k)' = BookBar(k)
  <2> DEFINE S == Clients \ {c}
  <2>1. /\ S \in SUBSET Clients
        /\ \A d \in S : /\ pc'[d] = pc[d] /\ call'[d] = call[d]
                        /\ seen'[d] = seen[d] /\ rate'[d] = rate[d]
        /\ \A d \in Clients \ S : call[d].p \in {p, -1}
        /\ \A d \in Clients \ S, j \in Keys : Halfway(d, j)' => j[1] = p
    BY <1>1
  <2> HIDE DEF S
  <2> QED
    BY <1>3, <2>1, BarFrame
<1> QED
  BY <1>2, <1>3, Stutter

\* A step of c on the keys of portfolio p leaves the other bars; said as an EXCEPT
\* when only key k0 is touched.
LEMMA OthersBars ==
  ASSUME IInv, Turns, NEW c \in Clients, NEW p \in Portfolios,
         \A d \in Clients \ {c} : /\ pc'[d] = pc[d] /\ call'[d] = call[d]
                                  /\ seen'[d] = seen[d] /\ rate'[d] = rate[d],
         call[c].p \in {p, -1},
         \A k \in Keys : Halfway(c, k)' => k[1] = p,
         \A k \in Keys : k[1] # p => state'[k] = state[k] /\ trades'[k] = trades[k]
  PROVE  \A k \in Keys : k[1] # p =>
           AccountBar(k)' = AccountBar(k) /\ BookBar(k)' = BookBar(k)
<1> SUFFICES ASSUME NEW k \in Keys, k[1] # p
             PROVE  AccountBar(k)' = AccountBar(k) /\ BookBar(k)' = BookBar(k)
  OBVIOUS
<1> DEFINE S == Clients \ {c}
<1>1. /\ S \in SUBSET Clients
      /\ \A d \in S : /\ pc'[d] = pc[d] /\ call'[d] = call[d]
                      /\ seen'[d] = seen[d] /\ rate'[d] = rate[d]
      /\ \A d \in Clients \ S : call[d].p \in {p, -1}
      /\ \A d \in Clients \ S, j \in Keys : Halfway(d, j)' => j[1] = p
  OBVIOUS
<1> HIDE DEF S
<1> QED
  BY <1>1, BarFrame

LedgerStep == Ledger!LedgerNext \/ UNCHANGED Ledger!ledgerVars

\* An INSERT of a row into sim_state opens an account, or there is one.
LEMMA OpenBars ==
  ASSUME IInv, NEW k0 \in Keys, NEW capital \in Capitals,
         state' = WithRow(state, k0, capital), trades' = trades,
         Plain(k0), Plain(k0)',
         \A k \in Keys \ {k0} :
           AccountBar(k)' = AccountBar(k) /\ BookBar(k)' = BookBar(k)
  PROVE  LedgerStep
<1>1. /\ AccountBar(k0) = AccountOf(state[k0]) /\ BookBar(k0) = trades[k0]
      /\ AccountBar(k0)' = AccountOf(state'[k0]) /\ BookBar(k0)' = trades'[k0]
  BY PlainBars, PlainBarsNext
<1>2. \A k \in Keys : BookBar(k)' = BookBar(k)
  BY <1>1
<1>3. CASE state[k0] = NoRow
  <2>1. AccountBar(k0) = Closed
    BY <1>1, <1>3 DEF AccountOf, NoRow, Closed
  <2>2. state'[k0] = FreshRow(capital)
    BY <1>3 DEF WithRow, IInv, TypeOK
  <2>3. AccountBar(k0)' = Opened(capital)
    BY <1>1, <2>2 DEF AccountOf, FreshRow, Opened
  <2>4. [k \in Keys |-> AccountBar(k)]' =
          [[k \in Keys |-> AccountBar(k)] EXCEPT ![k0] = Opened(capital)]
    BY <2>3
  <2>5. Ledger!Open(k0, capital)
    BY <1>2, <2>1, <2>4, SameArithmetic DEF Ledger!Open
  <2> QED
    BY <2>5, SameArithmetic DEF LedgerStep, Ledger!LedgerNext
<1>4. CASE state[k0] # NoRow
  <2>1. state' = state
    BY <1>4 DEF WithRow
  <2> QED
    BY <1>1, <1>2, <2>1, Stutter DEF LedgerStep
<1> QED
  BY <1>3, <1>4

LEMMA WithRowLedger ==
  ASSUME IInv, Turns, NEW c \in Clients, pc[c] \in {"init", "open"},
         NEW k0 \in Keys, k0[1] = call[c].p, NEW capital \in Capitals,
         state' = WithRow(state, k0, capital), trades' = trades,
         pc'[c] \in {"refind", "open"},
         \A d \in Clients \ {c} : pc'[d] = pc[d] /\ call'[d] = call[d],
         UNCHANGED <<seen, rate>>
  PROVE  LedgerStep
<1> DEFINE p == call[c].p
<1>1. /\ p \in Portfolios /\ \A d \in Clients \ {c} : call[d].p # p
  BY Alone
<1>2. \A k \in Keys : ~ Halfway(c, k) /\ ~ Halfway(c, k)'
  BY DEF Halfway
<1>3. \A k \in Keys : k # k0 => state'[k] = state[k]
  BY DEF WithRow, IInv, TypeOK
<1>4. call[c].p \in {p, -1} /\ k0[1] = p
  OBVIOUS
<1> HIDE DEF p
<1>5. ASSUME NEW k \in Keys, k[1] = p PROVE Plain(k) /\ Plain(k)'
  BY <1>1, <1>2, <1>5, PlainAlone
<1>6. \A k \in Keys : k[1] # p =>
        AccountBar(k)' = AccountBar(k) /\ BookBar(k)' = BookBar(k)
  BY <1>1, <1>2, <1>3, <1>4, OthersBars
<1>7. ASSUME NEW k \in Keys \ {k0}
      PROVE  AccountBar(k)' = AccountBar(k) /\ BookBar(k)' = BookBar(k)
  BY <1>3, <1>5, <1>6, PlainBars, PlainBarsNext
<1> QED
  BY <1>4, <1>5, <1>7, OpenBars

\* What a trade does to the account part of a row.
LEMMA TradeAccount ==
  ASSUME NEW row \in Rows, NEW r, NEW div
  PROVE  /\ AccountOf(Overwritten(row, NewRow(r, row, div))) =
              IF r.action = "BUY" THEN AfterBuy(AccountOf(row), r.price, r.amount, div)
                                  ELSE AfterSell(AccountOf(row), r.price, div)
         /\ AccountOf(row).cash = row.cash /\ AccountOf(row).units = row.units
<1>1. row # NoRow
  BY NoneDistinct
<1>2. AccountOf(row).cash = row.cash /\ AccountOf(row).units = row.units
  BY DEF AccountOf
<1>3. ASSUME NEW new, NEW acc,
             DOMAIN new = {"cash", "units", "cost", "capital", "position"},
             acc \in [cash: {new.cash}, units: {new.units}, cost: {new.cost},
                      capital: {row.capital}]
      PROVE  AccountOf(Overwritten(row, Positioned(new))) = acc
  <2> DEFINE pos == Positioned(new)
             over == Overwritten(row, pos)
  <2>1. /\ pos.cash = new.cash /\ pos.units = new.units /\ pos.cost = new.cost
        /\ DOMAIN pos = {"cash", "units", "cost", "capital", "position"}
    BY <1>3 DEF Positioned
  <2> HIDE DEF pos
  <2>2. /\ over.cash = new.cash /\ over.units = new.units /\ over.cost = new.cost
        /\ over.capital = row.capital
    BY <1>1, <1>3, <2>1 DEF Overwritten
  <2> HIDE DEF over
  <2>3. AccountOf(over) \in [cash: {new.cash}, units: {new.units}, cost: {new.cost},
                             capital: {row.capital}]
    BY <2>2 DEF AccountOf
  <2>4. AccountOf(over) = acc
    BY <1>3, <2>3
  <2> QED
    BY <2>4 DEF over, pos
<1>4. CASE r.action = "BUY"
  <2> DEFINE new == AfterBuy(row, r.price, r.amount, div)
             acc == AfterBuy(AccountOf(row), r.price, r.amount, div)
  <2>1. DOMAIN new = {"cash", "units", "cost", "capital", "position"}
    BY DEF AfterBuy, Rows
  <2>2. acc \in [cash: {new.cash}, units: {new.units}, cost: {new.cost},
                 capital: {row.capital}]
    BY DEF AfterBuy, AccountOf, Rows
  <2>3. NewRow(r, row, div) = Positioned(new)
    BY <1>4 DEF NewRow
  <2> HIDE DEF new, acc
  <2>4. AccountOf(Overwritten(row, Positioned(new))) = acc
    BY <1>3, <2>1, <2>2
  <2> QED
    BY <1>2, <1>4, <2>3, <2>4 DEF acc
<1>5. CASE r.action # "BUY"
  <2> DEFINE new == AfterSell(row, r.price, div)
             acc == AfterSell(AccountOf(row), r.price, div)
  <2>1. DOMAIN new = {"cash", "units", "cost", "capital", "position"}
    BY DEF AfterSell, Rows
  <2>2. acc \in [cash: {new.cash}, units: {new.units}, cost: {new.cost},
                 capital: {row.capital}]
    BY DEF AfterSell, AccountOf, Rows
  <2>3. NewRow(r, row, div) = Positioned(new)
    BY <1>5 DEF NewRow
  <2> HIDE DEF new, acc
  <2>4. AccountOf(Overwritten(row, Positioned(new))) = acc
    BY <1>3, <2>1, <2>2
  <2> QED
    BY <1>2, <1>5, <2>3, <2>4 DEF acc
<1> QED
  BY <1>2, <1>4, <1>5

\* The entry of a trade is the one of the account that trades.
LEMMA EntryAccount ==
  ASSUME NEW row \in Rows, NEW new \in Rows, NEW action
  PROVE  Entry(action, row, new) =
           Entry(action, AccountOf(row), AccountOf(Overwritten(row, new)))
BY NoneDistinct DEF Entry, AccountOf, Overwritten, Rows

\* A trade that goes on may be made.
LEMMA TradeAllowed ==
  ASSUME NEW r \in TradeCalls \cup StatusCalls, NEW row \in Rows, GoesOn(r, row),
         row.position = "HOLDING" <=> row.units > 0,
         r \in TradeCalls /\ r.action \in {"BUY", "SELL"} => r.price > 0
  PROVE  /\ r \in TradeCalls /\ r.action \in {"BUY", "SELL"}
         /\ r.price \in Prices \ {0} /\ r.amount \in Amounts
         /\ r.action = "BUY" => MayBuy(AccountOf(row), r.amount)
         /\ r.action = "SELL" => MaySell(AccountOf(row))
<1>1. r.kind = "trade" /\ r.action \in {"BUY", "SELL"}
  BY Zenon DEF GoesOn
<1>2. r \in TradeCalls
  BY <1>1 DEF StatusCalls
<1>3. r.price \in Prices \ {0} /\ r.amount \in Amounts /\ r.amount \in Nat
  <2>1. r.price > 0
    BY <1>1, <1>2
  <2>2. r.price \in Prices /\ r.amount \in Amounts
    BY <1>2 DEF TradeCalls
  <2>3. r.price \in Nat /\ r.amount \in Nat
    BY <2>2, PricesAssumption
  <2>4. r.price # 0
    BY <2>1, <2>3
  <2> QED
    BY <2>2, <2>3, <2>4
<1>4. r.action = "BUY" => MayBuy(AccountOf(row), r.amount)
  BY <1>3 DEF GoesOn, Refused, MayBuy, AccountOf, Rows
<1>5. r.action = "SELL" => MaySell(AccountOf(row))
  BY DEF GoesOn, Refused, MaySell, AccountOf
<1> QED
  BY <1>1, <1>2, <1>3, <1>4, <1>5

\* Nobody but c is halfway on the portfolio c works on.
LEMMA OnlyOne ==
  ASSUME IInv, Turns, NEW c \in Clients, NEW p \in Portfolios,
         \A d \in Clients \ {c} :
           pc'[d] = pc[d] /\ call'[d] = call[d] /\ call[d].p # p,
         NEW k \in Keys, k[1] = p, NEW d \in Clients \ {c}
  PROVE  ~ Halfway(d, k) /\ ~ Halfway(d, k)'
<1>1. ~ Halfway(d, k)
  BY HalfwayPortfolio DEF Turns, ClientOK
<1> QED
  BY <1>1 DEF Halfway

\* Between its two statements a trade counts as made.
LEMMA WritingBar ==
  ASSUME NEW c \in Clients, NEW k, Writers(k) = {c}
  PROVE  AccountBar(k) =
           AccountOf(Overwritten(state[k], NewRow(call[c], seen[c], rate[c])))
<1>1. (CHOOSE d \in Writers(k) : TRUE) = c
  OBVIOUS
<1> QED
  BY <1>1 DEF AccountBar

LEMMA WritingBarNext ==
  ASSUME NEW c \in Clients, NEW k \in Keys, Writers(k)' = {c}
  PROVE  AccountBar(k)' =
           AccountOf(Overwritten(state'[k], NewRow(call'[c], seen'[c], rate'[c])))
<1>1. (CHOOSE d \in Writers(k)' : TRUE) = c
  OBVIOUS
<1> QED
  BY <1>1 DEF AccountBar

\* A step that changes the bars of key k0 only.
LEMMA OneBar ==
  ASSUME NEW k0 \in Keys, NEW acc, NEW bk,
         AccountBar(k0)' = acc, BookBar(k0)' = bk,
         \A k \in Keys \ {k0} :
           AccountBar(k)' = AccountBar(k) /\ BookBar(k)' = BookBar(k)
  PROVE  /\ [k \in Keys |-> AccountBar(k)]' =
              [[k \in Keys |-> AccountBar(k)] EXCEPT ![k0] = acc]
         /\ [k \in Keys |-> BookBar(k)]' =
              [[k \in Keys |-> BookBar(k)] EXCEPT ![k0] = bk]
OBVIOUS

\* The INSERT into sim_trades is the Buy or Sell of the book.
LEMMA InsertTradeLedger ==
  ASSUME IInv, Turns, NEW c \in Clients, InsertTrade(c)
  PROVE  LedgerStep
<1> DEFINE r == call[c]  row == seen[c]  p == r.p
           new == NewRow(r, row, rate[c])
           acc == AccountOf(Overwritten(row, new))
<1>0. PICK k0 : k0 = KeyOf(r)
  OBVIOUS
<1>1. /\ Moves(c, "insert", "update")
      /\ trades' = [trades EXCEPT ![k0] = Append(trades[k0], Entry(r.action, row, new))]
      /\ UNCHANGED <<state, rate, seen>>
  BY <1>0 DEF InsertTrade
<1>2. /\ pc[c] = "insert" /\ pc'[c] = "update" /\ call' = call
      /\ \A d \in Clients \ {c} : pc'[d] = pc[d]
  BY <1>1, Going DEF PcValues
<1>3. /\ p \in Portfolios /\ \A d \in Clients \ {c} : call[d].p # p
      /\ row = state[k0]
  BY <1>0, <1>2, Alone DEF ReadIsCurrent
<1>4. k0 \in Keys /\ k0[1] = p
  BY <1>0, <1>2, BusyRange DEF Turns, ClientOK
<1>5. /\ r \in TradeCalls \cup StatusCalls /\ row \in Rows /\ GoesOn(r, row)
      /\ (r \in TradeCalls /\ r.action \in {"BUY", "SELL"}) => r.price > 0
      /\ rate[c] \in Rates
  BY <1>2 DEF IInv, TypeOK, LocalOK, CallOK
<1>6. row.position = "HOLDING" <=> row.units > 0
  BY <1>3, <1>4, <1>5, NoneDistinct DEF IInv, PositionMatchesUnits
<1>7. /\ r.action \in {"BUY", "SELL"}
      /\ r.price \in Prices \ {0} /\ r.amount \in Amounts
      /\ r.action = "BUY" => MayBuy(AccountOf(row), r.amount)
      /\ r.action = "SELL" => MaySell(AccountOf(row))
  BY <1>5, <1>6, TradeAllowed
<1>8. acc = IF r.action = "BUY"
            THEN AfterBuy(AccountOf(row), r.price, r.amount, rate[c])
            ELSE AfterSell(AccountOf(row), r.price, rate[c])
  BY <1>5, TradeAccount
<1>9. Entry(r.action, row, new) = Entry(r.action, AccountOf(row), acc)
  BY <1>5, NewRowRange, EntryAccount
<1>10. AccountOf(row) # Closed
  BY <1>5 DEF AccountOf, Closed, Rows
<1>11. /\ r = call'[c] /\ row = seen'[c] /\ rate[c] = rate'[c] /\ state'[k0] = row
       /\ new = NewRow(call'[c], seen'[c], rate'[c])
  BY <1>1, <1>2, <1>3
<1>12. /\ trades'[k0] = Append(trades[k0], Entry(r.action, row, new))
       /\ \A k \in Keys : k # k0 => trades'[k] = trades[k]
  BY <1>1, <1>4 DEF IInv, TypeOK
<1>13. \A k \in Keys : /\ ~ Halfway(c, k)
                       /\ Halfway(c, k)' <=> k = k0
  BY <1>0, <1>2 DEF Halfway
<1>14. call[c].p \in {p, -1} /\ p = call[c].p
  OBVIOUS
<1> HIDE DEF p
<1>15. AccountBar(k0) = AccountOf(row) /\ BookBar(k0) = trades[k0]
  BY <1>2, <1>3, <1>4, <1>13, PlainAlone, PlainBars
<1>16. \A d \in Clients \ {c} : ~ Halfway(d, k0)'
  BY <1>2, <1>3, <1>4, OnlyOne
<1>17. AccountBar(k0)' = acc
  <2>1. Writers(k0)' = {c}
    BY <1>0, <1>2, <1>16 DEF Writers, Halfway
  <2> QED
    BY <1>4, <1>11, <2>1, WritingBarNext
<1>18. BookBar(k0)' = trades'[k0]
  BY <1>2, <1>16 DEF BookBar, Halfway
<1>19. ASSUME NEW k \in Keys \ {k0}
       PROVE  AccountBar(k)' = AccountBar(k) /\ BookBar(k)' = BookBar(k)
  <2>1. CASE k[1] = p
    <3>1. Plain(k) /\ Plain(k)'
      BY <1>2, <1>3, <1>13, <2>1, PlainAlone
    <3> QED
      BY <1>1, <1>12, <3>1, PlainBars, PlainBarsNext
  <2>2. CASE k[1] # p
    BY <1>1, <1>2, <1>3, <1>4, <1>12, <1>13, <1>14, <2>2, OthersBars
  <2> QED
    BY <2>1, <2>2
<1> HIDE DEF r, row, new, acc
<1>20. /\ [k \in Keys |-> AccountBar(k)]' =
            [[k \in Keys |-> AccountBar(k)] EXCEPT ![k0] = acc]
       /\ [k \in Keys |-> BookBar(k)]' =
            [[k \in Keys |-> BookBar(k)] EXCEPT
               ![k0] = Append(BookBar(k0), Entry(r.action, AccountBar(k0), acc))]
  BY <1>4, <1>9, <1>12, <1>15, <1>17, <1>18, <1>19, OneBar
<1>21. CASE r.action = "BUY"
  <2>1. Ledger!Buy(k0, r.price, r.amount, rate[c])
    BY <1>4, <1>7, <1>8, <1>10, <1>15, <1>20, <1>21, SameArithmetic
       DEF Ledger!Buy, Ledger!Record
  <2> QED
    BY <1>4, <1>5, <1>7, <2>1, SameArithmetic DEF LedgerStep, Ledger!LedgerNext
<1>22. CASE r.action = "SELL"
  <2>1. Ledger!Sell(k0, r.price, rate[c])
    BY <1>4, <1>7, <1>8, <1>10, <1>15, <1>20, <1>22, SameArithmetic
       DEF Ledger!Sell, Ledger!Record
  <2> QED
    BY <1>4, <1>5, <1>7, <2>1, SameArithmetic DEF LedgerStep, Ledger!LedgerNext
<1> QED
  BY <1>7, <1>21, <1>22

\* The UPDATE of sim_state changes nothing in the book: the trade was made by its
\* INSERT, from the row the table still holds.
LEMMA UpdateStateLedger ==
  ASSUME IInv, Turns, NEW c \in Clients, UpdateState(c)
  PROVE  LedgerStep
<1> DEFINE p == call[c].p
           new == NewRow(call[c], seen[c], rate[c])
<1>0. PICK k0 : k0 = KeyOf(call[c])
  OBVIOUS
<1>1. /\ Ends(c, {"update"})
      /\ state' = [state EXCEPT ![k0] = Overwritten(state[k0], new)]
      /\ UNCHANGED trades
  BY <1>0 DEF UpdateState
<1>2. /\ pc[c] = "update"
      /\ \A k \in Keys : ~ Halfway(c, k)'
      /\ \A d \in Clients \ {c} : /\ pc'[d] = pc[d] /\ call'[d] = call[d]
                                  /\ seen'[d] = seen[d] /\ rate'[d] = rate[d]
  BY <1>1, Ending
<1>3. p \in Portfolios /\ \A d \in Clients \ {c} : call[d].p # p
  BY <1>2, Alone
<1>4. k0 \in Keys /\ k0[1] = p
  BY <1>0, <1>2, BusyRange DEF Turns, ClientOK
<1>5. \A k \in Keys : k # k0 => ~ Halfway(c, k)
  BY <1>0, <1>2 DEF Halfway
<1>6. /\ state'[k0] = Overwritten(state[k0], new)
      /\ \A k \in Keys : k # k0 => state'[k] = state[k]
  BY <1>1, <1>4 DEF IInv, TypeOK
<1>7. call[c].p \in {p, -1}
  OBVIOUS
<1> HIDE DEF p
<1>8. AccountBar(k0) = AccountOf(Overwritten(state[k0], new))
  <2>1. \A d \in Clients \ {c} : ~ Halfway(d, k0)
    BY <1>2, <1>3, <1>4, OnlyOne
  <2>2. Writers(k0) = {c}
    BY <1>0, <1>2, <2>1 DEF Writers, Halfway
  <2> QED
    BY <2>2, WritingBar
<1> HIDE DEF new
<1>9. BookBar(k0) = trades[k0]
  <2>1. \A d \in Clients \ {c} : ~ Halfway(d, k0)
    BY <1>2, <1>3, <1>4, OnlyOne
  <2> QED
    BY <1>2, <2>1 DEF BookBar, Halfway
<1>10. ASSUME NEW k \in Keys, k[1] = p PROVE Plain(k)'
  BY <1>2, <1>3, <1>10, PlainAlone
<1>11. AccountBar(k0)' = AccountBar(k0) /\ BookBar(k0)' = BookBar(k0)
  BY <1>1, <1>4, <1>6, <1>8, <1>9, <1>10, PlainBarsNext
<1>12. ASSUME NEW k \in Keys, k[1] = p, k # k0
       PROVE  AccountBar(k)' = AccountBar(k) /\ BookBar(k)' = BookBar(k)
  <2>1. Plain(k) /\ Plain(k)'
    BY <1>2, <1>3, <1>5, <1>12, PlainAlone
  <2> QED
    BY <1>1, <1>6, <1>12, <2>1, PlainBars, PlainBarsNext
<1>13. \A k \in Keys : k[1] # p =>
         AccountBar(k)' = AccountBar(k) /\ BookBar(k)' = BookBar(k)
  BY <1>1, <1>2, <1>3, <1>4, <1>6, <1>7, OthersBars
<1> QED
  BY <1>11, <1>12, <1>13, Stutter DEF LedgerStep

\* The first statement of a reset is the ResetAll of the book.
LEMMA ResetLedger ==
  ASSUME IInv, Turns, Exclusive, NEW c \in Clients, ResetPortfolio(c, TRUE)
  PROVE  LedgerStep
<1>1. PICK r \in ResetCalls :
        /\ Starts(c, r, "restore")
        /\ trades' = [k \in Keys |-> IF k[1] = r.p THEN << >> ELSE trades[k]]
        /\ UNCHANGED <<state, rate, seen>>
  BY DEF ResetPortfolio
<1>2. r \in Calls
  BY DEF Calls
<1>3. /\ r.p \in Portfolios /\ pc[c] = "idle" /\ call[c].p = -1
      /\ pc'[c] = "restore" /\ call'[c] = r
      /\ \A d \in Clients \ {c} :
           pc'[d] = pc[d] /\ call'[d] = call[d] /\ call[d].p # r.p
  BY <1>1, <1>2, Beginning DEF PcValues
<1>4. \A k \in Keys : /\ ~ Halfway(c, k)
                      /\ Halfway(c, k)' <=> k[1] = r.p
  BY <1>3 DEF Halfway
<1>5. \A k \in Keys : k[1] # r.p => trades'[k] = trades[k]
  BY <1>1
<1>6. \A k \in Keys : k[1] # r.p =>
        AccountBar(k)' = AccountBar(k) /\ BookBar(k)' = BookBar(k)
  BY <1>1, <1>3, <1>4, <1>5, OthersBars
<1>7. ASSUME NEW k \in Keys, k[1] = r.p
      PROVE  /\ AccountBar(k)' = IF AccountBar(k) # Closed
                                 THEN Opened(AccountBar(k).capital) ELSE AccountBar(k)
             /\ BookBar(k)' = << >>
  <2>1. AccountBar(k) = AccountOf(state[k])
    BY <1>3, <1>4, <1>7, PlainAlone, PlainBars
  <2>2. \A d \in Clients \ {c} : ~ Halfway(d, k)'
    BY <1>3, <1>7, OnlyOne
  <2>3. Writers(k)' = {} /\ Working("restore", k[1])'
    BY <1>3, <1>7, <2>2 DEF Writers, Working, Halfway
  <2>4. AccountBar(k)' = IF state[k] # NoRow THEN Opened(state[k].capital)
                                             ELSE AccountOf(state[k])
    BY <1>1, <2>3 DEF AccountBar
  <2>5. AccountBar(k)' = IF AccountBar(k) # Closed
                         THEN Opened(AccountBar(k).capital) ELSE AccountBar(k)
    <3>1. state[k] \in Rows \cup {NoRow}
      BY DEF IInv, TypeOK
    <3>2. CASE state[k] = NoRow
      BY <2>1, <2>4, <3>2 DEF AccountOf, NoRow, Closed
    <3>3. CASE state[k] \in Rows
      <4>1. /\ AccountOf(state[k]) # Closed
            /\ AccountOf(state[k]).capital = state[k].capital
        BY <3>3 DEF AccountOf, Closed, Rows
      <4> QED
        BY <2>1, <2>4, <3>3, <4>1, NoneDistinct
    <3> QED
      BY <3>1, <3>2, <3>3
  <2>6. BookBar(k)' = trades'[k]
    BY <1>3, <2>2 DEF BookBar, Halfway
  <2> QED
    BY <1>1, <1>7, <2>5, <2>6
<1>8. /\ [k \in Keys |-> AccountBar(k)]' =
           [k \in Keys |-> IF k[1] = r.p /\ AccountBar(k) # Closed
                           THEN Opened(AccountBar(k).capital) ELSE AccountBar(k)]
      /\ [k \in Keys |-> BookBar(k)]' =
           [k \in Keys |-> IF k[1] = r.p THEN << >> ELSE BookBar(k)]
  BY <1>6, <1>7
<1>9. Ledger!ResetAll(r.p)
  BY <1>8, SameArithmetic DEF Ledger!ResetAll
<1> QED
  BY <1>3, <1>9 DEF LedgerStep, Ledger!LedgerNext

\* The second statement of a reset changes nothing in the book.
LEMMA RestoreLedger ==
  ASSUME IInv, Turns, NEW c \in Clients, RestoreCapital(c, TRUE)
  PROVE  LedgerStep
<1> DEFINE p == call[c].p
<1>1. /\ Ends(c, {"restore"})
      /\ state' = [k \in Keys |->
           IF k[1] = p /\ state[k] # NoRow
           THEN FreshRow(state[k].capital) ELSE state[k]]
      /\ UNCHANGED trades
  BY DEF RestoreCapital
<1>2. /\ pc[c] = "restore"
      /\ \A k \in Keys : ~ Halfway(c, k)'
      /\ \A d \in Clients \ {c} : /\ pc'[d] = pc[d] /\ call'[d] = call[d]
                                  /\ seen'[d] = seen[d] /\ rate'[d] = rate[d]
  BY <1>1, Ending
<1>3. p \in Portfolios /\ \A d \in Clients \ {c} : call[d].p # p
  BY <1>2, Alone
<1>4. call[c].p \in {p, -1} /\ p = call[c].p
  OBVIOUS
<1> HIDE DEF p
<1>5. \A k \in Keys : k[1] # p => state'[k] = state[k]
  BY <1>1
<1>6. \A k \in Keys : k[1] # p =>
        AccountBar(k)' = AccountBar(k) /\ BookBar(k)' = BookBar(k)
  BY <1>1, <1>2, <1>3, <1>4, <1>5, OthersBars
<1>7. ASSUME NEW k \in Keys, k[1] = p
      PROVE  AccountBar(k)' = AccountBar(k) /\ BookBar(k)' = BookBar(k)
  <2>1. Plain(k)'
    BY <1>2, <1>3, <1>7, PlainAlone
  <2>2. \A d \in Clients \ {c} : ~ Halfway(d, k)
    BY <1>2, <1>3, <1>7, OnlyOne
  <2>3. Writers(k) = {} /\ Working("restore", k[1])
    BY <1>2, <1>4, <1>7, <2>2 DEF Writers, Working, Halfway
  <2>4. BookBar(k) = trades[k]
    BY <1>2, <2>2 DEF BookBar, Halfway
  <2>5. AccountBar(k) = IF state[k] # NoRow THEN Opened(state[k].capital)
                                            ELSE AccountOf(state[k])
    BY <2>3 DEF AccountBar
  <2>6. state'[k] = IF state[k] # NoRow THEN FreshRow(state[k].capital) ELSE state[k]
    BY <1>1, <1>7
  <2>7. AccountOf(FreshRow(state[k].capital)) = Opened(state[k].capital)
    BY DEF AccountOf, FreshRow, Opened
  <2>8. AccountBar(k)' = AccountBar(k)
    BY <2>1, <2>5, <2>6, <2>7, PlainBarsNext
  <2> QED
    BY <1>1, <2>1, <2>4, <2>8, PlainBarsNext
<1> QED
  BY <1>6, <1>7, Stutter DEF LedgerStep

\* The first statement of a removal is the Close of the book.
LEMMA RemoveLedger ==
  ASSUME IInv, Turns, Exclusive, NEW c \in Clients, RemoveCoinFromPortfolio(c, TRUE)
  PROVE  LedgerStep
<1>1. PICK r \in RemoveCalls :
        /\ Starts(c, r, "purge")
        /\ state' = [state EXCEPT ![KeyOf(r)] = NoRow]
        /\ UNCHANGED <<trades, rate, seen>>
  BY DEF RemoveCoinFromPortfolio
<1>2. r \in Calls
  BY DEF Calls
<1>3. /\ r.p \in Portfolios /\ pc[c] = "idle" /\ call[c].p = -1
      /\ pc'[c] = "purge" /\ call'[c] = r
      /\ \A d \in Clients \ {c} :
           pc'[d] = pc[d] /\ call'[d] = call[d] /\ call[d].p # r.p
  BY <1>1, <1>2, Beginning DEF PcValues
<1>4. PICK k0 \in Keys : k0 = KeyOf(r) /\ k0[1] = r.p
  BY KeyPortfolio
<1>5. \A k \in Keys : /\ ~ Halfway(c, k)
                      /\ Halfway(c, k)' <=> k = k0
  BY <1>3, <1>4 DEF Halfway
<1>6. /\ state'[k0] = NoRow
      /\ \A k \in Keys : k # k0 => state'[k] = state[k]
  BY <1>1, <1>4 DEF IInv, TypeOK
<1>7. \A d \in Clients \ {c} : ~ Halfway(d, k0)'
  BY <1>3, <1>4, OnlyOne
<1>8. AccountBar(k0)' = Closed
  <2>1. Writers(k0)' = {}
    BY <1>3, <1>7 DEF Writers, Halfway
  <2>2. AccountBar(k0)' = AccountOf(state'[k0])
    BY <1>6, <2>1 DEF AccountBar
  <2> QED
    BY <1>6, <2>2 DEF AccountOf, NoRow, Closed
<1>9. BookBar(k0)' = << >>
  BY <1>3, <1>4 DEF BookBar
<1>10. ASSUME NEW k \in Keys \ {k0}
       PROVE  AccountBar(k)' = AccountBar(k) /\ BookBar(k)' = BookBar(k)
  <2>1. CASE k[1] = r.p
    <3>1. Plain(k) /\ Plain(k)'
      BY <1>3, <1>5, <2>1, PlainAlone
    <3> QED
      BY <1>1, <1>6, <3>1, PlainBars, PlainBarsNext
  <2>2. CASE k[1] # r.p
    BY <1>1, <1>3, <1>4, <1>5, <1>6, <2>2, OthersBars
  <2> QED
    BY <2>1, <2>2
<1>11. Ledger!Close(k0)
  BY <1>8, <1>9, <1>10, OneBar, SameArithmetic DEF Ledger!Close
<1> QED
  BY <1>11, SameArithmetic DEF LedgerStep, Ledger!LedgerNext

\* The second statement of a removal changes nothing in the book.
LEMMA PurgeLedger ==
  ASSUME IInv, Turns, NEW c \in Clients, PurgeTrades(c, TRUE)
  PROVE  LedgerStep
<1> DEFINE p == call[c].p
<1>0. PICK k0 : k0 = KeyOf(call[c])
  OBVIOUS
<1>1. /\ Ends(c, {"purge"})
      /\ trades' = [trades EXCEPT ![k0] = << >>]
      /\ UNCHANGED state
  BY <1>0 DEF PurgeTrades
<1>2. /\ pc[c] = "purge"
      /\ \A k \in Keys : ~ Halfway(c, k)'
      /\ \A d \in Clients \ {c} : /\ pc'[d] = pc[d] /\ call'[d] = call[d]
                                  /\ seen'[d] = seen[d] /\ rate'[d] = rate[d]
  BY <1>1, Ending
<1>3. p \in Portfolios /\ \A d \in Clients \ {c} : call[d].p # p
  BY <1>2, Alone
<1>4. k0 \in Keys /\ k0[1] = p
  BY <1>0, <1>2, BusyRange DEF Turns, ClientOK
<1>5. \A k \in Keys : k # k0 => ~ Halfway(c, k)
  BY <1>0, <1>2 DEF Halfway
<1>6. /\ trades'[k0] = << >>
      /\ \A k \in Keys : k # k0 => trades'[k] = trades[k]
  BY <1>1, <1>4 DEF IInv, TypeOK
<1>7. call[c].p \in {p, -1}
  OBVIOUS
<1> HIDE DEF p
<1>8. \A k \in Keys : k[1] # p =>
        AccountBar(k)' = AccountBar(k) /\ BookBar(k)' = BookBar(k)
  BY <1>1, <1>2, <1>3, <1>4, <1>6, <1>7, OthersBars
<1>9. ASSUME NEW k \in Keys, k[1] = p PROVE Plain(k)'
  BY <1>2, <1>3, <1>9, PlainAlone
<1>10. AccountBar(k0) = AccountOf(state[k0]) /\ BookBar(k0) = << >>
  <2>1. \A d \in Clients \ {c} : ~ Halfway(d, k0)
    BY <1>2, <1>3, <1>4, OnlyOne
  <2>2. Writers(k0) = {} /\ ~ Working("restore", k0[1])
    BY <1>2, <2>1 DEF Writers, Working, Halfway
  <2> QED
    BY <1>0, <1>2, <2>2 DEF AccountBar, BookBar
<1>11. AccountBar(k0)' = AccountBar(k0) /\ BookBar(k0)' = BookBar(k0)
  BY <1>1, <1>4, <1>6, <1>9, <1>10, PlainBarsNext
<1>12. ASSUME NEW k \in Keys, k[1] = p, k # k0
       PROVE  AccountBar(k)' = AccountBar(k) /\ BookBar(k)' = BookBar(k)
  <2>1. Plain(k) /\ Plain(k)'
    BY <1>2, <1>3, <1>5, <1>12, PlainAlone
  <2> QED
    BY <1>1, <1>6, <1>12, <2>1, PlainBars, PlainBarsNext
<1> QED
  BY <1>8, <1>11, <1>12, Stutter DEF LedgerStep

\* A request that starts, or that only reads, changes nothing in the book.
LEMMA StartLedger ==
  ASSUME IInv, Turns, Exclusive, NEW c \in Clients, NEW r \in Calls,
         NEW at \in {"find", "open"}, Starts(c, r, at),
         \A d \in Clients \ {c} : rate'[d] = rate[d],
         UNCHANGED <<state, trades, seen>>
  PROVE  LedgerStep
<1>1. at \in PcValues \ {"idle"} /\ at # "restore"
  BY DEF PcValues
<1>2. /\ r.p \in Portfolios /\ pc[c] = "idle" /\ call[c].p = -1
      /\ pc'[c] = at
      /\ \A d \in Clients \ {c} :
           pc'[d] = pc[d] /\ call'[d] = call[d] /\ call[d].p # r.p
  BY <1>1, Beginning
<1> QED
  BY <1>2, QuietBars DEF LedgerStep

\* Every step of a trade or status request.
LEMMA TradeStepLedger ==
  ASSUME IInv, Turns, Exclusive, NEW c \in Clients, TradeStep(c), faults' = 0
  PROVE  LedgerStep
<1> USE DEF PcValues
<1>1. ASSUME NEW ok \in BOOLEAN, BeginTrade(c, ok) PROVE LedgerStep
  <2>1. PICK r \in TradeCalls :
          /\ Starts(c, r, "find")
          /\ \A d \in Clients \ {c} : rate'[d] = rate[d]
          /\ UNCHANGED <<tables, seen>>
    BY <1>1 DEF BeginTrade, IInv, TypeOK
  <2> QED
    BY <2>1, StartLedger DEF tables, Calls
<1>2. ASSUME BeginStatus(c) PROVE LedgerStep
  <2>1. PICK r \in StatusCalls :
          Starts(c, r, "find") /\ UNCHANGED <<tables, rate, seen>>
    BY <1>2 DEF BeginStatus
  <2> QED
    BY <2>1, StartLedger DEF tables, Calls
<1>3. ASSUME FindRow(c) PROVE LedgerStep
  <2>1. /\ pc[c] \in {"find", "refind"} /\ Moves(c, pc[c], "insert")
        /\ seen' = [seen EXCEPT ![c] = state[KeyOf(call[c])]]
        /\ UNCHANGED <<tables, rate>>
    BY <1>3 DEF FindRow
  <2>2. /\ pc'[c] = "insert" /\ call' = call
        /\ \A d \in Clients \ {c} : pc'[d] = pc[d] /\ seen'[d] = seen[d]
    BY <2>1, Going DEF IInv, TypeOK
  <2>3. /\ call[c].p \in Portfolios
        /\ \A d \in Clients \ {c} : call[d].p # call[c].p
    BY <2>1, Alone
  <2> QED
    BY <2>1, <2>2, <2>3, QuietBars DEF tables, LedgerStep
<1>4. ASSUME AnswerFromRow(c) PROVE LedgerStep
  <2>1. Ends(c, {"find", "refind"}) /\ UNCHANGED tables
    BY <1>4 DEF AnswerFromRow
  <2>2. pc[c] \in {"find", "refind"}
    BY <2>1, Ending
  <2> QED
    BY <2>1, <2>2, Alone, Ending, QuietBars DEF tables, LedgerStep
<1>5. ASSUME MissRow(c) PROVE LedgerStep
  <2>1. Moves(c, "find", "init") /\ UNCHANGED <<tables, rate, seen>>
    BY <1>5 DEF MissRow
  <2>2. /\ pc[c] = "find" /\ pc'[c] = "init" /\ call' = call
        /\ \A d \in Clients \ {c} : pc'[d] = pc[d]
    BY <2>1, Going
  <2> QED
    BY <2>1, <2>2, Alone, QuietBars DEF tables, LedgerStep
<1>6. ASSUME InitSimState(c) PROVE LedgerStep
  <2>1. /\ Moves(c, "init", "refind")
        /\ state' = WithRow(state, KeyOf(call[c]), DefaultCapital)
        /\ UNCHANGED <<trades, rate, seen>>
    BY <1>6 DEF InitSimState
  <2>2. /\ pc[c] = "init" /\ pc'[c] = "refind" /\ call' = call
        /\ \A d \in Clients \ {c} : pc'[d] = pc[d]
    BY <2>1, Going
  <2>3. KeyOf(call[c]) \in Keys /\ KeyOf(call[c])[1] = call[c].p
    BY <2>2, BusyRange DEF Turns, ClientOK
  <2> QED
    BY <2>1, <2>2, <2>3, WithRowLedger, CapitalsAssumption
<1>7. ASSUME FailStatement(c) PROVE FALSE
  BY <1>7 DEF FailStatement, Executes, IInv, TypeOK
<1> QED
  BY <1>1, <1>2, <1>3, <1>4, <1>5, <1>6, <1>7, InsertTradeLedger, UpdateStateLedger
     DEF TradeStep

\* Every step of a portfolio request.
LEMMA PortfolioStepLedger ==
  ASSUME IInv, Turns, Exclusive, NEW c \in Clients, PortfolioStep(c), faults' = 0
  PROVE  LedgerStep
<1>0. faults \in Nat
  BY DEF IInv, TypeOK
<1>1. ASSUME CreatePortfolio(c) PROVE LedgerStep
  <2>1. PICK r \in CreateCalls :
          Starts(c, r, "open") /\ UNCHANGED <<state, trades, rate, seen>>
    BY <1>1 DEF CreatePortfolio
  <2> QED
    BY <2>1, StartLedger DEF Calls
<1>2. ASSUME CreateDone(c) PROVE LedgerStep
  <2>1. Ends(c, {"open"}) /\ UNCHANGED tables
    BY <1>2 DEF CreateDone
  <2>2. pc[c] = "open"
    BY <2>1, Ending
  <2> QED
    BY <2>1, <2>2, Alone, Ending, QuietBars DEF tables, LedgerStep
<1>3. ASSUME NEW ok \in BOOLEAN, OpenCoin(c, ok) PROVE LedgerStep
  <2>1. PICK coin \in call[c].coins :
          /\ pc[c] = "open"
          /\ call' = [call EXCEPT ![c] = [call[c] EXCEPT !.coins = @ \ {coin}]]
          /\ state' = IF ok THEN WithRow(state, <<call[c].p, coin>>, call[c].capital)
                            ELSE state
          /\ UNCHANGED <<trades, pc, rate, seen>>
          /\ Executes(ok)
    BY <1>3 DEF OpenCoin
  <2>2. call[c] \in CreateCalls
    BY <2>1 DEF IInv, LocalOK, CallOK
  <2>3. /\ <<call[c].p, coin>> \in Keys /\ call[c].capital \in Capitals
        /\ <<call[c].p, coin>>[1] = call[c].p
    BY <2>2 DEF CreateCalls, Keys
  <2>4. \A d \in Clients \ {c} : call'[d] = call[d]
    BY <2>1 DEF IInv, TypeOK
  <2>5. ok = TRUE
    BY <1>0, <2>1, NoFault
  <2> QED
    BY <2>1, <2>3, <2>4, <2>5, WithRowLedger
<1>4. ASSUME NEW ok \in BOOLEAN,
             \/ ResetPortfolio(c, ok) \/ RestoreCapital(c, ok)
             \/ RemoveCoinFromPortfolio(c, ok) \/ PurgeTrades(c, ok)
      PROVE  LedgerStep
  <2>1. Executes(ok)
    BY <1>4 DEF ResetPortfolio, RestoreCapital, RemoveCoinFromPortfolio, PurgeTrades
  <2>2. ok = TRUE
    BY <1>0, <2>1, NoFault
  <2> QED
    BY <1>4, <2>2, ResetLedger, RestoreLedger, RemoveLedger, PurgeLedger
<1> QED
  BY <1>1, <1>2, <1>3, <1>4 DEF PortfolioStep

\* Adding a coin to a portfolio opens its account, or there is one.
LEMMA AddCoinLedger ==
  ASSUME IInv, Turns, Exclusive, NEW p \in Portfolios, NEW coin \in Coins,
         NEW capital \in Capitals, AddCoinToPortfolio(p, coin, capital)
  PROVE  LedgerStep
<1> DEFINE key == <<p, coin>>
<1>0. PICK k0 \in Keys : k0 = key /\ k0[1] = p
  <2>1. key \in Keys /\ key[1] = p
    BY DEF Keys
  <2> QED
    BY <2>1
<1>1. /\ Admitted(p) /\ state' = WithRow(state, k0, capital)
      /\ UNCHANGED <<trades, pc, call, rate, seen>>
  BY <1>0 DEF AddCoinToPortfolio, Arrives, locals
<1>2. \A d \in Clients : call[d].p # p
  BY <1>1 DEF Admitted
<1>3. \A k \in Keys : k # k0 => state'[k] = state[k] /\ trades'[k] = trades[k]
  BY <1>0, <1>1 DEF WithRow, IInv, TypeOK
<1>4. ASSUME NEW k \in Keys, k[1] = p PROVE Plain(k) /\ Plain(k)'
  <2>1. \A d \in Clients : ~ Halfway(d, k)
    BY <1>2, <1>4, NoneHalfway
  <2> QED
    BY <1>1, <2>1 DEF Plain, Halfway
<1>5. ASSUME NEW k \in Keys, k[1] # p
      PROVE  AccountBar(k)' = AccountBar(k) /\ BookBar(k)' = BookBar(k)
  <2>1. Clients \in SUBSET Clients /\ Clients \ Clients = {}
    OBVIOUS
  <2> QED
    BY <1>0, <1>1, <1>3, <1>5, <2>1, BarFrame
<1>6. ASSUME NEW k \in Keys \ {k0}
      PROVE  AccountBar(k)' = AccountBar(k) /\ BookBar(k)' = BookBar(k)
  BY <1>3, <1>4, <1>5, PlainBars, PlainBarsNext
<1> QED
  BY <1>0, <1>1, <1>4, <1>6, OpenBars

\* A step that leaves the tables and the requests alone.
LEMMA IdleLedger ==
  ASSUME UNCHANGED <<state, trades, pc, call, rate, seen>>
  PROVE  LedgerStep
BY Stutter DEF LedgerStep, AccountBar, BookBar, Writers, Working

LEMMA NextLedger ==
  ASSUME Exclusive, IInv, Turns, [Next]_vars, faults' = 0
  PROVE  LedgerStep
<1>1. ASSUME NEW p \in Portfolios, DeletePortfolio(p) PROVE LedgerStep
  BY <1>1, IdleLedger DEF DeletePortfolio, locals
<1>2. ASSUME Crash PROVE FALSE
  BY <1>2 DEF Crash, Executes, IInv, TypeOK
<1>3. ASSUME UNCHANGED vars PROVE LedgerStep
  BY <1>3, IdleLedger DEF vars
<1> QED
  BY <1>1, <1>2, <1>3, TradeStepLedger, PortfolioStepLedger, AddCoinLedger DEF Next

LEMMA InitLedger == Init => Ledger!LedgerInit
<1> SUFFICES ASSUME Init PROVE Ledger!LedgerInit
  OBVIOUS
<1>1. ASSUME NEW k \in Keys PROVE AccountBar(k) = Closed /\ BookBar(k) = << >>
  <2>1. state[k] = NoRow /\ trades[k] = << >> /\ Plain(k)
    BY DEF Init, Plain, Halfway
  <2> QED
    BY <2>1, PlainBars DEF AccountOf, NoRow, Closed
<1> QED
  BY <1>1, SameArithmetic DEF Ledger!LedgerInit

\* While clients take turns on each portfolio and no statement fails, the requests
\* of the endpoints implement the book in which each operation happens at once.
THEOREM LedgerImplemented ==
  ASSUME Exclusive, MaxFaults = 0 PROVE Spec => ImplementsLedger
<1>1. Init => faults = 0
  BY DEF Init
<1>2. IInv /\ faults = 0 /\ [Next]_vars => (faults = 0)'
  BY FaultsGrow
<1>3. IInv /\ TurnsInv /\ faults = 0 /\ (faults = 0)' /\ [Next]_vars
        => [Ledger!LedgerNext]_(Ledger!ledgerVars)
  BY NextLedger DEF TurnsInv, LedgerStep
<1> QED
  BY <1>1, <1>2, <1>3, InitLedger, TurnsInvariance, PTL
     DEF Spec, ImplementsLedger, Ledger!LedgerSpec

-----------------------------------------------------------------------------
(***************************************************************************)
(* avg_cost.  What a book has cost is computed along the book, so that it  *)
(* is known after one more trade; an account keeps up with it in every     *)
(* step of SimLedger, and a row on which nobody works is an account.       *)
(***************************************************************************)
\* A set of naturals with 0 and with the successors of its elements has all of them:
\* the least number it lacks would be the successor of one it has.
LEMMA SetInduction ==
  ASSUME NEW S \in SUBSET Nat, 0 \in S, \A n \in S : n + 1 \in S
  PROVE  S = Nat
<1> DEFINE R == {p \in Nat \X Nat : p[1] < p[2]}
           T == Nat \ S
<1>1. IsWellFoundedOn(R, Nat)
  <2>1. R = OpToRel(<, Nat)
    BY DEF OpToRel
  <2> QED
    BY <2>1, NatLessThanWellFounded
<1>2. CASE T # {}
  <2>1. PICK x \in T : \A y \in T : ~ (<<y, x>> \in R)
    <3> HIDE DEF R
    <3> QED
      BY <1>1, <1>2, WFMin
  <2>2. x \in Nat /\ x # 0 /\ x - 1 \in Nat
    OBVIOUS
  <2>3. x - 1 \in T
    BY <2>2
  <2>4. <<x - 1, x>> \in R
    BY <2>2
  <2> QED
    BY <2>1, <2>3, <2>4
<1> QED
  BY <1>2

\* f takes the steps of BookCost up to the m-th trade.
Costs(entries, f, m) ==
  /\ DOMAIN f = 0..m
  /\ \A n \in 0..m :
       f[n] = IF n = 0 THEN 0
              ELSE IF entries[n].action = "SELL" THEN 0
                   ELSE f[n - 1] + entries[n].cashBefore - entries[n].cashAfter

\* A book has such a function, of integers.
LEMMA CostsExist ==
  ASSUME NEW b \in Seq(Entries)
  PROVE  \E f : f \in [0..Len(b) -> Int] /\ Costs(b, f, Len(b))
<1> DEFINE U == {m \in Nat : m <= Len(b) => \E f : f \in [0..m -> Int] /\ Costs(b, f, m)}
<1>1. 0 \in U
  <2> DEFINE f == [n \in 0..0 |-> 0]
  <2>1. f \in [0..0 -> Int] /\ Costs(b, f, 0)
    BY DEF Costs
  <2> QED
    BY <2>1
<1>2. ASSUME NEW m \in U, m + 1 <= Len(b)
      PROVE  \E f : f \in [0..m + 1 -> Int] /\ Costs(b, f, m + 1)
  <2>1. PICK g : g \in [0..m -> Int] /\ Costs(b, g, m)
    BY <1>2
  <2>2. PICK e \in Entries : e = b[m + 1]
    BY <1>2
  <2> DEFINE last == IF e.action = "SELL" THEN 0 ELSE g[m] + e.cashBefore - e.cashAfter
             f == [n \in 0..m + 1 |-> IF n = m + 1 THEN last ELSE g[n]]
  <2>3. last \in Int
    BY <2>1 DEF Entries
  <2>4. f \in [0..m + 1 -> Int]
    BY <2>1, <2>3
  <2>5. ASSUME NEW n \in 0..m + 1
        PROVE  f[n] = IF n = 0 THEN 0
                      ELSE IF b[n].action = "SELL" THEN 0
                           ELSE f[n - 1] + b[n].cashBefore - b[n].cashAfter
    <3>1. CASE n = m + 1
      <4>1. f[n] = last /\ f[n - 1] = g[m] /\ n # 0
        BY <3>1
      <4> QED
        BY <2>2, <3>1, <4>1
    <3>2. CASE n \in 0..m
      <4>1. f[n] = g[n] /\ (n # 0 => f[n - 1] = g[n - 1])
        BY <3>2
      <4> HIDE DEF f
      <4> QED
        BY Zenon, <2>1, <3>2, <4>1 DEF Costs
    <3> QED
      BY <3>1, <3>2
  <2>6. Costs(b, f, m + 1)
    <3>1. DOMAIN f = 0..m + 1
      OBVIOUS
    <3> HIDE DEF f
    <3> QED
      BY <2>5, <3>1 DEF Costs
  <2> QED
    BY <2>4, <2>6
<1>3. U = Nat
  <2> HIDE DEF U
  <2>1. \A m \in U : m + 1 \in U
    BY <1>2 DEF U
  <2>2. U \in SUBSET Nat
    BY DEF U
  <2> QED
    BY <1>1, <2>1, <2>2, SetInduction
<1> QED
  BY <1>3

\* Two functions that take the same steps are equal as far as both go.
SameTrades(s, t, m) == \A n \in 1..m : s[n] = t[n]

LEMMA CostsUnique ==
  ASSUME NEW s, NEW t, NEW f, NEW g, NEW j \in Nat, NEW k \in Nat, j <= k,
         Costs(s, f, j), Costs(t, g, k), SameTrades(s, t, j)
  PROVE  f[j] = g[j]
<1> DEFINE U == {m \in Nat : m <= j => f[m] = g[m]}
<1>1. 0 \in U
  BY DEF Costs
<1>2. ASSUME NEW m \in U PROVE m + 1 \in U
  <2> SUFFICES ASSUME m + 1 <= j PROVE f[m + 1] = g[m + 1]
    OBVIOUS
  <2>1. PICK n \in 1..j : n = m + 1 /\ n - 1 = m
    OBVIOUS
  <2>2. n \in 0..j /\ n \in 0..k /\ n # 0 /\ f[n - 1] = g[n - 1] /\ s[n] = t[n]
    BY <2>1 DEF SameTrades
  <2> HIDE DEF U
  <2>3. f[n] = IF s[n].action = "SELL" THEN 0
               ELSE f[n - 1] + s[n].cashBefore - s[n].cashAfter
    BY Zenon, <2>2 DEF Costs
  <2>4. g[n] = IF t[n].action = "SELL" THEN 0
               ELSE g[n - 1] + t[n].cashBefore - t[n].cashAfter
    BY Zenon, <2>2 DEF Costs
  <2>5. f[n] = g[n]
    BY Zenon, <2>2, <2>3, <2>4
  <2> QED
    BY <2>1, <2>5
<1>3. U = Nat
  <2> HIDE DEF U
  <2>1. U \in SUBSET Nat
    BY DEF U
  <2> QED
    BY <1>1, <1>2, <2>1, SetInduction
<1> QED
  BY <1>3

\* BookCost takes those steps up to the last trade.
LEMMA CostSteps ==
  ASSUME NEW b \in Seq(Entries)
  PROVE  \E f : /\ f \in [0..Len(b) -> Int] /\ Costs(b, f, Len(b))
                /\ BookCost(b) = f[Len(b)]
<1> DEFINE g == CHOOSE h : h = [n \in 0..Len(b) |->
                  IF n = 0 THEN 0
                  ELSE IF b[n].action = "SELL" THEN 0
                       ELSE h[n - 1] + b[n].cashBefore - b[n].cashAfter]
<1>1. BookCost(b) = g[Len(b)]
  BY Zenon DEF BookCost
<1>2. PICK f : f \in [0..Len(b) -> Int] /\ Costs(b, f, Len(b))
  BY CostsExist
<1>3. f = [n \in 0..Len(b) |->
             IF n = 0 THEN 0
             ELSE IF b[n].action = "SELL" THEN 0
                  ELSE f[n - 1] + b[n].cashBefore - b[n].cashAfter]
  BY <1>2 DEF Costs
<1>4. g = [n \in 0..Len(b) |->
             IF n = 0 THEN 0
             ELSE IF b[n].action = "SELL" THEN 0
                  ELSE g[n - 1] + b[n].cashBefore - b[n].cashAfter]
  BY Zenon, <1>3
<1> HIDE DEF g
<1>5. Costs(b, g, Len(b))
  <2>1. DOMAIN g = 0..Len(b)
    BY <1>4
  <2>2. ASSUME NEW n \in 0..Len(b)
        PROVE  g[n] = IF n = 0 THEN 0
                      ELSE IF b[n].action = "SELL" THEN 0
                           ELSE g[n - 1] + b[n].cashBefore - b[n].cashAfter
    BY Zenon, <1>4
  <2> QED
    BY Zenon, <2>1, <2>2 DEF Costs
<1>6. f[Len(b)] = g[Len(b)]
  <2> DEFINE j == Len(b)
  <2>1. Costs(b, f, j) /\ Costs(b, g, j) /\ j \in Nat /\ j <= j /\ SameTrades(b, b, j)
    BY <1>2, <1>5 DEF SameTrades
  <2> HIDE DEF j
  <2>2. f[j] = g[j]
    BY <2>1, CostsUnique
  <2> QED
    BY <2>2 DEF j
<1> QED
  BY <1>1, <1>2, <1>6

\* The cost of an empty book, and of a book with one more trade.
LEMMA CostIs ==
  ASSUME NEW b \in Seq(Entries)
  PROVE  /\ BookCost(b) \in Int
         /\ b = << >> => BookCost(b) = 0
         /\ \A e \in Entries :
              BookCost(Append(b, e)) = IF e.action = "SELL" THEN 0
                                       ELSE BookCost(b) + e.cashBefore - e.cashAfter
<1>1. PICK f : /\ f \in [0..Len(b) -> Int] /\ Costs(b, f, Len(b))
               /\ BookCost(b) = f[Len(b)]
  BY CostSteps
<1>2. Len(b) \in Nat /\ Len(b) \in 0..Len(b) /\ (b = << >> => Len(b) = 0)
  OBVIOUS
<1>3. b = << >> => BookCost(b) = 0
  BY <1>1, <1>2 DEF Costs
<1>4. ASSUME NEW e \in Entries
      PROVE  BookCost(Append(b, e)) = IF e.action = "SELL" THEN 0
                                      ELSE BookCost(b) + e.cashBefore - e.cashAfter
  <2>1. PICK t \in Seq(Entries) : t = Append(b, e)
    BY AppendProperties
  <2>2. /\ Len(t) = Len(b) + 1 /\ t[Len(t)] = e /\ \A n \in 1..Len(b) : b[n] = t[n]
        /\ Len(t) # 0 /\ Len(t) \in 0..Len(t) /\ Len(t) - 1 = Len(b)
    BY <1>2, <2>1
  <2>3. PICK g : Costs(t, g, Len(t)) /\ BookCost(t) = g[Len(t)]
    BY CostSteps
  <2>4. f[Len(b)] = g[Len(b)]
    <3>1. PICK j \in Nat : j = Len(b)
      BY <1>2
    <3>2. Len(t) = j + 1
      BY <2>2, <3>1
    <3>3. PICK k \in Nat : k = Len(t) /\ j <= k
      BY <3>1, <3>2
    <3>4. Costs(b, f, j)
      BY Zenon, <1>1, <3>1
    <3>5. Costs(t, g, k)
      BY Zenon, <2>3, <3>3
    <3>6. SameTrades(b, t, j)
      BY Zenon, <2>2, <3>1 DEF SameTrades
    <3>7. f[j] = g[j]
      BY <3>3, <3>4, <3>5, <3>6, CostsUnique
    <3> QED
      BY Zenon, <3>1, <3>7
  <2>5. g[Len(t)] = IF t[Len(t)].action = "SELL" THEN 0
                    ELSE g[Len(t) - 1] + t[Len(t)].cashBefore - t[Len(t)].cashAfter
    BY Zenon, <2>2, <2>3 DEF Costs
  <2> QED
    BY Zenon, <1>1, <2>1, <2>2, <2>3, <2>4, <2>5
<1> QED
  BY <1>1, <1>2, <1>3, <1>4

\* Numbers, and in particular the account of a key that has none.
Numbers == [cash: Int, units: Int, cost: Int, capital: Int]

CostKept(a, b) == a \in Numbers /\ a.cost = BookCost(b)

AllCosts == \A k \in Keys : CostKept(AccountBar(k), BookBar(k))

\* The books hold entries, before a step and after it.
LEMMA BookTyped ==
  ASSUME IInv, NEW k \in Keys
  PROVE  BookBar(k) \in Seq(Entries)
BY DEF IInv, TypeOK, BookBar

\* An account that is closed or as it was opened has cost nothing.
LEMMA EmptyCost ==
  /\ CostKept(Closed, << >>)
  /\ \A capital \in Int : CostKept(Opened(capital), << >>)
<1>1. PICK b \in Seq(Entries) : b = << >>
  BY EmptySeq
<1>2. BookCost(<< >>) = 0
  BY <1>1, CostIs
<1> QED
  BY <1>2 DEF CostKept, Closed, Opened, Numbers

LEMMA BookTypedNext ==
  ASSUME IInv', NEW k \in Keys
  PROVE  BookBar(k)' \in Seq(Entries)
BY DEF IInv, TypeOK, BookBar

Renumber(a, cash, units, cost) ==
  [a EXCEPT !.cash = cash, !.units = units, !.cost = cost]

\* The numbers of an account replaced by others.
LEMMA Renumbered ==
  ASSUME NEW a \in Numbers, NEW x \in Int, NEW y \in Int, NEW z \in Int
  PROVE  /\ Renumber(a, x, y, z) \in Numbers
         /\ Renumber(a, x, y, z).cash = x
         /\ Renumber(a, x, y, z).cost = z
<1>1. Renumber(a, x, y, z) \in Numbers
  BY DEF Numbers, Renumber
<1>2. Renumber(a, x, y, z).cash = x
  BY DEF Numbers, Renumber
<1>3. Renumber(a, x, y, z).cost = z
  BY DEF Numbers, Renumber
<1> QED
  BY <1>1, <1>2, <1>3

\* A trade changes the cost of an account as its entry changes that of the book.
LEMMA TradeCost ==
  ASSUME NEW b \in Seq(Entries), NEW a, CostKept(a, b),
         NEW price \in Prices \ {0}, NEW div \in Rates, NEW action, NEW after,
         \/ /\ action = "BUY"
            /\ \E amount \in Amounts : after = AfterBuy(a, price, amount, div)
         \/ action = "SELL" /\ after = AfterSell(a, price, div),
         Append(b, Entry(action, a, after)) \in Seq(Entries)
  PROVE  CostKept(after, Append(b, Entry(action, a, after)))
<1>1. PICK e : e = Entry(action, a, after)
  OBVIOUS
<1>2. e \in Entries
  <2>1. Append(b, e)[Len(b) + 1] = e /\ Len(b) + 1 \in 1..Len(Append(b, e))
    OBVIOUS
  <2> QED
    BY <1>1, <2>1
<1>3. BookCost(Append(b, e)) = IF e.action = "SELL" THEN 0
                               ELSE BookCost(b) + e.cashBefore - e.cashAfter
  BY <1>2, CostIs
<1>4. e.action = action /\ e.cashBefore = a.cash /\ e.cashAfter = after.cash
  BY <1>1 DEF Entry
<1>5. price \in Nat \ {0} /\ Amounts \subseteq Nat /\ div \in Nat \ {0} /\ Scale \in Nat \ {0}
  BY PricesAssumption, RatesAssumption, ScaleAssumption
<1>6. a.cash \in Int /\ a.units \in Int /\ a.cost \in Int /\ a \in Numbers
      /\ a.cost = BookCost(b)
  BY DEF CostKept, Numbers
<1>7. ASSUME NEW x \in Int, NEW d \in Nat \ {0} PROVE x \div d \in Int
  BY <1>7
<1>8. CASE action = "BUY"
  <2>0. PICK amount \in Amounts : after = AfterBuy(a, price, amount, div)
    BY <1>8
  <2>1. PICK spend \in Int : spend = Spend(a.cash, amount)
    BY <1>5, <1>6 DEF Spend
  <2>2. PICK bought \in Int : bought = Bought(spend, price, div)
    <3>1. PICK fee \in Int : fee = spend \div div
      BY <1>5, <1>7
    <3>2. PICK x \in Int : x = (spend - fee) * Scale
      BY <1>5
    <3>3. x \div price \in Int
      BY <1>5, <1>7
    <3> QED
      BY <3>1, <3>2, <3>3 DEF Bought, Fee
  <2>3. after = [a EXCEPT !.cash = @ - spend, !.units = @ + bought, !.cost = @ + spend]
    BY <2>0, <2>1, <2>2 DEF AfterBuy
  <2>4. after \in Numbers /\ after.cost = a.cost + spend /\ after.cash = a.cash - spend
    <3>1. after = [a EXCEPT !.cash = a.cash - spend, !.units = a.units + bought,
                            !.cost = a.cost + spend]
      BY <2>3
    <3>2. PICK x \in Int, y \in Int, z \in Int :
            x = a.cash - spend /\ y = a.units + bought /\ z = a.cost + spend
      BY <1>6
    <3>3. after = Renumber(a, x, y, z)
      BY Zenon, <3>1, <3>2 DEF Renumber
    <3>4. after \in Numbers /\ after.cash = x /\ after.cost = z
      BY <1>6, <3>3, Renumbered
    <3> QED
      BY <3>2, <3>4
  <2>5. BookCost(Append(b, e)) = a.cost + a.cash - after.cash
    BY <1>3, <1>4, <1>6, <1>8
  <2> QED
    BY <1>1, <1>6, <2>4, <2>5 DEF CostKept
<1>9. CASE action = "SELL"
  <2>1. PICK gross \in Int : gross = Gross(a.units, price)
    <3>1. PICK x \in Int : x = a.units * price
      BY <1>5, <1>6
    <3>2. x \div Scale \in Int
      BY <1>5, <1>7
    <3> QED
      BY <3>1, <3>2 DEF Gross
  <2>2. PICK fee \in Int : fee = Fee(gross, div)
    BY <1>5, <1>7 DEF Fee
  <2>3. after = [a EXCEPT !.cash = @ + gross - fee, !.units = 0, !.cost = 0]
    BY <1>9, <2>1, <2>2 DEF AfterSell
  <2>4. after \in Numbers /\ after.cost = 0
    <3>1. after = [a EXCEPT !.cash = a.cash + gross - fee, !.units = 0, !.cost = 0]
      BY <2>3
    <3>2. PICK x \in Int, z \in Int : x = a.cash + gross - fee /\ z = 0
      BY <1>6
    <3>3. after = Renumber(a, x, z, z)
      BY Zenon, <3>1, <3>2 DEF Renumber
    <3>4. after \in Numbers /\ after.cost = z
      BY <1>6, <3>3, Renumbered
    <3> QED
      BY <3>2, <3>4
  <2> QED
    BY <1>1, <1>3, <1>4, <1>9, <2>4 DEF CostKept
<1> QED
  BY <1>8, <1>9

\* Every step of SimLedger keeps the cost of an account that of its book.
LEMMA LedgerCosts ==
  ASSUME IInv, IInv', AllCosts, LedgerStep
  PROVE  AllCosts'
<1> DEFINE account == [k \in Keys |-> AccountBar(k)]
           book == [k \in Keys |-> BookBar(k)]
<1>1. \A k \in Keys : account[k] = AccountBar(k) /\ book[k] = BookBar(k)
  OBVIOUS
<1>2. \A k \in Keys : account'[k] = AccountBar(k)' /\ book'[k] = BookBar(k)'
  OBVIOUS
<1>3. \A k \in Keys : book[k] \in Seq(Entries) /\ book'[k] \in Seq(Entries)
  BY <1>1, <1>2, BookTyped, BookTypedNext
<1>4. \A k \in Keys : CostKept(account[k], book[k])
  BY <1>1 DEF AllCosts
<1>5. /\ account = [k \in Keys |-> account[k]] /\ book = [k \in Keys |-> book[k]]
  OBVIOUS
<1>6. SUFFICES ASSUME NEW k \in Keys PROVE CostKept(account'[k], book'[k])
  BY <1>2 DEF AllCosts, CostKept
<1>7. ASSUME UNCHANGED Ledger!ledgerVars PROVE account' = account /\ book' = book
  BY <1>7 DEF Ledger!ledgerVars
<1>8. ASSUME NEW k0 \in Keys, NEW capital \in Capitals, Ledger!Open(k0, capital)
      PROVE  /\ account[k0] = Closed /\ book' = book
             /\ account' = [account EXCEPT ![k0] = Opened(capital)]
  BY <1>8, SameArithmetic DEF Ledger!Open
<1>9. ASSUME NEW k0 \in Keys, NEW price, NEW amount, NEW div,
             Ledger!Buy(k0, price, amount, div)
      PROVE  /\ account' = [account EXCEPT ![k0] = AfterBuy(account[k0], price, amount, div)]
             /\ book' = [book EXCEPT ![k0] = Append(book[k0], Entry("BUY", account[k0],
                           AfterBuy(account[k0], price, amount, div)))]
  BY <1>9, SameArithmetic DEF Ledger!Buy, Ledger!Record
<1>10. ASSUME NEW k0 \in Keys, NEW price, NEW div, Ledger!Sell(k0, price, div)
       PROVE  /\ account' = [account EXCEPT ![k0] = AfterSell(account[k0], price, div)]
              /\ book' = [book EXCEPT ![k0] = Append(book[k0], Entry("SELL", account[k0],
                            AfterSell(account[k0], price, div)))]
  BY <1>10, SameArithmetic DEF Ledger!Sell, Ledger!Record
<1>11. ASSUME NEW p \in Portfolios, Ledger!ResetAll(p)
       PROVE  /\ account'[k] = IF k[1] = p /\ account[k] # Closed
                               THEN Opened(account[k].capital) ELSE account[k]
              /\ book'[k] = IF k[1] = p THEN << >> ELSE book[k]
  <2>1. /\ account' = [q \in Keys |-> IF q[1] = p /\ account[q] # Closed
                         THEN Opened(account[q].capital) ELSE account[q]]
        /\ book' = [q \in Keys |-> IF q[1] = p THEN << >> ELSE book[q]]
    BY <1>11, SameArithmetic DEF Ledger!ResetAll
  <2> HIDE DEF account, book
  <2> QED
    BY <2>1
<1>12. ASSUME NEW k0 \in Keys, Ledger!Close(k0)
       PROVE  /\ account' = [account EXCEPT ![k0] = Closed]
              /\ book' = [book EXCEPT ![k0] = << >>]
  BY <1>12, SameArithmetic DEF Ledger!Close
<1> HIDE DEF account, book
<1>13. CASE UNCHANGED Ledger!ledgerVars
  BY <1>4, <1>7, <1>13
<1>14. ASSUME NEW k0 \in Keys, NEW capital \in Capitals, Ledger!Open(k0, capital)
       PROVE  CostKept(account'[k], book'[k])
  <2>1. CASE k = k0
    <3>1. account'[k] = Opened(capital) /\ book'[k] = book[k] /\ account[k] = Closed
      BY <1>5, <1>8, <1>14, <2>1
    <3>2. capital \in Int
      BY CapitalsAssumption
    <3>3. Opened(capital) \in Numbers /\ Opened(capital).cost = 0 /\ Closed.cost = 0
      BY <3>2 DEF Opened, Closed, Numbers
    <3> QED
      BY <1>4, <3>1, <3>3 DEF CostKept
  <2>2. CASE k # k0
    <3>1. account'[k] = account[k] /\ book'[k] = book[k]
      BY <1>5, <1>8, <1>14, <2>2
    <3> QED
      BY <1>4, <3>1
  <2> QED
    BY <2>1, <2>2
<1>15. ASSUME NEW k0 \in Keys, NEW price \in Prices \ {0}, NEW div \in Rates,
              NEW amount \in Amounts, Ledger!Buy(k0, price, amount, div)
       PROVE  CostKept(account'[k], book'[k])
  <2>1. CASE k = k0
    <3>1. PICK after : after = AfterBuy(account[k], price, amount, div)
      OBVIOUS
    <3>2. /\ account'[k] = after
          /\ book'[k] = Append(book[k], Entry("BUY", account[k], after))
      BY <1>5, <1>9, <1>15, <2>1, <3>1
    <3>3. Append(book[k], Entry("BUY", account[k], after)) \in Seq(Entries)
      BY <1>3, <3>2
    <3> QED
      BY <1>3, <1>4, <3>1, <3>2, <3>3, TradeCost
  <2>2. CASE k # k0
    <3>1. account'[k] = account[k] /\ book'[k] = book[k]
      BY <1>5, <1>9, <1>15, <2>2
    <3> QED
      BY <1>4, <3>1
  <2> QED
    BY <2>1, <2>2
<1>16. ASSUME NEW k0 \in Keys, NEW price \in Prices \ {0}, NEW div \in Rates,
              Ledger!Sell(k0, price, div)
       PROVE  CostKept(account'[k], book'[k])
  <2>1. CASE k = k0
    <3>1. PICK after : after = AfterSell(account[k], price, div)
      OBVIOUS
    <3>2. /\ account'[k] = after
          /\ book'[k] = Append(book[k], Entry("SELL", account[k], after))
      BY <1>5, <1>10, <1>16, <2>1, <3>1
    <3>3. Append(book[k], Entry("SELL", account[k], after)) \in Seq(Entries)
      BY <1>3, <3>2
    <3> QED
      BY <1>3, <1>4, <3>1, <3>2, <3>3, TradeCost
  <2>2. CASE k # k0
    <3>1. account'[k] = account[k] /\ book'[k] = book[k]
      BY <1>5, <1>10, <1>16, <2>2
    <3> QED
      BY <1>4, <3>1
  <2> QED
    BY <2>1, <2>2
<1>17. ASSUME NEW p \in Portfolios, Ledger!ResetAll(p)
       PROVE  CostKept(account'[k], book'[k])
  <2>1. CASE k[1] # p
    BY <1>4, <1>11, <1>17, <2>1
  <2>2. CASE k[1] = p /\ account[k] = Closed
    BY <1>11, <1>17, <2>2, EmptyCost
  <2>3. CASE k[1] = p /\ account[k] # Closed
    <3>1. account[k].capital \in Int
      BY <1>4 DEF CostKept, Numbers
    <3> QED
      BY <1>11, <1>17, <2>3, <3>1, EmptyCost
  <2> QED
    BY <2>1, <2>2, <2>3
<1>18. ASSUME NEW k0 \in Keys, Ledger!Close(k0)
       PROVE  CostKept(account'[k], book'[k])
  <2>1. CASE k = k0
    BY <1>5, <1>12, <1>18, <2>1, EmptyCost
  <2>2. CASE k # k0
    BY <1>4, <1>5, <1>12, <1>18, <2>2
  <2> QED
    BY <2>1, <2>2
<1>19. CASE Ledger!LedgerNext
  <2>1. \/ \E k0 \in Keys, capital \in Capitals : Ledger!Open(k0, capital)
        \/ \E k0 \in Keys, price \in Prices \ {0}, div \in Rates :
             \/ \E amount \in Amounts : Ledger!Buy(k0, price, amount, div)
             \/ Ledger!Sell(k0, price, div)
        \/ \E p \in Portfolios : Ledger!ResetAll(p)
        \/ \E k0 \in Keys : Ledger!Close(k0)
    BY <1>19, SameArithmetic DEF Ledger!LedgerNext
  <2>2. ASSUME NEW k0 \in Keys, NEW price \in Prices \ {0}, NEW div \in Rates,
               \/ \E amount \in Amounts : Ledger!Buy(k0, price, amount, div)
               \/ Ledger!Sell(k0, price, div)
        PROVE  CostKept(account'[k], book'[k])
    <3>1. ASSUME NEW amount \in Amounts, Ledger!Buy(k0, price, amount, div)
          PROVE  CostKept(account'[k], book'[k])
      BY <1>15, <3>1
    <3>2. CASE Ledger!Sell(k0, price, div)
      BY <1>16, <3>2
    <3> QED
      BY <2>2, <3>1, <3>2
  <2> QED
    BY <1>14, <1>17, <1>18, <2>1, <2>2
<1> QED
  BY <1>13, <1>19 DEF LedgerStep

\* At first no account is open and no book has a trade.
LEMMA InitCosts == Init => AllCosts
<1> SUFFICES ASSUME Init, NEW k \in Keys PROVE CostKept(AccountBar(k), BookBar(k))
  BY DEF AllCosts
<1>1. state[k] = NoRow /\ trades[k] = << >> /\ Plain(k)
  BY DEF Init, Plain, Halfway
<1>2. AccountBar(k) = Closed /\ BookBar(k) = << >>
  BY <1>1, PlainBars DEF AccountOf, NoRow, Closed
<1> QED
  BY <1>2, EmptyCost

\* While clients take turns on each portfolio and no statement has failed,
\* avg_cost * units of a row of sim_state on whose portfolio no request works is
\* what the BUYs of its book since the last SELL have spent.
THEOREM CostCorrect ==
  ASSUME Exclusive PROVE Spec => [](faults = 0 => AvgCostIsBookCost)
<1> DEFINE Kept == faults = 0 => AllCosts
<1>1. Init => Kept
  BY InitCosts
<1>2. IInv /\ TurnsInv /\ Kept /\ IInv' /\ [Next]_vars => Kept'
  <2> SUFFICES ASSUME IInv, TurnsInv, Kept, IInv', [Next]_vars, faults' = 0
               PROVE  AllCosts'
    OBVIOUS
  <2>1. faults = 0
    <3>1. faults \in Nat
      BY DEF IInv, TypeOK
    <3> QED
      BY <3>1, FaultsGrow
  <2> QED
    BY <2>1, NextLedger, LedgerCosts DEF TurnsInv
<1>3. IInv /\ TurnsInv /\ Kept => (faults = 0 => AvgCostIsBookCost)
  <2> SUFFICES ASSUME IInv, Turns, AllCosts, NEW k \in Keys, state[k] # NoRow,
                      ~ InFlight(k[1])
               PROVE  state[k].cost = BookCost(trades[k])
    BY DEF TurnsInv, AvgCostIsBookCost
  <2>1. Plain(k)
    <3>1. k[1] \in Portfolios
      BY DEF Keys
    <3> QED
      BY <3>1, NoneHalfway DEF InFlight, Plain
  <2>2. CostKept(AccountOf(state[k]), trades[k])
    BY <2>1, PlainBars DEF AllCosts
  <2> QED
    BY <2>2 DEF CostKept, AccountOf
<1> HIDE DEF Kept
<1> QED
  BY <1>1, <1>2, <1>3, TurnsInvariance, PTL DEF Spec
=============================================================================
