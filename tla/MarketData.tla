----------------------------- MODULE MarketData -----------------------------
(***************************************************************************)
(* The daily candles of bob-crypto-pilot: a table of candles per exchange, *)
(* filled by goroutines that each ask an exchange for its last candles and *)
(* store the answer in one transaction, and the indicator columns of the   *)
(* Binance table, which another transaction computes from candles read     *)
(* before it.  Nothing keeps these goroutines apart: the boot goroutine,   *)
(* the nightly loop, the sync requests and the backfill command.           *)
(***************************************************************************)
EXTENDS Integers, Sequences, FiniteSets

CONSTANTS
  Coins,        \* the coins, in the order in which every loop takes them
  Others,       \* the exchanges synced beside Binance, in that order
  Limit,        \* for each exchange, how many candles it returns: 90 (Upbit: 200)
  Clients,      \* goroutines of sync requests
  FirstTime,    \* when the server starts first, in half days
  LastTime,     \* bound on the time
  MaxRequests,  \* bound on sync requests and runs of the backfill command
  MaxFaults     \* bound on failing calls and statements, and process deaths

\* Half days: an odd one is the time of a day before 16:00 UTC (01:00 KST).
DayOf(t) == (t + 1) \div 2

CoinSet == {Coins[i] : i \in DOMAIN Coins}
Exchanges == {"binance"} \cup {Others[i] : i \in DOMAIN Others}
Markets == Exchanges \X CoinSet
LastDay == DayOf(LastTime)
LastNight == LastTime \div 2   \* the day of the last 16:00 UTC
Days == 1..LastDay
Server == Clients \cup {"boot", "nightly"}
Workers == Server \cup {"backfill"}

ASSUME SizesAssumption ==
  /\ FirstTime \in Nat \ {0} /\ LastTime \in Nat /\ FirstTime <= LastTime
  /\ MaxRequests \in Nat /\ MaxFaults \in Nat
ASSUME NamesAssumption ==
  /\ Coins \in Seq(CoinSet) /\ Others \in Seq(Exchanges)
  /\ Limit \in [Exchanges -> Nat \ {0}]
  /\ {"boot", "nightly", "backfill"} \cap Clients = {}

VARIABLES
  now,         \* the time, in half days
  up,          \* the server runs
  candles,     \* tables of daily candles: for each market, a row per day
  indicators,  \* the indicator columns of daily_prices
  todo,        \* todo[w]: the steps goroutine w has left
  got,         \* got[w]: what the step in progress has fetched or read
  due,         \* the day of the next 01:00 KST the nightly loop sleeps until
  requests, faults,
  clean,       \* history: when the night run in progress woke; 0 if disturbed
  settled      \* history: the days an undisturbed night run has synced

vars == <<now, up, candles, indicators, todo, got, due, requests, faults,
          clean, settled>>
tables  == <<candles, indicators>>
history == <<clean, settled>>

(***************************************************************************)
(* Time and candles.  A candle changes until its day is over.  Its value   *)
(* is the time it was asked for, or the end of its day: 2 * d + 1.         *)
(***************************************************************************)
Final(d) == 2 * d + 1
Missing == 0
NoRows == [d \in Days |-> Missing]
Nothing == << >>

CandleAt(d, t) == IF t < Final(d) THEN t ELSE Final(d)

\* Mutant: the date of a candle is taken in a time zone west of UTC.
KlinesWest(exchange, t) ==
  [d \in Days |-> IF d + 1 \in (DayOf(t) - Limit[exchange] + 1)..DayOf(t)
                  THEN CandleAt(d + 1, t) ELSE Missing]

\* The answer of an exchange: its last candles, the one of today included.
Klines(exchange, t) ==
  [d \in Days |-> IF d \in (DayOf(t) - Limit[exchange] + 1)..DayOf(t)
                  THEN CandleAt(d, t) ELSE Missing]

\* ON CONFLICT DO UPDATE: rows that are not in the answer stay.
Upserted(rows, answer) ==
  [d \in Days |-> IF answer[d] = Missing THEN rows[d] ELSE answer[d]]

\* The indicators of a day are a function of the candles up to it.
Upto(rows, d) == [e \in 1..d |-> rows[e]]

(***************************************************************************)
(* What the goroutines do, step after step.                                *)
(***************************************************************************)
Sync(exchange, coin) == [do |-> "sync", exchange |-> exchange, coin |-> coin]
Calc(coin) == [do |-> "calc", exchange |-> "binance", coin |-> coin]

\* Two nested loops of sync_scheduler: the k-th step of all is made by iteration
\* (k - 1) \div m + 1 of the outer and (k - 1) % m + 1 of the inner one.
Nested(n, m, f(_, _)) ==
  [k \in 1..(n * m) |-> f(((k - 1) \div m) + 1, ((k - 1) % m) + 1)]

\* POST /sync and the backfill command; POST /upbit/sync and /bithumb/sync.
SyncPlan(exchange) == [i \in DOMAIN Coins |-> Sync(exchange, Coins[i])]

CalcPlan == [i \in DOMAIN Coins |-> Calc(Coins[i])]

\* Coin by coin, the other exchanges; then the indicators.
BootPlan ==
  Nested(Len(Coins), Len(Others), LAMBDA i, j : Sync(Others[j], Coins[i]))
    \o CalcPlan

NightSyncs ==
  Nested(Len(Coins), Len(Coins), LAMBDA i, j : Sync("binance", Coins[j]))
    \o Nested(Len(Others), Len(Coins), LAMBDA i, j : Sync(Others[i], Coins[j]))

\* Mutants: the indicators are computed before the syncs, or not at all.
NightPlanCalcFirst == CalcPlan \o NightSyncs

NightPlanWithoutCalc == NightSyncs

\* runSync: a POST /sync per coin, each of which syncs every coin; the other
\* exchanges, coin by coin; then the indicators.
NightPlan == NightSyncs \o CalcPlan

\* The day whose 16:00 UTC, which is 01:00 KST, comes next.
NextNight(t) == IF t % 2 = 1 THEN DayOf(t) ELSE DayOf(t) + 1

Idle(w) == todo[w] = << >>

Init ==
  /\ now = FirstTime
  /\ up = TRUE
  /\ candles = [m \in Markets |-> NoRows]
  /\ indicators = [coin \in CoinSet |-> [d \in Days |-> Nothing]]
  /\ todo = [w \in Workers |-> IF w = "boot" THEN BootPlan ELSE << >>]
  /\ got = [w \in Workers |-> Nothing]
  /\ due = NextNight(FirstTime)
  /\ requests = 0 /\ faults = 0
  /\ clean = 0
  /\ settled = {}

(***************************************************************************)
(* The steps of FetchAndStore and CalcAndStoreAllIndicators.               *)
(***************************************************************************)
Step(w) == Head(todo[w])
MarketOf(w) == <<Step(w).exchange, Step(w).coin>>
OnlyWorker(w) == \A v \in Workers \ {w} : Idle(v)

\* The days whose final candle the exchanges show from time s to time t of one day.
\* (A run that ends another day than it began has seen the oldest candles leave the
\* answers: a request that fetched them before may still store them.)
Closed(s, t) ==
  {d \in Days : DayOf(s) = DayOf(t) /\
     \A exchange \in Exchanges : Klines(exchange, s)[d] = Final(d)}

\* When the last step of the night run is done the loop sleeps until the next
\* night.  What an undisturbed run has synced within a day is settled.
Sleeps(w) ==
  IF w = "nightly" /\ Len(todo[w]) = 1
  THEN /\ due' = NextNight(now)
       /\ clean' = 0
       /\ settled' = IF clean = 0 THEN settled ELSE settled \cup Closed(clean, now)
  ELSE UNCHANGED <<due, clean, settled>>

Finishes(w) ==
  /\ todo' = [todo EXCEPT ![w] = Tail(@)]
  /\ got' = [got EXCEPT ![w] = Nothing]

Fetch(w) ==
  /\ ~ Idle(w) /\ Step(w).do = "sync" /\ got[w] = Nothing
  /\ got' = [got EXCEPT ![w] = Klines(Step(w).exchange, now)]
  /\ UNCHANGED <<now, up, tables, todo, due, requests, faults, history>>

Store(w) ==
  /\ ~ Idle(w) /\ Step(w).do = "sync" /\ got[w] # Nothing
  /\ candles' = [candles EXCEPT ![MarketOf(w)] = Upserted(@, got[w])]
  /\ Finishes(w) /\ Sleeps(w)
  /\ UNCHANGED <<now, up, indicators, requests, faults>>

\* SELECT of all rows of the coin.
ReadCandles(w) ==
  /\ ~ Idle(w) /\ Step(w).do = "calc" /\ got[w] = Nothing
  /\ got' = [got EXCEPT ![w] = candles[MarketOf(w)]]
  /\ UNCHANGED <<now, up, tables, todo, due, requests, faults, history>>

\* The UPDATEs, by id, of the rows that were read.
StoreIndicators(w) ==
  /\ ~ Idle(w) /\ Step(w).do = "calc" /\ got[w] # Nothing
  /\ indicators' = [indicators EXCEPT ![Step(w).coin] =
       [d \in Days |-> IF got[w][d] = Missing THEN @[d] ELSE Upto(got[w], d)]]
  /\ Finishes(w) /\ Sleeps(w)
  /\ UNCHANGED <<now, up, candles, requests, faults>>

\* The exchange does not answer, or a statement fails and the transaction is
\* rolled back: the error is logged and the loop goes on with the next step.
FailStep(w) ==
  /\ ~ Idle(w)
  /\ faults < MaxFaults /\ faults' = faults + 1
  /\ Finishes(w)
  /\ IF w = "nightly" /\ Len(todo[w]) = 1
     THEN due' = NextNight(now) ELSE UNCHANGED due
  /\ clean' = IF w = "nightly" THEN 0 ELSE clean
  /\ UNCHANGED <<now, up, tables, requests, settled>>

Work(w) ==
  \/ Fetch(w) \/ Store(w) \/ ReadCandles(w) \/ StoreIndicators(w)
  \/ FailStep(w)

(***************************************************************************)
(* Who starts what.                                                        *)
(***************************************************************************)
Begins(w, plan) ==
  /\ Idle(w)
  /\ todo' = [todo EXCEPT ![w] = plan]
  /\ UNCHANGED <<now, up, tables, got, faults, settled>>

Wake ==
  /\ up /\ now >= 2 * due
  /\ Begins("nightly", NightPlan)
  /\ clean' = IF OnlyWorker("nightly") THEN now ELSE 0
  /\ UNCHANGED <<due, requests>>

Request(w, exchange) ==
  /\ requests < MaxRequests /\ requests' = requests + 1
  /\ w = "backfill" \/ up
  /\ w = "backfill" => exchange = "binance"
  /\ Begins(w, SyncPlan(exchange))
  /\ UNCHANGED <<due, clean>>

Die ==
  /\ up /\ up' = FALSE
  /\ faults < MaxFaults /\ faults' = faults + 1
  /\ todo' = [w \in Workers |-> IF w \in Server THEN << >> ELSE todo[w]]
  /\ got' = [w \in Workers |-> IF w \in Server THEN Nothing ELSE got[w]]
  /\ clean' = 0
  /\ UNCHANGED <<now, tables, due, requests, settled>>

Start ==
  /\ ~ up /\ up' = TRUE
  /\ todo' = [todo EXCEPT !["boot"] = BootPlan]
  /\ due' = NextNight(now)
  /\ UNCHANGED <<now, tables, got, requests, faults, history>>

Tick ==
  /\ now < LastTime
  /\ now' = now + 1
  /\ UNCHANGED <<up, tables, todo, got, due, requests, faults, history>>

Next ==
  \/ \E w \in Workers : Work(w)
  \/ Wake
  \/ \E w \in Clients \cup {"backfill"}, exchange \in Exchanges :
       Request(w, exchange)
  \/ Die \/ Start
  \/ Tick

\* A goroutine that can go on does, exchanges answer or refuse, a process that
\* died is started again, and a timer that is due fires.
Fairness ==
  /\ \A w \in Workers : WF_vars(Work(w))
  /\ WF_vars(Wake) /\ WF_vars(Start) /\ WF_vars(Tick)

Spec == Init /\ [][Next]_vars /\ Fairness
-----------------------------------------------------------------------------
(***************************************************************************)
(* Properties.                                                             *)
(***************************************************************************)
Steps ==
  {Sync(m[1], m[2]) : m \in Markets} \cup {Calc(coin) : coin \in CoinSet}

CandlesOf(d) == {Missing} \cup (2 * d - 1)..Final(d)

Tables == {rows \in [Days -> Nat] : \A d \in Days : rows[d] \in CandlesOf(d)}

\* Type invariant.  A row of a table holds a candle of its own day, and what an
\* indicator was computed from are rows up to its own.
TypeOK ==
  /\ now \in FirstTime..LastTime
  /\ up \in BOOLEAN
  /\ DOMAIN candles = Markets /\ \A m \in Markets : candles[m] \in Tables
  /\ DOMAIN indicators = CoinSet
  /\ \A coin \in CoinSet : \A d \in Days :
       indicators[coin][d] \in {Nothing} \cup [1..d -> Nat]
  /\ todo \in [Workers -> Seq(Steps)]
  /\ got \in [Workers -> {Nothing} \cup [Days -> Nat]]
  /\ due \in Nat /\ requests \in Nat /\ faults \in Nat /\ clean \in Nat
  /\ settled \subseteq Days

IsFinal(m, d) == candles[m][d] = Final(d)

IsFresh(coin, d) ==
  indicators[coin][d] = Upto(candles[<<"binance", coin>>], d)

IsRight(d) ==
  /\ \A m \in Markets : IsFinal(m, d)
  /\ \A coin \in CoinSet : IsFresh(coin, d)

\* A day that was over when a night run began, one that began while no other
\* goroutine was at work, none of whose steps failed and that ended before midnight
\* UTC, has its final candle in every table and indicators of these candles for
\* good: whatever requests come beside it, and whatever syncs, backfills, failures
\* and restarts after it.
SettledForGood == \A d \in settled : IsRight(d)

\* No sync, failure or death will come; the goroutines are done; a night will.
Quiet ==
  /\ requests = MaxRequests /\ faults = MaxFaults
  /\ up /\ \A w \in Workers : Idle(w)
  /\ due = LastNight

\* However syncs, calculations, failures and deaths have interleaved, the next
\* night repairs it: each day before it that the exchanges still return has its
\* final candle and indicators of the stored candles.
NightRepairs ==
  Quiet ~> \A d \in Days :
    d < LastNight /\ (\A exchange \in Exchanges : d > LastDay - Limit[exchange])
      => IsRight(d)
=============================================================================
