-------------------------- MODULE MarketData_proofs --------------------------
(***************************************************************************)
(* Proofs about MarketData for every list of coins and exchanges, every    *)
(* number of goroutines, requests and failures, and every length of the    *)
(* answers: the type invariant, and that what a night run has settled      *)
(* stays right.                                                            *)
(***************************************************************************)
EXTENDS MarketData, TLAPS

(***************************************************************************)
(* The inductive invariant.                                                *)
(***************************************************************************)
\* What goroutine w has fetched and not yet stored in m, or has read and not yet
\* computed the indicators of coin from.
Storing(w, m) ==
  /\ ~ Idle(w) /\ Step(w).do = "sync" /\ got[w] # Nothing
  /\ MarketOf(w) = m

Computing(w, coin) ==
  /\ ~ Idle(w) /\ Step(w).do = "calc" /\ got[w] # Nothing
  /\ Step(w).coin = coin

\* Only the goroutines of the server compute indicators, and none works while the
\* server is down.
LocalsOK ==
  /\ \A w \in Workers :
       /\ got[w] \in {Nothing} \cup Tables
       /\ Idle(w) => got[w] = Nothing
  /\ \A w \in Clients \cup {"backfill"} : \A i \in DOMAIN todo[w] :
       todo[w][i].do = "sync"
  /\ ~ up => \A w \in Server : Idle(w)

TInv == TypeOK /\ LocalsOK

\* No answer to come or in flight changes row e of market m.
Stays(m, e) ==
  /\ \A t \in now..LastTime : Klines(m[1], t)[e] \in {Missing, candles[m][e]}
  /\ \A w \in Workers : Storing(w, m) => got[w][e] \in {Missing, candles[m][e]}

Stored(coin) == candles[<<"binance", coin>>]

\* Why a settled day stays right: nothing changes its rows, nor those before it that
\* its indicators are computed from; and who computes them anew has read these.
ForGood(d) ==
  /\ \A m \in Markets : IsFinal(m, d) /\ Stays(m, d)
  /\ \A coin \in CoinSet :
       /\ \A e \in 1..d : Stays(<<"binance", coin>>, e)
       /\ IsFresh(coin, d)
       /\ \A w \in Workers : Computing(w, coin) =>
            got[w][d] = Missing \/ Upto(got[w], d) = Upto(Stored(coin), d)

SettledInv == \A d \in settled : ForGood(d)

\* A night run that woke at time c, while it is undisturbed and the day it began: the
\* steps it has left, the days that were over, and what its steps have done so far.
Left == {todo["nightly"][i] : i \in DOMAIN todo["nightly"]}

Closing(c) == {d \in Days : \A exchange \in Exchanges : Klines(exchange, c)[d] = Final(d)}

Synced(c, m) == \A d \in Days : Klines(m[1], c)[d] = Final(d) => IsFinal(m, d)

CalcsLast(plan) ==
  \A i, j \in DOMAIN plan : (i < j /\ plan[i].do = "calc") => plan[j].do = "calc"

OnlyCalcs == \A i \in DOMAIN todo["nightly"] : todo["nightly"][i].do = "calc"

FetchedSince(c, w, m) == \E t \in c..now : got[w] = Klines(m[1], t)

OldFetches(c) == \A m \in Markets, w \in Workers : Storing(w, m) => FetchedSince(c, w, m)

SyncsDone(c) == \A m \in Markets : Sync(m[1], m[2]) \in Left \/ Synced(c, m)

CalcsDone(c) ==
  \A coin \in CoinSet : Calc(coin) \in Left \/ \A d \in Closing(c) : IsFresh(coin, d)

ReadRight(c) ==
  \A coin \in CoinSet : Computing("nightly", coin) =>
    \A d \in Closing(c) : Upto(got["nightly"], d) = Upto(Stored(coin), d)

RunOK(c) ==
  /\ Idle("boot")
  /\ CalcsLast(todo["nightly"])
  /\ (\A coin \in CoinSet : Calc(coin) \in Left) \/ OnlyCalcs
  /\ OldFetches(c) /\ SyncsDone(c) /\ CalcsDone(c) /\ ReadRight(c)

RunInv ==
  /\ clean <= now
  /\ clean # 0 => up /\ FirstTime <= clean
  /\ (clean # 0 /\ DayOf(clean) = DayOf(now)) => RunOK(clean)

IInv == TInv /\ SettledInv /\ RunInv
-----------------------------------------------------------------------------
(***************************************************************************)
(* Time and candles.                                                       *)
(***************************************************************************)
Times == FirstTime..LastTime

LEMMA DayRange ==
  ASSUME NEW t \in Nat
  PROVE  DayOf(t) \in Nat /\ t <= 2 * DayOf(t) /\ 2 * DayOf(t) <= t + 1
BY DEF DayOf

LEMMA DaysRange ==
  /\ LastDay \in Nat \ {0} /\ Days = 1..LastDay /\ Days \subseteq Nat
  /\ \A t \in Times : t \in Nat \ {0} /\ DayOf(t) \in Days
  /\ \A d \in Days : \A e \in 1..d : e \in Days
BY SizesAssumption DEF LastDay, Days, Times, DayOf

LEMMA LaterDay ==
  ASSUME NEW s \in Nat, NEW t \in Nat, s <= t
  PROVE  DayOf(s) <= DayOf(t)
BY DEF DayOf

\* What the answer of an exchange says of day d.
LEMMA KlinesOf ==
  ASSUME NEW exchange \in Exchanges, NEW t \in Times, NEW d \in Days
  PROVE  /\ Limit[exchange] \in Nat \ {0}
         /\ (d <= DayOf(t) /\ DayOf(t) < d + Limit[exchange]) =>
              Klines(exchange, t)[d] = IF t < Final(d) THEN t ELSE Final(d)
         /\ ~ (d <= DayOf(t) /\ DayOf(t) < d + Limit[exchange]) =>
              Klines(exchange, t)[d] = Missing
<1>1. Limit[exchange] \in Nat \ {0}
  BY NamesAssumption
<1>2. DayOf(t) \in Nat /\ d \in Nat
  BY DaysRange
<1>3. d \in (DayOf(t) - Limit[exchange] + 1)..DayOf(t)
        <=> d <= DayOf(t) /\ DayOf(t) < d + Limit[exchange]
  BY <1>1, <1>2
<1> QED
  BY <1>1, <1>3 DEF Klines, CandleAt

\* An answer has for each day no candle, or one of that day.
LEMMA KlinesRange ==
  ASSUME NEW exchange \in Exchanges, NEW t \in Times
  PROVE  Klines(exchange, t) \in Tables
<1>1. ASSUME NEW d \in Days PROVE Klines(exchange, t)[d] \in CandlesOf(d)
  <2>1. t \in Nat /\ DayOf(t) \in Nat /\ 2 * DayOf(t) <= t + 1 /\ d \in Nat
    BY DaysRange, DayRange
  <2>2. ASSUME d <= DayOf(t), DayOf(t) < d + Limit[exchange]
        PROVE  Klines(exchange, t)[d] \in (2 * d - 1)..Final(d)
    <3>1. Klines(exchange, t)[d] = IF t < Final(d) THEN t ELSE Final(d)
      BY <2>2, KlinesOf
    <3>2. 2 * d - 1 <= t
      BY <2>1, <2>2
    <3> QED
      BY <2>1, <3>1, <3>2 DEF Final
  <2> QED
    BY <2>2, KlinesOf DEF CandlesOf
<1>2. \A d \in Days : CandlesOf(d) \subseteq Nat
  BY DaysRange DEF CandlesOf, Final, Missing
<1>3. Klines(exchange, t) \in [Days -> Nat]
  <2>1. \A d \in Days : Klines(exchange, t)[d] \in Nat
    BY <1>1, <1>2
  <2>2. Klines(exchange, t) = [d \in Days |-> Klines(exchange, t)[d]]
    BY DEF Klines
  <2> QED
    BY <2>1, <2>2
<1> QED
  BY <1>1, <1>3 DEF Tables

\* A final candle stays final, until it leaves the answers.
LEMMA FinalLater ==
  ASSUME NEW exchange \in Exchanges, NEW s \in Times, NEW t \in Times, s <= t,
         NEW d \in Days, Klines(exchange, s)[d] = Final(d)
  PROVE  /\ Klines(exchange, t)[d] \in {Missing, Final(d)}
         /\ DayOf(s) = DayOf(t) => Klines(exchange, t)[d] = Final(d)
<1>1. /\ s \in Nat /\ t \in Nat /\ d \in Nat /\ DayOf(s) \in Nat /\ DayOf(t) \in Nat
      /\ DayOf(s) <= DayOf(t) /\ Final(d) # Missing /\ Final(d) \in Nat
  BY DaysRange, LaterDay DEF Final, Missing
<1>2. d <= DayOf(s) /\ DayOf(s) < d + Limit[exchange] /\ ~ (s < Final(d))
  BY <1>1, KlinesOf
<1> QED
  BY <1>1, <1>2, KlinesOf

\* The candles before a final one are final or have left the answers for good.
LEMMA EarlierFinal ==
  ASSUME NEW exchange \in Exchanges, NEW s \in Times,
         NEW d \in Days, Klines(exchange, s)[d] = Final(d), NEW e \in 1..d
  PROVE  /\ e \in Days
         /\ \/ Klines(exchange, s)[e] = Final(e)
            \/ \A t \in Times : s <= t => Klines(exchange, t)[e] = Missing
<1>1. /\ s \in Nat /\ d \in Nat /\ e \in Nat /\ DayOf(s) \in Nat /\ e \in Days
      /\ Final(d) # Missing /\ Final(d) \in Nat /\ Final(e) \in Nat /\ Final(e) <= Final(d)
  BY DaysRange DEF Final, Missing
<1>2. d <= DayOf(s) /\ ~ (s < Final(d)) /\ Limit[exchange] \in Nat
  BY <1>1, KlinesOf
<1>3. CASE DayOf(s) < e + Limit[exchange]
  BY <1>1, <1>2, <1>3, KlinesOf
<1>4. CASE ~ (DayOf(s) < e + Limit[exchange])
  <2>1. ASSUME NEW t \in Times, s <= t PROVE Klines(exchange, t)[e] = Missing
    <3>1. t \in Nat /\ DayOf(t) \in Nat /\ DayOf(s) <= DayOf(t)
      BY <1>1, <2>1, DaysRange, LaterDay
    <3> QED
      BY <1>1, <1>2, <1>4, <3>1, KlinesOf
  <2> QED
    BY <1>1, <2>1
<1> QED
  BY <1>3, <1>4

\* Storing an answer gives a table.
LEMMA UpsertedRange ==
  ASSUME NEW rows \in Tables, NEW answer \in Tables
  PROVE  /\ Upserted(rows, answer) \in Tables
         /\ \A d \in Days : Upserted(rows, answer)[d] =
              IF answer[d] = Missing THEN rows[d] ELSE answer[d]
BY DEF Upserted, Tables
-----------------------------------------------------------------------------
(***************************************************************************)
(* The plans of the goroutines.                                            *)
(***************************************************************************)
\* The k-th step of two nested loops, and the step of a pair of iterations.
LEMMA LoopIndex ==
  ASSUME NEW n \in Nat, NEW m \in Nat, NEW k \in 1..(n * m)
  PROVE  /\ ((k - 1) \div m) + 1 \in 1..n
         /\ ((k - 1) % m) + 1 \in 1..m
<1>1. m > 0 /\ n > 0
  <2>1. n * m >= 1
    OBVIOUS
  <2> QED
    BY <2>1
<1>2. /\ (k - 1) \div m \in Int /\ (k - 1) % m \in 0..(m - 1)
      /\ k - 1 = m * ((k - 1) \div m) + ((k - 1) % m)
  BY <1>1
<1> DEFINE q == (k - 1) \div m
<1>3. q \in Int /\ m * q <= k - 1 /\ k - 1 < m * q + m
  BY <1>1, <1>2
<1> HIDE DEF q
<1>4. q >= 0
  <2>1. SUFFICES ASSUME q <= 0 - 1 PROVE FALSE
    BY <1>3
  <2>2. m * q <= m * (0 - 1)
    BY <1>1, <1>3, <2>1
  <2> QED
    BY <1>1, <1>3, <2>2
<1>5. q < n
  <2>1. SUFFICES ASSUME q >= n PROVE FALSE
    BY <1>3
  <2>2. m * q >= m * n
    BY <1>1, <1>3, <2>1
  <2> QED
    BY <1>1, <1>3, <2>2
<1> QED
  BY <1>1, <1>2, <1>3, <1>4, <1>5 DEF q

Reached(n, m, i, j) ==
  \E k \in 1..(n * m) : ((k - 1) \div m) + 1 = i /\ ((k - 1) % m) + 1 = j

LEMMA LoopStep ==
  ASSUME NEW n \in Nat, NEW m \in Nat, NEW i \in 1..n, NEW j \in 1..m
  PROVE  Reached(n, m, i, j)
<1> DEFINE k == m * (i - 1) + j
<1>1. m * (i - 1) >= 0 /\ m * (i - 1) \in Int
  OBVIOUS
<1>2. m * (i - 1) <= m * (n - 1)
  OBVIOUS
<1>3. m * (n - 1) = n * m - m
  OBVIOUS
<1>4. k \in 1..(n * m)
  BY <1>1, <1>2, <1>3
<1>5. (k - 1) \div m = i - 1 /\ (k - 1) % m = j - 1
  <2>1. /\ (k - 1) \div m \in Int /\ (k - 1) % m \in 0..(m - 1)
        /\ k - 1 = m * ((k - 1) \div m) + ((k - 1) % m)
    BY <1>4
  <2> DEFINE q == (k - 1) \div m
             r == (k - 1) % m
  <2>2. q \in Int /\ r \in 0..(m - 1) /\ m * (i - 1) + (j - 1) = m * q + r
    BY <1>1, <2>1
  <2> HIDE DEF q, r, k
  <2>3. m * (i - 1 - q) = r - (j - 1)
    BY <2>2
  <2>4. i - 1 = q
    <3>1. CASE i - 1 - q >= 1
      <4>1. m * (i - 1 - q) >= m
        BY <2>2, <3>1
      <4> QED
        BY <2>2, <2>3, <4>1
    <3>2. CASE i - 1 - q <= 0 - 1
      <4>1. m * (i - 1 - q) <= 0 - m
        BY <2>2, <3>2
      <4> QED
        BY <2>2, <2>3, <4>1
    <3> QED
      BY <2>2, <3>1, <3>2
  <2>5. r = j - 1
    BY <2>2, <2>4
  <2> QED
    BY <2>4, <2>5 DEF q, r
<1> HIDE DEF k
<1> QED
  BY <1>4, <1>5 DEF Reached

LEMMA NameRange ==
  /\ Coins \in Seq(CoinSet) /\ Others \in Seq(Exchanges)
  /\ Len(Coins) \in Nat /\ DOMAIN Coins = 1..Len(Coins)
  /\ Len(Others) \in Nat /\ DOMAIN Others = 1..Len(Others)
  /\ \A i \in 1..Len(Coins) : Coins[i] \in CoinSet
  /\ \A i \in 1..Len(Others) : Others[i] \in Exchanges
  /\ "binance" \in Exchanges
BY NamesAssumption DEF Exchanges, CoinSet

LEMMA StepRange ==
  ASSUME NEW exchange \in Exchanges, NEW coin \in CoinSet
  PROVE  /\ Sync(exchange, coin) \in Steps /\ Calc(coin) \in Steps
         /\ Sync(exchange, coin).do = "sync" /\ Calc(coin).do = "calc"
<1>1. <<exchange, coin>> \in Markets
  BY DEF Markets
<1>2. Sync(exchange, coin) \in Steps
  BY <1>1 DEF Steps
<1> QED
  BY <1>2 DEF Sync, Calc, Steps

LEMMA StepForm ==
  ASSUME NEW step \in Steps
  PROVE  /\ step.do \in {"sync", "calc"} /\ step.exchange \in Exchanges
         /\ step.coin \in CoinSet
         /\ step.do = "sync" => step = Sync(step.exchange, step.coin)
         /\ step.do = "calc" => step = Calc(step.coin) /\ step.exchange = "binance"
<1>1. CASE \E m \in Markets : step = Sync(m[1], m[2])
  BY <1>1 DEF Markets, Sync
<1>2. CASE \E coin \in CoinSet : step = Calc(coin)
  BY <1>2, NameRange DEF Calc
<1> QED
  BY <1>1, <1>2 DEF Steps

LEMMA Joined ==
  ASSUME NEW a \in Seq(Steps), NEW b \in Seq(Steps)
  PROVE  /\ a \o b \in Seq(Steps)
         /\ Len(a) \in Nat /\ Len(b) \in Nat /\ Len(a \o b) = Len(a) + Len(b)
         /\ DOMAIN (a \o b) = 1..(Len(a) + Len(b))
         /\ \A i \in 1..Len(a) : (a \o b)[i] = a[i]
         /\ \A i \in 1..Len(b) : (a \o b)[Len(a) + i] = b[i]
OBVIOUS

LEMMA RequestPlan ==
  ASSUME NEW exchange \in Exchanges
  PROVE  /\ SyncPlan(exchange) \in Seq(Steps)
         /\ \A i \in DOMAIN SyncPlan(exchange) : SyncPlan(exchange)[i].do = "sync"
<1>1. SyncPlan(exchange) = [i \in 1..Len(Coins) |-> Sync(exchange, Coins[i])]
  BY NameRange DEF SyncPlan
<1>2. \A i \in 1..Len(Coins) : Sync(exchange, Coins[i]) \in Steps
                                /\ Sync(exchange, Coins[i]).do = "sync"
  BY NameRange, StepRange
<1> QED
  BY <1>1, <1>2, NameRange

\* The calculations of a plan: of every coin.
LEMMA CalcRange ==
  /\ CalcPlan \in Seq(Steps) /\ Len(CalcPlan) = Len(Coins)
  /\ \A i \in 1..Len(CalcPlan) : CalcPlan[i].do = "calc"
  /\ \A coin \in CoinSet : \E i \in 1..Len(CalcPlan) : CalcPlan[i] = Calc(coin)
<1>1. CalcPlan = [i \in 1..Len(Coins) |-> Calc(Coins[i])]
  BY NameRange DEF CalcPlan
<1>2. \A i \in 1..Len(Coins) : Calc(Coins[i]) \in Steps /\ Calc(Coins[i]).do = "calc"
  BY NameRange, StepRange
<1>3. \A coin \in CoinSet : \E i \in 1..Len(Coins) : coin = Coins[i]
  BY NameRange DEF CoinSet
<1>4. CalcPlan \in Seq(Steps) /\ Len(CalcPlan) = Len(Coins)
  BY <1>1, <1>2, NameRange
<1> QED
  BY <1>1, <1>2, <1>3, <1>4, NameRange

LEMMA BootRange == BootPlan \in Seq(Steps)
<1> DEFINE n == Len(Coins)
           m == Len(Others)
           A == [k \in 1..(n * m) |->
                  Sync(Others[((k - 1) % m) + 1], Coins[((k - 1) \div m) + 1])]
<1>1. n \in Nat /\ m \in Nat
  BY NameRange
<1>2. BootPlan = A \o CalcPlan
  BY DEF BootPlan, Nested
<1>3. \A k \in 1..(n * m) :
        Sync(Others[((k - 1) % m) + 1], Coins[((k - 1) \div m) + 1]) \in Steps
  <2> TAKE k \in 1..(n * m)
  <2>1. ((k - 1) \div m) + 1 \in 1..n /\ ((k - 1) % m) + 1 \in 1..m
    BY <1>1, LoopIndex
  <2> QED
    BY <2>1, NameRange, StepRange
<1>4. n * m \in Nat
  BY <1>1
<1>5. A \in Seq(Steps)
  <2> HIDE DEF n, m
  <2> QED
    BY <1>3, <1>4
<1> QED
  BY <1>2, <1>5, CalcRange

\* The syncs of the night: of every market.
LEMMA NightSyncRange ==
  /\ NightSyncs \in Seq(Steps)
  /\ \A i \in 1..Len(NightSyncs) : NightSyncs[i].do = "sync"
  /\ \A mk \in Markets : \E i \in 1..Len(NightSyncs) : NightSyncs[i] = Sync(mk[1], mk[2])
<1> DEFINE n == Len(Coins)
           m == Len(Others)
           A == [k \in 1..(n * n) |-> Sync("binance", Coins[((k - 1) % n) + 1])]
           B == [k \in 1..(m * n) |->
                  Sync(Others[((k - 1) \div n) + 1], Coins[((k - 1) % n) + 1])]
<1>1. n \in Nat /\ m \in Nat /\ n * n \in Nat /\ m * n \in Nat
  BY NameRange
<1>2. NightSyncs = A \o B
  BY DEF NightSyncs, Nested
<1>3. ASSUME NEW k \in 1..(n * n)
      PROVE  A[k] \in Steps /\ A[k].do = "sync"
  <2>1. ((k - 1) % n) + 1 \in 1..n
    BY <1>1, LoopIndex
  <2> QED
    BY <2>1, NameRange, StepRange
<1>4. ASSUME NEW k \in 1..(m * n)
      PROVE  B[k] \in Steps /\ B[k].do = "sync"
  <2>1. ((k - 1) \div n) + 1 \in 1..m /\ ((k - 1) % n) + 1 \in 1..n
    BY <1>1, LoopIndex
  <2> QED
    BY <2>1, NameRange, StepRange
<1>5. ASSUME NEW coin \in CoinSet
      PROVE  \E k \in 1..(n * n) : A[k] = Sync("binance", coin)
  <2>1. PICK j \in 1..n : coin = Coins[j]
    BY NameRange DEF CoinSet
  <2>2. PICK k \in 1..(n * n) : ((k - 1) % n) + 1 = j
    <3> HIDE DEF n, m, A, B
    <3>1. Reached(n, n, 1, j)
      BY <1>1, LoopStep
    <3> QED
      BY <3>1, Zenon DEF Reached
  <2> QED
    BY <2>1, <2>2
<1>6. ASSUME NEW coin \in CoinSet, NEW i \in 1..m
      PROVE  \E k \in 1..(m * n) : B[k] = Sync(Others[i], coin)
  <2>1. PICK j \in 1..n : coin = Coins[j]
    BY NameRange DEF CoinSet
  <2>2. PICK k \in 1..(m * n) : ((k - 1) \div n) + 1 = i /\ ((k - 1) % n) + 1 = j
    <3> HIDE DEF n, m, A, B
    <3>1. Reached(m, n, i, j)
      BY <1>1, LoopStep
    <3> QED
      BY <3>1, Zenon DEF Reached
  <2> QED
    BY <2>1, <2>2
<1>7. A \in Seq(Steps) /\ Len(A) = n * n /\ B \in Seq(Steps) /\ Len(B) = m * n
  <2>1. A \in [1..(n * n) -> Steps] /\ B \in [1..(m * n) -> Steps]
    BY <1>3, <1>4
  <2> HIDE DEF A, B, n, m
  <2> QED
    BY <1>1, <2>1
<1>8. ASSUME NEW mk \in Markets
      PROVE  \E i \in 1..Len(A) : A[i] = Sync(mk[1], mk[2])
             \/ \E j \in 1..Len(B) : B[j] = Sync(mk[1], mk[2])
  <2>1. mk[1] \in Exchanges /\ mk[2] \in CoinSet
    BY DEF Markets
  <2>2. mk[1] = "binance" \/ \E i \in 1..m : mk[1] = Others[i]
    BY <2>1, NameRange DEF Exchanges
  <2> QED
    BY <1>5, <1>6, <1>7, <2>1, <2>2
<1> HIDE DEF A, B
<1>9. NightSyncs \in Seq(Steps) /\ Len(NightSyncs) = Len(A) + Len(B)
      /\ (\A i \in 1..Len(A) : NightSyncs[i] = A[i])
      /\ (\A i \in 1..Len(B) : NightSyncs[Len(A) + i] = B[i])
  BY <1>2, <1>7, Joined
<1>10. \A i \in 1..Len(NightSyncs) : NightSyncs[i].do = "sync"
  <2> TAKE i \in 1..Len(NightSyncs)
  <2>1. CASE i \in 1..Len(A)
    BY <1>3, <1>7, <1>9, <2>1
  <2>2. CASE i \notin 1..Len(A)
    <3> HIDE DEF n, m
    <3>1. Len(A) \in Nat /\ Len(B) \in Nat
      BY <1>7
    <3>2. PICK j \in 1..Len(B) : i = Len(A) + j
      <4>1. i - Len(A) \in 1..Len(B) /\ i = Len(A) + (i - Len(A))
        BY <1>9, <2>2, <3>1
      <4> QED
        BY <4>1
    <3>3. NightSyncs[i] = B[j]
      BY <1>9, <3>2
    <3>4. B[j].do = "sync"
      BY <1>4, <1>7, <3>2
    <3> QED
      BY <3>3, <3>4
  <2> QED
    BY <2>1, <2>2
<1>11. ASSUME NEW mk \in Markets
       PROVE  \E i \in 1..Len(NightSyncs) : NightSyncs[i] = Sync(mk[1], mk[2])
  <2>1. CASE \E i \in 1..Len(A) : A[i] = Sync(mk[1], mk[2])
    BY <1>7, <1>9, <2>1
  <2>2. CASE \E j \in 1..Len(B) : B[j] = Sync(mk[1], mk[2])
    <3>1. PICK j \in 1..Len(B) : B[j] = Sync(mk[1], mk[2])
      BY <2>2
    <3>2. Len(A) + j \in 1..Len(NightSyncs)
      BY <1>7, <1>9, <3>1
    <3> QED
      BY <1>9, <3>1, <3>2
  <2> QED
    BY <1>8, <2>1, <2>2
<1> QED
  BY <1>9, <1>10, <1>11

LEMMA NightRange ==
  /\ NightPlan \in Seq(Steps)
  /\ CalcsLast(NightPlan)
  /\ \A mk \in Markets : \E i \in DOMAIN NightPlan : NightPlan[i] = Sync(mk[1], mk[2])
  /\ \A coin \in CoinSet : \E i \in DOMAIN NightPlan : NightPlan[i] = Calc(coin)
<1> DEFINE a == Len(NightSyncs)
           c == Len(CalcPlan)
<1>1. /\ NightPlan \in Seq(Steps) /\ Len(NightPlan) = a + c /\ a \in Nat /\ c \in Nat
      /\ DOMAIN NightPlan = 1..(a + c)
      /\ \A i \in 1..a : NightPlan[i] = NightSyncs[i]
      /\ \A i \in 1..c : NightPlan[a + i] = CalcPlan[i]
  BY NightSyncRange, CalcRange, Joined DEF NightPlan
<1>2. \A i \in 1..a : NightPlan[i].do = "sync"
  BY <1>1, NightSyncRange
<1>3. ASSUME NEW j \in DOMAIN NightPlan, j > a
      PROVE  NightPlan[j].do = "calc"
  <2>1. j - a \in 1..c /\ j = a + (j - a)
    BY <1>1, <1>3
  <2> QED
    BY <1>1, <2>1, CalcRange
<1>4. CalcsLast(NightPlan)
  <2> SUFFICES ASSUME NEW i \in DOMAIN NightPlan, NEW j \in DOMAIN NightPlan,
                      i < j, NightPlan[i].do = "calc"
               PROVE  NightPlan[j].do = "calc"
    BY DEF CalcsLast
  <2>1. ~ (i \in 1..a)
    BY <1>2
  <2>2. j > a
    BY <1>1, <2>1
  <2> QED
    BY <1>3, <2>2
<1>5. ASSUME NEW mk \in Markets
      PROVE  \E i \in DOMAIN NightPlan : NightPlan[i] = Sync(mk[1], mk[2])
  <2>1. PICK i \in 1..a : NightSyncs[i] = Sync(mk[1], mk[2])
    BY NightSyncRange
  <2>2. i \in DOMAIN NightPlan /\ NightPlan[i] = NightSyncs[i]
    BY <1>1
  <2> QED
    BY <2>1, <2>2
<1>6. ASSUME NEW coin \in CoinSet
      PROVE  \E i \in DOMAIN NightPlan : NightPlan[i] = Calc(coin)
  <2>1. PICK i \in 1..c : CalcPlan[i] = Calc(coin)
    BY CalcRange
  <2>2. a + i \in DOMAIN NightPlan /\ NightPlan[a + i] = CalcPlan[i]
    BY <1>1
  <2> QED
    BY <2>1, <2>2
<1> QED
  BY <1>1, <1>4, <1>5, <1>6
-----------------------------------------------------------------------------
(***************************************************************************)
(* The type invariant.                                                     *)
(***************************************************************************)
LEMMA TablesRange ==
  ASSUME NEW rows \in Tables
  PROVE  /\ rows \in [Days -> Nat]
         /\ \A d \in Days : rows[d] \in Nat /\ Upto(rows, d) \in [1..d -> Nat]
BY DaysRange DEF Tables, Upto

LEMMA NightDay ==
  ASSUME NEW t \in Nat
  PROVE  NextNight(t) \in Nat
<1>1. DayOf(t) \in Nat /\ DayOf(t) + 1 \in Nat
  BY DayRange
<1> QED
  BY <1>1 DEF NextNight

LEMMA NowRange ==
  ASSUME TypeOK
  PROVE  now \in Times /\ now \in Nat
BY SizesAssumption DEF TypeOK, Times

LEMMA StepOf ==
  ASSUME TypeOK, NEW w \in Workers, ~ Idle(w)
  PROVE  /\ Len(todo[w]) \in Nat \ {0} /\ DOMAIN todo[w] = 1..Len(todo[w])
         /\ Step(w) = todo[w][1] /\ 1 \in DOMAIN todo[w]
         /\ Step(w).do \in {"sync", "calc"}
         /\ Step(w).exchange \in Exchanges /\ Step(w).coin \in CoinSet
         /\ MarketOf(w) \in Markets
         /\ MarketOf(w)[1] = Step(w).exchange /\ MarketOf(w)[2] = Step(w).coin
         /\ Step(w).do = "sync" => Step(w) = Sync(MarketOf(w)[1], MarketOf(w)[2])
         /\ Step(w).do = "calc" =>
              Step(w) = Calc(Step(w).coin) /\ MarketOf(w) = <<"binance", Step(w).coin>>
<1>1. todo[w] \in Seq(Steps) /\ todo[w] # << >>
  BY DEF TypeOK, Idle
<1>2. Len(todo[w]) \in Nat \ {0} /\ DOMAIN todo[w] = 1..Len(todo[w])
      /\ Head(todo[w]) = todo[w][1] /\ todo[w][1] \in Steps /\ 1 \in DOMAIN todo[w]
  BY <1>1
<1> QED
  BY <1>2, StepForm DEF Step, MarketOf, Markets

\* When a step is done: the goroutine holds nothing, and its other steps are left.
LEMMA Finished ==
  ASSUME TInv, NEW w \in Workers, ~ Idle(w), Finishes(w)
  PROVE  /\ todo' \in [Workers -> Seq(Steps)]
         /\ got' \in [Workers -> {Nothing} \cup Tables]
         /\ \A v \in Workers : v # w => todo'[v] = todo[v] /\ got'[v] = got[v]
         /\ got'[w] = Nothing
         /\ DOMAIN todo'[w] = 1..(Len(todo[w]) - 1)
         /\ Len(todo'[w]) = Len(todo[w]) - 1
         /\ \A i \in DOMAIN todo'[w] :
              i + 1 \in DOMAIN todo[w] /\ todo'[w][i] = todo[w][i + 1]
<1>1. todo[w] \in Seq(Steps) /\ todo[w] # << >> /\ todo \in [Workers -> Seq(Steps)]
  BY DEF TInv, TypeOK, Idle
<1>2. Tail(todo[w]) \in Seq(Steps) /\ Len(Tail(todo[w])) = Len(todo[w]) - 1
      /\ DOMAIN Tail(todo[w]) = 1..(Len(todo[w]) - 1)
      /\ Len(todo[w]) \in Nat /\ DOMAIN todo[w] = 1..Len(todo[w])
      /\ \A i \in 1..(Len(todo[w]) - 1) : Tail(todo[w])[i] = todo[w][i + 1]
  BY <1>1
<1>3. todo' = [todo EXCEPT ![w] = Tail(todo[w])] /\ got' = [got EXCEPT ![w] = Nothing]
  BY DEF Finishes
<1>4. got \in [Workers -> {Nothing} \cup Tables]
  <2>1. DOMAIN got = Workers /\ got = [v \in Workers |-> got[v]]
    BY DEF TInv, TypeOK
  <2>2. \A v \in Workers : got[v] \in {Nothing} \cup Tables
    BY DEF TInv, LocalsOK
  <2> QED
    BY <2>1, <2>2
<1>5. todo'[w] = Tail(todo[w]) /\ todo' \in [Workers -> Seq(Steps)]
      /\ \A v \in Workers : v # w => todo'[v] = todo[v]
  BY <1>1, <1>2, <1>3
<1>6. got' \in [Workers -> {Nothing} \cup Tables] /\ got'[w] = Nothing
      /\ \A v \in Workers : v # w => got'[v] = got[v]
  BY <1>3, <1>4
<1>7. \A i \in 1..(Len(todo[w]) - 1) :
        i + 1 \in 1..Len(todo[w]) /\ Tail(todo[w])[i] = todo[w][i + 1]
  BY <1>2
<1> QED
  BY <1>2, <1>5, <1>6, <1>7

\* What the goroutines hold is well-formed again.
LEMMA FinishedLocals ==
  ASSUME TInv, NEW w \in Workers, ~ Idle(w), Finishes(w), up' = up
  PROVE  LocalsOK'
<1> USE Finished
<1>1. ASSUME NEW v \in Workers
      PROVE  got'[v] \in {Nothing} \cup Tables /\ (Idle(v)' => got'[v] = Nothing)
  BY <1>1 DEF TInv, LocalsOK, Idle
<1>2. ASSUME NEW v \in Clients \cup {"backfill"}, NEW i \in DOMAIN todo'[v]
      PROVE  todo'[v][i].do = "sync"
  <2>1. v \in Workers
    BY DEF Workers, Server
  <2>2. \A j \in DOMAIN todo[v] : todo[v][j].do = "sync"
    BY DEF TInv, LocalsOK
  <2>3. CASE v = w
    <3>1. i + 1 \in DOMAIN todo[v] /\ todo'[v][i] = todo[v][i + 1]
      BY <1>2, <2>3
    <3> QED
      BY <2>2, <3>1
  <2>4. CASE v # w
    <3>1. todo'[v] = todo[v]
      BY <2>1, <2>4
    <3> QED
      BY <1>2, <2>2, <3>1
  <2> QED
    BY <2>3, <2>4
<1>3. ASSUME ~ up', NEW v \in Server
      PROVE  Idle(v)'
  <2>1. v \in Workers /\ Idle(v)
    BY <1>3 DEF Workers, TInv, LocalsOK
  <2> QED
    BY <2>1 DEF Idle
<1> QED
  BY <1>1, <1>2, <1>3 DEF LocalsOK

LEMMA GotRange ==
  ASSUME TInv
  PROVE  /\ got \in [Workers -> {Nothing} \cup Tables]
         /\ got \in [Workers -> {Nothing} \cup [Days -> Nat]]
         /\ \A w \in Workers : got[w] # Nothing => got[w] \in Tables
<1>1. got \in [Workers -> {Nothing} \cup [Days -> Nat]]
  BY DEF TInv, TypeOK
<1>2. \A v \in Workers : got[v] \in {Nothing} \cup Tables
  BY DEF TInv, LocalsOK
<1> QED
  BY <1>1, <1>2

LEMMA SettledRange ==
  ASSUME TInv, NEW w \in Workers, Sleeps(w)
  PROVE  due' \in Nat /\ clean' \in Nat /\ settled' \subseteq Days
<1>1. NextNight(now) \in Nat
  BY NowRange, NightDay DEF TInv
<1>2. Closed(clean, now) \subseteq Days
  BY DEF Closed
<1>3. due \in Nat /\ clean \in Nat /\ settled \subseteq Days
  BY DEF TInv, TypeOK
<1>4. CASE w = "nightly" /\ Len(todo[w]) = 1
  BY <1>1, <1>2, <1>3, <1>4 DEF Sleeps
<1>5. CASE ~ (w = "nightly" /\ Len(todo[w]) = 1)
  BY <1>3, <1>5 DEF Sleeps
<1> QED
  BY <1>4, <1>5

LEMMA TypeInit ==
  ASSUME Init
  PROVE  TInv
<1>1. TypeOK
  <2>1. now \in FirstTime..LastTime /\ up \in BOOLEAN
    BY SizesAssumption DEF Init
  <2>2. NoRows \in Tables
    BY DaysRange DEF NoRows, Tables, CandlesOf, Missing
  <2>3. DOMAIN candles = Markets /\ \A m \in Markets : candles[m] \in Tables
    BY <2>2 DEF Init
  <2>4. /\ DOMAIN indicators = CoinSet
        /\ \A coin \in CoinSet : \A d \in Days :
             indicators[coin][d] \in {Nothing} \cup [1..d -> Nat]
    BY DEF Init
  <2>5. todo \in [Workers -> Seq(Steps)]
    <3>1. << >> \in Seq(Steps)
      OBVIOUS
    <3> QED
      BY <3>1, BootRange DEF Init
  <2>6. got \in [Workers -> {Nothing} \cup [Days -> Nat]]
    BY DEF Init
  <2>7. due \in Nat /\ requests \in Nat /\ faults \in Nat /\ clean \in Nat
        /\ settled \subseteq Days
    <3>1. NextNight(FirstTime) \in Nat
      BY SizesAssumption, NightDay
    <3> QED
      BY <3>1 DEF Init
  <2> QED
    BY <2>1, <2>3, <2>4, <2>5, <2>6, <2>7 DEF TypeOK
<1>2. LocalsOK
  <2>1. \A w \in Workers : got[w] = Nothing
    BY DEF Init
  <2>2. \A w \in Clients \cup {"backfill"} : todo[w] = << >>
    BY NamesAssumption DEF Init, Workers, Server
  <2> QED
    BY <2>1, <2>2 DEF LocalsOK, Init
<1> QED
  BY <1>1, <1>2 DEF TInv

LEMMA TypeFetch ==
  ASSUME TInv, NEW w \in Workers, Fetch(w) \/ ReadCandles(w)
  PROVE  TInv'
<1>1. PICK answer \in Tables : got' = [got EXCEPT ![w] = answer]
  <2>1. CASE Fetch(w)
    <3>1. Klines(Step(w).exchange, now) \in Tables
      BY <2>1, StepOf, NowRange, KlinesRange DEF Fetch, TInv
    <3> QED
      BY <2>1, <3>1 DEF Fetch
  <2>2. CASE ReadCandles(w)
    <3>1. candles[MarketOf(w)] \in Tables
      BY <2>2, StepOf DEF ReadCandles, TInv, TypeOK
    <3> QED
      BY <2>2, <3>1 DEF ReadCandles
  <2> QED
    BY <2>1, <2>2
<1>2. /\ ~ Idle(w)
      /\ UNCHANGED <<now, up, candles, indicators, todo, due, requests, faults,
                     clean, settled>>
  BY DEF Fetch, ReadCandles, tables, history
<1>3. got' \in [Workers -> {Nothing} \cup [Days -> Nat]]
  BY <1>1, GotRange, TablesRange
<1>4. \A v \in Workers : got'[v] = IF v = w THEN answer ELSE got[v]
  BY <1>1, GotRange
<1>5. TypeOK'
  BY <1>2, <1>3 DEF TInv, TypeOK
<1>6. LocalsOK'
  <2>1. ASSUME NEW v \in Workers
        PROVE  got'[v] \in {Nothing} \cup Tables /\ (Idle(v)' => got'[v] = Nothing)
    BY <1>2, <1>4 DEF TInv, LocalsOK, Idle
  <2>2. \A v \in Clients \cup {"backfill"} : \A i \in DOMAIN todo'[v] :
          todo'[v][i].do = "sync"
    BY <1>2 DEF TInv, LocalsOK
  <2>3. ~ up' => \A v \in Server : Idle(v)'
    BY <1>2 DEF TInv, LocalsOK, Idle
  <2> QED
    BY <2>1, <2>2, <2>3 DEF LocalsOK
<1> QED
  BY <1>5, <1>6 DEF TInv

LEMMA TypeStore ==
  ASSUME TInv, NEW w \in Workers, Store(w)
  PROVE  TInv'
<1>1. ~ Idle(w) /\ Finishes(w) /\ Sleeps(w) /\ UNCHANGED <<now, up, indicators, requests, faults>>
      /\ candles' = [candles EXCEPT ![MarketOf(w)] = Upserted(candles[MarketOf(w)], got[w])]
  BY DEF Store
<1>2. got[w] \in Tables /\ MarketOf(w) \in Markets /\ candles[MarketOf(w)] \in Tables
  BY GotRange, StepOf DEF Store, TInv, TypeOK
<1>3. Upserted(candles[MarketOf(w)], got[w]) \in Tables
  BY <1>2, UpsertedRange
<1>4. DOMAIN candles' = Markets /\ \A m \in Markets : candles'[m] \in Tables
  BY <1>1, <1>2, <1>3 DEF TInv, TypeOK
<1>5. got' \in [Workers -> {Nothing} \cup [Days -> Nat]]
  <2>1. got' = [got EXCEPT ![w] = Nothing]
    BY <1>1 DEF Finishes
  <2> QED
    BY <2>1, GotRange
<1>6. TypeOK'
  BY <1>1, <1>4, <1>5, Finished, SettledRange DEF TInv, TypeOK
<1> QED
  BY <1>1, <1>6, FinishedLocals DEF TInv

LEMMA TypeIndicators ==
  ASSUME TInv, NEW w \in Workers, StoreIndicators(w)
  PROVE  TInv'
<1>1. ~ Idle(w) /\ Finishes(w) /\ Sleeps(w) /\ UNCHANGED <<now, up, candles, requests, faults>>
      /\ indicators' = [indicators EXCEPT ![Step(w).coin] =
           [d \in Days |-> IF got[w][d] = Missing THEN indicators[Step(w).coin][d]
                           ELSE Upto(got[w], d)]]
  BY DEF StoreIndicators
<1>2. got[w] \in Tables /\ Step(w).coin \in CoinSet
  BY GotRange, StepOf DEF StoreIndicators, TInv
<1>3. \A d \in Days : Upto(got[w], d) \in [1..d -> Nat]
  BY <1>2, TablesRange
<1>4. DOMAIN indicators' = CoinSet
  BY <1>1 DEF TInv, TypeOK
<1>5. ASSUME NEW coin \in CoinSet, NEW d \in Days
      PROVE  indicators'[coin][d] \in {Nothing} \cup [1..d -> Nat]
  <2>1. indicators[coin][d] \in {Nothing} \cup [1..d -> Nat]
    BY DEF TInv, TypeOK
  <2>2. CASE coin # Step(w).coin
    BY <1>1, <1>2, <2>1, <2>2 DEF TInv, TypeOK
  <2>3. CASE coin = Step(w).coin
    <3>1. indicators'[coin][d] = IF got[w][d] = Missing THEN indicators[coin][d]
                                 ELSE Upto(got[w], d)
      BY <1>1, <1>2, <2>3 DEF TInv, TypeOK
    <3> QED
      BY <1>3, <2>1, <3>1
  <2> QED
    BY <2>2, <2>3
<1>6. got' \in [Workers -> {Nothing} \cup [Days -> Nat]]
  <2>1. got' = [got EXCEPT ![w] = Nothing]
    BY <1>1 DEF Finishes
  <2> QED
    BY <2>1, GotRange
<1>7. TypeOK'
  <2>1. now' \in FirstTime..LastTime /\ up' \in BOOLEAN /\ requests' \in Nat /\ faults' \in Nat
        /\ DOMAIN candles' = Markets /\ \A m \in Markets : candles'[m] \in Tables
    BY <1>1 DEF TInv, TypeOK
  <2>2. todo' \in [Workers -> Seq(Steps)]
    BY <1>1, Finished
  <2>3. due' \in Nat /\ clean' \in Nat /\ settled' \subseteq Days
    BY <1>1, SettledRange
  <2> QED
    BY <1>4, <1>5, <1>6, <2>1, <2>2, <2>3 DEF TypeOK
<1> QED
  BY <1>1, <1>7, FinishedLocals DEF TInv

LEMMA TypeFail ==
  ASSUME TInv, NEW w \in Workers, FailStep(w)
  PROVE  TInv'
<1>1. ~ Idle(w) /\ Finishes(w) /\ UNCHANGED <<now, up, candles, indicators, requests, settled>>
      /\ faults' = faults + 1
  BY DEF FailStep, tables
<1>2. due' \in Nat /\ clean' \in Nat
  <2>1. NextNight(now) \in Nat
    BY NowRange, NightDay DEF TInv
  <2>2. due' = NextNight(now) \/ due' = due
    BY DEF FailStep
  <2>3. clean' = 0 \/ clean' = clean
    BY DEF FailStep
  <2> QED
    BY <2>1, <2>2, <2>3 DEF TInv, TypeOK
<1>3. got' \in [Workers -> {Nothing} \cup [Days -> Nat]]
  <2>1. got' = [got EXCEPT ![w] = Nothing]
    BY <1>1 DEF Finishes
  <2> QED
    BY <2>1, GotRange
<1>4. TypeOK'
  <2>1. faults' \in Nat
    BY <1>1 DEF TInv, TypeOK
  <2> QED
    BY <1>1, <1>2, <1>3, <2>1, Finished DEF TInv, TypeOK
<1> QED
  BY <1>1, <1>4, FinishedLocals DEF TInv

LEMMA TypeBegins ==
  ASSUME TInv, NEW w \in Workers, NEW plan \in Seq(Steps), Begins(w, plan),
         requests' \in Nat, clean' \in Nat, due' = due,
         w \in Server => up,
         w \in Clients \cup {"backfill"} => \A i \in DOMAIN plan : plan[i].do = "sync"
  PROVE  TInv'
<1>1. Idle(w) /\ todo' = [todo EXCEPT ![w] = plan]
      /\ UNCHANGED <<now, up, candles, indicators, got, faults, settled>>
  BY DEF Begins, tables
<1>2. todo' \in [Workers -> Seq(Steps)]
      /\ \A v \in Workers : todo'[v] = IF v = w THEN plan ELSE todo[v]
  BY <1>1 DEF TInv, TypeOK
<1>3. TypeOK'
  BY <1>1, <1>2 DEF TInv, TypeOK
<1>4. LocalsOK'
  <2>1. ASSUME NEW v \in Workers
        PROVE  got'[v] \in {Nothing} \cup Tables /\ (Idle(v)' => got'[v] = Nothing)
    BY <1>1, <1>2 DEF TInv, LocalsOK, Idle
  <2>2. ASSUME NEW v \in Clients \cup {"backfill"}, NEW i \in DOMAIN todo'[v]
        PROVE  todo'[v][i].do = "sync"
    <3>1. v \in Workers
      BY DEF Workers, Server
    <3> QED
      BY <1>2, <2>2, <3>1 DEF TInv, LocalsOK
  <2>3. ASSUME ~ up', NEW v \in Server
        PROVE  Idle(v)'
    BY <1>1, <1>2, <2>3 DEF TInv, LocalsOK, Idle, Workers
  <2> QED
    BY <2>1, <2>2, <2>3 DEF LocalsOK
<1> QED
  BY <1>3, <1>4 DEF TInv

LEMMA TypeStep ==
  ASSUME TInv, [Next]_vars
  PROVE  TInv'
<1>1. ASSUME NEW w \in Workers, Work(w)
      PROVE  TInv'
  BY <1>1, TypeFetch, TypeStore, TypeIndicators, TypeFail DEF Work
<1>2. CASE Wake
  <2>1. "nightly" \in Workers /\ "nightly" \in Server /\ "nightly" \notin Clients \cup {"backfill"}
    BY NamesAssumption DEF Workers, Server
  <2>2. /\ up /\ Begins("nightly", NightPlan) /\ due' = due /\ requests' = requests
        /\ clean' = IF OnlyWorker("nightly") THEN now ELSE 0
    BY <1>2 DEF Wake
  <2>3. requests' \in Nat /\ clean' \in Nat
    BY <2>2, NowRange DEF TInv, TypeOK
  <2> QED
    BY <2>1, <2>2, <2>3, NightRange, TypeBegins
<1>3. ASSUME NEW w \in Clients \cup {"backfill"}, NEW exchange \in Exchanges, Request(w, exchange)
      PROVE  TInv'
  <2>1. w \in Workers /\ (w \in Server => w # "backfill")
    BY NamesAssumption DEF Workers, Server
  <2>2. /\ requests' = requests + 1 /\ due' = due /\ clean' = clean
        /\ Begins(w, SyncPlan(exchange)) /\ (w = "backfill" \/ up)
    BY <1>3 DEF Request
  <2>3. requests' \in Nat /\ clean' \in Nat
    BY <2>2 DEF TInv, TypeOK
  <2> QED
    BY <2>1, <2>2, <2>3, RequestPlan, TypeBegins
<1>4. CASE Die
  <2>1. /\ up' = FALSE /\ faults' = faults + 1 /\ clean' = 0
        /\ todo' = [w \in Workers |-> IF w \in Server THEN << >> ELSE todo[w]]
        /\ got' = [w \in Workers |-> IF w \in Server THEN Nothing ELSE got[w]]
        /\ UNCHANGED <<now, candles, indicators, due, requests, settled>>
    BY <1>4 DEF Die, tables
  <2>2. << >> \in Seq(Steps)
    OBVIOUS
  <2>3. todo' \in [Workers -> Seq(Steps)]
    BY <2>1, <2>2 DEF TInv, TypeOK
  <2>4. got' \in [Workers -> {Nothing} \cup [Days -> Nat]]
    BY <2>1, GotRange
  <2>5. TypeOK'
    <3>1. faults' \in Nat /\ clean' \in Nat /\ up' \in BOOLEAN
      <4>1. faults' = faults + 1 /\ clean' = 0
        BY <2>1, Zenon
      <4>2. up' \in BOOLEAN
        BY <2>1, Zenon
      <4> QED
        BY <4>1, <4>2 DEF TInv, TypeOK
    <3>2. /\ now' \in FirstTime..LastTime /\ due' \in Nat /\ requests' \in Nat
          /\ settled' \subseteq Days
          /\ DOMAIN candles' = Markets /\ \A m \in Markets : candles'[m] \in Tables
          /\ DOMAIN indicators' = CoinSet
          /\ \A coin \in CoinSet : \A d \in Days :
               indicators'[coin][d] \in {Nothing} \cup [1..d -> Nat]
      BY <2>1 DEF TInv, TypeOK
    <3> QED
      BY <2>3, <2>4, <3>1, <3>2 DEF TypeOK
  <2>6. LocalsOK'
    <3>1. ASSUME NEW v \in Workers
          PROVE  got'[v] \in {Nothing} \cup Tables /\ (Idle(v)' => got'[v] = Nothing)
      BY <2>1 DEF TInv, LocalsOK, Idle
    <3>2. ASSUME NEW v \in Clients \cup {"backfill"}, NEW i \in DOMAIN todo'[v]
          PROVE  todo'[v][i].do = "sync"
      <4>1. v \in Workers /\ \A j \in DOMAIN todo[v] : todo[v][j].do = "sync"
        BY DEF Workers, Server, TInv, LocalsOK
      <4>2. CASE v \in Server
        BY <2>1, <3>2, <4>1, <4>2
      <4>3. CASE v \notin Server
        BY <2>1, <3>2, <4>1, <4>3
      <4> QED
        BY <4>2, <4>3
    <3>3. ASSUME NEW v \in Server
          PROVE  Idle(v)'
      BY <2>1 DEF Workers, Idle
    <3> QED
      BY <3>1, <3>2, <3>3 DEF LocalsOK
  <2> QED
    BY <2>5, <2>6 DEF TInv
<1>5. CASE Start
  <2>1. /\ up' = TRUE /\ todo' = [todo EXCEPT !["boot"] = BootPlan] /\ due' = NextNight(now)
        /\ UNCHANGED <<now, candles, indicators, got, requests, faults, clean, settled>>
    BY <1>5 DEF Start, tables, history
  <2>2. todo' \in [Workers -> Seq(Steps)]
        /\ \A v \in Workers : v # "boot" => todo'[v] = todo[v]
    BY <2>1, BootRange DEF TInv, TypeOK
  <2>3. due' \in Nat
    BY <2>1, NowRange, NightDay DEF TInv
  <2>4. TypeOK'
    BY <2>1, <2>2, <2>3 DEF TInv, TypeOK
  <2>5. LocalsOK'
    <3>1. got'["boot"] = Nothing
      <4>1. "boot" \in Server /\ "boot" \in Workers
        BY DEF Workers, Server
      <4> QED
        BY <1>5, <2>1, <4>1 DEF Start, TInv, LocalsOK
    <3>2. ASSUME NEW v \in Workers
          PROVE  got'[v] \in {Nothing} \cup Tables /\ (Idle(v)' => got'[v] = Nothing)
      BY <2>1, <2>2, <3>1 DEF TInv, LocalsOK, Idle
    <3>3. ASSUME NEW v \in Clients \cup {"backfill"}, NEW i \in DOMAIN todo'[v]
          PROVE  todo'[v][i].do = "sync"
      <4>1. v \in Workers /\ v # "boot"
        BY NamesAssumption DEF Workers, Server
      <4> QED
        BY <2>2, <3>3, <4>1 DEF TInv, LocalsOK
    <3> QED
      BY <2>1, <3>2, <3>3 DEF LocalsOK
  <2> QED
    BY <2>4, <2>5 DEF TInv
<1>6. CASE Tick
  <2>1. /\ now < LastTime /\ now' = now + 1
        /\ UNCHANGED <<up, candles, indicators, todo, got, due, requests, faults, clean, settled>>
    BY <1>6 DEF Tick, tables, history
  <2>2. now' \in FirstTime..LastTime
    BY <2>1, SizesAssumption DEF TInv, TypeOK
  <2> QED
    BY <2>1, <2>2 DEF TInv, TypeOK, LocalsOK, Idle
<1>7. CASE UNCHANGED vars
  BY <1>7 DEF vars, tables, history, TInv, TypeOK, LocalsOK, Idle
<1> QED
  BY <1>1, <1>2, <1>3, <1>4, <1>5, <1>6, <1>7 DEF Next

\* For every number of coins, exchanges and goroutines the state keeps its shape: a row
\* of daily_prices and its siblings is a candle of its own day, however the goroutines
\* interleave, fail and die.
THEOREM TypeCorrect == Spec => []TypeOK
<1>1. Init => TInv
  BY TypeInit
<1>2. TInv /\ [Next]_vars => TInv'
  BY TypeStep
<1>3. TInv => TypeOK
  BY DEF TInv
<1> QED
  BY <1>1, <1>2, <1>3, PTL DEF Spec
-----------------------------------------------------------------------------
(***************************************************************************)
(* What a step can do to what a goroutine holds, to a table and to the     *)
(* indicators.                                                             *)
(***************************************************************************)
Takes(v) ==
  /\ ~ Idle(v) /\ got[v] = Nothing
  /\ got' = [got EXCEPT ![v] = IF Step(v).do = "sync" THEN Klines(Step(v).exchange, now)
                               ELSE candles[MarketOf(v)]]
  /\ UNCHANGED <<now, up, candles, indicators, todo, clean, settled>>

LEMMA TakeStep ==
  ASSUME TInv, NEW v \in Workers, Fetch(v) \/ ReadCandles(v)
  PROVE  Takes(v)
<1>1. "calc" # "sync"
  OBVIOUS
<1>2. CASE Fetch(v)
  BY <1>2 DEF Fetch, Takes, tables, history
<1>3. CASE ReadCandles(v)
  BY <1>1, <1>3 DEF ReadCandles, Takes, tables, history
<1> QED
  BY <1>2, <1>3

LEMMA HoldStep ==
  ASSUME TInv, [Next]_vars, NEW v \in Workers
  PROVE  \/ Takes(v)
         \/ todo'[v] = todo[v] /\ got'[v] = got[v]
         \/ got'[v] = Nothing
<1>1. ASSUME NEW w \in Workers, Work(w)
      PROVE  Takes(v) \/ (todo'[v] = todo[v] /\ got'[v] = got[v]) \/ got'[v] = Nothing
  <2>1. CASE Fetch(w) \/ ReadCandles(w)
    <3>1. Takes(w)
      BY <2>1, TakeStep
    <3>2. v # w => todo'[v] = todo[v] /\ got'[v] = got[v]
      BY <3>1, GotRange DEF Takes
    <3> QED
      BY <3>1, <3>2
  <2>2. CASE Store(w) \/ StoreIndicators(w) \/ FailStep(w)
    <3>1. ~ Idle(w) /\ Finishes(w)
      BY <2>2 DEF Store, StoreIndicators, FailStep
    <3> QED
      BY <3>1, Finished
  <2> QED
    BY <1>1, <2>1, <2>2 DEF Work
<1>2. ASSUME NEW w \in Workers, NEW plan, Begins(w, plan)
      PROVE  (todo'[v] = todo[v] /\ got'[v] = got[v]) \/ got'[v] = Nothing
  <2>1. todo' = [todo EXCEPT ![w] = plan] /\ got' = got /\ got[w] = Nothing
    BY <1>2 DEF Begins, TInv, LocalsOK
  <2> QED
    BY <2>1 DEF TInv, TypeOK
<1>3. CASE Wake
  <2>1. "nightly" \in Workers
    BY DEF Workers, Server
  <2> QED
    BY <1>2, <1>3, <2>1 DEF Wake
<1>4. ASSUME NEW w \in Clients \cup {"backfill"}, NEW exchange \in Exchanges, Request(w, exchange)
      PROVE  (todo'[v] = todo[v] /\ got'[v] = got[v]) \/ got'[v] = Nothing
  <2>1. w \in Workers
    BY DEF Workers, Server
  <2> QED
    BY <1>2, <1>4, <2>1 DEF Request
<1>5. CASE Die
  <2>1. /\ todo'[v] = IF v \in Server THEN << >> ELSE todo[v]
        /\ got'[v] = IF v \in Server THEN Nothing ELSE got[v]
    BY <1>5 DEF Die
  <2> QED
    BY <2>1
<1>6. CASE Start
  <2>1. todo' = [todo EXCEPT !["boot"] = BootPlan] /\ got' = got
    BY <1>6 DEF Start
  <2>2. v = "boot" => got[v] = Nothing
    BY <1>6 DEF Start, TInv, LocalsOK, Server
  <2>3. v # "boot" => todo'[v] = todo[v]
    BY <2>1 DEF TInv, TypeOK
  <2> QED
    BY <2>1, <2>2, <2>3
<1>7. CASE Tick \/ UNCHANGED vars
  BY <1>7 DEF Tick, vars
<1> QED
  BY <1>1, <1>3, <1>4, <1>5, <1>6, <1>7 DEF Next

\* Who holds an answer for m held it, or has just fetched it.
LEMMA StoringStep ==
  ASSUME TInv, [Next]_vars, NEW v \in Workers, NEW m \in Markets, Storing(v, m)'
  PROVE  \/ Takes(v) /\ got'[v] = Klines(m[1], now)
         \/ Storing(v, m) /\ todo'[v] = todo[v] /\ got'[v] = got[v]
<1>1. todo'[v] # << >> /\ Head(todo'[v]).do = "sync" /\ got'[v] # Nothing
      /\ <<Head(todo'[v]).exchange, Head(todo'[v]).coin>> = m
  BY DEF Storing, Idle, Step, MarketOf
<1>2. CASE Takes(v)
  <2>1. todo'[v] = todo[v]
    BY <1>2 DEF Takes
  <2>2. got'[v] = IF Step(v).do = "sync" THEN Klines(Step(v).exchange, now)
                  ELSE candles[MarketOf(v)]
    BY <1>2, GotRange DEF Takes
  <2>3. Step(v).do = "sync" /\ m[1] = Step(v).exchange
    BY <1>1, <2>1 DEF Step
  <2> QED
    BY <1>2, <2>2, <2>3
<1>3. CASE todo'[v] = todo[v] /\ got'[v] = got[v]
  BY <1>1, <1>3 DEF Storing, Idle, Step, MarketOf
<1> QED
  BY <1>1, <1>2, <1>3, HoldStep

\* Who computes indicators of a coin did so, or has just read its candles.
LEMMA ComputingStep ==
  ASSUME TInv, [Next]_vars, NEW v \in Workers, NEW coin \in CoinSet, Computing(v, coin)'
  PROVE  \/ Takes(v) /\ got'[v] = Stored(coin)
         \/ Computing(v, coin) /\ todo'[v] = todo[v] /\ got'[v] = got[v]
<1>1. todo'[v] # << >> /\ Head(todo'[v]).do = "calc" /\ got'[v] # Nothing
      /\ Head(todo'[v]).coin = coin
  BY DEF Computing, Idle, Step
<1>2. CASE Takes(v)
  <2>1. todo'[v] = todo[v] /\ ~ Idle(v)
    BY <1>2 DEF Takes
  <2>2. got'[v] = IF Step(v).do = "sync" THEN Klines(Step(v).exchange, now)
                  ELSE candles[MarketOf(v)]
    BY <1>2, GotRange DEF Takes
  <2>3. Step(v).do = "calc" /\ coin = Step(v).coin
    BY <1>1, <2>1 DEF Step
  <2>4. MarketOf(v) = <<"binance", coin>>
    BY <2>1, <2>3, StepOf DEF TInv
  <2> QED
    BY <1>2, <2>2, <2>3, <2>4 DEF Stored
<1>3. CASE todo'[v] = todo[v] /\ got'[v] = got[v]
  BY <1>1, <1>3 DEF Computing, Idle, Step
<1> QED
  BY <1>1, <1>2, <1>3, HoldStep

\* The rows of a market change only when an answer for it is stored.
LEMMA RowStep ==
  ASSUME TInv, [Next]_vars, NEW m \in Markets
  PROVE  \/ candles'[m] = candles[m]
         \/ \E w \in Workers : /\ Storing(w, m) /\ Store(w)
                               /\ candles'[m] = Upserted(candles[m], got[w])
<1>1. ASSUME NEW w \in Workers, Store(w)
      PROVE  candles'[m] = candles[m]
             \/ (Storing(w, m) /\ candles'[m] = Upserted(candles[m], got[w]))
  <2>1. candles' = [candles EXCEPT ![MarketOf(w)] = Upserted(candles[MarketOf(w)], got[w])]
        /\ ~ Idle(w) /\ Step(w).do = "sync" /\ got[w] # Nothing
    BY <1>1 DEF Store
  <2>2. DOMAIN candles = Markets
    BY DEF TInv, TypeOK
  <2>3. CASE MarketOf(w) = m
    BY <2>1, <2>2, <2>3 DEF Storing
  <2>4. CASE MarketOf(w) # m
    BY <2>1, <2>2, <2>4
  <2> QED
    BY <2>3, <2>4
<1>2. CASE candles' = candles
  BY <1>2
<1>3. candles' = candles \/ \E w \in Workers : Store(w)
  BY DEF Next, Work, Fetch, ReadCandles, StoreIndicators, FailStep, Wake, Request, Begins,
         Die, Start, Tick, vars, tables
<1> QED
  BY <1>1, <1>2, <1>3

\* The indicators of a coin change only when computed ones are stored.
LEMMA IndicatorStep ==
  ASSUME TInv, [Next]_vars, NEW coin \in CoinSet
  PROVE  \/ indicators'[coin] = indicators[coin]
         \/ \E w \in Workers :
              /\ Computing(w, coin) /\ StoreIndicators(w) /\ candles' = candles
              /\ \A d \in Days : indicators'[coin][d] =
                   IF got[w][d] = Missing THEN indicators[coin][d] ELSE Upto(got[w], d)
<1>1. ASSUME NEW w \in Workers, StoreIndicators(w)
      PROVE  indicators'[coin] = indicators[coin]
             \/ (/\ Computing(w, coin) /\ candles' = candles
                 /\ \A d \in Days : indicators'[coin][d] =
                      IF got[w][d] = Missing THEN indicators[coin][d] ELSE Upto(got[w], d))
  <2>1. indicators' = [indicators EXCEPT ![Step(w).coin] =
          [d \in Days |-> IF got[w][d] = Missing THEN indicators[Step(w).coin][d]
                          ELSE Upto(got[w], d)]]
        /\ ~ Idle(w) /\ Step(w).do = "calc" /\ got[w] # Nothing /\ candles' = candles
    BY <1>1 DEF StoreIndicators
  <2>2. DOMAIN indicators = CoinSet
    BY DEF TInv, TypeOK
  <2>3. CASE Step(w).coin = coin
    BY <2>1, <2>2, <2>3 DEF Computing
  <2>4. CASE Step(w).coin # coin
    BY <2>1, <2>2, <2>4
  <2> QED
    BY <2>3, <2>4
<1>2. CASE indicators' = indicators
  BY <1>2
<1>3. indicators' = indicators \/ \E w \in Workers : StoreIndicators(w)
  BY DEF Next, Work, Fetch, ReadCandles, Store, FailStep, Wake, Request, Begins,
         Die, Start, Tick, vars, tables
<1> QED
  BY <1>1, <1>2, <1>3

LEMMA NowStep ==
  ASSUME TInv, [Next]_vars
  PROVE  /\ now \in Times /\ now' \in Times /\ now <= now'
         /\ now' = now \/ Tick
<1>1. now' = now \/ Tick
  BY DEF Next, Work, Fetch, ReadCandles, Store, StoreIndicators, FailStep, Wake, Request, Begins,
         Die, Start, vars
<1>2. now \in Times /\ now \in Nat
  BY NowRange DEF TInv
<1>3. CASE now' = now
  BY <1>1, <1>2, <1>3
<1>4. CASE Tick
  BY <1>2, <1>4, SizesAssumption DEF Tick, Times
<1> QED
  BY <1>1, <1>2, <1>3, <1>4
-----------------------------------------------------------------------------
(***************************************************************************)
(* What stays, and what is right for good.                                 *)
(***************************************************************************)
LEMMA StaysStep ==
  ASSUME TInv, [Next]_vars, NEW m \in Markets, NEW e \in Days, Stays(m, e)
  PROVE  candles'[m][e] = candles[m][e] /\ Stays(m, e)'
<1>1. candles'[m][e] = candles[m][e]
  <2>1. ASSUME NEW w \in Workers, Storing(w, m), candles'[m] = Upserted(candles[m], got[w])
        PROVE  candles'[m][e] = candles[m][e]
    BY <2>1 DEF Stays, Upserted
  <2> QED
    BY <2>1, RowStep
<1>2. \A t \in now'..LastTime : Klines(m[1], t)[e] \in {Missing, candles'[m][e]}
  <2>1. \A t \in now'..LastTime : t \in now..LastTime
    BY NowStep, DaysRange, SizesAssumption
  <2> QED
    BY <1>1, <2>1 DEF Stays
<1>3. ASSUME NEW w \in Workers, Storing(w, m)'
      PROVE  got'[w][e] \in {Missing, candles'[m][e]}
  <2>1. CASE Takes(w) /\ got'[w] = Klines(m[1], now)
    <3>1. now \in now..LastTime
      BY NowStep, SizesAssumption DEF Times
    <3> QED
      BY <1>1, <2>1, <3>1 DEF Stays
  <2>2. CASE Storing(w, m) /\ got'[w] = got[w]
    BY <1>1, <2>2 DEF Stays
  <2> QED
    BY <1>3, <2>1, <2>2, StoringStep
<1> QED
  BY <1>1, <1>2, <1>3 DEF Stays

LEMMA UptoSame ==
  ASSUME NEW d \in Days, NEW rows, NEW others, \A e \in 1..d : rows[e] = others[e]
  PROVE  Upto(rows, d) = Upto(others, d)
BY DEF Upto

LEMMA BinanceMarket ==
  ASSUME NEW coin \in CoinSet
  PROVE  <<"binance", coin>> \in Markets
BY NameRange DEF Markets

LEMMA ForGoodStep ==
  ASSUME TInv, [Next]_vars, NEW d \in Days, ForGood(d)
  PROVE  ForGood(d)'
<1>1. ASSUME NEW m \in Markets
      PROVE  IsFinal(m, d)' /\ Stays(m, d)'
  BY StaysStep DEF ForGood, IsFinal
<1>2. ASSUME NEW coin \in CoinSet
      PROVE  /\ \A e \in 1..d : Stays(<<"binance", coin>>, e)'
             /\ Upto(Stored(coin)', d) = Upto(Stored(coin), d)
  <2>1. ASSUME NEW e \in 1..d
        PROVE  Stays(<<"binance", coin>>, e)' /\ Stored(coin)'[e] = Stored(coin)[e]
    <3>1. e \in Days /\ Stays(<<"binance", coin>>, e)
      BY DaysRange DEF ForGood
    <3> QED
      BY <3>1, BinanceMarket, StaysStep DEF Stored
  <2> QED
    BY <2>1, UptoSame
<1>3. ASSUME NEW coin \in CoinSet
      PROVE  IsFresh(coin, d)'
  <2>1. indicators[coin][d] = Upto(Stored(coin), d)
    BY DEF ForGood, IsFresh, Stored
  <2>2. indicators'[coin][d] = indicators[coin][d]
        \/ indicators'[coin][d] = Upto(Stored(coin), d)
    <3>1. ASSUME NEW w \in Workers, Computing(w, coin),
                 indicators'[coin][d] = IF got[w][d] = Missing THEN indicators[coin][d]
                                        ELSE Upto(got[w], d)
          PROVE  indicators'[coin][d] = indicators[coin][d]
                 \/ indicators'[coin][d] = Upto(Stored(coin), d)
      BY <3>1 DEF ForGood
    <3> QED
      BY <3>1, IndicatorStep
  <2> QED
    BY <1>2, <2>1, <2>2 DEF IsFresh, Stored
<1>4. ASSUME NEW coin \in CoinSet, NEW w \in Workers, Computing(w, coin)'
      PROVE  got'[w][d] = Missing \/ Upto(got'[w], d) = Upto(Stored(coin)', d)
  <2>1. CASE got'[w] = Stored(coin)
    BY <1>2, <2>1
  <2>2. CASE Computing(w, coin) /\ got'[w] = got[w]
    <3>1. got[w][d] = Missing \/ Upto(got[w], d) = Upto(Stored(coin), d)
      BY <2>2 DEF ForGood
    <3> QED
      BY <1>2, <2>2, <3>1
  <2> QED
    BY <1>4, <2>1, <2>2, ComputingStep
<1> QED
  BY <1>1, <1>2, <1>3, <1>4 DEF ForGood
-----------------------------------------------------------------------------
(***************************************************************************)
(* An undisturbed night run.                                               *)
(***************************************************************************)
LEMMA Nightly ==
  /\ "nightly" \in Workers /\ "nightly" \in Server /\ "nightly" # "boot"
  /\ "nightly" \notin Clients \cup {"backfill"} /\ "boot" \notin Clients \cup {"backfill"}
  /\ "boot" \in Workers /\ "boot" \in Server
  /\ Workers = Clients \cup {"backfill"} \cup {"boot", "nightly"}
BY NamesAssumption DEF Workers, Server

LEMMA StepsLeft ==
  ASSUME TInv, ~ Idle("nightly"), Finishes("nightly")
  PROVE  /\ \A step \in Left : step = Step("nightly") \/ step \in Left'
         /\ CalcsLast(todo["nightly"]) => CalcsLast(todo'["nightly"])
         /\ OnlyCalcs => OnlyCalcs'
         /\ Len(todo["nightly"]) = 1 => Left' = {} /\ Idle("nightly")'
<1> DEFINE old == todo["nightly"]
           new == todo'["nightly"]
<1>1. /\ Len(old) \in Nat \ {0} /\ DOMAIN old = 1..Len(old) /\ Step("nightly") = old[1]
      /\ DOMAIN new = 1..(Len(old) - 1) /\ Len(new) = Len(old) - 1
      /\ \A i \in DOMAIN new : i + 1 \in DOMAIN old /\ new[i] = old[i + 1]
      /\ new \in Seq(Steps)
  BY Nightly, StepOf, Finished DEF TInv
<1>2. ASSUME NEW i \in DOMAIN old, i # 1
      PROVE  i - 1 \in DOMAIN new /\ new[i - 1] = old[i]
  <2>1. i - 1 \in 1..(Len(old) - 1) /\ (i - 1) + 1 = i
    BY <1>1, <1>2
  <2> QED
    BY <1>1, <2>1
<1>3. ASSUME NEW step \in Left
      PROVE  step = Step("nightly") \/ step \in Left'
  <2>1. PICK i \in DOMAIN old : step = old[i]
    BY DEF Left
  <2> QED
    BY <1>1, <1>2, <2>1 DEF Left
<1>4. ASSUME CalcsLast(old)
      PROVE  CalcsLast(new)
  <2> SUFFICES ASSUME NEW i \in DOMAIN new, NEW j \in DOMAIN new, i < j, new[i].do = "calc"
               PROVE  new[j].do = "calc"
    BY DEF CalcsLast
  <2>1. i + 1 \in DOMAIN old /\ j + 1 \in DOMAIN old /\ i + 1 < j + 1
        /\ new[i] = old[i + 1] /\ new[j] = old[j + 1]
    <3>1. new[i] = old[i + 1] /\ i + 1 \in DOMAIN old
      BY <1>1
    <3>2. new[j] = old[j + 1] /\ j + 1 \in DOMAIN old
      BY <1>1
    <3>3. i + 1 < j + 1
      BY <1>1
    <3> QED
      BY <3>1, <3>2, <3>3
  <2> QED
    BY <1>4, <2>1 DEF CalcsLast
<1>5. ASSUME OnlyCalcs
      PROVE  OnlyCalcs'
  BY <1>1, <1>5 DEF OnlyCalcs
<1>6. ASSUME Len(old) = 1
      PROVE  Left' = {} /\ Idle("nightly")'
  <2>1. DOMAIN new = {} /\ Len(new) = 0
    BY <1>1, <1>6
  <2> QED
    BY <1>1, <2>1 DEF Left, Idle
<1> QED
  BY <1>3, <1>4, <1>5, <1>6

LEMMA HeadCalc ==
  ASSUME TInv, ~ Idle("nightly"), Step("nightly").do = "calc", CalcsLast(todo["nightly"])
  PROVE  OnlyCalcs
<1>1. /\ Len(todo["nightly"]) \in Nat \ {0}
      /\ DOMAIN todo["nightly"] = 1..Len(todo["nightly"])
      /\ todo["nightly"][1].do = "calc" /\ 1 \in DOMAIN todo["nightly"]
  BY Nightly, StepOf DEF TInv
<1>2. ASSUME NEW j \in DOMAIN todo["nightly"]
      PROVE  todo["nightly"][j].do = "calc"
  <2>1. j = 1 \/ 1 < j
    BY <1>1
  <2> QED
    BY <1>1, <2>1 DEF CalcsLast
<1> QED
  BY <1>2 DEF OnlyCalcs

\* When only calculations are left, every market is synced.
LEMMA AllSynced ==
  ASSUME NEW c, OnlyCalcs, SyncsDone(c), NEW m \in Markets
  PROVE  Synced(c, m)
<1>1. Sync(m[1], m[2]).do # "calc"
  BY DEF Sync
<1> QED
  BY <1>1 DEF OnlyCalcs, SyncsDone, Left

\* Old answers leave a synced market as it is.
LEMMA AnswerOfRun ==
  ASSUME TInv, NEW c \in Times, c <= now, OldFetches(c), NEW m \in Markets,
         NEW w \in Workers, Storing(w, m)
  PROVE  \E t \in Times : c <= t /\ t <= now /\ got[w] = Klines(m[1], t)
<1>1. PICK t \in c..now : got[w] = Klines(m[1], t)
  BY DEF OldFetches, FetchedSince
<1>2. t \in Times /\ c <= t /\ t <= now
  BY NowRange, DaysRange, SizesAssumption DEF TInv, Times
<1> QED
  BY <1>1, <1>2

LEMMA FinalPresent ==
  ASSUME NEW d \in Days
  PROVE  Final(d) # Missing /\ Final(d) \in Nat
BY DaysRange DEF Final, Missing

LEMMA MarketParts ==
  ASSUME NEW m \in Markets
  PROVE  m[1] \in Exchanges /\ m[2] \in CoinSet /\ m = <<m[1], m[2]>>
BY DEF Markets

LEMMA SyncedStep ==
  ASSUME TInv, [Next]_vars, NEW c \in Times, c <= now, OldFetches(c),
         NEW m \in Markets, Synced(c, m)
  PROVE  Synced(c, m)'
<1> SUFFICES ASSUME NEW d \in Days, Klines(m[1], c)[d] = Final(d)
             PROVE  candles'[m][d] = Final(d)
  BY DEF Synced, IsFinal
<1>1. candles[m][d] = Final(d)
  BY DEF Synced, IsFinal
<1>2. ASSUME NEW w \in Workers, Storing(w, m), candles'[m] = Upserted(candles[m], got[w])
      PROVE  candles'[m][d] = Final(d)
  <2>1. PICK t \in Times : c <= t /\ t <= now /\ got[w] = Klines(m[1], t)
    BY <1>2, AnswerOfRun
  <2>2. got[w][d] \in {Missing, Final(d)}
    BY <2>1, FinalLater, MarketParts
  <2> QED
    BY <1>1, <1>2, <2>2 DEF Upserted
<1> QED
  BY <1>1, <1>2, RowStep

\* Nor do they change the rows that indicators of the closed days are computed from.
LEMMA RowsOfRun ==
  ASSUME TInv, [Next]_vars, NEW c \in Times, c <= now, OldFetches(c),
         NEW m \in Markets, Synced(c, m), NEW d \in Closing(c)
  PROVE  Upto(candles'[m], d) = Upto(candles[m], d)
<1>1. d \in Days /\ Klines(m[1], c)[d] = Final(d) /\ m[1] \in Exchanges
  BY MarketParts DEF Closing
<1>2. ASSUME NEW e \in 1..d
      PROVE  candles'[m][e] = candles[m][e]
  <2>1. e \in Days
    BY <1>1, DaysRange
  <2>2. ASSUME NEW w \in Workers, Storing(w, m), candles'[m] = Upserted(candles[m], got[w])
        PROVE  candles'[m][e] = candles[m][e]
    <3>1. PICK t \in Times : c <= t /\ t <= now /\ got[w] = Klines(m[1], t)
      BY <2>2, AnswerOfRun
    <3>2. CASE Klines(m[1], c)[e] = Final(e)
      <4>1. candles[m][e] = Final(e)
        BY <2>1, <3>2 DEF Synced, IsFinal
      <4>2. got[w][e] \in {Missing, Final(e)}
        BY <1>1, <2>1, <3>1, <3>2, FinalLater
      <4> QED
        BY <2>1, <2>2, <4>1, <4>2 DEF Upserted
    <3>3. CASE got[w][e] = Missing
      BY <2>1, <2>2, <3>3 DEF Upserted
    <3> QED
      BY <1>1, <3>1, <3>2, <3>3, EarlierFinal
  <2> QED
    BY <2>2, RowStep
<1> QED
  BY <1>1, <1>2, UptoSame

LEMMA OnlyNightlyComputes ==
  ASSUME TInv, Idle("boot"), NEW w \in Workers, NEW coin \in CoinSet, Computing(w, coin)
  PROVE  w = "nightly"
<1>1. ~ Idle(w) /\ todo[w][1].do = "calc" /\ 1 \in DOMAIN todo[w]
  BY StepOf DEF Computing, TInv
<1>2. w \notin Clients \cup {"backfill"}
  BY <1>1 DEF TInv, LocalsOK
<1> QED
  BY <1>1, <1>2, Nightly

\* What a step of anyone does to the plans of the night run and of the boot.
LEMMA PlanStep ==
  ASSUME TInv, [Next]_vars, up, ~ Die, ~ Wake, ~ FailStep("nightly"), Idle("boot")
  PROVE  /\ Idle("boot")'
         /\ \/ todo'["nightly"] = todo["nightly"]
            \/ /\ ~ Idle("nightly") /\ Finishes("nightly")
               /\ Store("nightly") \/ StoreIndicators("nightly")
<1> USE Nightly
<1>1. ASSUME NEW w \in Workers, Work(w)
      PROVE  /\ Idle("boot")'
             /\ \/ todo'["nightly"] = todo["nightly"]
                \/ /\ ~ Idle("nightly") /\ Finishes("nightly")
                   /\ Store("nightly") \/ StoreIndicators("nightly")
  <2>1. ~ Idle(w) /\ w # "boot"
    BY <1>1 DEF Work, Fetch, Store, ReadCandles, StoreIndicators, FailStep
  <2>2. CASE Fetch(w) \/ ReadCandles(w)
    BY <2>2 DEF Fetch, ReadCandles, Idle
  <2>3. CASE Store(w) \/ StoreIndicators(w) \/ FailStep(w)
    <3>1. Finishes(w)
      BY <2>3 DEF Store, StoreIndicators, FailStep
    <3>2. todo'["boot"] = todo["boot"]
      BY <2>1, <3>1, Finished
    <3>3. w # "nightly" => todo'["nightly"] = todo["nightly"]
      BY <2>1, <3>1, Finished
    <3> QED
      BY <2>1, <2>3, <3>1, <3>2, <3>3 DEF Idle
  <2> QED
    BY <1>1, <2>2, <2>3 DEF Work
<1>2. ASSUME NEW w \in Clients \cup {"backfill"}, NEW exchange \in Exchanges, Request(w, exchange)
      PROVE  todo'["boot"] = todo["boot"] /\ todo'["nightly"] = todo["nightly"]
  <2>1. w # "boot" /\ w # "nightly" /\ todo' = [todo EXCEPT ![w] = SyncPlan(exchange)]
    BY <1>2 DEF Request, Begins
  <2> QED
    BY <2>1 DEF TInv, TypeOK
<1>3. CASE Tick \/ UNCHANGED vars
  BY <1>3 DEF Tick, vars, Idle
<1>4. ~ Start
  BY DEF Start
<1> QED
  BY <1>1, <1>2, <1>3, <1>4 DEF Next, Idle

\* When the night run stores the answer of a market, on the day it woke, it is synced.
LEMMA NightStore ==
  ASSUME TInv, NEW c \in Times, c <= now, DayOf(c) = DayOf(now), OldFetches(c),
         Store("nightly"), NEW m \in Markets, m = MarketOf("nightly")
  PROVE  Synced(c, m)'
<1> SUFFICES ASSUME NEW d \in Days, Klines(m[1], c)[d] = Final(d)
             PROVE  candles'[m][d] = Final(d)
  BY DEF Synced, IsFinal
<1>1. Storing("nightly", m) /\ candles' = [candles EXCEPT ![m] = Upserted(candles[m], got["nightly"])]
  BY DEF Store, Storing
<1>2. PICK t \in Times : c <= t /\ t <= now /\ got["nightly"] = Klines(m[1], t)
  BY <1>1, Nightly, AnswerOfRun
<1>3. DayOf(t) = DayOf(c)
  <2>1. c \in Nat /\ t \in Nat /\ now \in Nat
    BY DaysRange, NowRange DEF TInv
  <2>2. DayOf(c) <= DayOf(t) /\ DayOf(t) <= DayOf(now) /\ DayOf(t) \in Nat /\ DayOf(c) \in Nat
    BY <1>2, <2>1, LaterDay, DayRange
  <2> QED
    BY <2>2
<1>4. got["nightly"][d] = Final(d)
  BY <1>2, <1>3, FinalLater, MarketParts
<1>5. candles'[m] = Upserted(candles[m], got["nightly"])
  BY <1>1 DEF TInv, TypeOK
<1> QED
  BY <1>4, <1>5, FinalPresent DEF Upserted

LEMMA RunStep ==
  ASSUME TInv, [Next]_vars, up, ~ Die, ~ Wake, ~ FailStep("nightly"),
         NEW c \in Times, c <= now, DayOf(c) = DayOf(now), RunOK(c)
  PROVE  RunOK(c)'
<1> DEFINE Same == todo'["nightly"] = todo["nightly"]
           Done == ~ Idle("nightly") /\ Finishes("nightly")
                   /\ (Store("nightly") \/ StoreIndicators("nightly"))
<1>1. Idle("boot") /\ OldFetches(c) /\ SyncsDone(c) /\ CalcsDone(c) /\ ReadRight(c)
      /\ CalcsLast(todo["nightly"]) /\ ((\A coin \in CoinSet : Calc(coin) \in Left) \/ OnlyCalcs)
  BY DEF RunOK
<1>2. Idle("boot")' /\ (Same \/ Done)
  BY <1>1, PlanStep
<1>3. Same => Left' = Left
  BY DEF Left
<1>4. CalcsLast(todo'["nightly"])
  BY <1>1, <1>2, StepsLeft
<1>5. ASSUME NEW coin \in CoinSet, Calc(coin) \in Left, Calc(coin) \notin Left'
      PROVE  /\ Done /\ StoreIndicators("nightly") /\ Step("nightly") = Calc(coin)
             /\ Computing("nightly", coin) /\ OnlyCalcs
  <2>1. Done /\ Step("nightly") = Calc(coin)
    BY <1>2, <1>3, <1>5, StepsLeft
  <2>2. Step("nightly").do = "calc" /\ Step("nightly").coin = coin /\ "calc" # "sync"
    BY <2>1 DEF Calc
  <2>3. StoreIndicators("nightly")
    BY <2>1, <2>2 DEF Store
  <2>4. Computing("nightly", coin)
    BY <2>2, <2>3 DEF StoreIndicators, Computing
  <2>5. OnlyCalcs
    BY <1>1, <2>1, <2>2, HeadCalc
  <2> QED
    BY <2>1, <2>3, <2>4, <2>5
<1>6. OnlyCalcs => OnlyCalcs'
  BY <1>2, StepsLeft DEF OnlyCalcs
<1>7. (\A coin \in CoinSet : Calc(coin) \in Left') \/ OnlyCalcs'
  BY <1>1, <1>5, <1>6
<1>8. OldFetches(c)'
  <2> SUFFICES ASSUME NEW m \in Markets, NEW w \in Workers, Storing(w, m)'
               PROVE  \E t \in c..now' : got'[w] = Klines(m[1], t)
    BY DEF OldFetches, FetchedSince
  <2>1. c \in Nat /\ now \in Nat /\ now' \in Nat /\ now <= now'
    BY NowStep, DaysRange
  <2>2. CASE got'[w] = Klines(m[1], now)
    <3>1. now \in c..now'
      BY <2>1
    <3> QED
      BY <2>2, <3>1
  <2>3. CASE Storing(w, m) /\ got'[w] = got[w]
    <3>1. PICK t \in c..now : got[w] = Klines(m[1], t)
      BY <1>1, <2>3 DEF OldFetches, FetchedSince
    <3>2. t \in c..now'
      BY <2>1
    <3> QED
      BY <2>3, <3>1, <3>2
  <2> QED
    BY <2>2, <2>3, StoringStep
<1>9. SyncsDone(c)'
  <2> SUFFICES ASSUME NEW m \in Markets
               PROVE  Sync(m[1], m[2]) \in Left' \/ Synced(c, m)'
    BY DEF SyncsDone
  <2>1. CASE Synced(c, m)
    BY <1>1, <2>1, SyncedStep
  <2>2. CASE Sync(m[1], m[2]) \in Left
    <3>1. CASE Done /\ Step("nightly") = Sync(m[1], m[2])
      <4>1. Step("nightly").do = "sync" /\ "sync" # "calc"
            /\ Step("nightly").exchange = m[1] /\ Step("nightly").coin = m[2]
        BY <3>1 DEF Sync
      <4>2. Store("nightly") /\ m = MarketOf("nightly")
        BY <3>1, <4>1, MarketParts DEF StoreIndicators, MarketOf
      <4> QED
        BY <1>1, <4>2, NightStore
    <3> QED
      BY <1>2, <1>3, <2>2, <3>1, StepsLeft
  <2> QED
    BY <1>1, <2>1, <2>2 DEF SyncsDone
<1>10. ASSUME OnlyCalcs, NEW coin \in CoinSet, NEW d \in Closing(c)
       PROVE  Upto(Stored(coin)', d) = Upto(Stored(coin), d)
  <2>1. Synced(c, <<"binance", coin>>)
    BY <1>1, <1>10, AllSynced, BinanceMarket
  <2> QED
    BY <1>1, <2>1, RowsOfRun, BinanceMarket DEF Stored
<1>11. CalcsDone(c)'
  <2> SUFFICES ASSUME NEW coin \in CoinSet, Calc(coin) \notin Left', NEW d \in Closing(c)
               PROVE  indicators'[coin][d] = Upto(Stored(coin)', d)
    BY DEF CalcsDone, IsFresh, Stored, Closing
  <2>1. d \in Days
    BY DEF Closing
  <2>2. CASE Calc(coin) \in Left
    <3>1. StoreIndicators("nightly") /\ Step("nightly") = Calc(coin)
          /\ Computing("nightly", coin) /\ OnlyCalcs
      BY <1>5, <2>2
    <3>2. Upto(got["nightly"], d) = Upto(Stored(coin), d)
      BY <1>1, <3>1 DEF ReadRight
    <3>3. got["nightly"][d] # Missing
      <4>1. Stored(coin)[d] = Final(d)
        <5>1. Synced(c, <<"binance", coin>>)
          BY <1>1, <3>1, AllSynced, BinanceMarket
        <5>2. Klines("binance", c)[d] = Final(d)
          BY NameRange DEF Closing
        <5> QED
          BY <2>1, <5>1, <5>2 DEF Synced, IsFinal, Stored
      <4>2. got["nightly"][d] = Stored(coin)[d]
        <5>1. d \in 1..d
          BY <2>1, DaysRange
        <5>2. Upto(got["nightly"], d)[d] = Upto(Stored(coin), d)[d]
          BY <3>2
        <5> QED
          BY <5>1, <5>2 DEF Upto
      <4> QED
        BY <2>1, <4>1, <4>2, FinalPresent
    <3>4. indicators'[coin][d] = Upto(got["nightly"], d)
      <4>1. Step("nightly").coin = coin
        BY <3>1 DEF Computing
      <4>2. indicators' = [indicators EXCEPT ![coin] =
              [e \in Days |-> IF got["nightly"][e] = Missing THEN indicators[coin][e]
                              ELSE Upto(got["nightly"], e)]]
        BY <3>1, <4>1 DEF StoreIndicators
      <4>3. DOMAIN indicators = CoinSet
        BY DEF TInv, TypeOK
      <4> QED
        BY <2>1, <3>3, <4>2, <4>3
    <3> QED
      BY <1>10, <3>1, <3>2, <3>4
  <2>3. CASE Calc(coin) \notin Left
    <3>1. OnlyCalcs /\ indicators[coin][d] = Upto(Stored(coin), d)
      BY <1>1, <2>3 DEF CalcsDone, IsFresh, Stored
    <3>2. ASSUME NEW w \in Workers, Computing(w, coin),
                 indicators'[coin][d] = IF got[w][d] = Missing THEN indicators[coin][d]
                                        ELSE Upto(got[w], d)
          PROVE  indicators'[coin][d] = Upto(Stored(coin), d)
      <4>1. w = "nightly"
        BY <1>1, <3>2, OnlyNightlyComputes
      <4> QED
        BY <1>1, <3>1, <3>2, <4>1 DEF ReadRight
    <3>3. indicators'[coin][d] = Upto(Stored(coin), d)
      BY <2>1, <3>1, <3>2, IndicatorStep
    <3> QED
      BY <1>10, <3>1, <3>3
  <2> QED
    BY <2>2, <2>3
<1>12. ReadRight(c)'
  <2> SUFFICES ASSUME NEW coin \in CoinSet, Computing("nightly", coin)', NEW d \in Closing(c)
               PROVE  Upto(got'["nightly"], d) = Upto(Stored(coin)', d)
    BY DEF ReadRight, Closing, Stored
  <2>1. CASE Takes("nightly") /\ got'["nightly"] = Stored(coin)
    BY <2>1 DEF Takes, Stored
  <2>2. CASE Computing("nightly", coin) /\ got'["nightly"] = got["nightly"]
    <3>1. OnlyCalcs
      BY <1>1, <2>2, HeadCalc DEF Computing
    <3> QED
      BY <1>1, <1>10, <2>2, <3>1 DEF ReadRight
  <2> QED
    BY <2>1, <2>2, ComputingStep, Nightly
<1> QED
  BY <1>2, <1>4, <1>7, <1>8, <1>9, <1>11, <1>12 DEF RunOK

\* When the run is over, the days that were over when it woke are right for good.
LEMMA RunForGood ==
  ASSUME TInv', NEW c \in Times, c <= now', RunOK(c)', Left' = {}, Idle("nightly")',
         NEW d \in Closing(c)
  PROVE  ForGood(d)'
<1>1. d \in Days /\ \A exchange \in Exchanges : Klines(exchange, c)[d] = Final(d)
  BY DEF Closing
<1>2. ASSUME NEW m \in Markets
      PROVE  Synced(c, m)'
  BY DEF RunOK, SyncsDone
<1>3. now' \in Times /\ now' \in Nat /\ c \in Nat
  BY DaysRange DEF TInv, TypeOK, Times
<1>4. ASSUME NEW m \in Markets, NEW e \in 1..d
      PROVE  Stays(m, e)'
  <2>1. e \in Days /\ m[1] \in Exchanges
    BY <1>1, DaysRange, MarketParts
  <2>2. ASSUME NEW t \in Times, c <= t
        PROVE  Klines(m[1], t)[e] \in {Missing, candles'[m][e]}
    <3>1. CASE Klines(m[1], c)[e] = Final(e)
      <4>1. candles'[m][e] = Final(e)
        BY <1>2, <2>1, <3>1 DEF Synced, IsFinal
      <4> QED
        BY <2>1, <2>2, <3>1, <4>1, FinalLater
    <3> QED
      BY <1>1, <2>1, <2>2, <3>1, EarlierFinal
  <2>3. \A t \in now'..LastTime : t \in Times /\ c <= t
    BY <1>3, SizesAssumption DEF Times
  <2>4. ASSUME NEW w \in Workers, Storing(w, m)'
        PROVE  got'[w][e] \in {Missing, candles'[m][e]}
    <3>1. PICK t \in c..now' : got'[w] = Klines(m[1], t)
      BY <2>4 DEF RunOK, OldFetches, FetchedSince
    <3>2. t \in Times /\ c <= t
      BY <1>3, SizesAssumption DEF Times
    <3> QED
      BY <2>2, <3>1, <3>2
  <2> QED
    BY <2>2, <2>3, <2>4 DEF Stays
<1>5. ASSUME NEW m \in Markets
      PROVE  IsFinal(m, d)' /\ Stays(m, d)'
  <2>1. d \in 1..d /\ m[1] \in Exchanges
    BY <1>1, DaysRange, MarketParts
  <2> QED
    BY <1>1, <1>2, <1>4, <2>1 DEF Synced
<1>6. ASSUME NEW coin \in CoinSet
      PROVE  IsFresh(coin, d)'
  BY DEF RunOK, CalcsDone, Closing
<1>7. ASSUME NEW coin \in CoinSet, NEW w \in Workers, Computing(w, coin)'
      PROVE  FALSE
  <2>1. todo'[w] # << >> /\ todo'[w] \in Seq(Steps) /\ Head(todo'[w]).do = "calc"
    BY <1>7 DEF Computing, Idle, Step, TInv, TypeOK
  <2>2. Head(todo'[w]) = todo'[w][1] /\ 1 \in DOMAIN todo'[w] /\ "calc" # "sync"
    BY <2>1
  <2>3. w \notin Clients \cup {"backfill"}
    BY <2>1, <2>2 DEF TInv, LocalsOK
  <2>4. w # "boot" /\ w # "nightly"
    BY <2>1 DEF RunOK, Idle
  <2> QED
    BY <2>3, <2>4, Nightly
<1> QED
  BY <1>4, <1>5, <1>6, <1>7, BinanceMarket DEF ForGood

\* A night run that nobody was at work beside when it woke.
LEMMA WakeOK ==
  ASSUME TInv, Wake, OnlyWorker("nightly"), NEW c, c = now
  PROVE  RunOK(c)'
<1> USE Nightly
<1>1. /\ Idle("nightly") /\ todo' = [todo EXCEPT !["nightly"] = NightPlan] /\ got' = got
      /\ now' = now /\ todo \in [Workers -> Seq(Steps)]
  BY DEF Wake, Begins, TInv, TypeOK
<1>2. todo'["nightly"] = NightPlan /\ \A v \in Workers : v # "nightly" => todo'[v] = todo[v]
  BY <1>1
<1>3. \A v \in Workers : got'[v] = Nothing
  BY <1>1 DEF OnlyWorker, TInv, LocalsOK
<1>4. Idle("boot")'
  BY <1>2 DEF OnlyWorker, Idle
<1>5. CalcsLast(todo'["nightly"])
  BY <1>2, NightRange
<1>6. ASSUME NEW coin \in CoinSet
      PROVE  Calc(coin) \in Left'
  BY <1>2, NightRange DEF Left
<1>7. ASSUME NEW m \in Markets
      PROVE  Sync(m[1], m[2]) \in Left'
  BY <1>2, NightRange DEF Left
<1>8. OldFetches(c)'
  BY <1>3 DEF OldFetches, Storing
<1>9. ReadRight(c)'
  BY <1>3 DEF ReadRight, Computing
<1> QED
  BY <1>4, <1>5, <1>6, <1>7, <1>8, <1>9 DEF RunOK, SyncsDone, CalcsDone

LEMMA CleanStep ==
  ASSUME TInv, [Next]_vars
  PROVE  \/ clean' = 0
         \/ clean' = clean /\ up' = up /\ ~ Wake /\ ~ Die /\ ~ FailStep("nightly")
         \/ clean' = clean /\ ~ up
         \/ Wake /\ OnlyWorker("nightly") /\ clean' = now /\ up /\ up' = up /\ now' = now
<1> USE Nightly
<1>1. CASE Wake
  BY <1>1 DEF Wake, Begins
<1>2. CASE Die
  BY <1>2 DEF Die
<1>3. CASE FailStep("nightly")
  BY <1>3 DEF FailStep
<1>4. CASE Start
  BY <1>4 DEF Start, history
<1>5. ASSUME NEW w \in Workers, Work(w), ~ FailStep("nightly")
      PROVE  (clean' = 0 \/ clean' = clean) /\ up' = up
  BY <1>5 DEF Work, Fetch, Store, ReadCandles, StoreIndicators, FailStep, Sleeps, history
<1>6. ASSUME NEW w \in Clients \cup {"backfill"}, NEW exchange \in Exchanges, Request(w, exchange)
      PROVE  clean' = clean /\ up' = up
  BY <1>6 DEF Request, Begins
<1>7. CASE Tick \/ UNCHANGED vars
  BY <1>1, <1>2, <1>3, <1>7 DEF Tick, vars, history
<1> QED
  BY <1>1, <1>2, <1>3, <1>4, <1>5, <1>6, <1>7 DEF Next

LEMMA SettledStep ==
  ASSUME TInv, [Next]_vars
  PROVE  \/ settled' = settled
         \/ /\ clean # 0 /\ settled' = settled \cup Closed(clean, now) /\ now' = now
            /\ ~ Idle("nightly") /\ Finishes("nightly") /\ Len(todo["nightly"]) = 1
            /\ ~ Wake /\ ~ Die /\ ~ FailStep("nightly")
<1> USE Nightly
<1>1. ASSUME NEW w \in Workers, Store(w) \/ StoreIndicators(w), settled' # settled
      PROVE  /\ w = "nightly" /\ clean # 0 /\ settled' = settled \cup Closed(clean, now)
             /\ now' = now /\ Finishes(w) /\ Len(todo[w]) = 1
             /\ ~ Idle(w) /\ up' = up /\ faults' = faults
  <2>1. Sleeps(w) /\ Finishes(w) /\ now' = now /\ ~ Idle(w) /\ up' = up /\ faults' = faults
    BY <1>1 DEF Store, StoreIndicators
  <2>2. w = "nightly" /\ Len(todo[w]) = 1
    BY <1>1, <2>1 DEF Sleeps
  <2>3. clean # 0 /\ settled' = settled \cup Closed(clean, now)
    BY <1>1, <2>1, <2>2 DEF Sleeps
  <2> QED
    BY <2>1, <2>2, <2>3
<1>2. settled' = settled \/ \E w \in Workers : Store(w) \/ StoreIndicators(w)
  BY DEF Next, Work, Fetch, ReadCandles, FailStep, Wake, Request, Begins, Die, Start, Tick,
         vars, history
<1>3. ~ Idle("nightly") => ~ Wake
  BY DEF Wake, Begins
<1>4. up' = up => ~ Die
  BY Zenon DEF Die
<1>5. faults' = faults => ~ FailStep("nightly")
  BY DEF FailStep, TInv, TypeOK
<1> QED
  BY <1>1, <1>2, <1>3, <1>4, <1>5

LEMMA RunStart ==
  ASSUME TInv, RunInv, clean # 0
  PROVE  clean \in Times /\ up /\ clean <= now
<1>1. up /\ clean <= now /\ FirstTime <= clean
  BY Zenon DEF RunInv
<1>2. clean \in Nat /\ now \in FirstTime..LastTime
  BY DEF TInv, TypeOK
<1>3. clean \in Times
  BY <1>1, <1>2, SizesAssumption DEF Times
<1> QED
  BY <1>1, <1>3

LEMMA RunInvStep ==
  ASSUME TInv, TInv', RunInv, [Next]_vars
  PROVE  RunInv'
<1>1. now \in Nat /\ now' \in Nat /\ now <= now' /\ clean \in Nat /\ clean' \in Nat
      /\ FirstTime <= now /\ FirstTime \in Nat
  <2>1. now \in FirstTime..LastTime /\ now' \in FirstTime..LastTime
        /\ clean \in Nat /\ clean' \in Nat
    BY Zenon DEF TInv, TypeOK
  <2>2. FirstTime \in Nat
    BY SizesAssumption
  <2>3. now <= now'
    BY <2>1, <2>2, NowStep
  <2> QED
    BY <2>1, <2>2, <2>3
<1>2. CASE clean' = 0
  BY <1>1, <1>2 DEF RunInv
<1>3. CASE clean' # 0 /\ clean' = clean /\ up' = up /\ ~ Wake /\ ~ Die /\ ~ FailStep("nightly")
  <2>1. clean \in Times /\ up /\ clean <= now /\ FirstTime <= clean
    BY <1>3, RunStart DEF RunInv
  <2>2. ASSUME DayOf(clean') = DayOf(now')
        PROVE  RunOK(clean)'
    <3>1. PICK c \in Times : c = clean
      BY <2>1
    <3>2. DayOf(c) = DayOf(now)
      <4>1. DayOf(c) <= DayOf(now) /\ DayOf(now) <= DayOf(now') /\ DayOf(c) \in Nat
            /\ DayOf(now) \in Nat /\ DayOf(now') \in Nat
        BY <1>1, <2>1, <3>1, LaterDay, DayRange
      <4> QED
        BY <1>3, <2>2, <3>1, <4>1
    <3>3. RunOK(c)
      BY <1>3, <3>1, <3>2 DEF RunInv
    <3>4. RunOK(c)'
      BY <1>3, <2>1, <3>1, <3>2, <3>3, RunStep
    <3>5. c = clean'
      BY <1>3, <3>1
    <3> QED
      BY <3>4, <3>5 DEF RunOK, OldFetches, FetchedSince, SyncsDone, Synced, CalcsDone,
                        ReadRight, Closing
  <2> QED
    BY <1>1, <1>3, <2>1, <2>2 DEF RunInv
<1>4. CASE clean' # 0 /\ clean' = clean /\ ~ up
  BY <1>4, RunStart
<1>5. CASE Wake /\ OnlyWorker("nightly") /\ clean' = now /\ up /\ up' = up /\ now' = now
  <2>1. PICK c \in Times : c = now
    BY NowRange DEF TInv
  <2>2. RunOK(c)' /\ c = clean'
    BY <1>5, <2>1, WakeOK
  <2>3. RunOK(clean)'
    BY <2>2 DEF RunOK, OldFetches, FetchedSince, SyncsDone, Synced, CalcsDone,
                ReadRight, Closing
  <2> QED
    BY <1>1, <1>5, <2>3 DEF RunInv
<1> QED
  BY <1>2, <1>3, <1>4, <1>5, CleanStep

LEMMA SettledInvStep ==
  ASSUME TInv, TInv', RunInv, SettledInv, [Next]_vars
  PROVE  SettledInv'
<1>1. settled \subseteq Days
  BY DEF TInv, TypeOK
<1>2. \A d \in settled : ForGood(d)'
  BY <1>1, ForGoodStep DEF SettledInv
<1>3. CASE settled' = settled
  BY <1>2, <1>3 DEF SettledInv
<1>4. CASE /\ clean # 0 /\ settled' = settled \cup Closed(clean, now) /\ now' = now
           /\ ~ Idle("nightly") /\ Finishes("nightly") /\ Len(todo["nightly"]) = 1
           /\ ~ Wake /\ ~ Die /\ ~ FailStep("nightly")
  <2>1. clean \in Times /\ up /\ clean <= now
    BY <1>4, RunStart
  <2>2. PICK c \in Times : c = clean
    BY <2>1
  <2>3. ASSUME NEW d \in Closed(clean, now)
        PROVE  ForGood(d)'
    <3>1. DayOf(c) = DayOf(now) /\ d \in Closing(c)
      BY <2>2 DEF Closed, Closing
    <3>2. RunOK(c)
      BY <1>4, <2>2, <3>1 DEF RunInv
    <3>3. RunOK(c)'
      BY <1>4, <2>1, <2>2, <3>1, <3>2, RunStep
    <3>4. Left' = {} /\ Idle("nightly")'
      BY <1>4, StepsLeft
    <3>5. c <= now'
      BY <1>4, <2>1, <2>2
    <3> QED
      BY <3>1, <3>3, <3>4, <3>5, RunForGood
  <2> QED
    BY <1>2, <1>4, <2>3 DEF SettledInv
<1> QED
  BY <1>3, <1>4, SettledStep

\* For every number of coins, exchanges, goroutines, requests, failures and restarts,
\* and every length of the answers: what an undisturbed night run has settled - the
\* final candles and the indicators of the days that were over - stays right.
THEOREM SettledCorrect == Spec => []SettledForGood
<1>1. Init => IInv
  <2>1. Init => SettledInv
    BY DEF Init, SettledInv
  <2>2. Init => RunInv
    BY SizesAssumption DEF Init, RunInv
  <2> QED
    BY <2>1, <2>2, TypeInit DEF IInv
<1>2. IInv /\ [Next]_vars => IInv'
  BY TypeStep, RunInvStep, SettledInvStep DEF IInv
<1>3. IInv => SettledForGood
  <2> SUFFICES ASSUME IInv, NEW d \in settled
               PROVE  IsRight(d)
    BY DEF SettledForGood
  <2>1. ForGood(d)
    BY DEF IInv, SettledInv
  <2> QED
    BY <2>1 DEF ForGood, IsRight
<1> QED
  BY <1>1, <1>2, <1>3, PTL DEF Spec
=============================================================================
