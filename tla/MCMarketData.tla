---------------------------- MODULE MCMarketData ----------------------------
(***************************************************************************)
(* MarketData on a small instance; the operators of Indicators over every  *)
(* short sequence of moves from one close to the next; and those of        *)
(* Performance over the first days of a portfolio with two trades.         *)
(* The last two are functions of their inputs and of no state: each of     *)
(* their properties says that no input fails it, and says so of the        *)
(* initial state, where TLC evaluates it once.                             *)
(***************************************************************************)
EXTENDS MarketData, Indicators, Performance

CONSTANTS
  FirstClose, \* the first close
  MovesTried, \* the moves tried
  Longest,    \* bound on the candles of a table
  Oldest      \* bound on the age of a portfolio, in days

ASSUME InputsAssumption ==
  /\ FirstClose \in Int /\ MovesTried \subseteq Int
  /\ Longest \in Nat /\ Oldest \in Nat

MCCoins == <<"btc">>
MCOthers == <<"upbit">>
MCLimit == [exchange \in Exchanges |-> IF exchange = "binance" THEN 2 ELSE 3]
MCMoves == {-9, 0, 3, 8}

(***************************************************************************)
(* Indicators.                                                             *)
(***************************************************************************)
\* The farther from the first close, the wider the range of the day.
Candle(close) ==
  [close |-> close, high |-> close + Larger(close - FirstClose, 1),
   low |-> close - Larger(FirstClose - close, 2), volume |-> close]

Tried ==
  UNION {{[i \in 1..n |-> Candle(FirstClose + Total(First(moves, i - 1)))] :
            moves \in [1..(n - 1) -> MovesTried]} : n \in 1..Longest}

ShownAsStored(rows) ==
  LET window == LatestRows(rows)  n == Len(window)
      kept == StoredRows(window)[n]  stored == StoredRows(rows)[Len(rows)]
      live == LiveRow(rows)  hourly == HourlyRow(rows)
  IN /\ \A f \in {"ma", "rsi", "bands"} : live[f] = stored[f]
     /\ \A p \in Emas : p <= n => live.ema[p] = kept.ema[p]
     /\ n >= Slow + Signal => live.macd = kept.macd /\ live.signal = kept.signal
     /\ Len(rows) >= Slow + Signal =>
          \A f \in {"ema", "rsi", "macd", "signal", "bands"} :
            hourly[f] = stored[f]

\* The loops of calcIndicatorsFromTable and of the hourly tickers are the series
\* of CalcAndStoreAllIndicators: the same averages, seeded with the same candles.
\* So a ticker's moving averages, RSI and bands are those stored for the last
\* candle, however long the table; its EMAs, MACD and signal, which remember
\* every candle since their seed, are what the table would store had it only the
\* rows the ticker selects (LIMIT 120): what it does store until it has more rows
\* than that, and from then on numbers of another seed.  The hourly tickers fetch
\* their candles and are compared with the series of all of them.  (With fewer
\* candles than an average needs the ticker shows 0; its ADX is another formula.)
LiveMatchesStored == Init => \A rows \in Tried : ShownAsStored(rows)

Repainted ==
  {rows \in Tried :
     LET before == StoredRows(Front(rows))  after == StoredRows(rows)
         n == Len(rows)
     IN \E i \in 1..(n - 1) :
          \/ [before[i] EXCEPT !.macd = 0] # [after[i] EXCEPT !.macd = 0]
          \/ (i >= Slow \/ n # Slow) /\ before[i].macd # after[i].macd}

\* The indicators stored for a day look at no later candle ("considering only
\* closes[0..i]"): a table that grows by a candle keeps what its earlier rows say.
\* The exception is the MACD of the rows before the Slow-th, which are 0 until the
\* table has Slow rows.
RowsStay == Init => Repainted = {}

(***************************************************************************)
(* Performance.                                                            *)
(***************************************************************************)
\* The first trade buys with half of the money, the second with the rest.
Trades(t1, t2) ==
  <<[at |-> t1, cash |-> 5, units |-> 1], [at |-> t2, cash |-> 0, units |-> 2]>>

\* Of a portfolio opened at a time that its created_at says, or does not.
CoversLife(opened, created, t) ==
  LET life == LifeDays(created, t)  age == DateOf(t - opened)
  IN /\ created = opened => life \in (age - 1)..(age + 1)
     /\ \A t1 \in opened..t : \A t2 \in t1..t :
          LET closes == [d \in (-DefaultAge)..(Oldest + 3) |-> 5 + DefaultAge + d]
              answer == GetPerformance(created, t, Trades(t1, t2), 10, closes, 12)
          IN /\ answer[Field(life)] # {}
             /\ created = opened =>
                  \A at \in {t1, t2} :
                    at < Cutoff(t, life) => at < Day * (CreationDate(created) + 1)
             /\ \A f \in DOMAIN answer : answer[f] # {} => f <= life
             /\ t1 # t2 => \A f \in DOMAIN answer : Cardinality(answer[f]) <= 1

\* Each coin with a price has a return since its portfolio was created, however
\* old that is: in return_life, or in the field of the fixed period that is as
\* long.  It leaves out only trades of the creation date, as UTC, or of the hours
\* between Korean and UTC midnight before it; no return covers a longer period;
\* the age is a day off at most; and only trades in one second make a return
\* ambiguous.  A portfolio whose created_at cannot be read is DefaultAge days old.
ReturnsCoverLife ==
  Init => \A opened \in Day..(2 * Day - 1) :
            \A t \in opened..(opened + Oldest * Day) :
              \A created \in {opened, NoDate} : CoversLife(opened, created, t)
=============================================================================
