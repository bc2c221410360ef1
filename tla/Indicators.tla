----------------------------- MODULE Indicators -----------------------------
(***************************************************************************)
(* services/indicators.go and the hourly tickers: the indicators of a      *)
(* sequence of candles, oldest first.  The periods of the code (9, 12, 14, *)
(* 20, 26, 50, ...) are constants.  Amounts are integers and a division    *)
(* rounds down; indexes begin at 1, so the code's index i is i + 1 here.   *)
(***************************************************************************)
EXTENDS Integers, SequencesExt

CONSTANTS
  Averages,   \* periods of the moving averages: 7, 20, 50
  Emas,       \* periods of the exponential averages: 9, 21
  Fast, Slow, \* the two averages of the MACD: 12, 26
  Signal,     \* the period of its signal line: 9
  RsiPeriod,  \* 14
  AdxPeriod,  \* 14
  Band,       \* the period of the Bollinger bands: 20
  Ranges,     \* periods of the mean true ranges: 14, 50
  Hours,      \* hours of the price changes: 4, 24
  Window      \* rows calcIndicatorsFromTable reads: 120

ASSUME PeriodsAssumption ==
  /\ Averages \cup Emas \cup Ranges \cup Hours \subseteq Nat \ {0}
  /\ {Fast, Signal, RsiPeriod, AdxPeriod, Band} \subseteq Nat \ {0}
  /\ Slow \in Nat /\ Fast < Slow
  /\ Window \in Nat /\ Slow + Signal < Window
  /\ RsiPeriod < Slow + Signal /\ RsiPeriod <= 2 * AdxPeriod
  /\ Band <= Window /\ \A p \in Averages : p <= Window

First(s, n) == SubSeq(s, 1, n)
Latest(s, n) == SubSeq(s, Len(s) - n + 1, Len(s))
Column(rows, f) == [i \in DOMAIN rows |-> rows[i][f]]
Zeros(s) == [i \in DOMAIN s |-> 0]
Abs(x) == IF x < 0 THEN -x ELSE x
Larger(x, y) == IF x > y THEN x ELSE y

(***************************************************************************)
(* Averages.                                                               *)
(***************************************************************************)
Total(s) ==
  LET sum[n \in 0..Len(s)] == IF n = 0 THEN 0 ELSE sum[n - 1] + s[n]
  IN sum[Len(s)]

mean(s) == Total(s) \div Len(s)

\* The mean of the last p values, or 0 when there are fewer.
MovingAverage(s, p) == IF Len(s) >= p THEN mean(Latest(s, p)) ELSE 0

Sqrt(x) == CHOOSE r \in 0..x : r * r <= x /\ x < (r + 1) * (r + 1)

stddev(s, avg) == Sqrt(mean([i \in DOMAIN s |-> (s[i] - avg) * (s[i] - avg)]))

\* v * k + ema * (1 - k), where k = 2 / (p + 1).
Smooth(ema, v, p) == (2 * v + (p - 1) * ema) \div (p + 1)

\* Seeded with the mean of the first p values.
calcEMA(s, p) ==
  IF Len(s) < p THEN mean(s)
  ELSE LET ema[i \in p..Len(s)] ==
             IF i = p THEN mean(First(s, p)) ELSE Smooth(ema[i - 1], s[i], p)
       IN ema[Len(s)]

\* Mutant: the seed is the mean of whatever is there.
calcEMASeriesSeededByAll(s, p) ==
  LET ema[i \in DOMAIN s] ==
        IF i <= p THEN mean(First(s, IF Len(s) < p THEN Len(s) ELSE p))
        ELSE Smooth(ema[i - 1], s[i], p)
  IN ema

\* The running mean up to the seed, then the average.
calcEMASeries(s, p) ==
  LET ema[i \in DOMAIN s] ==
        IF i <= p THEN mean(First(s, i)) ELSE Smooth(ema[i - 1], s[i], p)
  IN ema

(***************************************************************************)
(* MACD.  raw[i] = EMA12 - EMA26; its signal begins with the mean of the   *)
(* nine raw values that follow the 26th.                                   *)
(***************************************************************************)
Raw(closes) ==
  LET fast == calcEMASeries(closes, Fast)  slow == calcEMASeries(closes, Slow)
  IN [i \in DOMAIN closes |-> fast[i] - slow[i]]

\* calcMACDSeries: the MACD line.
MACDLine(closes) == IF Len(closes) < Slow THEN Zeros(closes) ELSE Raw(closes)

\* calcMACDSeries: the signal line.  Its seed is raw[26..34] of the code, which
\* leaves out the first value of the MACD line, raw[25].
SignalLine(closes) ==
  LET raw == Raw(closes)
      line[i \in DOMAIN closes] ==
        IF i < Slow + Signal THEN 0
        ELSE IF i = Slow + Signal THEN mean(SubSeq(raw, Slow + 1, i))
        ELSE Smooth(line[i - 1], raw[i], Signal)
  IN line

\* Mutant: the line begins with the Slow-th candle, the first that has a MACD.
LiveLineFromSlow(closes) ==
  [j \in 1..(Len(closes) - Slow + 1) |->
     LET upto == First(closes, Slow + j - 1)
     IN calcEMA(upto, Fast) - calcEMA(upto, Slow)]

\* macdLine of calcIndicatorsFromTable and of the hourly tickers: it begins with
\* the candle after the Slow-th.
LiveLine(closes) ==
  [j \in 1..(Len(closes) - Slow) |->
     LET upto == First(closes, Slow + j)
     IN calcEMA(upto, Fast) - calcEMA(upto, Slow)]

LiveMACD(closes) ==
  IF Len(closes) < Slow + Signal THEN [macd |-> 0, signal |-> 0]
  ELSE LET line == LiveLine(closes)
       IN [macd |-> Last(line), signal |-> calcEMA(line, Signal)]

(***************************************************************************)
(* RSI and Bollinger bands.                                                *)
(***************************************************************************)
Moves(s) == [i \in 1..(Len(s) - 1) |-> s[i + 1] - s[i]]
Gains(s) ==
  LET moves == Moves(s) IN Total([i \in DOMAIN moves |-> Larger(moves[i], 0)])
Losses(s) ==
  LET moves == Moves(s) IN Total([i \in DOMAIN moves |-> Larger(-moves[i], 0)])

\* 100 - 100 / (1 + gains / losses).
calcRSI(s) ==
  IF Len(s) < 2 THEN 50
  ELSE IF Losses(s) = 0 THEN 100
  ELSE (100 * Gains(s)) \div (Gains(s) + Losses(s))

\* 0 until there are enough closes; 50 in the hourly tickers.
RSI(closes, without) ==
  IF Len(closes) > RsiPeriod THEN calcRSI(Latest(closes, RsiPeriod + 1))
  ELSE without

Bands(closes) ==
  IF Len(closes) < Band THEN [upper |-> 0, middle |-> 0, lower |-> 0]
  ELSE LET last == Latest(closes, Band)
           dev  == stddev(last, mean(last))
       IN [upper |-> mean(last) + 2 * dev, middle |-> mean(last),
           lower |-> mean(last) - 2 * dev]

(***************************************************************************)
(* ADX.  Rows are candles with high, low, close; the j-th of these series  *)
(* compares row j + 1 with row j.                                          *)
(***************************************************************************)
TrueRange(rows) ==
  [j \in 1..(Len(rows) - 1) |->
     LET day == rows[j + 1]  before == rows[j].close
     IN Larger(day.high - day.low,
               Larger(Abs(day.high - before), Abs(day.low - before)))]

UpMove(rows, j) == rows[j + 1].high - rows[j].high
DownMove(rows, j) == rows[j].low - rows[j + 1].low

\* The larger of the two moves counts, if it is one.
PlusDM(rows) ==
  [j \in 1..(Len(rows) - 1) |->
     IF UpMove(rows, j) > DownMove(rows, j) THEN Larger(UpMove(rows, j), 0) ELSE 0]

MinusDM(rows) ==
  [j \in 1..(Len(rows) - 1) |->
     IF DownMove(rows, j) > UpMove(rows, j) THEN Larger(DownMove(rows, j), 0) ELSE 0]

\* The directional index of smoothed moves and true range.
DX(plus, minus, tr) ==
  LET up   == IF tr > 0 THEN (100 * plus) \div tr ELSE 0
      down == IF tr > 0 THEN (100 * minus) \div tr ELSE 0
  IN IF up + down > 0 THEN (100 * Abs(up - down)) \div (up + down) ELSE 0

\* Wilder's smoothing: the sum of the first p values, then 1 / p of it is
\* replaced by each new one.
Wilder(s, p) ==
  LET sum[i \in p..Len(s)] ==
        IF i = p THEN Total(First(s, p))
        ELSE sum[i - 1] - sum[i - 1] \div p + s[i]
  IN sum

\* The directional indexes of Wilder's sums.
DXSeries(rows, p) ==
  LET plus  == Wilder(PlusDM(rows), p)
      minus == Wilder(MinusDM(rows), p)
      tr    == Wilder(TrueRange(rows), p)
  IN [j \in 1..(Len(rows) - 1 - p) |->
        DX(plus[p + j], minus[p + j], tr[p + j])]

\* The mean of the first p of them, then 1 / p of it is replaced by each new one.
Smoothed(dx, p) ==
  LET adx[j \in p..Len(dx)] ==
        IF j = p THEN mean(First(dx, p))
        ELSE ((p - 1) * adx[j - 1] + dx[j]) \div p
  IN adx

\* What calcADXSeries stores, in the rows from 2 * p + 1 on.
calcADXSeries(rows, p) ==
  LET adx == Smoothed(DXSeries(rows, p), p)
  IN [i \in DOMAIN rows |-> IF i < 2 * p + 1 THEN 0 ELSE adx[i - p - 1]]

\* What calcADX computes for the tickers: one DX of exponential averages.
calcADX(rows, p) ==
  IF Len(rows) < 2 * p + 1 THEN 0
  ELSE DX(calcEMA(PlusDM(rows), p), calcEMA(MinusDM(rows), p),
          calcEMA(TrueRange(rows), p))

(***************************************************************************)
(* The three places that compute a row of indicators.                      *)
(***************************************************************************)
\* CalcAndStoreAllIndicators: the indicator columns of every row.
StoredRows(rows) ==
  LET closes == Column(rows, "close")
      macd   == MACDLine(closes)
      signal == SignalLine(closes)
      adx    == calcADXSeries(rows, AdxPeriod)
      ema    == [p \in Emas |-> calcEMASeries(closes, p)]
  IN [i \in DOMAIN rows |->
        LET upto == First(closes, i) IN
          [ma |-> [p \in Averages |-> MovingAverage(upto, p)],
           ema |-> [p \in Emas |-> ema[p][i]],
           rsi |-> RSI(upto, 0),
           macd |-> macd[i], signal |-> signal[i],
           bands |-> Bands(upto), adx |-> adx[i]]]

\* The rows calcIndicatorsFromTable selects (LIMIT 120).
LatestRows(table) ==
  Latest(table, IF Len(table) < Window THEN Len(table) ELSE Window)

\* calcIndicatorsFromTable: the indicators of a ticker, from the latest rows.
LiveRow(table) ==
  LET rows == LatestRows(table)
      closes == Column(rows, "close")
  IN [ma |-> [p \in Averages |-> MovingAverage(closes, p)],
      ema |-> [p \in Emas |-> IF Len(rows) < p THEN 0 ELSE calcEMA(closes, p)],
      rsi |-> RSI(closes, 0),
      macd |-> LiveMACD(closes).macd, signal |-> LiveMACD(closes).signal,
      bands |-> Bands(closes), adx |-> calcADX(rows, AdxPeriod),
      atr |-> [p \in Ranges |-> MovingAverage(TrueRange(rows), p)],
      volume |-> MovingAverage(Column(rows, "volume"), Band),
      highest |-> IF Len(rows) < Band THEN 0
                  ELSE FoldLeft(Larger, 0, Latest(Column(rows, "high"), Band))]

\* The prices of the last candles, weighted by their volumes.
Vwap(rows) ==
  LET weighted == [i \in DOMAIN rows |->
        ((rows[i].high + rows[i].low + rows[i].close) \div 3) * rows[i].volume]
      volume == Total(Column(rows, "volume"))
  IN IF volume > 0 THEN Total(weighted) \div volume ELSE 0

\* The change against the close of some hours ago, in percent.
Change(closes, hours) ==
  LET n == Len(closes) IN
  IF n > hours
  THEN (100 * (closes[n] - closes[n - hours])) \div closes[n - hours] ELSE 0

\* What the hourly tickers compute when they have got at least Slow candles.
HourlyRow(rows) ==
  LET closes == Column(rows, "close")
      hours == CHOOSE h \in Hours : \A g \in Hours : g <= h
  IN [ema |-> [p \in Emas |-> calcEMA(closes, p)],
      rsi |-> RSI(closes, 50),
      macd |-> LiveMACD(closes).macd, signal |-> LiveMACD(closes).signal,
      bands |-> Bands(closes),
      vwap |-> Vwap(Latest(rows, IF Len(rows) < hours THEN Len(rows) ELSE hours)),
      changes |-> [h \in Hours |-> Change(closes, h)]]
=============================================================================
