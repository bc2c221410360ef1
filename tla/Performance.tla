----------------------------- MODULE Performance -----------------------------
(***************************************************************************)
(* GetPerformance of services/simulation.go: the returns of a portfolio's  *)
(* coin over the last day, week and month and since its creation, from the *)
(* trades of sim_trades and the closes of a table of daily candles.        *)
(* Times are slots of a UTC day; amounts are integers.                     *)
(***************************************************************************)
EXTENDS Integers

CONSTANTS
  Day,         \* slots of a day
  Korea,       \* the slots by which Korean time is ahead of UTC
  Fixed,       \* the fixed periods, in days: 1, 7, 30
  DefaultAge   \* the age without a date of creation, in days: 30

ASSUME PerformanceAssumption ==
  /\ Day \in Nat \ {0} /\ Korea \in 0..Day
  /\ Fixed \subseteq Nat \ {0} /\ DefaultAge \in Nat \ {0}

DateOf(t) == t \div Day

\* created_at is written in Korean time, and its date read as one of UTC.
CreationDate(created) == DateOf(created + Korea)

\* A created_at that is empty or does not begin with a date.
NoDate == -1

\* The age of the portfolio in days, at least 1.
LifeDays(created, now) ==
  LET age == DateOf(now - Day * CreationDate(created))
  IN IF created = NoDate THEN DefaultAge ELSE IF age < 1 THEN 1 ELSE age

\* Mutant: a period as long as the life of the portfolio is skipped, too.
PeriodsShorter(life) == {days \in Fixed \cup {life} : days < life}

\* Fixed periods longer than the life of the portfolio are skipped.
Periods(life) == {days \in Fixed \cup {life} : days <= life}

Cutoff(now, days) == now - Day * days

Before(trades, cutoff) == {i \in DOMAIN trades : trades[i].at < cutoff}

\* What the latest trade before the cutoff has left: of those in the same second
\* the query returns any.  Without one, the initial capital in cash.
HoldingsAt(trades, initial, cutoff) ==
  LET before == Before(trades, cutoff)
      latest == {i \in before : \A j \in before : trades[j].at <= trades[i].at}
  IN IF before = {} THEN {[cash |-> initial, units |-> 0]}
     ELSE {[cash |-> trades[i].cash, units |-> trades[i].units] : i \in latest}

\* The close of the latest candle whose date is not after the cutoff's; 0 if the
\* table has none.
PriceAt(closes, cutoff) ==
  LET dates == {d \in DOMAIN closes : d <= DateOf(cutoff)}
  IN IF dates = {} THEN 0
     ELSE closes[CHOOSE d \in dates : \A e \in dates : e <= d]

Value(holdings, price) == holdings.cash + holdings.units * price

\* The return over the last days, in percent; none without a price or a value.
Returns(days, now, trades, initial, closes, value) ==
  LET price == PriceAt(closes, Cutoff(now, days))
      starts == {Value(h, price) :
                   h \in HoldingsAt(trades, initial, Cutoff(now, days))}
  IN {(100 * (value - start)) \div start :
        start \in {v \in starts : price > 0 /\ v > 0}}

\* return_life, the field of the periods that are not fixed.
Life == 0
Field(days) == IF days \in Fixed THEN days ELSE Life

\* For each field of the answer the values it may have; none is null.  A period
\* that is skipped leaves its field empty; when the portfolio is as old as a fixed
\* period its return is in that field and return_life is empty.
GetPerformance(created, now, trades, initial, closes, value) ==
  [f \in Fixed \cup {Life} |->
     UNION {Returns(days, now, trades, initial, closes, value) :
              days \in {d \in Periods(LifeDays(created, now)) : Field(d) = f}}]
=============================================================================
