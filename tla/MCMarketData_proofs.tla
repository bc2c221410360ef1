------------------------ MODULE MCMarketData_proofs ------------------------
(***************************************************************************)
(* Proofs of what MCMarketData says of Performance and of Indicators: for  *)
(* every length of a day, set of periods, age and history of a portfolio,  *)
(* and for tables of any length.                                           *)
(***************************************************************************)
EXTENDS MCMarketData, FiniteSetTheorems, SequenceTheorems, WellFoundedInduction, TLAPS

(***************************************************************************)
(* Division, and the numbers.                                              *)
(***************************************************************************)
\* A division rounds down: what remains is less than the divisor.
LEMMA Quotient ==
  ASSUME NEW d \in Nat \ {0}, NEW x \in Int
  PROVE  x \div d \in Int /\ d * (x \div d) <= x /\ x < d * (x \div d) + d
OBVIOUS

LEMMA Products ==
  ASSUME NEW d \in Nat \ {0}, NEW a \in Int, NEW b \in Int, d * a < d * b + d
  PROVE  a <= b
OBVIOUS

\* A multiple of the divisor goes into the quotient as a whole.
LEMMA QuotientIs ==
  ASSUME NEW d \in Nat \ {0}, NEW x \in Int, NEW q \in Int,
         d * q <= x, x < d * q + d
  PROVE  x \div d = q
<1> DEFINE p == x \div d
<1>1. p \in Int /\ d * p <= x /\ x < d * p + d
  BY Quotient
<1> HIDE DEF p
<1>2. d * p < d * q + d /\ d * q < d * p + d
  <2>1. d * p \in Int /\ d * q \in Int
    BY <1>1
  <2> QED
    BY <1>1, <2>1
<1>3. p <= q /\ q <= p
  BY <1>1, <1>2, Products
<1> QED
  BY <1>1, <1>3 DEF p

LEMMA Least ==
  ASSUME NEW S \in SUBSET Nat, S # {}
  PROVE  \E m \in S : \A n \in S : m <= n
<1> DEFINE R == {p \in Nat \X Nat : p[1] < p[2]}
<1>1. IsWellFoundedOn(R, Nat)
  <2>1. R = OpToRel(<, Nat)
    BY DEF OpToRel
  <2> QED
    BY <2>1, NatLessThanWellFounded
<1>2. PICK m \in S : \A n \in S : ~ (<<n, m>> \in R)
  <2> HIDE DEF R
  <2> QED
    BY <1>1, WFMin
<1>3. ASSUME NEW n \in S PROVE m <= n
  <2>1. CASE n < m
    <3>1. <<n, m>> \in R
      BY <2>1
    <3> QED
      BY <1>2, <3>1
  <2> QED
    BY <2>1
<1> QED
  BY <1>3

\* A set of naturals with 0 and with the successors of its elements has all of them:
\* the least number it lacks would be the successor of one it has.
LEMMA SetInduction ==
  ASSUME NEW S \in SUBSET Nat, 0 \in S, \A n \in S : n + 1 \in S
  PROVE  S = Nat
<1> SUFFICES ASSUME Nat \ S # {} PROVE FALSE
  OBVIOUS
<1>1. PICK m \in Nat \ S : \A n \in Nat \ S : m <= n
  BY Least
<1>2. m # 0 /\ m - 1 \in Nat
  OBVIOUS
<1>3. m - 1 \in S
  BY <1>1, <1>2
<1> QED
  BY <1>1, <1>2, <1>3

-----------------------------------------------------------------------------
(***************************************************************************)
(* GetPerformance.                                                         *)
(***************************************************************************)
\* The age in days, however the offset of Korea moves the date of creation.
LEMMA LifeIs ==
  ASSUME NEW created \in Nat, NEW t \in Nat, created <= t
  PROVE  /\ DateOf(t) \in Nat /\ CreationDate(created) \in Nat
         /\ LifeDays(created, t) \in Nat \ {0}
         /\ LifeDays(created, t) \in (DateOf(t - created) - 1)..(DateOf(t - created) + 1)
         /\ LifeDays(created, t) >= DateOf(t) - CreationDate(created)
         /\ LifeDays(created, t) \in {1, DateOf(t) - CreationDate(created)}
<1> DEFINE born == CreationDate(created)  date == DateOf(t)  past == DateOf(t - created)
           age == DateOf(t - Day * born)
<1>1. Day \in Nat \ {0} /\ Korea \in 0..Day
  BY PerformanceAssumption
<1>2. born \in Int /\ Day * born <= created + Korea /\ created + Korea < Day * born + Day
  BY <1>1, Quotient DEF CreationDate, DateOf
<1>3. date \in Int /\ Day * date <= t /\ t < Day * date + Day
  BY <1>1, Quotient DEF DateOf
<1>4. past \in Int /\ Day * past <= t - created /\ t - created < Day * past + Day
  BY <1>1, Quotient DEF DateOf
<1>5. Day * born \in Int /\ Day * date \in Int /\ Day * past \in Int
  BY <1>1, <1>2, <1>3, <1>4
<1>6. age \in Int /\ Day * age <= t - Day * born /\ t - Day * born < Day * age + Day
      /\ Day * age \in Int
  BY <1>1, <1>5, Quotient DEF DateOf
<1>7. date >= 0 /\ born >= 0 /\ past >= 0
  <2>1. Day * 0 = 0
    BY <1>1
  <2> QED
    BY <1>1, <1>2, <1>3, <1>4, <1>5, <2>1, Products
<1> HIDE DEF born, date, past, age
<1>8. age = date - born
  <2>1. PICK q \in Int : q = date - born
    BY <1>2, <1>3
  <2>2. Day * q = Day * date - Day * born
    BY <1>1, <1>2, <1>3, <2>1
  <2>3. PICK x \in Int : x = t - Day * born
    BY <1>5
  <2>4. Day * q <= x /\ x < Day * q + Day
    BY <1>1, <1>3, <1>5, <2>2, <2>3
  <2>5. x \div Day = q
    BY <1>1, <2>4, QuotientIs
  <2> QED
    BY <2>1, <2>3, <2>5 DEF age, DateOf
<1>9. age <= past + 1
  <2>1. Day * (past + 1) = Day * past + Day
    BY <1>1, <1>4
  <2>2. Day * age < Day * (past + 1) + Day
    BY <1>1, <1>2, <1>4, <1>5, <1>6, <2>1
  <2> QED
    BY <1>1, <1>4, <1>6, <2>2, Products
<1>10. past - 1 <= age
  <2>1. Day * (past - 1) = Day * past - Day
    BY <1>1, <1>4
  <2>2. Day * (past - 1) < Day * age + Day
    BY <1>1, <1>2, <1>4, <1>5, <1>6, <2>1
  <2> QED
    BY <1>1, <1>4, <1>6, <2>2, Products
<1>11. LifeDays(created, t) = IF age < 1 THEN 1 ELSE age
  <2>1. created # NoDate
    BY DEF NoDate
  <2> QED
    BY <2>1 DEF LifeDays, age, born
<1> QED
  BY <1>3, <1>6, <1>7, <1>8, <1>9, <1>10, <1>11, <1>2, <1>4 DEF born, date, past

\* After the first day of time the life does not begin before it.
LEMMA LifeReaches ==
  ASSUME NEW created \in Nat, NEW t \in Nat, created <= t, Day <= t
  PROVE  0 <= DateOf(t) - LifeDays(created, t)
<1> DEFINE born == CreationDate(created)  date == DateOf(t)
           life == LifeDays(created, t)
<1>1. date \in Nat /\ born \in Nat /\ life \in Nat \ {0} /\ life \in {1, date - born}
  BY LifeIs
<1>2. Day \in Nat \ {0}
  BY PerformanceAssumption
<1>3. Day * date <= t /\ t < Day * date + Day
  BY <1>2, Quotient DEF DateOf
<1>4. ASSUME date = 0 PROVE FALSE
  <2>1. Day * date = 0
    BY <1>2, <1>4
  <2> QED
    BY <1>2, <1>3, <1>4, <2>1
<1> HIDE DEF born, date, life
<1>5. 0 <= date - life
  BY <1>1, <1>4
<1> QED
  BY <1>5 DEF date, life

\* Days before a time are days before its date.
LEMMA CutoffIs ==
  ASSUME NEW t \in Nat, NEW days \in Int
  PROVE  Cutoff(t, days) \in Int /\ DateOf(Cutoff(t, days)) = DateOf(t) - days
<1>1. Day \in Nat \ {0}
  BY PerformanceAssumption
<1>2. PICK date \in Int : date = DateOf(t) /\ Day * date <= t /\ t < Day * date + Day
  BY <1>1, Quotient DEF DateOf
<1>3. PICK q \in Int : q = date - days
  OBVIOUS
<1>4. PICK x \in Int : x = Cutoff(t, days) /\ x = t - Day * days
  BY <1>1 DEF Cutoff
<1>5. Day * q = Day * date - Day * days /\ Day * date \in Int /\ Day * days \in Int
  BY <1>1, <1>3
<1>6. Day * q <= x /\ x < Day * q + Day
  BY <1>1, <1>2, <1>4, <1>5
<1>7. x \div Day = q
  BY <1>1, <1>6, QuotientIs
<1> QED
  BY <1>2, <1>3, <1>4, <1>7 DEF DateOf

\* A set of integers none of which is above b has a greatest.
LEMMA Greatest ==
  ASSUME NEW S \in SUBSET Int, S # {}, NEW b \in Int, \A n \in S : n <= b
  PROVE  \E m \in S : \A n \in S : n <= m
<1> DEFINE T == {b - n : n \in S}
<1>1. T \in SUBSET Nat /\ T # {}
  <2>1. ASSUME NEW x \in T PROVE x \in Nat
    <3>1. PICK n \in S : x = b - n
      OBVIOUS
    <3>2. n \in Int /\ n <= b
      OBVIOUS
    <3> QED
      BY <3>1, <3>2
  <2>2. PICK n \in S : TRUE
    OBVIOUS
  <2>3. b - n \in T
    OBVIOUS
  <2> QED
    BY <2>1, <2>3
<1>2. PICK k \in T : \A n \in T : k <= n
  BY <1>1, Least
<1>3. PICK m \in S : k = b - m
  OBVIOUS
<1>4. ASSUME NEW n \in S PROVE n <= m
  <2>1. b - n \in T
    OBVIOUS
  <2>2. k <= b - n
    BY <1>2, <2>1
  <2> QED
    BY <1>3, <2>2
<1> QED
  BY <1>4

\* A table of closes that begins on or before the date of the cutoff has a price.
LEMMA PriceIs ==
  ASSUME NEW Dates \in SUBSET Int, NEW closes \in [Dates -> Nat \ {0}],
         NEW cutoff, DateOf(cutoff) \in Int, \E d \in Dates : d <= DateOf(cutoff)
  PROVE  PriceAt(closes, cutoff) \in Nat \ {0}
<1> DEFINE dates == {d \in DOMAIN closes : d <= DateOf(cutoff)}
           latest == CHOOSE d \in dates : \A e \in dates : e <= d
<1>1. dates # {} /\ dates \in SUBSET Int /\ dates \subseteq Dates
  OBVIOUS
<1>2. \A d \in dates : d <= DateOf(cutoff)
  OBVIOUS
<1>3. PriceAt(closes, cutoff) = closes[latest]
  BY <1>1 DEF PriceAt
<1> HIDE DEF dates
<1>4. \E d \in dates : \A e \in dates : e <= d
  BY <1>1, <1>2, Greatest
<1>5. latest \in dates
  BY <1>4
<1> HIDE DEF latest
<1> QED
  BY <1>1, <1>3, <1>5

\* A history: its trades are made between the creation and t, and leave something, in
\* cash or in units.
Lots(created, t) ==
  {lot \in [at: created..t, cash: Nat, units: Nat] : lot.cash + lot.units > 0}
Histories(created, t) == Seq(Lots(created, t))

\* What a portfolio held at a cutoff has a value; it is one if no two trades are of
\* the same second.
LEMMA HoldingsAre ==
  ASSUME NEW created \in Nat, NEW t \in Nat, NEW trades \in Histories(created, t),
         NEW initial \in Nat \ {0}, NEW cutoff \in Int, NEW price \in Nat \ {0}
  PROVE  /\ HoldingsAt(trades, initial, cutoff) # {}
         /\ \A h \in HoldingsAt(trades, initial, cutoff) : Value(h, price) \in Nat \ {0}
         /\ (\A i, j \in DOMAIN trades : trades[i].at = trades[j].at => i = j) =>
              \A g, h \in HoldingsAt(trades, initial, cutoff) : g = h
<1> DEFINE before == Before(trades, cutoff)
           latest == {i \in before : \A j \in before : trades[j].at <= trades[i].at}
<1>1. \A i \in DOMAIN trades : /\ trades[i].at \in Int /\ trades[i].at <= t
                               /\ trades[i].cash \in Nat /\ trades[i].units \in Nat
                               /\ trades[i].cash + trades[i].units > 0
  <2>1. ASSUME NEW i \in DOMAIN trades PROVE trades[i] \in Lots(created, t)
    <3>1. trades \in Seq(Lots(created, t))
      BY DEF Histories
    <3>2. i \in 1..Len(trades)
      BY <3>1, LenProperties
    <3> QED
      BY <3>1, <3>2, ElementOfSeq
  <2> QED
    BY <2>1 DEF Lots
<1>2. before \subseteq DOMAIN trades /\ latest \subseteq before
  BY DEF Before
<1>3. CASE before = {}
  <2>1. HoldingsAt(trades, initial, cutoff) = {[cash |-> initial, units |-> 0]}
    BY <1>3 DEF HoldingsAt
  <2>2. Value([cash |-> initial, units |-> 0], price) \in Nat \ {0}
    BY DEF Value
  <2> QED
    BY <2>1, <2>2
<1>4. CASE before # {}
  <2>1. HoldingsAt(trades, initial, cutoff) =
          {[cash |-> trades[i].cash, units |-> trades[i].units] : i \in latest}
    BY <1>4 DEF HoldingsAt
  <2>2. latest # {}
    <3> DEFINE S == {trades[i].at : i \in before}
    <3>1. S \in SUBSET Int /\ S # {} /\ \A n \in S : n <= t
      BY <1>1, <1>2, <1>4
    <3> HIDE DEF S
    <3>2. PICK m \in S : \A n \in S : n <= m
      <4>1. PICK b \in Int : b = t
        OBVIOUS
      <4>2. \A n \in S : n <= b
        BY <3>1, <4>1
      <4> QED
        BY <3>1, <4>2, Greatest
    <3> USE DEF S
    <3>3. PICK i \in before : trades[i].at = m
      OBVIOUS
    <3>4. \A j \in before : trades[j].at <= trades[i].at
      BY <3>2, <3>3
    <3> QED
      BY <3>4
  <2>3. ASSUME NEW i \in latest
        PROVE  Value([cash |-> trades[i].cash, units |-> trades[i].units], price) \in Nat \ {0}
    <3>1. PICK c \in Nat, u \in Nat : c = trades[i].cash /\ u = trades[i].units /\ c + u > 0
      BY <1>1, <1>2
    <3>2. PICK w \in Nat : w = u * price /\ (u > 0 => w > 0)
      <4>1. u * price \in Nat /\ (u > 0 => u * price > 0)
        OBVIOUS
      <4> QED
        BY <4>1
    <3>3. c + w \in Nat \ {0}
      <4>1. c > 0 \/ w > 0
        BY <3>1, <3>2
      <4> QED
        BY <4>1
    <3> QED
      BY <3>1, <3>2, <3>3 DEF Value
  <2>4. ASSUME \A i, j \in DOMAIN trades : trades[i].at = trades[j].at => i = j,
               NEW i \in latest, NEW j \in latest
        PROVE  i = j
    <3>1. trades[i].at <= trades[j].at /\ trades[j].at <= trades[i].at
      BY <1>2
    <3>2. i \in DOMAIN trades /\ j \in DOMAIN trades
      BY <1>2
    <3>3. trades[i].at = trades[j].at
      BY <1>1, <3>1, <3>2
    <3> QED
      BY <2>4, <3>2, <3>3
  <2> HIDE DEF latest
  <2> QED
    BY <2>1, <2>2, <2>3, <2>4
<1> QED
  BY <1>3, <1>4

\* The period whose return a field of the answer has.
LEMMA PeriodOf ==
  ASSUME NEW life \in Nat \ {0}, NEW f \in Fixed \cup {Life}
  PROVE  /\ \A d, e \in Periods(life) : Field(d) = f /\ Field(e) = f => d = e
         /\ \A d \in Periods(life) : Field(d) = f => f <= life
         /\ life \in Periods(life)
         /\ \A d \in Periods(life) : d \in Nat \ {0}
<1>1. Fixed \subseteq Nat \ {0} /\ Life = 0
  BY PerformanceAssumption DEF Life
<1>2. \A d \in Periods(life) : d \in Fixed \cup {life} /\ d <= life
  BY DEF Periods
<1>3. \A d \in Periods(life) :
        Field(d) = f => (f \in Fixed /\ d = f) \/ (f = 0 /\ d = life)
  BY <1>1, <1>2 DEF Field
<1>4. life \in Periods(life)
  BY DEF Periods
<1>5. \A d, e \in Periods(life) : Field(d) = f /\ Field(e) = f => d = e
  BY <1>1, <1>3
<1>6. \A d \in Periods(life) : Field(d) = f => f <= life
  BY <1>1, <1>2, <1>3
<1>7. \A d \in Periods(life) : d \in Nat \ {0}
  BY <1>1, <1>2
<1> QED
  BY <1>4, <1>5, <1>6, <1>7

\* The age is that of LifeIs, or DefaultAge.
LEMMA LifeType ==
  ASSUME NEW opened \in Nat, NEW t \in Nat, opened <= t, NEW created \in {opened, NoDate}
  PROVE  /\ LifeDays(created, t) \in Nat \ {0} /\ DateOf(t) \in Nat
         /\ created # opened => LifeDays(created, t) = DefaultAge
<1>1. DateOf(t) \in Nat
  BY LifeIs
<1>2. CASE created = opened
  BY <1>1, <1>2, LifeIs
<1>3. CASE created # opened
  <2>1. LifeDays(created, t) = DefaultAge
    BY <1>3 DEF LifeDays
  <2> QED
    BY <1>1, <1>3, <2>1, PerformanceAssumption
<1> QED
  BY <1>2, <1>3

\* What the theorem below says of an answer to a request of second t.
AnswerFits(created, t, trades, answer) ==
  LET life == LifeDays(created, t)
  IN  /\ answer[Field(life)] # {}
      /\ created # NoDate =>
           \A at \in Int : at < Cutoff(t, life) => at < Day * (CreationDate(created) + 1)
      /\ DOMAIN answer = Fixed \cup {Life}
      /\ \A f \in DOMAIN answer : answer[f] # {} => f <= life
      /\ (\A i, j \in DOMAIN trades : trades[i].at = trades[j].at => i = j) =>
           \A f \in DOMAIN answer : \A x, y \in answer[f] : x = y

\* GetPerformance, for every history of trades, table of closes, capital and present
\* value, and whether created_at can be read or not: the answer has a return for the
\* whole life of the portfolio, in return_life or in the field of the fixed period
\* that is as long, if the table of closes reaches back to its cutoff; it leaves out
\* only trades of the day of creation, has no return of a longer period, and at most
\* one return in a field unless two trades are of the same second.
THEOREM AnswerCovers ==
  ASSUME NEW opened \in Nat, NEW t \in Nat, opened <= t, NEW created \in {opened, NoDate},
         NEW trades \in Histories(opened, t), NEW initial \in Nat \ {0}, NEW value \in Int,
         NEW Dates \in SUBSET Int, NEW closes \in [Dates -> Nat \ {0}],
         \E d \in Dates : d <= DateOf(t) - LifeDays(created, t)
  PROVE  AnswerFits(created, t, trades,
                    GetPerformance(created, t, trades, initial, closes, value))
<1> PICK life : life = LifeDays(created, t)
  OBVIOUS
<1> PICK answer : answer = GetPerformance(created, t, trades, initial, closes, value)
  OBVIOUS
<1> SUFFICES /\ answer[Field(life)] # {}
             /\ created # NoDate =>
                  \A at \in Int :
                    at < Cutoff(t, life) => at < Day * (CreationDate(created) + 1)
             /\ DOMAIN answer = Fixed \cup {Life}
             /\ \A f \in DOMAIN answer : answer[f] # {} => f <= life
             /\ (\A i, j \in DOMAIN trades : trades[i].at = trades[j].at => i = j) =>
                  \A f \in DOMAIN answer : \A x, y \in answer[f] : x = y
  BY DEF AnswerFits
<1> DEFINE born == CreationDate(created)  date == DateOf(t)
           Has(d) == Returns(d, t, trades, initial, closes, value)
<1>1. date \in Nat /\ life \in Nat \ {0}
  BY LifeType
<1>2. Day \in Nat \ {0} /\ Fixed \subseteq Nat \ {0}
  BY PerformanceAssumption
<1>3. \E d \in Dates : d <= date - life
  OBVIOUS
<1>4. /\ DOMAIN answer = Fixed \cup {Life}
      /\ \A f \in Fixed \cup {Life} :
           answer[f] = UNION {Has(d) : d \in {d \in Periods(life) : Field(d) = f}}
  BY DEF GetPerformance
<1>5. Field(life) \in Fixed \cup {Life}
  BY DEF Field
<1>6. Has(life) # {}
  <2>1. PICK cutoff \in Int : cutoff = Cutoff(t, life) /\ DateOf(cutoff) = date - life
    BY <1>1, CutoffIs
  <2>2. PICK price \in Nat \ {0} : price = PriceAt(closes, cutoff)
    <3>1. DateOf(cutoff) \in Int
      BY <1>1, <2>1
    <3>2. \E d \in Dates : d <= DateOf(cutoff)
      BY <1>3, <2>1
    <3> QED
      BY <3>1, <3>2, PriceIs
  <2>0. /\ HoldingsAt(trades, initial, cutoff) # {}
        /\ \A h \in HoldingsAt(trades, initial, cutoff) : Value(h, price) \in Nat \ {0}
    BY HoldingsAre
  <2>3. PICK h \in HoldingsAt(trades, initial, cutoff) : TRUE
    BY <2>0
  <2>4. PICK v \in Nat \ {0} : v = Value(h, price)
    BY <2>0
  <2>5. (100 * (value - v)) \div v \in Has(life)
    BY <2>1, <2>2, <2>4 DEF Returns
  <2> QED
    BY <2>5
<1>7. answer[Field(life)] # {}
  BY <1>1, <1>4, <1>5, <1>6, PeriodOf
<1>8. ASSUME created = opened, NEW at \in Int, at < Cutoff(t, life)
      PROVE  at < Day * (born + 1)
  <2>0. born \in Nat /\ life >= date - born
    BY <1>8, LifeIs
  <2>1. Day * date <= t /\ t < Day * date + Day
    BY <1>2, Quotient DEF DateOf
  <2>2. PICK x \in Nat : x = life - (date - born)
    <3> HIDE DEF born, date
    <3> QED
      BY <1>1, <2>0
  <2> HIDE DEF born, date
  <2>3. Day * life = Day * date - Day * born + Day * x
    <3>1. life = date - born + x
      BY <1>1, <2>0, <2>2
    <3> QED
      BY <1>1, <1>2, <2>0, <3>1
  <2>4. Day * (born + 1) = Day * born + Day /\ Day * x >= 0
    BY <1>1, <1>2, <2>0
  <2>5. at < t - Day * life
    BY <1>8 DEF Cutoff
  <2>6. Day * life \in Int /\ Day * date \in Int /\ Day * born \in Int /\ Day * x \in Int
    BY <1>1, <1>2, <2>0
  <2> QED
    BY <1>2, <2>1, <2>3, <2>4, <2>5, <2>6
<1>9. ASSUME NEW f \in DOMAIN answer, answer[f] # {} PROVE f <= life
  <2>1. PICK d \in Periods(life) : Field(d) = f
    BY <1>4, <1>9
  <2> QED
    BY <1>1, <1>4, <2>1, PeriodOf
<1>10. ASSUME \A i, j \in DOMAIN trades : trades[i].at = trades[j].at => i = j,
              NEW f \in DOMAIN answer, NEW x \in answer[f], NEW y \in answer[f]
       PROVE  x = y
  <2>1. PICK d \in Periods(life) : Field(d) = f /\ x \in Has(d)
    BY <1>4
  <2>2. PICK e \in Periods(life) : Field(e) = f /\ y \in Has(e)
    BY <1>4
  <2>3. d = e /\ d \in Nat \ {0}
    BY <1>1, <1>4, <2>1, <2>2, PeriodOf
  <2>4. PICK cutoff \in Int : cutoff = Cutoff(t, d) /\ DateOf(cutoff) = date - d
    BY <2>3, CutoffIs
  <2>5. PICK price : price = PriceAt(closes, cutoff)
    OBVIOUS
  <2>6. \E g, h \in HoldingsAt(trades, initial, cutoff) :
          /\ x = (100 * (value - Value(g, price))) \div Value(g, price)
          /\ y = (100 * (value - Value(h, price))) \div Value(h, price)
          /\ price > 0
    BY <2>1, <2>2, <2>3, <2>4, <2>5 DEF Returns
  <2>7. price \in Nat \ {0}
    <3>1. CASE \E n \in Dates : n <= DateOf(cutoff)
      <4>1. DateOf(cutoff) \in Int
        BY <1>1, <2>3, <2>4
      <4> QED
        BY <2>5, <3>1, <4>1, PriceIs
    <3>2. CASE ~ \E n \in Dates : n <= DateOf(cutoff)
      <4>1. PriceAt(closes, cutoff) = 0
        BY <3>2 DEF PriceAt
      <4> QED
        BY <2>5, <2>6, <4>1
    <3> QED
      BY <3>1, <3>2
  <2>8. \A g, h \in HoldingsAt(trades, initial, cutoff) : g = h
    BY <1>10, <2>7, HoldingsAre
  <2> QED
    BY <2>6, <2>8
<1> QED
  BY <1>4, <1>7, <1>8, <1>9, <1>10

LEMMA AtMostOne ==
  ASSUME NEW S, \A x, y \in S : x = y
  PROVE  Cardinality(S) <= 1
<1>1. CASE S = {}
  BY <1>1, FS_EmptySet
<1>2. CASE S # {}
  <2>1. PICK x \in S : TRUE
    BY <1>2
  <2>2. S = {x}
    BY <2>1
  <2>3. Cardinality({x}) = 1
    BY FS_Singleton
  <2> QED
    BY <2>2, <2>3
<1> QED
  BY <1>1, <1>2

\* Each coin with a price has a return since its portfolio was created, for every
\* length of a day, offset of Korea, set of fixed periods, default age and bound on
\* the age.
THEOREM ReturnsCorrect == ReturnsCoverLife
<1> SUFFICES ASSUME NEW opened \in Day..(2 * Day - 1),
                    NEW t \in opened..(opened + Oldest * Day),
                    NEW created \in {opened, NoDate}
             PROVE  CoversLife(opened, created, t)
  BY DEF ReturnsCoverLife
<1> DEFINE life == LifeDays(created, t)
           closes == [d \in (-DefaultAge)..(Oldest + 3) |-> 5 + DefaultAge + d]
<1>1. Day \in Nat \ {0} /\ Oldest \in Nat /\ DefaultAge \in Nat \ {0}
  BY PerformanceAssumption, InputsAssumption
<1>2. opened \in Nat /\ t \in Nat /\ opened <= t /\ Day <= t
  <2>1. 2 * Day - 1 \in Int /\ opened + Oldest * Day \in Int
    BY <1>1
  <2> QED
    BY <1>1, <2>1
<1>3. created = opened => life \in (DateOf(t - opened) - 1)..(DateOf(t - opened) + 1)
  BY <1>2, LifeIs
<1>4. /\ closes \in [(-DefaultAge)..(Oldest + 3) -> Nat \ {0}]
      /\ (-DefaultAge)..(Oldest + 3) \in SUBSET Int
      /\ -DefaultAge \in (-DefaultAge)..(Oldest + 3)
  BY <1>1
<1>5. -DefaultAge <= DateOf(t) - life
  <2>1. /\ life \in Nat \ {0} /\ DateOf(t) \in Nat
        /\ created # opened => life = DefaultAge
    BY <1>2, LifeType
  <2>2. created = opened => 0 <= DateOf(t) - life
    BY <1>2, LifeReaches
  <2> HIDE DEF life
  <2> QED
    BY <1>1, <2>1, <2>2
<1>6. ASSUME NEW t1 \in opened..t, NEW t2 \in t1..t,
             NEW answer, answer = GetPerformance(created, t, Trades(t1, t2), 10, closes, 12)
      PROVE  /\ answer[Field(life)] # {}
             /\ created = opened =>
                  \A at \in {t1, t2} :
                    at < Cutoff(t, life) => at < Day * (CreationDate(created) + 1)
             /\ \A f \in DOMAIN answer : answer[f] # {} => f <= life
             /\ t1 # t2 => \A f \in DOMAIN answer : Cardinality(answer[f]) <= 1
  <2>1. PICK trades : trades = Trades(t1, t2)
    OBVIOUS
  <2>2. trades \in Histories(opened, t)
    <3>1. /\ [at |-> t1, cash |-> 5, units |-> 1] \in Lots(opened, t)
          /\ [at |-> t2, cash |-> 0, units |-> 2] \in Lots(opened, t)
      BY <1>2 DEF Lots
    <3>2. trades \in Seq(Lots(opened, t))
      BY <2>1, <3>1 DEF Trades
    <3> QED
      BY <3>2 DEF Histories
  <2>3. t1 # t2 => \A i, j \in DOMAIN trades : trades[i].at = trades[j].at => i = j
    BY <2>1 DEF Trades
  <2>4. t1 \in Int /\ t2 \in Int
    BY <1>2
  <2>5. 10 \in Nat \ {0} /\ 12 \in Int
    OBVIOUS
  <2>6. PICK k : k = closes
    OBVIOUS
  <2>7. PICK Dates : Dates = (-DefaultAge)..(Oldest + 3)
    OBVIOUS
  <2> HIDE DEF life, closes
  <2>8. /\ Dates \in SUBSET Int /\ k \in [Dates -> Nat \ {0}]
        /\ \E d \in Dates : d <= DateOf(t) - life
    BY <1>4, <1>5, <2>6, <2>7
  <2>9. answer = GetPerformance(created, t, trades, 10, k, 12)
    BY <1>6, <2>1, <2>6
  <2>10. life = LifeDays(created, t)
    BY DEF life
  <2>11. AnswerFits(created, t, trades, answer)
    <3>1. \A tt \in Histories(opened, t) : \A D \in SUBSET Int : \A cl \in [D -> Nat \ {0}] :
            (\E d \in D : d <= DateOf(t) - life) =>
              AnswerFits(created, t, tt, GetPerformance(created, t, tt, 10, cl, 12))
      <4> SUFFICES ASSUME NEW tt \in Histories(opened, t), NEW D \in SUBSET Int,
                          NEW cl \in [D -> Nat \ {0}], \E d \in D : d <= DateOf(t) - life
                   PROVE  AnswerFits(created, t, tt, GetPerformance(created, t, tt, 10, cl, 12))
        OBVIOUS
      <4>1. \E d \in D : d <= DateOf(t) - LifeDays(created, t)
        BY <2>10
      <4> QED
        BY <1>2, <2>5, <4>1, AnswerCovers
    <3>2. AnswerFits(created, t, trades, GetPerformance(created, t, trades, 10, k, 12))
      BY <2>2, <2>8, <3>1
    <3> QED
      BY Zenon, <2>9, <3>2
  <2>12. /\ answer[Field(life)] # {}
         /\ created = opened =>
              \A at \in Int : at < Cutoff(t, life) => at < Day * (CreationDate(created) + 1)
         /\ \A f \in DOMAIN answer : answer[f] # {} => f <= life
         /\ (\A i, j \in DOMAIN trades : trades[i].at = trades[j].at => i = j) =>
              \A f \in DOMAIN answer : \A x, y \in answer[f] : x = y
    <3>1. created = opened => created # NoDate
      BY <1>2 DEF NoDate
    <3> QED
      BY <2>10, <2>11, <3>1 DEF AnswerFits
  <2>13. ASSUME t1 # t2, NEW f \in DOMAIN answer PROVE Cardinality(answer[f]) <= 1
    <3>1. \A x, y \in answer[f] : x = y
      BY <2>3, <2>12, <2>13
    <3> QED
      BY <3>1, AtMostOne
  <2> QED
    BY <2>4, <2>12, <2>13
<1> QED
  BY <1>3, <1>6 DEF CoversLife

-----------------------------------------------------------------------------
(***************************************************************************)
(* The recursive functions of Indicators.  Each is defined over lo..hi: up *)
(* to p its values are given, beyond it each is a step from the one before.*)
(***************************************************************************)
StepsAre(lo, hi, p, seed, step) ==
  \A i \in lo..hi : /\ i <= p => seed[i] \in Int
                    /\ i > p => \A e \in Int : step[i][e] \in Int

\* f takes the steps from lo to hi.
Follows(f, lo, hi, p, seed, step) ==
  \A i \in lo..hi : f[i] = IF i <= p THEN seed[i] ELSE step[i][f[i - 1]]

Run(f, lo, hi, p, seed, step) ==
  f \in [lo..hi -> Int] /\ Follows(f, lo, hi, p, seed, step)

\* There is such a function.
LEMMA RunExists ==
  ASSUME NEW lo \in Int, NEW hi \in Int, NEW p \in Int, lo <= p,
         NEW seed, NEW step, StepsAre(lo, hi, p, seed, step)
  PROVE  \E f : Run(f, lo, hi, p, seed, step)
<1> DEFINE U == {m \in Nat : lo + m - 1 <= hi =>
                   \E f : Run(f, lo, lo + m - 1, p, seed, step)}
<1>1. 0 \in U
  <2> DEFINE f == [i \in lo..(lo + 0 - 1) |-> 0]
  <2>1. Run(f, lo, lo + 0 - 1, p, seed, step)
    BY DEF Run, Follows
  <2> QED
    BY <2>1
<1>2. ASSUME NEW m \in U, lo + (m + 1) - 1 <= hi
      PROVE  \E f : Run(f, lo, lo + (m + 1) - 1, p, seed, step)
  <2>1. PICK top \in Int : top = lo + m - 1 /\ top + 1 = lo + (m + 1) - 1 /\ top <= hi
                           /\ top + 1 <= hi /\ top >= lo - 1
    BY <1>2
  <2>2. PICK g : Run(g, lo, top, p, seed, step)
    BY <1>2, <2>1
  <2> DEFINE last == IF top + 1 <= p THEN seed[top + 1] ELSE step[top + 1][g[top]]
             f == [i \in lo..(top + 1) |-> IF i = top + 1 THEN last ELSE g[i]]
  <2>3. last \in Int
    <3>1. top + 1 \in lo..hi
      BY <2>1
    <3>2. CASE top + 1 <= p
      BY <3>1, <3>2 DEF StepsAre
    <3>3. CASE top + 1 > p
      <4>1. top \in lo..top
        BY <2>1, <3>3
      <4>2. g[top] \in Int
        BY <2>2, <4>1 DEF Run
      <4>3. \A e \in Int : step[top + 1][e] \in Int
        BY <3>1, <3>3 DEF StepsAre
      <4>4. ~ (top + 1 <= p)
        BY <2>1, <3>3
      <4> QED
        BY Zenon, <4>2, <4>3, <4>4
    <3> QED
      BY <2>1, <3>2, <3>3
  <2>4. f \in [lo..(top + 1) -> Int]
    <3> HIDE DEF last
    <3>1. \A i \in lo..(top + 1) : i # top + 1 => i \in lo..top
      BY <2>1
    <3>2. g \in [lo..top -> Int]
      BY <2>2 DEF Run
    <3> QED
      BY <2>3, <3>1, <3>2
  <2>5. ASSUME NEW i \in lo..(top + 1)
        PROVE  f[i] = IF i <= p THEN seed[i] ELSE step[i][f[i - 1]]
    <3>1. CASE i = top + 1
      <4>1. f[i] = last /\ (~ (i <= p) => f[i - 1] = g[top])
        <5>1. i - 1 = top /\ i - 1 # top + 1
          BY <2>1, <3>1
        <5>2. ~ (i <= p) => top \in lo..(top + 1)
          BY <2>1, <3>1
        <5> HIDE DEF last
        <5> QED
          BY <3>1, <5>1, <5>2
      <4> HIDE DEF f
      <4> QED
        BY Zenon, <3>1, <4>1
    <3>2. CASE i \in lo..top
      <4>1. f[i] = g[i] /\ (~ (i <= p) => f[i - 1] = g[i - 1])
        <5>1. i # top + 1 /\ i - 1 # top + 1 /\ (~ (i <= p) => i - 1 \in lo..(top + 1))
          BY <2>1, <3>2
        <5> HIDE DEF last
        <5> QED
          BY <5>1
      <4> HIDE DEF f
      <4> QED
        BY Zenon, <2>2, <3>2, <4>1 DEF Run, Follows
    <3> QED
      BY <2>1, <3>1, <3>2
  <2>6. Run(f, lo, top + 1, p, seed, step)
    <3> HIDE DEF f
    <3> QED
      BY Zenon, <2>4, <2>5 DEF Run, Follows
  <2> QED
    BY <2>1, <2>6
<1>3. U = Nat
  <2> HIDE DEF U
  <2>1. \A m \in U : m + 1 \in U
    BY <1>2 DEF U
  <2>2. U \in SUBSET Nat
    BY DEF U
  <2> QED
    BY <1>1, <2>1, <2>2, SetInduction
<1>4. CASE hi < lo
  <2> DEFINE f == [i \in lo..hi |-> 0]
  <2>1. Run(f, lo, hi, p, seed, step)
    BY <1>4 DEF Run, Follows
  <2> QED
    BY <2>1
<1>5. CASE lo <= hi
  <2>1. PICK m \in Nat : m = hi - lo + 1 /\ lo + m - 1 = hi
    BY <1>5
  <2>2. m \in U
    BY <1>3, <2>1
  <2>3. lo + m - 1 <= hi => \E f : Run(f, lo, lo + m - 1, p, seed, step)
    BY <2>2
  <2> QED
    BY <2>1, <2>3
<1> QED
  BY <1>4, <1>5

\* A function that takes the steps has integers for values.
LEMMA RunTyped ==
  ASSUME NEW lo \in Int, NEW hi \in Int, NEW p \in Int, lo <= p,
         NEW seed, NEW step, StepsAre(lo, hi, p, seed, step),
         NEW g, Follows(g, lo, hi, p, seed, step)
  PROVE  \A i \in lo..hi : g[i] \in Int
<1> DEFINE U == {m \in Nat : lo + m <= hi => g[lo + m] \in Int}
<1>1. 0 \in U
  <2>1. lo + 0 = lo
    OBVIOUS
  <2>2. CASE lo <= hi
    <3>1. lo \in lo..hi
      BY <2>2
    <3>2. g[lo] = seed[lo] /\ seed[lo] \in Int
      BY <3>1 DEF Follows, StepsAre
    <3> QED
      BY <2>1, <3>2
  <2> QED
    BY <2>1, <2>2
<1>2. ASSUME NEW m \in U, lo + (m + 1) <= hi PROVE g[lo + (m + 1)] \in Int
  <2>1. PICK i \in lo..hi : i = lo + (m + 1) /\ i - 1 = lo + m /\ i - 1 <= hi
    BY <1>2
  <2>2. g[i - 1] \in Int
    BY <2>1
  <2>3. CASE i <= p
    <3>1. g[i] = seed[i] /\ seed[i] \in Int
      BY <2>3 DEF Follows, StepsAre
    <3> QED
      BY <2>1, <3>1
  <2>4. CASE ~ (i <= p)
    <3>1. g[i] = step[i][g[i - 1]]
      BY Zenon, <2>4 DEF Follows
    <3>2. \A e \in Int : step[i][e] \in Int
      BY <2>4 DEF StepsAre
    <3>3. g[i] \in Int
      BY Zenon, <2>2, <3>1, <3>2
    <3> QED
      BY <2>1, <3>3
  <2> QED
    BY <2>3, <2>4
<1>3. U = Nat
  <2> HIDE DEF U
  <2>1. \A m \in U : m + 1 \in U
    BY <1>2 DEF U
  <2>2. U \in SUBSET Nat
    BY DEF U
  <2> QED
    BY <1>1, <2>1, <2>2, SetInduction
<1>4. ASSUME NEW i \in lo..hi PROVE g[i] \in Int
  <2>1. PICK m \in Nat : m = i - lo /\ lo + m = i /\ lo + m <= hi
    OBVIOUS
  <2>2. m \in U
    BY <1>3, <2>1
  <2> QED
    BY <2>1, <2>2
<1> QED
  BY <1>4

\* Two functions with the same value at k and the same steps beyond it have the same
\* values there, though the one be shifted against the other.
SameSteps(step, other, k, m, off) == \A i \in (k + 1)..m : step[i] = other[i + off]

LEMMA RunAgree ==
  ASSUME NEW lo \in Int, NEW hi \in Int, NEW p \in Int, NEW seed, NEW step,
         NEW f, Follows(f, lo, hi, p, seed, step),
         NEW lo2 \in Int, NEW hi2 \in Int, NEW p2 \in Int, NEW seed2, NEW step2,
         NEW g, Follows(g, lo2, hi2, p2, seed2, step2),
         NEW off \in Int, NEW k \in Int, NEW m \in Int,
         lo <= k, p <= k, m <= hi, lo2 <= k + off, p2 <= k + off, m + off <= hi2,
         f[k] = g[k + off], SameSteps(step, step2, k, m, off)
  PROVE  \A i \in k..m : f[i] = g[i + off]
<1> DEFINE U == {n \in Nat : k + n <= m => f[k + n] = g[k + n + off]}
<1>1. 0 \in U
  <2>1. k + 0 = k /\ k + 0 + off = k + off
    OBVIOUS
  <2> QED
    BY <2>1
<1>2. ASSUME NEW n \in U, k + (n + 1) <= m PROVE f[k + (n + 1)] = g[k + (n + 1) + off]
  <2>1. PICK i \in (k + 1)..m : i = k + (n + 1) /\ i - 1 = k + n /\ k + n <= m
    BY <1>2
  <2>2. PICK j \in Int : j = i + off /\ j - 1 = k + n + off
    BY <2>1
  <2>3. f[i - 1] = g[j - 1]
    BY <2>1, <2>2
  <2>4. i \in lo..hi /\ ~ (i <= p) /\ j \in lo2..hi2 /\ ~ (j <= p2)
    BY <2>1, <2>2
  <2>5. f[i] = step[i][f[i - 1]]
    BY Zenon, <2>4 DEF Follows
  <2>6. g[j] = step2[j][g[j - 1]]
    BY Zenon, <2>4 DEF Follows
  <2>7. step[i] = step2[j]
    BY <2>2 DEF SameSteps
  <2>8. f[i] = g[j]
    BY Zenon, <2>3, <2>5, <2>6, <2>7
  <2>9. j = k + (n + 1) + off
    BY <2>1, <2>2
  <2> QED
    BY <2>1, <2>8, <2>9
<1>3. U = Nat
  <2> HIDE DEF U
  <2>1. \A n \in U : n + 1 \in U
    BY <1>2 DEF U
  <2>2. U \in SUBSET Nat
    BY DEF U
  <2> QED
    BY <1>1, <2>1, <2>2, SetInduction
<1>4. ASSUME NEW i \in k..m PROVE f[i] = g[i + off]
  <2>1. PICK n \in Nat : n = i - k /\ k + n = i /\ k + n <= m /\ k + n + off = i + off
    OBVIOUS
  <2>2. n \in U
    BY <1>3, <2>1
  <2> QED
    BY <2>1, <2>2
<1> QED
  BY <1>4

\* A function that is defined by the steps takes them, as steps of integers.
Extends(wide, step, lo, hi, p) ==
  \A i \in lo..hi : ~ (i <= p) => \A e \in Int : wide[i][e] = step[i][e]

LEMMA RunFollows ==
  ASSUME NEW lo \in Int, NEW hi \in Int, NEW p \in Int, lo <= p,
         NEW seed, NEW step, StepsAre(lo, hi, p, seed, step), NEW wide,
         NEW g, g = [i \in lo..hi |-> g[i]],
         Follows(g, lo, hi, p, seed, wide), Extends(wide, step, lo, hi, p)
  PROVE  Run(g, lo, hi, p, seed, step)
<1>1. StepsAre(lo, hi, p, seed, wide)
  <2>1. ASSUME NEW i \in lo..hi, i > p, NEW e \in Int PROVE wide[i][e] \in Int
    <3>1. ~ (i <= p)
      BY <2>1
    <3> QED
      BY Zenon, <2>1, <3>1 DEF StepsAre, Extends
  <2> QED
    BY Zenon, <2>1 DEF StepsAre
<1>2. \A i \in lo..hi : g[i] \in Int
  BY <1>1, RunTyped
<1>3. g \in [lo..hi -> Int]
  BY Zenon, <1>2
<1>4. ASSUME NEW i \in lo..hi, ~ (i <= p) PROVE g[i] = step[i][g[i - 1]]
  <2>1. i - 1 \in lo..hi
    BY <1>4
  <2> QED
    BY Zenon, <1>2, <1>4, <2>1 DEF Follows, Extends
<1> QED
  BY Zenon, <1>3, <1>4 DEF Run, Follows

TotalSeeds(s) == [i \in 0..Len(s) |-> 0]
TotalSteps(s) == [i \in DOMAIN s |-> [e \in Int |-> e + s[i]]]

\* A total is the last of the sums.
LEMMA TotalRun ==
  ASSUME NEW s \in Seq(Int)
  PROVE  \E f : Run(f, 0, Len(s), 0, TotalSeeds(s), TotalSteps(s)) /\ Total(s) = f[Len(s)]
<1> DEFINE lo == 0  hi == Len(s)
           seed == TotalSeeds(s)
           step == TotalSteps(s)
           g == CHOOSE h : h = [i \in 0..Len(s) |->
                  IF i = 0 THEN 0 ELSE h[i - 1] + s[i]]
<1>1. /\ lo \in Int /\ hi \in Nat /\ lo <= 0 /\ DOMAIN s = 1..hi
      /\ \A i \in 1..hi : s[i] \in Int
  BY LenProperties, ElementOfSeq
<1>2. Total(s) = g[hi]
  BY Zenon DEF Total
<1>3. \A i \in lo..hi : ~ (i <= 0) => \A e \in Int : step[i][e] = e + s[i]
  BY <1>1 DEF TotalSteps
<1>4. \A i \in lo..hi : i <= 0 => seed[i] = 0 /\ i = 0
  BY <1>1 DEF TotalSeeds
<1>5. \A i \in lo..hi : ~ (i <= 0) => ~ (i = 0) /\ i - 1 \in lo..hi
  BY <1>1
<1>6. 0..Len(s) = lo..hi
  BY <1>1
<1>7. \A i \in lo..hi : ~ (i <= 0) => \A e \in Int : e + s[i] \in Int
  BY <1>1
<1>8. \A i \in lo..hi : i <= 0 => 0 \in Int
  OBVIOUS
<1>9. StepsAre(lo, hi, 0, seed, step)
  <2> HIDE DEF seed, step, lo, hi
  <2>1. ASSUME NEW i \in lo..hi, i > 0, NEW e \in Int PROVE step[i][e] \in Int
    <3>1. ~ (i <= 0)
      BY <1>1, <2>1
    <3> QED
      BY Zenon, <1>3, <1>7, <3>1
  <2>2. ASSUME NEW i \in lo..hi, i <= 0 PROVE seed[i] \in Int
    BY Zenon, <1>4, <1>8, <2>2
  <2> QED
    BY Zenon, <2>1, <2>2 DEF StepsAre
<1> HIDE DEF seed, step
<1>10. PICK f : Run(f, lo, hi, 0, seed, step)
  <2> HIDE DEF lo, hi
  <2> QED
    BY <1>1, <1>9, RunExists
<1>11. f = [i \in lo..hi |-> IF i = 0 THEN 0 ELSE f[i - 1] + s[i]]
  <2> HIDE DEF lo, hi
  <2>1. f \in [lo..hi -> Int]
    BY <1>10 DEF Run
  <2>2. ASSUME NEW i \in lo..hi
        PROVE  f[i] = IF i = 0 THEN 0 ELSE f[i - 1] + s[i]
    <3>1. CASE i <= 0
      BY Zenon, <1>4, <1>10, <3>1 DEF Run, Follows
    <3>2. CASE ~ (i <= 0)
      <4>1. f[i] = step[i][f[i - 1]]
        BY Zenon, <1>10, <3>2 DEF Run, Follows
      <4>2. f[i - 1] \in Int
        BY Zenon, <1>5, <2>1, <3>2
      <4> QED
        BY Zenon, <1>3, <1>5, <3>2, <4>1, <4>2
    <3> QED
      BY <3>1, <3>2
  <2> QED
    BY Zenon, <2>1, <2>2
<1>12. g = [i \in lo..hi |-> IF i = 0 THEN 0 ELSE g[i - 1] + s[i]]
  BY Zenon, <1>6, <1>11
<1> HIDE DEF g, lo, hi
<1>13. \A i \in lo..hi : g[i] = IF i = 0 THEN 0 ELSE g[i - 1] + s[i]
  BY Zenon, <1>12
<1>14. Run(g, lo, hi, 0, seed, step)
  <2> DEFINE W == Int \cup {g[i] : i \in lo..hi}
             wide == [i \in lo..hi |-> [e \in W |-> e + s[i]]]
  <2>1. \A i \in lo..hi : \A e \in W : wide[i][e] = e + s[i]
    OBVIOUS
  <2>2. g = [i \in lo..hi |-> g[i]]
    BY Zenon, <1>12
  <2>3. Int \subseteq W /\ \A i \in lo..hi : g[i] \in W
    OBVIOUS
  <2> HIDE DEF W, wide
  <2>4. Follows(g, lo, hi, 0, seed, wide)
    <3>1. ASSUME NEW i \in lo..hi, i <= 0 PROVE g[i] = seed[i]
      BY Zenon, <1>4, <1>13, <3>1
    <3>2. ASSUME NEW i \in lo..hi, ~ (i <= 0) PROVE g[i] = wide[i][g[i - 1]]
      BY Zenon, <1>5, <1>13, <2>1, <2>3, <3>2
    <3> QED
      BY Zenon, <3>1, <3>2 DEF Follows
  <2>5. Extends(wide, step, lo, hi, 0)
    BY Zenon, <1>3, <2>1, <2>3 DEF Extends
  <2> QED
    BY <1>1, <1>9, <2>2, <2>4, <2>5, RunFollows
<1> QED
  BY <1>2, <1>14 DEF g, lo, hi, seed, step

\* The first values of a sequence.
LEMMA FirstIs ==
  ASSUME NEW s \in Seq(Int), NEW n \in 0..Len(s)
  PROVE  /\ First(s, n) \in Seq(Int) /\ Len(First(s, n)) = n
         /\ \A i \in 1..n : First(s, n)[i] = s[i]
<1>1. /\ Len(s) \in Nat /\ \A i \in 1..n : s[i] \in Int
  BY LenProperties, ElementOfSeq
<1>2. /\ SubSeq(s, 1, n) \in Seq(Int)
      /\ Len(SubSeq(s, 1, n)) = IF 1 <= n THEN n - 1 + 1 ELSE 0
      /\ \A i \in 1..(n - 1 + 1) : SubSeq(s, 1, n)[i] = s[1 + i - 1]
  BY <1>1, SubSeqProperties
<1>3. \A i \in 1..n : 1 + i - 1 = i /\ i \in 1..(n - 1 + 1)
  BY <1>1
<1> QED
  BY <1>1, <1>2, <1>3 DEF First

LEMMA TotalType ==
  ASSUME NEW s \in Seq(Int)
  PROVE  Total(s) \in Int
<1>1. PICK f : /\ Run(f, 0, Len(s), 0, TotalSeeds(s), TotalSteps(s))
               /\ Total(s) = f[Len(s)]
  BY TotalRun
<1> QED
  BY <1>1, LenProperties DEF Run

LEMMA MeanType ==
  ASSUME NEW s \in Seq(Int), Len(s) > 0
  PROVE  mean(s) \in Int
BY TotalType, LenProperties DEF mean

LEMMA SmoothType ==
  ASSUME NEW e \in Int, NEW v \in Int, NEW p \in Nat \ {0}
  PROVE  Smooth(e, v, p) \in Int
BY DEF Smooth

EmaSeeds(s) == [i \in DOMAIN s |-> mean(First(s, i))]
EmaSteps(s, p) == [i \in DOMAIN s |-> [e \in Int |-> Smooth(e, s[i], p)]]

\* The series of averages: the means up to the p-th, then smoothed.
LEMMA EMASeriesRun ==
  ASSUME NEW s \in Seq(Int),
         NEW p \in Nat \ {0}
  PROVE  Run(calcEMASeries(s, p), 1, Len(s), p, EmaSeeds(s), EmaSteps(s, p))
<1> DEFINE lo == 1  hi == Len(s)
           seed == EmaSeeds(s)
           step == EmaSteps(s, p)
           g == CHOOSE h : h = [i \in DOMAIN s |->
                  IF i <= p THEN mean(First(s, i)) ELSE Smooth(h[i - 1], s[i], p)]
<1>1. /\ lo \in Int /\ hi \in Nat /\ p \in Int /\ lo <= p /\ DOMAIN s = lo..hi
      /\ \A i \in lo..hi : s[i] \in Int
  BY LenProperties, ElementOfSeq
<1>2. calcEMASeries(s, p) = g
  BY Zenon DEF calcEMASeries
<1>3. \A i \in lo..hi : ~ (i <= p) => \A e \in Int : step[i][e] = Smooth(e, s[i], p)
  BY <1>1 DEF EmaSteps
<1>4. \A i \in lo..hi : i <= p => seed[i] = mean(First(s, i)) /\ i <= p
  BY <1>1 DEF EmaSeeds
<1>5. \A i \in lo..hi : ~ (i <= p) => ~ (i <= p) /\ i - 1 \in lo..hi
  BY <1>1
<1>6. DOMAIN s = lo..hi
  BY <1>1
<1>7. \A i \in lo..hi : ~ (i <= p) => \A e \in Int : Smooth(e, s[i], p) \in Int
  BY <1>1, SmoothType
<1>8. \A i \in lo..hi : i <= p => mean(First(s, i)) \in Int
  <2>1. ASSUME NEW i \in lo..hi PROVE mean(First(s, i)) \in Int
    <3>1. i \in 0..Len(s) /\ i > 0
      BY <1>1
    <3> QED
      BY <3>1, FirstIs, MeanType
  <2> QED
    BY <2>1
<1>9. StepsAre(lo, hi, p, seed, step)
  <2> HIDE DEF seed, step, lo, hi
  <2>1. ASSUME NEW i \in lo..hi, i > p, NEW e \in Int PROVE step[i][e] \in Int
    <3>1. ~ (i <= p)
      BY <1>1, <2>1
    <3> QED
      BY Zenon, <1>3, <1>7, <3>1
  <2>2. ASSUME NEW i \in lo..hi, i <= p PROVE seed[i] \in Int
    BY Zenon, <1>4, <1>8, <2>2
  <2> QED
    BY Zenon, <2>1, <2>2 DEF StepsAre
<1> HIDE DEF seed, step
<1>10. PICK f : Run(f, lo, hi, p, seed, step)
  <2> HIDE DEF lo, hi
  <2> QED
    BY <1>1, <1>9, RunExists
<1>11. f = [i \in lo..hi |-> IF i <= p THEN mean(First(s, i)) ELSE Smooth(f[i - 1], s[i], p)]
  <2> HIDE DEF lo, hi
  <2>1. f \in [lo..hi -> Int]
    BY <1>10 DEF Run
  <2>2. ASSUME NEW i \in lo..hi
        PROVE  f[i] = IF i <= p THEN mean(First(s, i)) ELSE Smooth(f[i - 1], s[i], p)
    <3>1. CASE i <= p
      BY Zenon, <1>4, <1>10, <3>1 DEF Run, Follows
    <3>2. CASE ~ (i <= p)
      <4>1. f[i] = step[i][f[i - 1]]
        BY Zenon, <1>10, <3>2 DEF Run, Follows
      <4>2. f[i - 1] \in Int
        BY Zenon, <1>5, <2>1, <3>2
      <4> QED
        BY Zenon, <1>3, <1>5, <3>2, <4>1, <4>2
    <3> QED
      BY <3>1, <3>2
  <2> QED
    BY Zenon, <2>1, <2>2
<1>12. g = [i \in lo..hi |-> IF i <= p THEN mean(First(s, i)) ELSE Smooth(g[i - 1], s[i], p)]
  BY Zenon, <1>6, <1>11
<1> HIDE DEF g, lo, hi
<1>13. \A i \in lo..hi : g[i] = IF i <= p THEN mean(First(s, i)) ELSE Smooth(g[i - 1], s[i], p)
  BY Zenon, <1>12
<1>14. Run(g, lo, hi, p, seed, step)
  <2> DEFINE W == Int \cup {g[i] : i \in lo..hi}
             wide == [i \in lo..hi |-> [e \in W |-> Smooth(e, s[i], p)]]
  <2>1. \A i \in lo..hi : \A e \in W : wide[i][e] = Smooth(e, s[i], p)
    OBVIOUS
  <2>2. g = [i \in lo..hi |-> g[i]]
    BY Zenon, <1>12
  <2>3. Int \subseteq W /\ \A i \in lo..hi : g[i] \in W
    OBVIOUS
  <2> HIDE DEF W, wide
  <2>4. Follows(g, lo, hi, p, seed, wide)
    <3>1. ASSUME NEW i \in lo..hi, i <= p PROVE g[i] = seed[i]
      BY Zenon, <1>4, <1>13, <3>1
    <3>2. ASSUME NEW i \in lo..hi, ~ (i <= p) PROVE g[i] = wide[i][g[i - 1]]
      BY Zenon, <1>5, <1>13, <2>1, <2>3, <3>2
    <3> QED
      BY Zenon, <3>1, <3>2 DEF Follows
  <2>5. Extends(wide, step, lo, hi, p)
    BY Zenon, <1>3, <2>1, <2>3 DEF Extends
  <2> QED
    BY <1>1, <1>9, <2>2, <2>4, <2>5, RunFollows
<1> QED
  BY <1>2, <1>14 DEF g, lo, hi, seed, step

EmaSeed(s, p) == [i \in p..Len(s) |-> mean(First(s, p))]

\* The average of a ticker, where there are values enough for it.
LEMMA EMARun ==
  ASSUME NEW s \in Seq(Int),
         NEW p \in Nat \ {0},
         p <= Len(s)
  PROVE  \E f : Run(f, p, Len(s), p, EmaSeed(s, p), EmaSteps(s, p)) /\ calcEMA(s, p) = f[Len(s)]
<1> DEFINE lo == p  hi == Len(s)
           seed == EmaSeed(s, p)
           step == EmaSteps(s, p)
           g == CHOOSE h : h = [i \in p..Len(s) |->
                  IF i = p THEN mean(First(s, p)) ELSE Smooth(h[i - 1], s[i], p)]
<1>1. /\ lo \in Int /\ hi \in Nat /\ 0 < lo /\ lo <= hi /\ lo <= p /\ DOMAIN s = 1..hi
      /\ \A i \in lo..hi : s[i] \in Int
  BY LenProperties, ElementOfSeq
<1>2. calcEMA(s, p) = g[hi]
  <2>1. ~ (Len(s) < p)
    BY <1>1
  <2> QED
    BY Zenon, <2>1 DEF calcEMA
<1>3. \A i \in lo..hi : ~ (i <= p) => \A e \in Int : step[i][e] = Smooth(e, s[i], p)
  BY <1>1 DEF EmaSteps
<1>4. \A i \in lo..hi : i <= p => seed[i] = mean(First(s, p)) /\ i = p
  BY <1>1 DEF EmaSeed
<1>5. \A i \in lo..hi : ~ (i <= p) => ~ (i = p) /\ i - 1 \in lo..hi
  BY <1>1
<1>6. p..Len(s) = lo..hi
  BY <1>1
<1>7. \A i \in lo..hi : ~ (i <= p) => \A e \in Int : Smooth(e, s[i], p) \in Int
  BY <1>1, SmoothType
<1>8. \A i \in lo..hi : i <= p => mean(First(s, p)) \in Int
  <2>1. p \in 0..Len(s) /\ p > 0
    BY <1>1
  <2> QED
    BY <2>1, FirstIs, MeanType
<1>9. StepsAre(lo, hi, p, seed, step)
  <2> HIDE DEF seed, step, lo, hi
  <2>1. ASSUME NEW i \in lo..hi, i > p, NEW e \in Int PROVE step[i][e] \in Int
    <3>1. ~ (i <= p)
      BY <1>1, <2>1
    <3> QED
      BY Zenon, <1>3, <1>7, <3>1
  <2>2. ASSUME NEW i \in lo..hi, i <= p PROVE seed[i] \in Int
    BY Zenon, <1>4, <1>8, <2>2
  <2> QED
    BY Zenon, <2>1, <2>2 DEF StepsAre
<1> HIDE DEF seed, step
<1>10. PICK f : Run(f, lo, hi, p, seed, step)
  <2> HIDE DEF lo, hi
  <2> QED
    BY <1>1, <1>9, RunExists
<1>11. f = [i \in lo..hi |-> IF i = p THEN mean(First(s, p)) ELSE Smooth(f[i - 1], s[i], p)]
  <2> HIDE DEF lo, hi
  <2>1. f \in [lo..hi -> Int]
    BY <1>10 DEF Run
  <2>2. ASSUME NEW i \in lo..hi
        PROVE  f[i] = IF i = p THEN mean(First(s, p)) ELSE Smooth(f[i - 1], s[i], p)
    <3>1. CASE i <= p
      BY Zenon, <1>4, <1>10, <3>1 DEF Run, Follows
    <3>2. CASE ~ (i <= p)
      <4>1. f[i] = step[i][f[i - 1]]
        BY Zenon, <1>10, <3>2 DEF Run, Follows
      <4>2. f[i - 1] \in Int
        BY Zenon, <1>5, <2>1, <3>2
      <4> QED
        BY Zenon, <1>3, <1>5, <3>2, <4>1, <4>2
    <3> QED
      BY <3>1, <3>2
  <2> QED
    BY Zenon, <2>1, <2>2
<1>12. g = [i \in lo..hi |-> IF i = p THEN mean(First(s, p)) ELSE Smooth(g[i - 1], s[i], p)]
  BY Zenon, <1>6, <1>11
<1> HIDE DEF g, lo, hi
<1>13. \A i \in lo..hi : g[i] = IF i = p THEN mean(First(s, p)) ELSE Smooth(g[i - 1], s[i], p)
  BY Zenon, <1>12
<1>14. Run(g, lo, hi, p, seed, step)
  <2> DEFINE W == Int \cup {g[i] : i \in lo..hi}
             wide == [i \in lo..hi |-> [e \in W |-> Smooth(e, s[i], p)]]
  <2>1. \A i \in lo..hi : \A e \in W : wide[i][e] = Smooth(e, s[i], p)
    OBVIOUS
  <2>2. g = [i \in lo..hi |-> g[i]]
    BY Zenon, <1>12
  <2>3. Int \subseteq W /\ \A i \in lo..hi : g[i] \in W
    OBVIOUS
  <2> HIDE DEF W, wide
  <2>4. Follows(g, lo, hi, p, seed, wide)
    <3>1. ASSUME NEW i \in lo..hi, i <= p PROVE g[i] = seed[i]
      BY Zenon, <1>4, <1>13, <3>1
    <3>2. ASSUME NEW i \in lo..hi, ~ (i <= p) PROVE g[i] = wide[i][g[i - 1]]
      BY Zenon, <1>5, <1>13, <2>1, <2>3, <3>2
    <3> QED
      BY Zenon, <3>1, <3>2 DEF Follows
  <2>5. Extends(wide, step, lo, hi, p)
    BY Zenon, <1>3, <2>1, <2>3 DEF Extends
  <2> QED
    BY <1>1, <1>9, <2>2, <2>4, <2>5, RunFollows
<1> QED
  BY <1>2, <1>14 DEF g, lo, hi, seed, step

WilderSeed(s, p) == [i \in p..Len(s) |-> Total(First(s, p))]
WilderSteps(s, p) == [i \in DOMAIN s |-> [e \in Int |-> e - e \div p + s[i]]]

\* Wilder's sums.
LEMMA WilderRun ==
  ASSUME NEW s \in Seq(Int),
         NEW p \in Nat \ {0},
         p <= Len(s)
  PROVE  Run(Wilder(s, p), p, Len(s), p, WilderSeed(s, p), WilderSteps(s, p))
<1> DEFINE lo == p  hi == Len(s)
           seed == WilderSeed(s, p)
           step == WilderSteps(s, p)
           g == CHOOSE h : h = [i \in p..Len(s) |->
                  IF i = p THEN Total(First(s, p)) ELSE h[i - 1] - h[i - 1] \div p + s[i]]
<1>1. /\ lo \in Int /\ hi \in Nat /\ 0 < lo /\ lo <= hi /\ lo <= p /\ DOMAIN s = 1..hi
      /\ \A i \in lo..hi : s[i] \in Int
  BY LenProperties, ElementOfSeq
<1>2. Wilder(s, p) = g
  BY Zenon DEF Wilder
<1>3. \A i \in lo..hi : ~ (i <= p) => \A e \in Int : step[i][e] = e - e \div p + s[i]
  BY <1>1 DEF WilderSteps
<1>4. \A i \in lo..hi : i <= p => seed[i] = Total(First(s, p)) /\ i = p
  BY <1>1 DEF WilderSeed
<1>5. \A i \in lo..hi : ~ (i <= p) => ~ (i = p) /\ i - 1 \in lo..hi
  BY <1>1
<1>6. p..Len(s) = lo..hi
  BY <1>1
<1>7. \A i \in lo..hi : ~ (i <= p) => \A e \in Int : e - e \div p + s[i] \in Int
  BY <1>1
<1>8. \A i \in lo..hi : i <= p => Total(First(s, p)) \in Int
  <2>1. p \in 0..Len(s)
    BY <1>1
  <2> QED
    BY <2>1, FirstIs, TotalType
<1>9. StepsAre(lo, hi, p, seed, step)
  <2> HIDE DEF seed, step, lo, hi
  <2>1. ASSUME NEW i \in lo..hi, i > p, NEW e \in Int PROVE step[i][e] \in Int
    <3>1. ~ (i <= p)
      BY <1>1, <2>1
    <3> QED
      BY Zenon, <1>3, <1>7, <3>1
  <2>2. ASSUME NEW i \in lo..hi, i <= p PROVE seed[i] \in Int
    BY Zenon, <1>4, <1>8, <2>2
  <2> QED
    BY Zenon, <2>1, <2>2 DEF StepsAre
<1> HIDE DEF seed, step
<1>10. PICK f : Run(f, lo, hi, p, seed, step)
  <2> HIDE DEF lo, hi
  <2> QED
    BY <1>1, <1>9, RunExists
<1>11. f = [i \in lo..hi |-> IF i = p THEN Total(First(s, p)) ELSE f[i - 1] - f[i - 1] \div p + s[i]]
  <2> HIDE DEF lo, hi
  <2>1. f \in [lo..hi -> Int]
    BY <1>10 DEF Run
  <2>2. ASSUME NEW i \in lo..hi
        PROVE  f[i] = IF i = p THEN Total(First(s, p)) ELSE f[i - 1] - f[i - 1] \div p + s[i]
    <3>1. CASE i <= p
      BY Zenon, <1>4, <1>10, <3>1 DEF Run, Follows
    <3>2. CASE ~ (i <= p)
      <4>1. f[i] = step[i][f[i - 1]]
        BY Zenon, <1>10, <3>2 DEF Run, Follows
      <4>2. f[i - 1] \in Int
        BY Zenon, <1>5, <2>1, <3>2
      <4> QED
        BY Zenon, <1>3, <1>5, <3>2, <4>1, <4>2
    <3> QED
      BY <3>1, <3>2
  <2> QED
    BY Zenon, <2>1, <2>2
<1>12. g = [i \in lo..hi |-> IF i = p THEN Total(First(s, p)) ELSE g[i - 1] - g[i - 1] \div p + s[i]]
  BY Zenon, <1>6, <1>11
<1> HIDE DEF g, lo, hi
<1>13. \A i \in lo..hi : g[i] = IF i = p THEN Total(First(s, p)) ELSE g[i - 1] - g[i - 1] \div p + s[i]
  BY Zenon, <1>12
<1>14. Run(g, lo, hi, p, seed, step)
  <2> DEFINE W == Int \cup {g[i] : i \in lo..hi}
             wide == [i \in lo..hi |-> [e \in W |-> e - e \div p + s[i]]]
  <2>1. \A i \in lo..hi : \A e \in W : wide[i][e] = e - e \div p + s[i]
    OBVIOUS
  <2>2. g = [i \in lo..hi |-> g[i]]
    BY Zenon, <1>12
  <2>3. Int \subseteq W /\ \A i \in lo..hi : g[i] \in W
    OBVIOUS
  <2> HIDE DEF W, wide
  <2>4. Follows(g, lo, hi, p, seed, wide)
    <3>1. ASSUME NEW i \in lo..hi, i <= p PROVE g[i] = seed[i]
      BY Zenon, <1>4, <1>13, <3>1
    <3>2. ASSUME NEW i \in lo..hi, ~ (i <= p) PROVE g[i] = wide[i][g[i - 1]]
      BY Zenon, <1>5, <1>13, <2>1, <2>3, <3>2
    <3> QED
      BY Zenon, <3>1, <3>2 DEF Follows
  <2>5. Extends(wide, step, lo, hi, p)
    BY Zenon, <1>3, <2>1, <2>3 DEF Extends
  <2> QED
    BY <1>1, <1>9, <2>2, <2>4, <2>5, RunFollows
<1> QED
  BY <1>2, <1>14 DEF g, lo, hi, seed, step

SmoothedSeed(dx, p) == [i \in p..Len(dx) |-> mean(First(dx, p))]
SmoothedSteps(dx, p) == [i \in DOMAIN dx |-> [e \in Int |-> ((p - 1) * e + dx[i]) \div p]]

\* The smoothed directional indexes.
LEMMA SmoothedRun ==
  ASSUME NEW dx \in Seq(Int),
         NEW p \in Nat \ {0},
         p <= Len(dx)
  PROVE  Run(Smoothed(dx, p), p, Len(dx), p, SmoothedSeed(dx, p), SmoothedSteps(dx, p))
<1> DEFINE lo == p  hi == Len(dx)
           seed == SmoothedSeed(dx, p)
           step == SmoothedSteps(dx, p)
           g == CHOOSE h : h = [i \in p..Len(dx) |->
                  IF i = p THEN mean(First(dx, p)) ELSE ((p - 1) * h[i - 1] + dx[i]) \div p]
<1>1. /\ lo \in Int /\ hi \in Nat /\ 0 < lo /\ lo <= hi /\ lo <= p /\ DOMAIN dx = 1..hi
      /\ \A i \in lo..hi : dx[i] \in Int
  BY LenProperties, ElementOfSeq
<1>2. Smoothed(dx, p) = g
  BY Zenon DEF Smoothed
<1>3. \A i \in lo..hi : ~ (i <= p) => \A e \in Int : step[i][e] = ((p - 1) * e + dx[i]) \div p
  BY <1>1 DEF SmoothedSteps
<1>4. \A i \in lo..hi : i <= p => seed[i] = mean(First(dx, p)) /\ i = p
  BY <1>1 DEF SmoothedSeed
<1>5. \A i \in lo..hi : ~ (i <= p) => ~ (i = p) /\ i - 1 \in lo..hi
  BY <1>1
<1>6. p..Len(dx) = lo..hi
  BY <1>1
<1>7. \A i \in lo..hi : ~ (i <= p) => \A e \in Int : ((p - 1) * e + dx[i]) \div p \in Int
  BY <1>1
<1>8. \A i \in lo..hi : i <= p => mean(First(dx, p)) \in Int
  <2>1. p \in 0..Len(dx) /\ p > 0
    BY <1>1
  <2> QED
    BY <2>1, FirstIs, MeanType
<1>9. StepsAre(lo, hi, p, seed, step)
  <2> HIDE DEF seed, step, lo, hi
  <2>1. ASSUME NEW i \in lo..hi, i > p, NEW e \in Int PROVE step[i][e] \in Int
    <3>1. ~ (i <= p)
      BY <1>1, <2>1
    <3> QED
      BY Zenon, <1>3, <1>7, <3>1
  <2>2. ASSUME NEW i \in lo..hi, i <= p PROVE seed[i] \in Int
    BY Zenon, <1>4, <1>8, <2>2
  <2> QED
    BY Zenon, <2>1, <2>2 DEF StepsAre
<1> HIDE DEF seed, step
<1>10. PICK f : Run(f, lo, hi, p, seed, step)
  <2> HIDE DEF lo, hi
  <2> QED
    BY <1>1, <1>9, RunExists
<1>11. f = [i \in lo..hi |-> IF i = p THEN mean(First(dx, p)) ELSE ((p - 1) * f[i - 1] + dx[i]) \div p]
  <2> HIDE DEF lo, hi
  <2>1. f \in [lo..hi -> Int]
    BY <1>10 DEF Run
  <2>2. ASSUME NEW i \in lo..hi
        PROVE  f[i] = IF i = p THEN mean(First(dx, p)) ELSE ((p - 1) * f[i - 1] + dx[i]) \div p
    <3>1. CASE i <= p
      BY Zenon, <1>4, <1>10, <3>1 DEF Run, Follows
    <3>2. CASE ~ (i <= p)
      <4>1. f[i] = step[i][f[i - 1]]
        BY Zenon, <1>10, <3>2 DEF Run, Follows
      <4>2. f[i - 1] \in Int
        BY Zenon, <1>5, <2>1, <3>2
      <4> QED
        BY Zenon, <1>3, <1>5, <3>2, <4>1, <4>2
    <3> QED
      BY <3>1, <3>2
  <2> QED
    BY Zenon, <2>1, <2>2
<1>12. g = [i \in lo..hi |-> IF i = p THEN mean(First(dx, p)) ELSE ((p - 1) * g[i - 1] + dx[i]) \div p]
  BY Zenon, <1>6, <1>11
<1> HIDE DEF g, lo, hi
<1>13. \A i \in lo..hi : g[i] = IF i = p THEN mean(First(dx, p)) ELSE ((p - 1) * g[i - 1] + dx[i]) \div p
  BY Zenon, <1>12
<1>14. Run(g, lo, hi, p, seed, step)
  <2> DEFINE W == Int \cup {g[i] : i \in lo..hi}
             wide == [i \in lo..hi |-> [e \in W |-> ((p - 1) * e + dx[i]) \div p]]
  <2>1. \A i \in lo..hi : \A e \in W : wide[i][e] = ((p - 1) * e + dx[i]) \div p
    OBVIOUS
  <2>2. g = [i \in lo..hi |-> g[i]]
    BY Zenon, <1>12
  <2>3. Int \subseteq W /\ \A i \in lo..hi : g[i] \in W
    OBVIOUS
  <2> HIDE DEF W, wide
  <2>4. Follows(g, lo, hi, p, seed, wide)
    <3>1. ASSUME NEW i \in lo..hi, i <= p PROVE g[i] = seed[i]
      BY Zenon, <1>4, <1>13, <3>1
    <3>2. ASSUME NEW i \in lo..hi, ~ (i <= p) PROVE g[i] = wide[i][g[i - 1]]
      BY Zenon, <1>5, <1>13, <2>1, <2>3, <3>2
    <3> QED
      BY Zenon, <3>1, <3>2 DEF Follows
  <2>5. Extends(wide, step, lo, hi, p)
    BY Zenon, <1>3, <2>1, <2>3 DEF Extends
  <2> QED
    BY <1>1, <1>9, <2>2, <2>4, <2>5, RunFollows
<1> QED
  BY <1>2, <1>14 DEF g, lo, hi, seed, step

LEMMA SeqIs ==
  ASSUME NEW n \in Nat, NEW f, f = [i \in 1..n |-> f[i]], \A i \in 1..n : f[i] \in Int
  PROVE  f \in Seq(Int) /\ Len(f) = n
<1>1. f \in [1..n -> Int]
  BY Zenon
<1> QED
  BY <1>1

LEMMA MiddleIs ==
  ASSUME NEW s \in Seq(Int), NEW m \in 1..Len(s), NEW n \in m..Len(s)
  PROVE  /\ SubSeq(s, m, n) \in Seq(Int) /\ Len(SubSeq(s, m, n)) = n - m + 1
         /\ \A i \in 1..(n - m + 1) : SubSeq(s, m, n)[i] = s[m + i - 1]
<1>1. /\ Len(s) \in Nat /\ \A i \in m..n : s[i] \in Int
  BY LenProperties, ElementOfSeq
<1> QED
  BY <1>1, SubSeqProperties

\* The periods of the MACD.
LEMMA PeriodsAre ==
  /\ Fast \in Nat \ {0} /\ Slow \in Nat \ {0} /\ Signal \in Nat \ {0} /\ Fast < Slow
  /\ Window \in Nat /\ Slow + Signal < Window
  /\ RsiPeriod \in Nat \ {0} /\ AdxPeriod \in Nat \ {0} /\ Band \in Nat \ {0}
  /\ RsiPeriod < Slow + Signal /\ RsiPeriod <= 2 * AdxPeriod /\ Band <= Window
BY PeriodsAssumption

LEMMA RawIs ==
  ASSUME NEW closes \in Seq(Int)
  PROVE  /\ Raw(closes) \in Seq(Int) /\ Len(Raw(closes)) = Len(closes)
         /\ \A i \in 1..Len(closes) :
              Raw(closes)[i] = calcEMASeries(closes, Fast)[i] - calcEMASeries(closes, Slow)[i]
<1>1. Len(closes) \in Nat /\ DOMAIN closes = 1..Len(closes)
  BY LenProperties
<1>2. \A p \in {Fast, Slow} : calcEMASeries(closes, p) \in [1..Len(closes) -> Int]
  BY PeriodsAre, EMASeriesRun DEF Run
<1>3. Raw(closes) = [i \in 1..Len(closes) |->
        calcEMASeries(closes, Fast)[i] - calcEMASeries(closes, Slow)[i]]
  BY <1>1 DEF Raw
<1>4. \A i \in 1..Len(closes) : Raw(closes)[i] \in Int
  BY <1>2, <1>3
<1> QED
  BY <1>1, <1>3, <1>4, SeqIs

SignalSeeds(closes) ==
  [i \in DOMAIN closes |-> IF i < Slow + Signal THEN 0
                           ELSE mean(SubSeq(Raw(closes), Slow + 1, i))]
SignalSteps(closes) ==
  [i \in DOMAIN closes |-> [e \in Int |-> Smooth(e, Raw(closes)[i], Signal)]]

\* The signal line.
LEMMA SignalRun ==
  ASSUME NEW closes \in Seq(Int)
  PROVE  Run(SignalLine(closes), 1, Len(closes), Slow + Signal,
             SignalSeeds(closes), SignalSteps(closes))
<1> DEFINE raw == Raw(closes)  p == Slow + Signal  lo == 1  hi == Len(closes)
           seed == SignalSeeds(closes)
           step == SignalSteps(closes)
           g == CHOOSE h : h = [i \in DOMAIN closes |->
                  IF i < Slow + Signal THEN 0
                  ELSE IF i = Slow + Signal THEN mean(SubSeq(raw, Slow + 1, i))
                  ELSE Smooth(h[i - 1], raw[i], Signal)]
<1>1. /\ lo \in Int /\ hi \in Nat /\ p \in Int /\ lo <= p /\ DOMAIN closes = lo..hi
      /\ raw \in Seq(Int) /\ Len(raw) = hi /\ \A i \in lo..hi : raw[i] \in Int
      /\ Slow \in Nat \ {0} /\ Signal \in Nat \ {0} /\ p = Slow + Signal
  BY LenProperties, ElementOfSeq, RawIs, PeriodsAre
<1>2. SignalLine(closes) = g
  BY Zenon DEF SignalLine, raw
<1>3. \A i \in lo..hi : ~ (i <= p) => \A e \in Int : step[i][e] = Smooth(e, raw[i], Signal)
  BY <1>1 DEF SignalSteps, raw
<1>4. \A i \in lo..hi : i <= p =>
        \/ i < Slow + Signal /\ seed[i] = 0
        \/ /\ ~ (i < Slow + Signal) /\ i = Slow + Signal
           /\ seed[i] = mean(SubSeq(raw, Slow + 1, i))
  <2> HIDE DEF raw
  <2>1. \A i \in lo..hi : seed[i] = IF i < Slow + Signal THEN 0
                                    ELSE mean(SubSeq(raw, Slow + 1, i))
    BY <1>1 DEF SignalSeeds, raw
  <2> QED
    BY <1>1, <2>1
<1>5. \A i \in lo..hi :
        ~ (i <= p) => ~ (i < Slow + Signal) /\ ~ (i = Slow + Signal) /\ i - 1 \in lo..hi
  BY <1>1
<1>6. DOMAIN closes = lo..hi
  BY <1>1
<1>7. \A i \in lo..hi : ~ (i <= p) => \A e \in Int : Smooth(e, raw[i], Signal) \in Int
  BY <1>1, SmoothType
<1>8. \A i \in lo..hi : i <= p => seed[i] \in Int
  <2> HIDE DEF raw, seed
  <2>1. ASSUME NEW i \in lo..hi, i = Slow + Signal PROVE mean(SubSeq(raw, Slow + 1, i)) \in Int
    <3>1. Slow + 1 \in 1..Len(raw) /\ i \in (Slow + 1)..Len(raw)
      BY <1>1, <2>1
    <3>2. i - (Slow + 1) + 1 > 0
      BY <1>1, <2>1
    <3> QED
      BY <1>1, <3>1, <3>2, MiddleIs, MeanType
  <2>2. 0 \in Int
    OBVIOUS
  <2> QED
    BY Zenon, <1>4, <2>1, <2>2
<1>9. StepsAre(lo, hi, p, seed, step)
  <2> HIDE DEF seed, step, lo, hi, raw, p
  <2>1. ASSUME NEW i \in lo..hi, i > p, NEW e \in Int PROVE step[i][e] \in Int
    <3>1. ~ (i <= p)
      BY <1>1, <2>1
    <3> QED
      BY Zenon, <1>3, <1>7, <3>1
  <2>2. ASSUME NEW i \in lo..hi, i <= p PROVE seed[i] \in Int
    BY Zenon, <1>4, <1>8, <2>2
  <2> QED
    BY Zenon, <2>1, <2>2 DEF StepsAre
<1> HIDE DEF seed, step, raw, p
<1>10. PICK f : Run(f, lo, hi, p, seed, step)
  <2> HIDE DEF lo, hi
  <2> QED
    BY <1>1, <1>9, RunExists
<1>11. f = [i \in lo..hi |-> IF i < Slow + Signal THEN 0
                  ELSE IF i = Slow + Signal THEN mean(SubSeq(raw, Slow + 1, i))
                  ELSE Smooth(f[i - 1], raw[i], Signal)]
  <2> HIDE DEF lo, hi
  <2>1. f \in [lo..hi -> Int]
    BY <1>10 DEF Run
  <2>2. ASSUME NEW i \in lo..hi
        PROVE  f[i] = IF i < Slow + Signal THEN 0
                  ELSE IF i = Slow + Signal THEN mean(SubSeq(raw, Slow + 1, i))
                  ELSE Smooth(f[i - 1], raw[i], Signal)
    <3>1. CASE i <= p
      BY Zenon, <1>4, <1>10, <3>1 DEF Run, Follows
    <3>2. CASE ~ (i <= p)
      <4>1. f[i] = step[i][f[i - 1]]
        BY Zenon, <1>10, <3>2 DEF Run, Follows
      <4>2. f[i - 1] \in Int
        BY Zenon, <1>5, <2>1, <3>2
      <4> QED
        BY Zenon, <1>3, <1>5, <3>2, <4>1, <4>2
    <3> QED
      BY <3>1, <3>2
  <2> QED
    BY Zenon, <2>1, <2>2
<1>12. g = [i \in lo..hi |-> IF i < Slow + Signal THEN 0
                  ELSE IF i = Slow + Signal THEN mean(SubSeq(raw, Slow + 1, i))
                  ELSE Smooth(g[i - 1], raw[i], Signal)]
  BY Zenon, <1>6, <1>11
<1> HIDE DEF g, lo, hi
<1>13. \A i \in lo..hi : g[i] = IF i < Slow + Signal THEN 0
                  ELSE IF i = Slow + Signal THEN mean(SubSeq(raw, Slow + 1, i))
                  ELSE Smooth(g[i - 1], raw[i], Signal)
  BY Zenon, <1>12
<1>14. Run(g, lo, hi, p, seed, step)
  <2> DEFINE W == Int \cup {g[i] : i \in lo..hi}
             wide == [i \in lo..hi |-> [e \in W |-> Smooth(e, raw[i], Signal)]]
  <2>1. \A i \in lo..hi : \A e \in W : wide[i][e] = Smooth(e, raw[i], Signal)
    OBVIOUS
  <2>2. g = [i \in lo..hi |-> g[i]]
    BY Zenon, <1>12
  <2>3. Int \subseteq W /\ \A i \in lo..hi : g[i] \in W
    OBVIOUS
  <2> HIDE DEF W, wide
  <2>4. Follows(g, lo, hi, p, seed, wide)
    <3>1. ASSUME NEW i \in lo..hi, i <= p PROVE g[i] = seed[i]
      BY Zenon, <1>4, <1>13, <3>1
    <3>2. ASSUME NEW i \in lo..hi, ~ (i <= p) PROVE g[i] = wide[i][g[i - 1]]
      BY Zenon, <1>5, <1>13, <2>1, <2>3, <3>2
    <3> QED
      BY Zenon, <3>1, <3>2 DEF Follows
  <2>5. Extends(wide, step, lo, hi, p)
    BY Zenon, <1>3, <2>1, <2>3 DEF Extends
  <2> QED
    BY <1>1, <1>9, <2>2, <2>4, <2>5, RunFollows
<1> QED
  BY <1>2, <1>14 DEF g, lo, hi, seed, step, p

-----------------------------------------------------------------------------
(***************************************************************************)
(* Rows keep what is stored in them: every series looks at earlier values  *)
(* only.                                                                   *)
(***************************************************************************)
Candles == [close: Int, high: Int, low: Int, volume: Int]
SamePrefix(s, t, m) == \A i \in 1..m : s[i] = t[i]

LEMMA FirstSame ==
  ASSUME NEW s \in Seq(Int), NEW t \in Seq(Int), NEW m \in Nat, m <= Len(s), m <= Len(t),
         SamePrefix(s, t, m), NEW i \in 0..m
  PROVE  First(s, i) = First(t, i)
<1>1. Len(s) \in Nat /\ Len(t) \in Nat
  BY LenProperties
<1>2. i \in 0..Len(s) /\ i \in 0..Len(t)
  BY <1>1
<1>3. /\ First(s, i) \in Seq(Int) /\ Len(First(s, i)) = i
      /\ \A j \in 1..i : First(s, i)[j] = s[j]
  BY <1>2, FirstIs
<1>4. /\ First(t, i) \in Seq(Int) /\ Len(First(t, i)) = i
      /\ \A j \in 1..i : First(t, i)[j] = t[j]
  BY <1>2, FirstIs
<1>5. ASSUME NEW j \in 1..i PROVE First(s, i)[j] = First(t, i)[j]
  <2>1. j \in 1..m
    OBVIOUS
  <2>2. s[j] = t[j]
    BY <2>1 DEF SamePrefix
  <2> QED
    BY <1>3, <1>4, <2>2
<1> QED
  BY <1>3, <1>4, <1>5, SeqEqual

LEMMA MiddleSame ==
  ASSUME NEW s \in Seq(Int), NEW t \in Seq(Int), NEW m \in Nat, m <= Len(s), m <= Len(t),
         SamePrefix(s, t, m), NEW k \in 1..m, NEW i \in k..m
  PROVE  SubSeq(s, k, i) = SubSeq(t, k, i)
<1>1. Len(s) \in Nat /\ Len(t) \in Nat
  BY LenProperties
<1>2. k \in 1..Len(s) /\ k \in 1..Len(t) /\ i \in k..Len(s) /\ i \in k..Len(t)
  BY <1>1
<1>3. /\ SubSeq(s, k, i) \in Seq(Int) /\ Len(SubSeq(s, k, i)) = i - k + 1
      /\ \A j \in 1..(i - k + 1) : SubSeq(s, k, i)[j] = s[k + j - 1]
  BY <1>2, MiddleIs
<1>4. /\ SubSeq(t, k, i) \in Seq(Int) /\ Len(SubSeq(t, k, i)) = i - k + 1
      /\ \A j \in 1..(i - k + 1) : SubSeq(t, k, i)[j] = t[k + j - 1]
  BY <1>2, MiddleIs
<1>5. \A j \in 1..(i - k + 1) : k + j - 1 \in 1..m
  OBVIOUS
<1>6. \A j \in 1..(i - k + 1) : SubSeq(s, k, i)[j] = SubSeq(t, k, i)[j]
  BY <1>3, <1>4, <1>5 DEF SamePrefix
<1> QED
  BY <1>3, <1>4, <1>6, SeqEqual

LEMMA EMASame ==
  ASSUME NEW s \in Seq(Int), NEW t \in Seq(Int), NEW m \in Nat, m <= Len(s), m <= Len(t),
         SamePrefix(s, t, m), NEW p \in Nat \ {0}
  PROVE  SamePrefix(calcEMASeries(s, p), calcEMASeries(t, p), m)
<1>1. /\ Len(s) \in Nat /\ DOMAIN s = 1..Len(s) /\ Len(t) \in Nat /\ DOMAIN t = 1..Len(t)
  BY LenProperties
<1>2. PICK f : f = calcEMASeries(s, p) /\ Follows(f, 1, Len(s), p, EmaSeeds(s), EmaSteps(s, p))
  BY EMASeriesRun DEF Run
<1>3. PICK g : g = calcEMASeries(t, p) /\ Follows(g, 1, Len(t), p, EmaSeeds(t), EmaSteps(t, p))
  BY EMASeriesRun DEF Run
<1>4. ASSUME NEW i \in 1..m, i <= p PROVE f[i] = g[i]
  <2>1. i \in 1..Len(s) /\ i \in 1..Len(t) /\ i \in 0..m
    BY <1>1
  <2>2. f[i] = EmaSeeds(s)[i] /\ g[i] = EmaSeeds(t)[i]
    BY Zenon, <1>2, <1>3, <1>4, <2>1 DEF Follows
  <2>3. EmaSeeds(s)[i] = mean(First(s, i)) /\ EmaSeeds(t)[i] = mean(First(t, i))
    BY <1>1, <2>1 DEF EmaSeeds
  <2>4. First(s, i) = First(t, i)
    BY <2>1, FirstSame
  <2> QED
    BY <2>2, <2>3, <2>4
<1>5. ASSUME NEW i \in 1..m, i > p PROVE f[i] = g[i]
  <2>1. p \in 1..m /\ p <= p /\ p + 0 = p /\ m + 0 = m /\ i \in p..m /\ i + 0 = i
    BY <1>5
  <2>2. f[p] = g[p + 0]
    BY <1>4, <2>1
  <2>3. SameSteps(EmaSteps(s, p), EmaSteps(t, p), p, m, 0)
    <3>1. ASSUME NEW j \in (p + 1)..m PROVE EmaSteps(s, p)[j] = EmaSteps(t, p)[j + 0]
      <4>1. j \in DOMAIN s /\ j \in DOMAIN t /\ s[j] = t[j] /\ j + 0 = j
        BY <1>1 DEF SamePrefix
      <4> QED
        BY <4>1 DEF EmaSteps
    <3> QED
      BY <3>1 DEF SameSteps
  <2>4. \A j \in p..m : f[j] = g[j + 0]
    BY <1>1, <1>2, <1>3, <2>1, <2>2, <2>3, RunAgree
  <2> QED
    BY <2>1, <2>4
<1>6. \A i \in 1..m : f[i] = g[i]
  BY <1>4, <1>5
<1> QED
  BY <1>2, <1>3, <1>6 DEF SamePrefix

LEMMA RawSame ==
  ASSUME NEW s \in Seq(Int), NEW t \in Seq(Int), NEW m \in Nat, m <= Len(s), m <= Len(t),
         SamePrefix(s, t, m)
  PROVE  SamePrefix(Raw(s), Raw(t), m)
<1>1. Len(s) \in Nat /\ Len(t) \in Nat
  BY LenProperties
<1>2. \A i \in 1..m : calcEMASeries(s, Fast)[i] = calcEMASeries(t, Fast)[i]
  <2>1. SamePrefix(calcEMASeries(s, Fast), calcEMASeries(t, Fast), m)
    BY PeriodsAre, EMASame
  <2> QED
    BY <2>1 DEF SamePrefix
<1>3. \A i \in 1..m : calcEMASeries(s, Slow)[i] = calcEMASeries(t, Slow)[i]
  <2>1. SamePrefix(calcEMASeries(s, Slow), calcEMASeries(t, Slow), m)
    BY PeriodsAre, EMASame
  <2> QED
    BY <2>1 DEF SamePrefix
<1>4. ASSUME NEW i \in 1..m PROVE Raw(s)[i] = Raw(t)[i]
  <2>1. i \in 1..Len(s) /\ i \in 1..Len(t)
    BY <1>1
  <2>2. Raw(s)[i] = calcEMASeries(s, Fast)[i] - calcEMASeries(s, Slow)[i]
    BY <2>1, RawIs
  <2>3. Raw(t)[i] = calcEMASeries(t, Fast)[i] - calcEMASeries(t, Slow)[i]
    BY <2>1, RawIs
  <2> QED
    BY <1>2, <1>3, <2>2, <2>3
<1> QED
  BY <1>4 DEF SamePrefix

LEMMA SignalSame ==
  ASSUME NEW s \in Seq(Int), NEW t \in Seq(Int), NEW m \in Nat, m <= Len(s), m <= Len(t),
         SamePrefix(s, t, m)
  PROVE  SamePrefix(SignalLine(s), SignalLine(t), m)
<1>1. /\ Len(s) \in Nat /\ DOMAIN s = 1..Len(s) /\ Len(t) \in Nat /\ DOMAIN t = 1..Len(t)
  BY LenProperties
<1>2. PICK p \in Nat \ {0} : p = Slow + Signal
  BY PeriodsAre
<1>3. PICK f : /\ f = SignalLine(s)
               /\ Follows(f, 1, Len(s), p, SignalSeeds(s), SignalSteps(s))
  BY <1>2, SignalRun DEF Run
<1>4. PICK g : /\ g = SignalLine(t)
               /\ Follows(g, 1, Len(t), p, SignalSeeds(t), SignalSteps(t))
  BY <1>2, SignalRun DEF Run
<1>5. /\ Raw(s) \in Seq(Int) /\ Len(Raw(s)) = Len(s)
      /\ Raw(t) \in Seq(Int) /\ Len(Raw(t)) = Len(t) /\ SamePrefix(Raw(s), Raw(t), m)
  BY RawIs, RawSame
<1>6. ASSUME NEW i \in 1..m, i <= p PROVE f[i] = g[i]
  <2>1. i \in 1..Len(s) /\ i \in 1..Len(t)
    BY <1>1
  <2>2. f[i] = SignalSeeds(s)[i] /\ g[i] = SignalSeeds(t)[i]
    BY Zenon, <1>3, <1>4, <1>6, <2>1 DEF Follows
  <2>3. CASE i < p
    BY <1>1, <1>2, <2>1, <2>2, <2>3 DEF SignalSeeds
  <2>4. CASE i = p
    <3>1. /\ SignalSeeds(s)[i] = mean(SubSeq(Raw(s), Slow + 1, i))
          /\ SignalSeeds(t)[i] = mean(SubSeq(Raw(t), Slow + 1, i))
      BY <1>1, <1>2, <2>1, <2>4 DEF SignalSeeds
    <3>2. SubSeq(Raw(s), Slow + 1, i) = SubSeq(Raw(t), Slow + 1, i)
      <4>1. Slow + 1 \in 1..m /\ i \in (Slow + 1)..m
        BY <1>2, <2>4, PeriodsAre
      <4>2. PICK x \in Seq(Int) : x = Raw(s) /\ m <= Len(x)
        BY <1>5
      <4>3. PICK y \in Seq(Int) : y = Raw(t) /\ m <= Len(y)
        BY <1>5
      <4>4. SamePrefix(x, y, m)
        BY <1>5, <4>2, <4>3
      <4>5. PICK k \in 1..m : k = Slow + 1 /\ i \in k..m
        BY <4>1
      <4>6. SubSeq(x, k, i) = SubSeq(y, k, i)
        <5>1. m <= Len(x) /\ m <= Len(y) /\ i \in k..m
          BY <4>2, <4>3, <4>5
        <5> QED
          BY ZenonT(30), <4>4, <5>1, MiddleSame
      <4> QED
        BY <4>2, <4>3, <4>5, <4>6
    <3> QED
      BY <2>2, <3>1, <3>2
  <2> QED
    BY <1>6, <2>3, <2>4
<1>7. ASSUME NEW i \in 1..m, i > p PROVE f[i] = g[i]
  <2>1. p \in 1..m /\ p <= p /\ p + 0 = p /\ m + 0 = m /\ i \in p..m /\ i + 0 = i
    BY <1>7
  <2>2. f[p] = g[p + 0]
    BY <1>6, <2>1
  <2>3. SameSteps(SignalSteps(s), SignalSteps(t), p, m, 0)
    <3>1. ASSUME NEW j \in (p + 1)..m PROVE SignalSteps(s)[j] = SignalSteps(t)[j + 0]
      <4>1. j \in DOMAIN s /\ j \in DOMAIN t /\ Raw(s)[j] = Raw(t)[j] /\ j + 0 = j
        BY <1>1, <1>5 DEF SamePrefix
      <4> QED
        BY <4>1 DEF SignalSteps
    <3> QED
      BY <3>1 DEF SameSteps
  <2>4. \A j \in p..m : f[j] = g[j + 0]
    <3>1. p \in Int /\ 1 <= p /\ p <= m /\ m <= Len(s) /\ m <= Len(t) /\ 1 \in Int /\ 0 \in Int
          /\ Len(s) \in Int /\ Len(t) \in Int /\ m \in Int /\ p + 0 = p /\ m + 0 = m
      BY <1>1, <2>1
    <3>2. Follows(f, 1, Len(s), p, SignalSeeds(s), SignalSteps(s))
      BY <1>3
    <3>3. Follows(g, 1, Len(t), p, SignalSeeds(t), SignalSteps(t))
      BY <1>4
    <3> QED
      BY <2>2, <2>3, <3>1, <3>2, <3>3, RunAgree
  <2> QED
    BY <2>1, <2>4
<1>8. \A i \in 1..m : f[i] = g[i]
  BY <1>6, <1>7
<1> QED
  BY <1>3, <1>4, <1>8 DEF SamePrefix

LEMMA WilderSame ==
  ASSUME NEW s \in Seq(Int), NEW t \in Seq(Int), NEW m \in Nat, m <= Len(s), m <= Len(t),
         SamePrefix(s, t, m), NEW p \in 1..m
  PROVE  \A i \in p..m : Wilder(s, p)[i] = Wilder(t, p)[i]
<1>1. /\ Len(s) \in Nat /\ DOMAIN s = 1..Len(s) /\ Len(t) \in Nat /\ DOMAIN t = 1..Len(t)
      /\ p \in Nat \ {0} /\ p <= Len(s) /\ p <= Len(t)
  BY LenProperties
<1>2. PICK f : f = Wilder(s, p) /\ Follows(f, p, Len(s), p, WilderSeed(s, p), WilderSteps(s, p))
  BY <1>1, WilderRun DEF Run
<1>3. PICK g : g = Wilder(t, p) /\ Follows(g, p, Len(t), p, WilderSeed(t, p), WilderSteps(t, p))
  BY <1>1, WilderRun DEF Run
<1>4. f[p] = g[p]
  <2>1. p \in p..Len(s) /\ p \in p..Len(t) /\ p <= p /\ p \in 0..m
    BY <1>1
  <2>2. f[p] = WilderSeed(s, p)[p] /\ g[p] = WilderSeed(t, p)[p]
    BY Zenon, <1>2, <1>3, <2>1 DEF Follows
  <2>3. WilderSeed(s, p)[p] = Total(First(s, p)) /\ WilderSeed(t, p)[p] = Total(First(t, p))
    BY <2>1 DEF WilderSeed
  <2>4. First(s, p) = First(t, p)
    BY <2>1, FirstSame
  <2> QED
    BY <2>2, <2>3, <2>4
<1>5. SameSteps(WilderSteps(s, p), WilderSteps(t, p), p, m, 0)
  <2>1. ASSUME NEW j \in (p + 1)..m PROVE WilderSteps(s, p)[j] = WilderSteps(t, p)[j + 0]
    <3>1. j \in DOMAIN s /\ j \in DOMAIN t /\ s[j] = t[j] /\ j + 0 = j
      BY <1>1 DEF SamePrefix
    <3> QED
      BY <3>1 DEF WilderSteps
  <2> QED
    BY <2>1 DEF SameSteps
<1>6. \A j \in p..m : f[j] = g[j + 0]
  <2>1. p \in Int /\ p <= p /\ p <= m /\ Len(s) \in Int /\ Len(t) \in Int /\ m \in Int
        /\ p + 0 = p /\ m + 0 = m /\ 0 \in Int /\ f[p] = g[p + 0]
    BY <1>1, <1>4
  <2>2. Follows(f, p, Len(s), p, WilderSeed(s, p), WilderSteps(s, p))
    BY <1>2
  <2>3. Follows(g, p, Len(t), p, WilderSeed(t, p), WilderSteps(t, p))
    BY <1>3
  <2> QED
    BY <1>5, <2>1, <2>2, <2>3, RunAgree
<1> QED
  BY <1>2, <1>3, <1>6

LEMMA SmoothedSame ==
  ASSUME NEW s \in Seq(Int), NEW t \in Seq(Int), NEW m \in Nat, m <= Len(s), m <= Len(t),
         SamePrefix(s, t, m), NEW p \in 1..m
  PROVE  \A i \in p..m : Smoothed(s, p)[i] = Smoothed(t, p)[i]
<1>1. /\ Len(s) \in Nat /\ DOMAIN s = 1..Len(s) /\ Len(t) \in Nat /\ DOMAIN t = 1..Len(t)
      /\ p \in Nat \ {0} /\ p <= Len(s) /\ p <= Len(t)
  BY LenProperties
<1>2. PICK f : /\ f = Smoothed(s, p)
               /\ Follows(f, p, Len(s), p, SmoothedSeed(s, p), SmoothedSteps(s, p))
  BY <1>1, SmoothedRun DEF Run
<1>3. PICK g : /\ g = Smoothed(t, p)
               /\ Follows(g, p, Len(t), p, SmoothedSeed(t, p), SmoothedSteps(t, p))
  BY <1>1, SmoothedRun DEF Run
<1>4. f[p] = g[p]
  <2>1. p \in p..Len(s) /\ p \in p..Len(t) /\ p <= p /\ p \in 0..m
    BY <1>1
  <2>2. f[p] = SmoothedSeed(s, p)[p] /\ g[p] = SmoothedSeed(t, p)[p]
    BY Zenon, <1>2, <1>3, <2>1 DEF Follows
  <2>3. SmoothedSeed(s, p)[p] = mean(First(s, p)) /\ SmoothedSeed(t, p)[p] = mean(First(t, p))
    BY <2>1 DEF SmoothedSeed
  <2>4. First(s, p) = First(t, p)
    BY <2>1, FirstSame
  <2> QED
    BY <2>2, <2>3, <2>4
<1>5. SameSteps(SmoothedSteps(s, p), SmoothedSteps(t, p), p, m, 0)
  <2>1. ASSUME NEW j \in (p + 1)..m PROVE SmoothedSteps(s, p)[j] = SmoothedSteps(t, p)[j + 0]
    <3>1. j \in DOMAIN s /\ j \in DOMAIN t /\ s[j] = t[j] /\ j + 0 = j
      BY <1>1 DEF SamePrefix
    <3> QED
      BY <3>1 DEF SmoothedSteps
  <2> QED
    BY <2>1 DEF SameSteps
<1>6. \A j \in p..m : f[j] = g[j + 0]
  <2>1. p \in Int /\ p <= p /\ p <= m /\ Len(s) \in Int /\ Len(t) \in Int /\ m \in Int
        /\ p + 0 = p /\ m + 0 = m /\ 0 \in Int /\ f[p] = g[p + 0]
    BY <1>1, <1>4
  <2>2. Follows(f, p, Len(s), p, SmoothedSeed(s, p), SmoothedSteps(s, p))
    BY <1>2
  <2>3. Follows(g, p, Len(t), p, SmoothedSeed(t, p), SmoothedSteps(t, p))
    BY <1>3
  <2> QED
    BY <1>5, <2>1, <2>2, <2>3, RunAgree
<1> QED
  BY <1>2, <1>3, <1>6

\* The columns of a table, and the series that compare a row with the one before.
LEMMA RowIs ==
  ASSUME NEW rows \in Seq(Candles), NEW i \in 1..Len(rows)
  PROVE  rows[i].close \in Int /\ rows[i].high \in Int /\ rows[i].low \in Int
<1>1. rows[i] \in Candles
  BY ElementOfSeq
<1> QED
  BY <1>1 DEF Candles

LEMMA ClosesAre ==
  ASSUME NEW rows \in Seq(Candles)
  PROVE  /\ Column(rows, "close") \in Seq(Int) /\ Len(Column(rows, "close")) = Len(rows)
         /\ \A i \in 1..Len(rows) : Column(rows, "close")[i] = rows[i].close
<1>1. Len(rows) \in Nat /\ DOMAIN rows = 1..Len(rows)
  BY LenProperties
<1>2. Column(rows, "close") = [i \in 1..Len(rows) |-> rows[i].close]
  BY <1>1 DEF Column
<1>3. \A i \in 1..Len(rows) : Column(rows, "close")[i] = rows[i].close
  BY <1>2
<1>4. \A i \in 1..Len(rows) : Column(rows, "close")[i] \in Int
  BY <1>3, RowIs
<1>5. Column(rows, "close") = [i \in 1..Len(rows) |-> Column(rows, "close")[i]]
  BY <1>2
<1> QED
  BY <1>1, <1>3, <1>4, <1>5, SeqIs

LEMMA SeriesAre ==
  ASSUME NEW rows \in Seq(Candles), Len(rows) > 0
  PROVE  /\ PlusDM(rows) \in Seq(Int) /\ Len(PlusDM(rows)) = Len(rows) - 1
         /\ MinusDM(rows) \in Seq(Int) /\ Len(MinusDM(rows)) = Len(rows) - 1
         /\ TrueRange(rows) \in Seq(Int) /\ Len(TrueRange(rows)) = Len(rows) - 1
<1>1. PICK n \in Nat : n = Len(rows) - 1
  BY LenProperties
<1>2. ASSUME NEW j \in 1..n
      PROVE  /\ UpMove(rows, j) \in Int /\ DownMove(rows, j) \in Int
             /\ TrueRange(rows)[j] \in Int /\ PlusDM(rows)[j] \in Int /\ MinusDM(rows)[j] \in Int
  <2>1. j \in 1..Len(rows) /\ j + 1 \in 1..Len(rows) /\ j \in 1..(Len(rows) - 1)
    BY <1>1
  <2>2. PICK a \in Int, b \in Int, c \in Int :
          a = rows[j].close /\ b = rows[j].high /\ c = rows[j].low
    BY <2>1, RowIs
  <2>3. PICK x \in Int, y \in Int, z \in Int :
          x = rows[j + 1].close /\ y = rows[j + 1].high /\ z = rows[j + 1].low
    BY <2>1, RowIs
  <2>4. UpMove(rows, j) = y - b /\ DownMove(rows, j) = c - z
    BY <2>2, <2>3 DEF UpMove, DownMove
  <2>5. TrueRange(rows)[j] = Larger(y - z, Larger(Abs(y - a), Abs(z - a)))
    BY <2>1, <2>2, <2>3 DEF TrueRange
  <2>6. Larger(y - z, Larger(Abs(y - a), Abs(z - a))) \in Int
    BY DEF Larger, Abs
  <2>7. PlusDM(rows)[j] = IF y - b > c - z THEN Larger(y - b, 0) ELSE 0
    BY <2>1, <2>4 DEF PlusDM
  <2>8. MinusDM(rows)[j] = IF c - z > y - b THEN Larger(c - z, 0) ELSE 0
    BY <2>1, <2>4 DEF MinusDM
  <2> QED
    BY <2>4, <2>5, <2>6, <2>7, <2>8 DEF Larger
<1>3. /\ PlusDM(rows) = [j \in 1..n |-> PlusDM(rows)[j]]
      /\ MinusDM(rows) = [j \in 1..n |-> MinusDM(rows)[j]]
      /\ TrueRange(rows) = [j \in 1..n |-> TrueRange(rows)[j]]
  BY <1>1 DEF PlusDM, MinusDM, TrueRange
<1> QED
  BY <1>1, <1>2, <1>3, SeqIs

SameRows(r, rows, m) == \A i \in 1..m : r[i] = rows[i]

LEMMA SeriesSame ==
  ASSUME NEW r \in Seq(Candles), NEW rows \in Seq(Candles), NEW m \in Nat \ {0},
         m <= Len(r), m <= Len(rows), SameRows(r, rows, m)
  PROVE  /\ SamePrefix(PlusDM(r), PlusDM(rows), m - 1)
         /\ SamePrefix(MinusDM(r), MinusDM(rows), m - 1)
         /\ SamePrefix(TrueRange(r), TrueRange(rows), m - 1)
<1>1. Len(r) \in Nat /\ Len(rows) \in Nat
  BY LenProperties
<1>2. ASSUME NEW j \in 1..(m - 1)
      PROVE  /\ PlusDM(r)[j] = PlusDM(rows)[j] /\ MinusDM(r)[j] = MinusDM(rows)[j]
             /\ TrueRange(r)[j] = TrueRange(rows)[j]
  <2>1. j \in 1..(Len(r) - 1) /\ j \in 1..(Len(rows) - 1) /\ j \in 1..m /\ j + 1 \in 1..m
    BY <1>1
  <2>2. r[j] = rows[j] /\ r[j + 1] = rows[j + 1]
    BY <2>1 DEF SameRows
  <2>3. UpMove(r, j) = UpMove(rows, j) /\ DownMove(r, j) = DownMove(rows, j)
    BY Zenon, <2>2 DEF UpMove, DownMove
  <2>4. PlusDM(r)[j] = PlusDM(rows)[j] /\ MinusDM(r)[j] = MinusDM(rows)[j]
    BY <2>1, <2>3 DEF PlusDM, MinusDM
  <2>5. TrueRange(r)[j] = TrueRange(rows)[j]
    BY <2>1, <2>2 DEF TrueRange
  <2> QED
    BY <2>4, <2>5
<1> QED
  BY <1>2 DEF SamePrefix

LEMMA DXType ==
  ASSUME NEW plus \in Int, NEW minus \in Int, NEW tr \in Int
  PROVE  DX(plus, minus, tr) \in Int
<1> DEFINE rise == IF tr > 0 THEN (100 * plus) \div tr ELSE 0
           drop == IF tr > 0 THEN (100 * minus) \div tr ELSE 0
<1>1. rise \in Int /\ drop \in Int
  OBVIOUS
<1>2. DX(plus, minus, tr) =
        IF rise + drop > 0 THEN (100 * Abs(rise - drop)) \div (rise + drop) ELSE 0
  BY DEF DX
<1> HIDE DEF rise, drop
<1>3. Abs(rise - drop) \in Int
  BY <1>1 DEF Abs
<1> QED
  BY <1>1, <1>2, <1>3

LEMMA DXSeriesIs ==
  ASSUME NEW rows \in Seq(Candles), NEW p \in Nat \ {0}, p < Len(rows)
  PROVE  /\ DXSeries(rows, p) \in Seq(Int) /\ Len(DXSeries(rows, p)) = Len(rows) - 1 - p
         /\ \A j \in 1..(Len(rows) - 1 - p) :
              DXSeries(rows, p)[j] =
                DX(Wilder(PlusDM(rows), p)[p + j], Wilder(MinusDM(rows), p)[p + j],
                   Wilder(TrueRange(rows), p)[p + j])
<1>0. Len(rows) \in Nat /\ Len(rows) - 1 - p \in Nat
  BY LenProperties
<1>1. PICK n \in Nat : n = Len(rows) - 1 - p
  BY <1>0
<1> DEFINE plus == Wilder(PlusDM(rows), p)  minus == Wilder(MinusDM(rows), p)
           tr == Wilder(TrueRange(rows), p)
<1>2. p <= Len(rows) - 1 /\ Len(rows) > 0 /\ Len(rows) \in Nat
  BY <1>1, LenProperties
<1>3. /\ plus \in [p..(Len(rows) - 1) -> Int] /\ minus \in [p..(Len(rows) - 1) -> Int]
      /\ tr \in [p..(Len(rows) - 1) -> Int]
  BY <1>2, SeriesAre, WilderRun DEF Run
<1>4. DXSeries(rows, p) = [j \in 1..n |-> DX(plus[p + j], minus[p + j], tr[p + j])]
  BY <1>1 DEF DXSeries
<1> HIDE DEF plus, minus, tr
<1>5. ASSUME NEW j \in 1..n PROVE DXSeries(rows, p)[j] \in Int
  <2>1. p + j \in p..(Len(rows) - 1)
    BY <1>1, <1>2
  <2>2. plus[p + j] \in Int /\ minus[p + j] \in Int /\ tr[p + j] \in Int
    BY <1>3, <2>1
  <2>3. DX(plus[p + j], minus[p + j], tr[p + j]) \in Int
    BY <2>2, DXType
  <2> QED
    BY <1>4, <2>3
<1>6. DXSeries(rows, p) = [j \in 1..n |-> DXSeries(rows, p)[j]]
  BY <1>4
<1>7. DXSeries(rows, p) \in Seq(Int) /\ Len(DXSeries(rows, p)) = n
  BY <1>1, <1>5, <1>6, SeqIs
<1>8. \A j \in 1..n : DXSeries(rows, p)[j] = DX(plus[p + j], minus[p + j], tr[p + j])
  BY <1>4
<1> QED
  BY <1>1, <1>7, <1>8 DEF plus, minus, tr

LEMMA DXSame ==
  ASSUME NEW r \in Seq(Candles), NEW rows \in Seq(Candles), NEW p \in Nat \ {0}, NEW m \in Nat,
         p < m, m <= Len(r), m <= Len(rows), SameRows(r, rows, m)
  PROVE  SamePrefix(DXSeries(r, p), DXSeries(rows, p), m - 1 - p)
<1>1. /\ Len(r) \in Nat /\ Len(rows) \in Nat /\ p < Len(r) /\ p < Len(rows) /\ m \in Nat \ {0}
      /\ Len(r) > 0 /\ Len(rows) > 0
  BY LenProperties
<1>2. PICK k \in Nat : k = m - 1 /\ p \in 1..k
  BY <1>1
<1>3. ASSUME NEW x \in Seq(Int), NEW y \in Seq(Int), Len(x) = Len(r) - 1,
             Len(y) = Len(rows) - 1, SamePrefix(x, y, m - 1)
      PROVE  \A i \in p..k : Wilder(x, p)[i] = Wilder(y, p)[i]
  <2>1. k <= Len(x) /\ k <= Len(y)
    BY <1>1, <1>2, <1>3
  <2>2. SamePrefix(x, y, k) /\ p \in 1..k
    BY <1>2, <1>3
  <2> QED
    BY <2>1, <2>2, WilderSame
<1>4. /\ SamePrefix(PlusDM(r), PlusDM(rows), m - 1)
      /\ SamePrefix(MinusDM(r), MinusDM(rows), m - 1)
      /\ SamePrefix(TrueRange(r), TrueRange(rows), m - 1)
  BY <1>1, SeriesSame
<1>5. \A i \in p..k : Wilder(PlusDM(r), p)[i] = Wilder(PlusDM(rows), p)[i]
  BY <1>1, <1>3, <1>4, SeriesAre
<1>6. \A i \in p..k : Wilder(MinusDM(r), p)[i] = Wilder(MinusDM(rows), p)[i]
  BY <1>1, <1>3, <1>4, SeriesAre
<1>7. \A i \in p..k : Wilder(TrueRange(r), p)[i] = Wilder(TrueRange(rows), p)[i]
  BY <1>1, <1>3, <1>4, SeriesAre
<1>8. ASSUME NEW j \in 1..(m - 1 - p) PROVE DXSeries(r, p)[j] = DXSeries(rows, p)[j]
  <2>1. j \in 1..(Len(r) - 1 - p) /\ j \in 1..(Len(rows) - 1 - p) /\ p + j \in p..k
    BY <1>1, <1>2
  <2>2. DXSeries(r, p)[j] = DX(Wilder(PlusDM(r), p)[p + j], Wilder(MinusDM(r), p)[p + j],
                               Wilder(TrueRange(r), p)[p + j])
    BY <1>1, <2>1, DXSeriesIs
  <2>3. DXSeries(rows, p)[j] =
          DX(Wilder(PlusDM(rows), p)[p + j], Wilder(MinusDM(rows), p)[p + j],
             Wilder(TrueRange(rows), p)[p + j])
    BY <1>1, <2>1, DXSeriesIs
  <2> QED
    BY Zenon, <1>5, <1>6, <1>7, <2>1, <2>2, <2>3
<1> QED
  BY <1>8 DEF SamePrefix

LEMMA ADXSame ==
  ASSUME NEW r \in Seq(Candles), NEW rows \in Seq(Candles), NEW p \in Nat \ {0}, NEW m \in Nat,
         m <= Len(r), m <= Len(rows), SameRows(r, rows, m), NEW i \in 1..m
  PROVE  calcADXSeries(r, p)[i] = calcADXSeries(rows, p)[i]
<1>1. /\ Len(r) \in Nat /\ Len(rows) \in Nat /\ DOMAIN r = 1..Len(r)
      /\ DOMAIN rows = 1..Len(rows)
  BY LenProperties
<1>2. i \in DOMAIN r /\ i \in DOMAIN rows
  BY <1>1
<1>3. /\ calcADXSeries(r, p)[i] =
           IF i < 2 * p + 1 THEN 0 ELSE Smoothed(DXSeries(r, p), p)[i - p - 1]
      /\ calcADXSeries(rows, p)[i] =
           IF i < 2 * p + 1 THEN 0 ELSE Smoothed(DXSeries(rows, p), p)[i - p - 1]
  BY Zenon, <1>2 DEF calcADXSeries
<1>4. CASE i < 2 * p + 1
  BY <1>3, <1>4
<1>5. CASE ~ (i < 2 * p + 1)
  <2>1. PICK k \in Nat : k = m - 1 - p /\ p \in 1..k /\ i - p - 1 \in p..k
    BY <1>5
  <2>2. p < m /\ p < Len(r) /\ p < Len(rows)
    BY <1>1, <2>1
  <2>3. /\ DXSeries(r, p) \in Seq(Int) /\ k <= Len(DXSeries(r, p))
        /\ DXSeries(rows, p) \in Seq(Int) /\ k <= Len(DXSeries(rows, p))
    BY <1>1, <2>1, <2>2, DXSeriesIs
  <2>4. SamePrefix(DXSeries(r, p), DXSeries(rows, p), k)
    BY <2>1, <2>2, DXSame
  <2>5. \A j \in p..k : Smoothed(DXSeries(r, p), p)[j] = Smoothed(DXSeries(rows, p), p)[j]
    BY <2>1, <2>3, <2>4, SmoothedSame
  <2> QED
    BY <1>3, <1>5, <2>1, <2>5
<1> QED
  BY <1>4, <1>5

\* A row of a table, while other rows follow it or not.
LEMMA StoredIs ==
  ASSUME NEW rows \in Seq(Candles), NEW i \in 1..Len(rows),
         NEW closes, closes = Column(rows, "close")
  PROVE  StoredRows(rows)[i] =
           [ma |-> [p \in Averages |-> MovingAverage(First(closes, i), p)],
            ema |-> [p \in Emas |-> calcEMASeries(closes, p)[i]],
            rsi |-> RSI(First(closes, i), 0),
            macd |-> MACDLine(closes)[i], signal |-> SignalLine(closes)[i],
            bands |-> Bands(First(closes, i)), adx |-> calcADXSeries(rows, AdxPeriod)[i]]
<1>1. i \in DOMAIN rows
  BY LenProperties
<1>2. StoredRows(rows)[i] =
           [ma |-> [p \in Averages |-> MovingAverage(First(closes, i), p)],
            ema |-> [p \in Emas |-> [q \in Emas |-> calcEMASeries(closes, q)][p][i]],
            rsi |-> RSI(First(closes, i), 0),
            macd |-> MACDLine(closes)[i], signal |-> SignalLine(closes)[i],
            bands |-> Bands(First(closes, i)), adx |-> calcADXSeries(rows, AdxPeriod)[i]]
  BY Zenon, <1>1 DEF StoredRows
<1>3. [p \in Emas |-> [q \in Emas |-> calcEMASeries(closes, q)][p][i]] =
        [p \in Emas |-> calcEMASeries(closes, p)[i]]
  OBVIOUS
<1> QED
  BY <1>2, <1>3

LEMMA RecordIs ==
  ASSUME NEW a, NEW e, NEW f, NEW s, NEW b, NEW d, NEW x
  PROVE  /\ [[ma |-> a, ema |-> e, rsi |-> f, macd |-> x, signal |-> s, bands |-> b,
              adx |-> d] EXCEPT !.macd = 0] =
              [ma |-> a, ema |-> e, rsi |-> f, macd |-> 0, signal |-> s, bands |-> b,
               adx |-> d]
         /\ [ma |-> a, ema |-> e, rsi |-> f, macd |-> x, signal |-> s, bands |-> b,
             adx |-> d].macd = x
OBVIOUS

SameButMacd(x, y) == [x EXCEPT !.macd = 0] = [y EXCEPT !.macd = 0]

LEMMA RowSame ==
  ASSUME NEW r \in Seq(Candles), NEW rows \in Seq(Candles), NEW m \in Nat,
         m <= Len(r), m <= Len(rows), SameRows(r, rows, m), NEW i \in 1..m
  PROVE  /\ SameButMacd(StoredRows(r)[i], StoredRows(rows)[i])
         /\ (Len(r) < Slow <=> Len(rows) < Slow) =>
              StoredRows(r)[i].macd = StoredRows(rows)[i].macd
<1>1. PICK s \in Seq(Int) : s = Column(r, "close") /\ Len(s) = Len(r)
                            /\ \A j \in 1..Len(r) : s[j] = r[j].close
  BY ClosesAre
<1>2. PICK t \in Seq(Int) : t = Column(rows, "close") /\ Len(t) = Len(rows)
                            /\ \A j \in 1..Len(rows) : t[j] = rows[j].close
  BY ClosesAre
<1>3. Len(r) \in Nat /\ Len(rows) \in Nat /\ DOMAIN s = 1..Len(s) /\ DOMAIN t = 1..Len(t)
  BY LenProperties
<1>4. SamePrefix(s, t, m)
  <2>1. ASSUME NEW j \in 1..m PROVE s[j] = t[j]
    <3>1. j \in 1..Len(r) /\ j \in 1..Len(rows) /\ r[j] = rows[j]
      BY <1>3 DEF SameRows
    <3> QED
      BY <1>1, <1>2, <3>1
  <2> QED
    BY <2>1 DEF SamePrefix
<1>5. m <= Len(s) /\ m <= Len(t) /\ i \in 0..m /\ i \in 1..Len(r) /\ i \in 1..Len(rows)
  BY <1>1, <1>2, <1>3
<1>6. First(s, i) = First(t, i)
  BY <1>4, <1>5, FirstSame
<1>7. [p \in Emas |-> calcEMASeries(s, p)[i]] = [p \in Emas |-> calcEMASeries(t, p)[i]]
  <2>1. ASSUME NEW p \in Emas PROVE calcEMASeries(s, p)[i] = calcEMASeries(t, p)[i]
    <3>1. p \in Nat \ {0}
      BY PeriodsAssumption
    <3>2. SamePrefix(calcEMASeries(s, p), calcEMASeries(t, p), m)
      BY <1>4, <1>5, <3>1, EMASame
    <3> QED
      BY <3>2 DEF SamePrefix
  <2> QED
    BY <2>1
<1>8. SignalLine(s)[i] = SignalLine(t)[i]
  <2>1. SamePrefix(SignalLine(s), SignalLine(t), m)
    BY <1>4, <1>5, SignalSame
  <2> QED
    BY <2>1 DEF SamePrefix
<1>9. calcADXSeries(r, AdxPeriod)[i] = calcADXSeries(rows, AdxPeriod)[i]
  BY PeriodsAre, ADXSame
<1>10. (Len(r) < Slow <=> Len(rows) < Slow) => MACDLine(s)[i] = MACDLine(t)[i]
  <2>1. Raw(s)[i] = Raw(t)[i]
    <3>1. SamePrefix(Raw(s), Raw(t), m)
      BY <1>4, <1>5, RawSame
    <3> QED
      BY <3>1 DEF SamePrefix
  <2>2. Zeros(s)[i] = 0 /\ Zeros(t)[i] = 0
    BY <1>1, <1>2, <1>3, <1>5 DEF Zeros
  <2>3. MACDLine(s)[i] = IF Len(r) < Slow THEN Zeros(s)[i] ELSE Raw(s)[i]
    BY <1>1 DEF MACDLine
  <2>4. MACDLine(t)[i] = IF Len(rows) < Slow THEN Zeros(t)[i] ELSE Raw(t)[i]
    BY <1>2 DEF MACDLine
  <2> QED
    BY <1>3, <2>1, <2>2, <2>3, <2>4, PeriodsAre
<1> DEFINE ma == [p \in Averages |-> MovingAverage(First(t, i), p)]
           ema == [p \in Emas |-> calcEMASeries(t, p)[i]]
           rsi == RSI(First(t, i), 0)
           signal == SignalLine(t)[i]
           bands == Bands(First(t, i))
           adx == calcADXSeries(rows, AdxPeriod)[i]
           rest(macd) == [ma |-> ma, ema |-> ema, rsi |-> rsi, macd |-> macd,
                          signal |-> signal, bands |-> bands, adx |-> adx]
<1>11. StoredRows(rows)[i] = rest(MACDLine(t)[i])
  BY <1>2, <1>5, StoredIs
<1>12. StoredRows(r)[i] = rest(MACDLine(s)[i])
  <2>1. StoredRows(r)[i] =
           [ma |-> [p \in Averages |-> MovingAverage(First(s, i), p)],
            ema |-> [p \in Emas |-> calcEMASeries(s, p)[i]],
            rsi |-> RSI(First(s, i), 0),
            macd |-> MACDLine(s)[i], signal |-> SignalLine(s)[i],
            bands |-> Bands(First(s, i)), adx |-> calcADXSeries(r, AdxPeriod)[i]]
    BY <1>1, <1>5, StoredIs
  <2> QED
    BY <1>6, <1>7, <1>8, <1>9, <2>1
<1> HIDE DEF ma, ema, rsi, signal, bands, adx
<1>13. ASSUME NEW x PROVE [rest(x) EXCEPT !.macd = 0] = rest(0) /\ rest(x).macd = x
  BY RecordIs
<1> HIDE DEF rest
<1> QED
  BY <1>10, <1>11, <1>12, <1>13 DEF SameButMacd

LEMMA MacdSame ==
  ASSUME NEW r \in Seq(Candles), NEW rows \in Seq(Candles), NEW m \in Nat,
         m <= Len(r), m <= Len(rows), SameRows(r, rows, m), NEW i \in 1..m,
         Len(r) < Slow <=> Len(rows) < Slow
  PROVE  StoredRows(r)[i].macd = StoredRows(rows)[i].macd
BY RowSame

\* The tables tried.
LEMMA TriedAre ==
  ASSUME NEW rows \in Tried
  PROVE  /\ rows \in Seq(Candles) /\ Len(rows) \in 1..Longest
<1>1. Longest \in Nat /\ FirstClose \in Int /\ MovesTried \subseteq Int
  BY InputsAssumption
<1>0. PICK n \in 1..Longest : \E moves \in [1..(n - 1) -> MovesTried] :
        rows = [i \in 1..n |-> Candle(FirstClose + Total(First(moves, i - 1)))]
  BY DEF Tried
<1>2. PICK moves \in [1..(n - 1) -> MovesTried] :
        rows = [i \in 1..n |-> Candle(FirstClose + Total(First(moves, i - 1)))]
  BY <1>0
<1>3. n \in Nat /\ n - 1 \in Nat /\ n \in 1..Longest
  BY <1>1
<1>4. moves \in Seq(Int) /\ Len(moves) = n - 1
  <2>1. PICK k \in Nat : k = n - 1
    BY <1>3
  <2>2. moves = [i \in 1..k |-> moves[i]] /\ \A i \in 1..k : moves[i] \in Int
    BY <1>1, <2>1
  <2> QED
    BY <2>1, <2>2, SeqIs
<1>5. ASSUME NEW i \in 1..n
      PROVE  \E c \in Int : rows[i] = Candle(c)
  <2>1. i - 1 \in 0..Len(moves)
    BY <1>3, <1>4
  <2>2. Total(First(moves, i - 1)) \in Int
    BY <1>4, <2>1, FirstIs, TotalType
  <2>3. PICK c \in Int : c = FirstClose + Total(First(moves, i - 1))
    BY <1>1, <2>2
  <2>4. rows[i] = Candle(c)
    BY <1>2, <2>3
  <2> QED
    BY <2>4
<1>6. ASSUME NEW c \in Int PROVE Candle(c) \in Candles
  <2>1. Larger(c - FirstClose, 1) \in Int /\ Larger(FirstClose - c, 2) \in Int
    BY <1>1 DEF Larger
  <2> QED
    BY <2>1 DEF Candle, Candles
<1>7. \A i \in 1..n : rows[i] \in Candles
  BY <1>5, <1>6
<1>8. rows = [i \in 1..n |-> rows[i]]
  BY <1>2
<1>9. rows \in [1..n -> Candles]
  BY Zenon, <1>7, <1>8
<1>10. rows \in Seq(Candles) /\ Len(rows) = n
  BY <1>3, <1>9
<1> QED
  BY <1>3, <1>10

\* A table that grows by a candle keeps what is stored for its earlier rows, for every
\* period and every number of candles; only the MACD of the rows before the Slow-th
\* changes, when the table gets its Slow-th row.
THEOREM RowsCorrect == RowsStay
<1> SUFFICES ASSUME NEW rows \in Tried, NEW i \in 1..(Len(rows) - 1)
             PROVE  /\ SameButMacd(StoredRows(Front(rows))[i], StoredRows(rows)[i])
                    /\ i >= Slow \/ Len(rows) # Slow =>
                         StoredRows(Front(rows))[i].macd = StoredRows(rows)[i].macd
  BY DEF RowsStay, Repainted, SameButMacd
<1>1. rows \in Seq(Candles) /\ Len(rows) \in Nat /\ Len(rows) > 0
  BY TriedAre
<1>2. \A j \in 1..Len(rows) : rows[j] \in Candles
  BY <1>1, ElementOfSeq
<1>3. PICK m \in Nat : m = Len(rows) - 1
  BY <1>1
<1>4. /\ SubSeq(rows, 1, m) \in Seq(Candles)
      /\ Len(SubSeq(rows, 1, m)) = IF 1 <= m THEN m - 1 + 1 ELSE 0
      /\ \A j \in 1..(m - 1 + 1) : SubSeq(rows, 1, m)[j] = rows[1 + j - 1]
  <2>1. \A j \in 1..m : rows[j] \in Candles
    BY <1>1, <1>2, <1>3
  <2> QED
    BY <2>1, SubSeqProperties
<1>5. Front(rows) = SubSeq(rows, 1, m)
  BY <1>3 DEF Front
<1>6. Front(rows) \in Seq(Candles) /\ Len(Front(rows)) = m
  BY <1>4, <1>5
<1>7. SameRows(Front(rows), rows, m)
  <2>1. ASSUME NEW j \in 1..m PROVE Front(rows)[j] = rows[j]
    <3>1. j \in 1..(m - 1 + 1) /\ 1 + j - 1 = j
      BY <1>3
    <3> QED
      BY <1>4, <1>5, <3>1
  <2> QED
    BY <2>1 DEF SameRows
<1>8. m <= Len(Front(rows)) /\ m <= Len(rows) /\ i \in 1..m
  BY <1>1, <1>3, <1>6
<1>9. SameButMacd(StoredRows(Front(rows))[i], StoredRows(rows)[i])
  BY <1>1, <1>6, <1>7, <1>8, RowSame
<1>10. ASSUME i >= Slow \/ Len(rows) # Slow
       PROVE  StoredRows(Front(rows))[i].macd = StoredRows(rows)[i].macd
  <2>1. Len(Front(rows)) < Slow <=> Len(rows) < Slow
    BY <1>1, <1>3, <1>6, <1>8, <1>10, PeriodsAre
  <2>2. PICK r \in Seq(Candles) : r = Front(rows) /\ m <= Len(r) /\ SameRows(r, rows, m)
    BY <1>6, <1>7
  <2>3. m <= Len(r) /\ m <= Len(rows) /\ SameRows(r, rows, m)
    BY <1>8, <2>2
  <2>4. Len(r) < Slow <=> Len(rows) < Slow
    BY <2>1, <2>2
  <2>5. StoredRows(r)[i].macd = StoredRows(rows)[i].macd
    BY <1>1, <1>8, <2>3, <2>4, MacdSame
  <2> QED
    BY <2>2, <2>5
<1> QED
  BY <1>9, <1>10

-----------------------------------------------------------------------------
(***************************************************************************)
(* What a ticker shows is what the table stores for the last candle.       *)
(***************************************************************************)
\* The average of the tickers is the last of the series.
LEMMA EMAMatches ==
  ASSUME NEW s \in Seq(Int), NEW p \in Nat \ {0}, Len(s) > 0
  PROVE  calcEMA(s, p) = calcEMASeries(s, p)[Len(s)]
<1>1. PICK n \in Nat : n = Len(s) /\ n > 0 /\ DOMAIN s = 1..n
  BY LenProperties
<1>2. PICK g : g = calcEMASeries(s, p) /\ Follows(g, 1, n, p, EmaSeeds(s), EmaSteps(s, p))
  BY <1>1, EMASeriesRun DEF Run
<1>3. CASE n < p
  <2>1. n \in 1..n /\ n <= p
    BY <1>1, <1>3
  <2>2. g[n] = EmaSeeds(s)[n]
    BY Zenon, <1>2, <2>1 DEF Follows
  <2>3. EmaSeeds(s)[n] = mean(First(s, n))
    BY <1>1, <2>1 DEF EmaSeeds
  <2>4. First(s, n) = s
    BY <1>1, SubSeqFull DEF First
  <2>5. calcEMA(s, p) = mean(s)
    BY <1>1, <1>3 DEF calcEMA
  <2> QED
    BY <1>1, <1>2, <2>2, <2>3, <2>4, <2>5
<1>4. CASE p <= n
  <2>1. p <= Len(s)
    BY <1>1, <1>4
  <2>2. PICK f : Run(f, p, Len(s), p, EmaSeed(s, p), EmaSteps(s, p)) /\ calcEMA(s, p) = f[Len(s)]
    BY <2>1, EMARun
  <2>3. Follows(f, p, n, p, EmaSeed(s, p), EmaSteps(s, p)) /\ calcEMA(s, p) = f[n]
    BY <1>1, <2>2 DEF Run
  <2>4. f[p] = g[p]
    <3>1. p \in p..n /\ p \in 1..n /\ p <= p
      BY <1>4
    <3>2. f[p] = EmaSeed(s, p)[p] /\ g[p] = EmaSeeds(s)[p]
      BY Zenon, <1>2, <2>3, <3>1 DEF Follows
    <3>3. EmaSeed(s, p)[p] = mean(First(s, p))
      BY <1>1, <3>1 DEF EmaSeed
    <3>4. EmaSeeds(s)[p] = mean(First(s, p))
      BY <1>1, <3>1 DEF EmaSeeds
    <3> QED
      BY <3>2, <3>3, <3>4
  <2>5. SameSteps(EmaSteps(s, p), EmaSteps(s, p), p, n, 0)
    <3>1. \A i \in (p + 1)..n : i + 0 = i
      OBVIOUS
    <3> QED
      BY <3>1 DEF SameSteps
  <2>6. p \in Int /\ 1 \in Int /\ n \in Int /\ 0 \in Int /\ 1 <= p /\ p <= p /\ p <= n /\ n <= n
        /\ p + 0 = p /\ n + 0 = n /\ n \in p..n
    BY <1>1, <1>4
  <2>7. \A i \in p..n : f[i] = g[i + 0]
    BY <1>2, <2>3, <2>4, <2>5, <2>6, RunAgree
  <2>8. f[n] = g[n]
    BY <2>6, <2>7
  <2> QED
    BY <1>1, <1>2, <2>3, <2>8
<1> QED
  BY <1>1, <1>3, <1>4

\* The MACD line of the tickers: the raw values after the Slow-th.
LEMMA LiveLineIs ==
  ASSUME NEW closes \in Seq(Int), Len(closes) > Slow
  PROVE  /\ LiveLine(closes) \in Seq(Int) /\ Len(LiveLine(closes)) = Len(closes) - Slow
         /\ \A j \in 1..(Len(closes) - Slow) : LiveLine(closes)[j] = Raw(closes)[Slow + j]
<1>1. PICK n \in Nat : n = Len(closes) - Slow
  <2>1. Len(closes) \in Nat /\ Len(closes) - Slow \in Nat
    BY LenProperties, PeriodsAre
  <2> QED
    BY <2>1
<1>2. LiveLine(closes) = [j \in 1..n |-> calcEMA(First(closes, Slow + j), Fast)
                                          - calcEMA(First(closes, Slow + j), Slow)]
  BY <1>1 DEF LiveLine
<1>3. ASSUME NEW j \in 1..n PROVE LiveLine(closes)[j] = Raw(closes)[Slow + j]
                                  /\ LiveLine(closes)[j] \in Int
  <2>1. PICK i \in 1..Len(closes) : i = Slow + j /\ i > 0
    <3>1. Len(closes) \in Nat
      BY LenProperties
    <3> QED
      BY <1>1, <3>1, PeriodsAre
  <2>2. i \in 0..Len(closes) /\ i \in Nat /\ i \in 1..i /\ i <= Len(closes)
    BY LenProperties
  <2>3. PICK t \in Seq(Int) : t = First(closes, i) /\ Len(t) = i /\ \A k \in 1..i : t[k] = closes[k]
    BY <2>2, FirstIs
  <2>4. SamePrefix(t, closes, i) /\ i <= Len(t)
    BY <2>2, <2>3 DEF SamePrefix
  <2>5. ASSUME NEW p \in Nat \ {0} PROVE calcEMA(t, p) = calcEMASeries(closes, p)[i]
    <3>1. calcEMA(t, p) = calcEMASeries(t, p)[i]
      BY <2>1, <2>3, EMAMatches
    <3>2. SamePrefix(calcEMASeries(t, p), calcEMASeries(closes, p), i)
      BY <2>2, <2>4, EMASame
    <3> QED
      BY <2>2, <3>1, <3>2 DEF SamePrefix
  <2>6. calcEMA(t, Fast) = calcEMASeries(closes, Fast)[i]
        /\ calcEMA(t, Slow) = calcEMASeries(closes, Slow)[i]
    BY <2>5, PeriodsAre
  <2>7. LiveLine(closes)[j] = calcEMA(t, Fast) - calcEMA(t, Slow)
    BY <1>2, <2>1, <2>3
  <2>8. Raw(closes)[i] = calcEMASeries(closes, Fast)[i] - calcEMASeries(closes, Slow)[i]
        /\ Raw(closes) \in Seq(Int) /\ Len(Raw(closes)) = Len(closes)
    BY RawIs
  <2>9. Raw(closes)[i] \in Int
    BY <2>8, ElementOfSeq
  <2> QED
    BY <2>1, <2>6, <2>7, <2>8, <2>9
<1>4. LiveLine(closes) = [j \in 1..n |-> LiveLine(closes)[j]]
  BY <1>2
<1>5. LiveLine(closes) \in Seq(Int) /\ Len(LiveLine(closes)) = n
  BY <1>3, <1>4, SeqIs
<1> QED
  BY <1>1, <1>3, <1>5

\* Its signal, which begins with the mean of the same values.
LEMMA SignalMatches ==
  ASSUME NEW closes \in Seq(Int), Len(closes) >= Slow + Signal
  PROVE  calcEMA(LiveLine(closes), Signal) = SignalLine(closes)[Len(closes)]
<1>1. PICK n \in Nat : n = Len(closes) /\ DOMAIN closes = 1..n
  BY LenProperties
<1>2. PICK m \in Nat : m = n - Slow /\ m >= Signal /\ n > Slow /\ m + Slow = n
  <2>1. n - Slow \in Nat /\ n - Slow >= Signal /\ n > Slow /\ n - Slow + Slow = n
    BY <1>1, PeriodsAre
  <2> QED
    BY <2>1
<1>3. PICK L \in Seq(Int) : L = LiveLine(closes) /\ Len(L) = m
                            /\ \A j \in 1..m : L[j] = Raw(closes)[Slow + j]
  BY <1>1, <1>2, LiveLineIs
<1>4. PICK p \in Nat \ {0} : p = Signal /\ p <= m
  BY <1>2, PeriodsAre
<1>5. PICK o \in Nat \ {0} : o = Slow
  BY PeriodsAre
<1>6. PICK f : Run(f, p, Len(L), p, EmaSeed(L, p), EmaSteps(L, p)) /\ calcEMA(L, p) = f[Len(L)]
  BY <1>3, <1>4, EMARun
<1>7. Follows(f, p, m, p, EmaSeed(L, p), EmaSteps(L, p)) /\ calcEMA(L, p) = f[m]
  BY <1>3, <1>6 DEF Run
<1>8. PICK g : /\ g = SignalLine(closes)
               /\ Follows(g, 1, n, o + p, SignalSeeds(closes), SignalSteps(closes))
  BY <1>1, <1>4, <1>5, SignalRun DEF Run
<1>9. Raw(closes) \in Seq(Int) /\ Len(Raw(closes)) = n
  BY <1>1, RawIs
<1>10. f[p] = g[p + o]
  <2>1. p \in p..m /\ p <= p /\ p + o \in 1..n /\ p + o <= o + p /\ p \in 0..m
    BY <1>2, <1>4, <1>5
  <2>2. f[p] = EmaSeed(L, p)[p] /\ g[p + o] = SignalSeeds(closes)[p + o]
    BY Zenon, <1>7, <1>8, <2>1 DEF Follows
  <2>3. EmaSeed(L, p)[p] = mean(First(L, p))
    BY <1>3, <2>1 DEF EmaSeed
  <2>4. SignalSeeds(closes)[p + o] = mean(SubSeq(Raw(closes), o + 1, p + o))
    <3>1. ~ (p + o < Slow + Signal) /\ Slow + 1 = o + 1 /\ p + o \in DOMAIN closes
      BY <1>1, <1>4, <1>5, <2>1
    <3> QED
      BY <3>1, <1>5 DEF SignalSeeds
  <2>5. First(L, p) = SubSeq(Raw(closes), o + 1, p + o)
    <3>1. /\ First(L, p) \in Seq(Int) /\ Len(First(L, p)) = p
          /\ \A i \in 1..p : First(L, p)[i] = L[i]
      BY <1>3, <2>1, FirstIs
    <3>2. PICK a \in 1..n, b \in 1..n : a = o + 1 /\ b = p + o /\ b \in a..n /\ b - a + 1 = p
      BY <1>2, <1>4, <1>5
    <3>3. /\ SubSeq(Raw(closes), a, b) \in Seq(Int)
          /\ Len(SubSeq(Raw(closes), a, b)) = b - a + 1
          /\ \A i \in 1..(b - a + 1) : SubSeq(Raw(closes), a, b)[i] = Raw(closes)[a + i - 1]
      BY <1>9, <3>2, MiddleIs
    <3>4. ASSUME NEW i \in 1..p PROVE First(L, p)[i] = SubSeq(Raw(closes), a, b)[i]
      <4>1. a + i - 1 = Slow + i /\ i \in 1..m /\ i \in 1..(b - a + 1)
        BY <1>4, <1>5, <3>2, <2>1
      <4> QED
        BY <1>3, <3>1, <3>3, <4>1
    <3>5. First(L, p) = SubSeq(Raw(closes), a, b)
      BY <3>1, <3>2, <3>3, <3>4, SeqEqual
    <3> QED
      BY <3>2, <3>5
  <2> QED
    BY <2>2, <2>3, <2>4, <2>5
<1>11. SameSteps(EmaSteps(L, p), SignalSteps(closes), p, m, o)
  <2>1. ASSUME NEW i \in (p + 1)..m PROVE EmaSteps(L, p)[i] = SignalSteps(closes)[i + o]
    <3>1. i \in 1..m /\ i + o \in 1..n /\ Slow + i = i + o
      BY <1>2, <1>4, <1>5
    <3>2. L[i] = Raw(closes)[i + o]
      BY <1>3, <3>1
    <3>3. i \in DOMAIN L /\ i + o \in DOMAIN closes
      BY <1>1, <1>3, <3>1, LenProperties
    <3>4. EmaSteps(L, p)[i] = [e \in Int |-> Smooth(e, L[i], p)]
      BY <3>3 DEF EmaSteps
    <3>5. SignalSteps(closes)[i + o] = [e \in Int |-> Smooth(e, Raw(closes)[i + o], p)]
      BY <1>4, <3>3 DEF SignalSteps
    <3> QED
      BY <3>2, <3>4, <3>5
  <2> QED
    BY <2>1 DEF SameSteps
<1>12. p \in Int /\ o \in Int /\ m \in Int /\ n \in Int /\ 1 \in Int /\ o + p \in Int /\ p <= p
       /\ p <= m /\ m <= m /\ 1 <= p + o /\ o + p <= p + o /\ m + o <= n /\ m \in p..m /\ m + o = n
  BY <1>2, <1>4, <1>5
<1>13. \A i \in p..m : f[i] = g[i + o]
  BY <1>7, <1>8, <1>10, <1>11, <1>12, RunAgree
<1>14. f[m] = g[n]
  BY <1>12, <1>13
<1> QED
  BY <1>1, <1>3, <1>4, <1>7, <1>8, <1>14

\* The latest values.
LEMMA LatestIs ==
  ASSUME NEW s \in Seq(Int), NEW m \in 1..Len(s)
  PROVE  /\ Latest(s, m) \in Seq(Int) /\ Len(Latest(s, m)) = m
         /\ \A i \in 1..m : Latest(s, m)[i] = s[Len(s) - m + i]
<1>1. PICK n \in Nat : n = Len(s) /\ m \in 1..n
  BY LenProperties
<1>2. PICK a \in 1..n : a = n - m + 1 /\ n - a + 1 = m
  <2>1. n - m + 1 \in 1..n
    BY <1>1
  <2> QED
    BY <2>1
<1>3. Latest(s, m) = SubSeq(s, a, n)
  BY Zenon, <1>1, <1>2 DEF Latest
<1>4. a \in 1..Len(s) /\ n \in a..Len(s)
  BY <1>1, <1>2
<1>5. /\ SubSeq(s, a, n) \in Seq(Int) /\ Len(SubSeq(s, a, n)) = n - a + 1
      /\ \A i \in 1..(n - a + 1) : SubSeq(s, a, n)[i] = s[a + i - 1]
  BY <1>4, MiddleIs
<1>6. \A i \in 1..m : a + i - 1 = n - m + i
  BY <1>1, <1>2
<1> QED
  BY <1>1, <1>2, <1>3, <1>5, <1>6

LEMMA LatestCandles ==
  ASSUME NEW rows \in Seq(Candles), NEW m \in 1..Len(rows)
  PROVE  /\ Latest(rows, m) \in Seq(Candles) /\ Len(Latest(rows, m)) = m
         /\ \A i \in 1..m : Latest(rows, m)[i] = rows[Len(rows) - m + i]
<1>1. PICK n \in Nat : n = Len(rows) /\ m \in 1..n
  BY LenProperties
<1>2. PICK a \in 1..n : a = n - m + 1 /\ n - a + 1 = m
  <2>1. n - m + 1 \in 1..n
    BY <1>1
  <2> QED
    BY <2>1
<1>3. Latest(rows, m) = SubSeq(rows, a, n)
  BY Zenon, <1>1, <1>2 DEF Latest
<1>4. \A i \in a..n : rows[i] \in Candles
  BY <1>1, <1>2, ElementOfSeq
<1>5. a \in Int /\ n \in Int /\ a <= n
  BY <1>1, <1>2
<1>6. /\ SubSeq(rows, a, n) \in Seq(Candles) /\ Len(SubSeq(rows, a, n)) = n - a + 1
      /\ \A i \in 1..(n - a + 1) : SubSeq(rows, a, n)[i] = rows[a + i - 1]
  BY <1>4, <1>5, SubSeqProperties
<1>7. \A i \in 1..m : a + i - 1 = n - m + i
  BY <1>1, <1>2
<1> QED
  BY <1>1, <1>2, <1>3, <1>6, <1>7

\* The closes of the latest rows are the latest closes.
LEMMA LatestCloses ==
  ASSUME NEW rows \in Seq(Candles), NEW m \in 1..Len(rows)
  PROVE  Column(Latest(rows, m), "close") = Latest(Column(rows, "close"), m)
<1>1. PICK n \in Nat : n = Len(rows) /\ m \in 1..n
  BY LenProperties
<1>2. PICK s \in Seq(Int) : /\ s = Column(rows, "close") /\ Len(s) = n
                            /\ \A i \in 1..n : s[i] = rows[i].close
  BY <1>1, ClosesAre
<1>3. PICK late \in Seq(Candles) : /\ late = Latest(rows, m) /\ Len(late) = m
                                   /\ \A i \in 1..m : late[i] = rows[n - m + i]
  BY <1>1, LatestCandles
<1>4. PICK x \in Seq(Int) : /\ x = Column(late, "close") /\ Len(x) = m
                            /\ \A i \in 1..m : x[i] = late[i].close
  BY <1>3, ClosesAre
<1>5. PICK y \in Seq(Int) : /\ y = Latest(s, m) /\ Len(y) = m
                            /\ \A i \in 1..m : y[i] = s[n - m + i]
  <2>1. m \in 1..Len(s)
    BY <1>1, <1>2
  <2>2. /\ Latest(s, m) \in Seq(Int) /\ Len(Latest(s, m)) = m
        /\ \A i \in 1..m : Latest(s, m)[i] = s[Len(s) - m + i]
    BY <2>1, LatestIs
  <2> QED
    BY <1>2, <2>2
<1>6. ASSUME NEW i \in 1..m PROVE x[i] = y[i]
  <2>1. PICK j \in 1..n : j = n - m + i
    <3>1. n - m + i \in 1..n
      BY <1>1
    <3> QED
      BY <3>1
  <2>2. x[i] = rows[j].close
    BY <1>3, <1>4, <2>1
  <2>3. y[i] = rows[j].close
    BY <1>2, <1>5, <2>1
  <2> QED
    BY <2>2, <2>3
<1>7. x = y
  BY <1>4, <1>5, <1>6, SeqEqual
<1> QED
  BY <1>2, <1>3, <1>4, <1>5, <1>7

\* The latest of the latest are the latest.
LEMMA LatestTwice ==
  ASSUME NEW s \in Seq(Int), NEW w \in 1..Len(s), NEW m \in 1..w
  PROVE  Latest(Latest(s, w), m) = Latest(s, m)
<1>1. PICK n \in Nat : n = Len(s) /\ w \in 1..n /\ m \in 1..n
  BY LenProperties
<1>2. PICK l \in Seq(Int) : /\ l = Latest(s, w) /\ Len(l) = w
                            /\ \A i \in 1..w : l[i] = s[n - w + i]
  BY <1>1, LatestIs
<1>3. PICK x \in Seq(Int) : /\ x = Latest(l, m) /\ Len(x) = m
                            /\ \A i \in 1..m : x[i] = l[w - m + i]
  <2>1. m \in 1..Len(l)
    BY <1>2
  <2>2. /\ Latest(l, m) \in Seq(Int) /\ Len(Latest(l, m)) = m
        /\ \A i \in 1..m : Latest(l, m)[i] = l[Len(l) - m + i]
    BY <2>1, LatestIs
  <2> QED
    BY <1>2, <2>2
<1>4. PICK y \in Seq(Int) : /\ y = Latest(s, m) /\ Len(y) = m
                            /\ \A i \in 1..m : y[i] = s[n - m + i]
  BY <1>1, LatestIs
<1>5. ASSUME NEW i \in 1..m PROVE x[i] = y[i]
  <2>1. PICK j \in 1..w : j = w - m + i /\ n - w + j = n - m + i
    <3>1. w - m + i \in 1..w /\ n - w + (w - m + i) = n - m + i
      BY <1>1
    <3> QED
      BY <3>1
  <2> QED
    BY <1>2, <1>3, <1>4, <2>1
<1>6. x = y
  BY <1>3, <1>4, <1>5, SeqEqual
<1> QED
  BY <1>2, <1>3, <1>4, <1>6

\* The windows of a ticker: as many rows as the table has, or as it selects.
Wide(s, w) == w = Len(s) \/ (w = Window /\ w <= Len(s))

\* Averages, RSI and bands read no further back than the rows a ticker selects.
LEMMA ShortSame ==
  ASSUME NEW s \in Seq(Int), NEW w \in 1..Len(s), Wide(s, w), NEW l, l = Latest(s, w)
  PROVE  /\ \A p \in Averages : MovingAverage(l, p) = MovingAverage(s, p)
         /\ RSI(l, 0) = RSI(s, 0) /\ Bands(l) = Bands(s)
<1>1. PICK n \in Nat : n = Len(s) /\ w \in 1..n
  BY LenProperties
<1>2. l \in Seq(Int) /\ Len(l) = w
  BY LatestIs
<1>3. CASE w = n
  <2>1. l = SubSeq(s, 1, Len(s))
    <3>1. n - n + 1 = 1
      OBVIOUS
    <3> QED
      BY <1>1, <1>3, <3>1 DEF Latest
  <2>2. l = s
    BY <2>1, SubSeqFull
  <2> QED
    BY <2>2
<1>4. CASE w # n
  <2>1. w = Window /\ w < n
    BY <1>1, <1>4 DEF Wide
  <2>2. ASSUME NEW m \in 1..w PROVE /\ Latest(l, m) = Latest(s, m)
                                    /\ m <= Len(l) /\ m <= Len(s)
    BY <1>1, <1>2, <2>1, LatestTwice
  <2>3. ASSUME NEW p \in Averages PROVE MovingAverage(l, p) = MovingAverage(s, p)
    <3>1. p \in 1..w
      BY <2>1, PeriodsAssumption
    <3> QED
      BY <2>2, <3>1 DEF MovingAverage
  <2>4. RSI(l, 0) = RSI(s, 0)
    <3>1. PICK m \in 1..w : m = RsiPeriod + 1
      <4>1. RsiPeriod + 1 \in 1..w
        BY <2>1, PeriodsAre
      <4> QED
        BY <4>1
    <3>2. Latest(l, m) = Latest(s, m)
      BY <2>2
    <3>3. Len(l) > RsiPeriod /\ Len(s) > RsiPeriod
      BY <1>1, <1>2, <2>1, <3>1, PeriodsAre
    <3>4. RSI(l, 0) = calcRSI(Latest(l, m))
      BY <3>1, <3>3 DEF RSI
    <3>5. RSI(s, 0) = calcRSI(Latest(s, m))
      BY <3>1, <3>3 DEF RSI
    <3> QED
      BY <3>2, <3>4, <3>5
  <2>5. Bands(l) = Bands(s)
    <3>1. Band \in 1..w
      BY <2>1, PeriodsAre
    <3>2. Latest(l, Band) = Latest(s, Band)
      BY <2>2, <3>1
    <3>3. ~ (Len(l) < Band) /\ ~ (Len(s) < Band)
      BY <1>1, <1>2, <2>1, <3>1
    <3> QED
      BY Zenon, <3>2, <3>3 DEF Bands
  <2> QED
    BY <2>3, <2>4, <2>5
<1> QED
  BY <1>3, <1>4

LEMMA LiveIs ==
  ASSUME NEW table, NEW rows, rows = LatestRows(table),
         NEW closes, closes = Column(rows, "close"), NEW live, live = LiveRow(table)
  PROVE  /\ live.ma = [p \in Averages |-> MovingAverage(closes, p)]
         /\ live.ema = [p \in Emas |-> IF Len(rows) < p THEN 0 ELSE calcEMA(closes, p)]
         /\ live.rsi = RSI(closes, 0) /\ live.bands = Bands(closes)
         /\ live.macd = LiveMACD(closes).macd /\ live.signal = LiveMACD(closes).signal
<1>1. LiveRow(table) =
     [ma |-> [p \in Averages |-> MovingAverage(closes, p)],
      ema |-> [p \in Emas |-> IF Len(rows) < p THEN 0 ELSE calcEMA(closes, p)],
      rsi |-> RSI(closes, 0),
      macd |-> LiveMACD(closes).macd, signal |-> LiveMACD(closes).signal,
      bands |-> Bands(closes), adx |-> calcADX(rows, AdxPeriod),
      atr |-> [p \in Ranges |-> MovingAverage(TrueRange(rows), p)],
      volume |-> MovingAverage(Column(rows, "volume"), Band),
      highest |-> IF Len(rows) < Band THEN 0
                  ELSE FoldLeft(Larger, 0, Latest(Column(rows, "high"), Band))]
  BY Zenon DEF LiveRow
<1> QED
  BY <1>1

\* The rows a ticker selects.
LEMMA WindowIs ==
  ASSUME NEW rows \in Seq(Candles), Len(rows) > 0
  PROVE  \E w \in 1..Len(rows) : /\ LatestRows(rows) = Latest(rows, w)
                                 /\ Wide(Column(rows, "close"), w)
<1>1. PICK n \in Nat : n = Len(rows) /\ n > 0
  BY LenProperties
<1>2. Len(Column(rows, "close")) = n
  BY <1>1, ClosesAre
<1>3. CASE n < Window
  BY <1>1, <1>2, <1>3 DEF LatestRows, Wide
<1>4. CASE ~ (n < Window)
  <2>1. Window \in 1..n
    BY <1>1, <1>4, PeriodsAre
  <2> QED
    BY <1>1, <1>2, <1>4, <2>1 DEF LatestRows, Wide
<1> QED
  BY <1>3, <1>4

LEMMA HourlyIs ==
  ASSUME NEW rows \in Seq(Candles), NEW closes, closes = Column(rows, "close"),
         NEW hourly, hourly = HourlyRow(rows)
  PROVE  /\ hourly.ema = [p \in Emas |-> calcEMA(closes, p)]
         /\ hourly.rsi = RSI(closes, 50) /\ hourly.bands = Bands(closes)
         /\ hourly.macd = LiveMACD(closes).macd /\ hourly.signal = LiveMACD(closes).signal
BY DEF HourlyRow

LEMMA FieldsAre ==
  ASSUME NEW x, NEW y
  PROVE  /\ x.ma = y.ma /\ x.rsi = y.rsi /\ x.bands = y.bands =>
              \A f \in {"ma", "rsi", "bands"} : x[f] = y[f]
         /\ x.ema = y.ema /\ x.rsi = y.rsi /\ x.macd = y.macd /\ x.signal = y.signal
              /\ x.bands = y.bands =>
              \A f \in {"ema", "rsi", "macd", "signal", "bands"} : x[f] = y[f]
OBVIOUS

\* The last row the table stores, from its closes.
LEMMA StoredLast ==
  ASSUME NEW rows \in Seq(Candles), NEW n \in 1..Len(rows), n = Len(rows),
         NEW s, s = Column(rows, "close"), NEW stored, stored = StoredRows(rows)[n]
  PROVE  /\ s \in Seq(Int) /\ Len(s) = n
         /\ stored.ma = [p \in Averages |-> MovingAverage(s, p)]
         /\ stored.ema = [p \in Emas |-> calcEMA(s, p)]
         /\ stored.rsi = RSI(s, 0) /\ stored.bands = Bands(s)
         /\ n >= Slow + Signal =>
              stored.macd = LiveMACD(s).macd /\ stored.signal = LiveMACD(s).signal
<1>1. s \in Seq(Int) /\ Len(s) = n /\ n \in Nat /\ n > 0
  BY ClosesAre
<1>2. First(s, n) = s
  BY <1>1, SubSeqFull DEF First
<1>3. StoredRows(rows)[n] =
         [ma |-> [p \in Averages |-> MovingAverage(First(s, n), p)],
          ema |-> [p \in Emas |-> calcEMASeries(s, p)[n]],
          rsi |-> RSI(First(s, n), 0),
          macd |-> MACDLine(s)[n], signal |-> SignalLine(s)[n],
          bands |-> Bands(First(s, n)), adx |-> calcADXSeries(rows, AdxPeriod)[n]]
  BY Zenon, StoredIs
<1>4. /\ stored.ma = [p \in Averages |-> MovingAverage(s, p)]
      /\ stored.ema = [p \in Emas |-> calcEMASeries(s, p)[n]]
      /\ stored.rsi = RSI(s, 0) /\ stored.bands = Bands(s)
      /\ stored.macd = MACDLine(s)[n] /\ stored.signal = SignalLine(s)[n]
  BY <1>2, <1>3
<1>5. ASSUME NEW p \in Emas PROVE calcEMASeries(s, p)[n] = calcEMA(s, p)
  <2>1. p \in Nat \ {0} /\ Len(s) > 0
    BY <1>1, PeriodsAssumption
  <2> QED
    BY <1>1, <2>1, EMAMatches
<1>6. ASSUME n >= Slow + Signal
      PROVE  LiveMACD(s).macd = MACDLine(s)[n] /\ LiveMACD(s).signal = SignalLine(s)[n]
  <2>1. ~ (Len(s) < Slow + Signal) /\ ~ (Len(s) < Slow) /\ Len(s) > Slow /\ Len(s) >= Slow + Signal
    BY <1>1, <1>6, PeriodsAre
  <2>2. LiveMACD(s) = [macd |-> Last(LiveLine(s)), signal |-> calcEMA(LiveLine(s), Signal)]
    BY Zenon, <2>1 DEF LiveMACD
  <2>3. calcEMA(LiveLine(s), Signal) = SignalLine(s)[n]
    BY <1>1, <2>1, SignalMatches
  <2>4. Last(LiveLine(s)) = MACDLine(s)[n]
    <3>1. PICK m \in Nat : m = n - Slow /\ m \in 1..(Len(s) - Slow) /\ Slow + m = n
      <4>1. n - Slow \in Nat /\ n - Slow \in 1..(Len(s) - Slow) /\ Slow + (n - Slow) = n
        BY <1>1, <2>1, PeriodsAre
      <4> QED
        BY <4>1
    <3>2. Len(LiveLine(s)) = m /\ LiveLine(s)[m] = Raw(s)[Slow + m]
      BY <1>1, <2>1, <3>1, LiveLineIs
    <3>3. Last(LiveLine(s)) = Raw(s)[n]
      BY <3>1, <3>2 DEF Last
    <3>4. MACDLine(s) = Raw(s)
      BY <2>1 DEF MACDLine
    <3> QED
      BY <3>3, <3>4
  <2> QED
    BY <2>2, <2>3, <2>4
<1>7. [p \in Emas |-> calcEMASeries(s, p)[n]] = [p \in Emas |-> calcEMA(s, p)]
  BY <1>5
<1>8. stored.ema = [p \in Emas |-> calcEMA(s, p)]
  BY <1>4, <1>7
<1> QED
  BY <1>1, <1>4, <1>6, <1>8

\* For every period and every table, however long: a ticker's averages, RSI and bands
\* are those stored for the last candle; its EMAs, MACD and signal those the table would
\* store had it only the rows the ticker selects; an hourly ticker's are those of the
\* series of its candles.
THEOREM LiveCorrect == LiveMatchesStored
<1> SUFFICES ASSUME NEW rows \in Tried PROVE ShownAsStored(rows)
  BY DEF LiveMatchesStored
<1>1. PICK N, stored, live, hourly : /\ N = Len(rows) /\ stored = StoredRows(rows)[N]
                                     /\ live = LiveRow(rows) /\ hourly = HourlyRow(rows)
  OBVIOUS
<1>2. rows \in Seq(Candles) /\ N \in 1..Len(rows) /\ Len(rows) > 0 /\ N \in Nat
  BY <1>1, TriedAre, InputsAssumption
<1>3. PICK s : s = Column(rows, "close")
  OBVIOUS
<1>4. /\ s \in Seq(Int) /\ Len(s) = N
      /\ stored.ma = [p \in Averages |-> MovingAverage(s, p)]
      /\ stored.ema = [p \in Emas |-> calcEMA(s, p)]
      /\ stored.rsi = RSI(s, 0) /\ stored.bands = Bands(s)
      /\ N >= Slow + Signal =>
           stored.macd = LiveMACD(s).macd /\ stored.signal = LiveMACD(s).signal
  BY <1>1, <1>2, <1>3, StoredLast
<1>5. PICK w \in 1..Len(rows) : LatestRows(rows) = Latest(rows, w) /\ Wide(s, w)
  BY <1>2, <1>3, WindowIs
<1>6. PICK window, n, kept : /\ window = LatestRows(rows) /\ n = Len(window)
                             /\ kept = StoredRows(window)[n]
  OBVIOUS
<1>7. /\ window \in Seq(Candles) /\ n = w /\ n \in 1..Len(window) /\ n \in Nat
  <2>1. Latest(rows, w) \in Seq(Candles) /\ Len(Latest(rows, w)) = w
    BY <1>2, LatestCandles
  <2> QED
    BY <1>2, <1>5, <1>6, <2>1
<1>8. PICK l : l = Column(window, "close")
  OBVIOUS
<1>9. l = Latest(s, w)
  BY <1>2, <1>3, <1>5, <1>6, <1>8, LatestCloses
<1>10. /\ l \in Seq(Int) /\ Len(l) = n
       /\ kept.ema = [p \in Emas |-> calcEMA(l, p)]
       /\ n >= Slow + Signal =>
            kept.macd = LiveMACD(l).macd /\ kept.signal = LiveMACD(l).signal
  <2>1. n = Len(window)
    BY <1>6
  <2>2. kept = StoredRows(window)[n]
    BY <1>6
  <2>3. window \in Seq(Candles) /\ n \in 1..Len(window)
    BY <1>7
  <2>4. /\ l \in Seq(Int) /\ Len(l) = n
        /\ kept.ma = [p \in Averages |-> MovingAverage(l, p)]
        /\ kept.ema = [p \in Emas |-> calcEMA(l, p)]
        /\ kept.rsi = RSI(l, 0) /\ kept.bands = Bands(l)
        /\ n >= Slow + Signal =>
             kept.macd = LiveMACD(l).macd /\ kept.signal = LiveMACD(l).signal
    BY <1>8, <2>1, <2>2, <2>3, StoredLast
  <2> QED
    BY <2>4
<1>11. /\ live.ma = [p \in Averages |-> MovingAverage(l, p)]
       /\ live.ema = [p \in Emas |-> IF Len(window) < p THEN 0 ELSE calcEMA(l, p)]
       /\ live.rsi = RSI(l, 0) /\ live.bands = Bands(l)
       /\ live.macd = LiveMACD(l).macd /\ live.signal = LiveMACD(l).signal
  BY <1>1, <1>6, <1>8, LiveIs
<1>12. /\ hourly.ema = [p \in Emas |-> calcEMA(s, p)]
       /\ hourly.rsi = RSI(s, 50) /\ hourly.bands = Bands(s)
       /\ hourly.macd = LiveMACD(s).macd /\ hourly.signal = LiveMACD(s).signal
  BY <1>1, <1>2, <1>3, HourlyIs
<1>13. \A f \in {"ma", "rsi", "bands"} : live[f] = stored[f]
  <2>1. w \in 1..Len(s)
    BY <1>1, <1>4
  <2>2. /\ \A p \in Averages : MovingAverage(l, p) = MovingAverage(s, p)
        /\ RSI(l, 0) = RSI(s, 0) /\ Bands(l) = Bands(s)
    BY <1>4, <1>5, <1>9, <2>1, ShortSame
  <2>3. [p \in Averages |-> MovingAverage(l, p)] = [p \in Averages |-> MovingAverage(s, p)]
    BY <2>2
  <2>4. live.ma = stored.ma /\ live.rsi = stored.rsi /\ live.bands = stored.bands
    BY <1>4, <1>11, <2>2, <2>3
  <2> QED
    BY <2>4, FieldsAre
<1>14. ASSUME NEW p \in Emas, p <= n PROVE live.ema[p] = kept.ema[p]
  <2>1. ~ (Len(window) < p)
    <3>1. p \in Nat
      BY PeriodsAssumption
    <3> QED
      BY <1>6, <1>7, <1>14, <3>1
  <2> QED
    BY <1>10, <1>11, <2>1
<1>15. n >= Slow + Signal => live.macd = kept.macd /\ live.signal = kept.signal
  BY <1>10, <1>11
<1>16. ASSUME N >= Slow + Signal
       PROVE  \A f \in {"ema", "rsi", "macd", "signal", "bands"} : hourly[f] = stored[f]
  <2>1. RSI(s, 0) = RSI(s, 50)
    <3>1. Len(s) > RsiPeriod
      BY <1>2, <1>4, <1>16, PeriodsAre
    <3> QED
      BY <3>1 DEF RSI
  <2>2. /\ hourly.ema = stored.ema /\ hourly.rsi = stored.rsi /\ hourly.macd = stored.macd
        /\ hourly.signal = stored.signal /\ hourly.bands = stored.bands
    BY <1>4, <1>12, <1>16, <2>1
  <2> QED
    BY <2>2, FieldsAre
<1> QED
  BY Zenon, <1>1, <1>6, <1>13, <1>14, <1>15, <1>16 DEF ShownAsStored
=============================================================================
