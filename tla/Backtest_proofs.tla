---------------------------- MODULE Backtest_proofs ----------------------------
(***************************************************************************)
(* What holds of a backtest whatever the prices, the fee, the slippage, the*)
(* strategy's periods and the number of candles: it accounts for its money,*)
(* trades on the closes it has seen, and reports the largest drawdown.     *)
(***************************************************************************)
EXTENDS Backtest, FiniteSetTheorems, TLAPS

(***************************************************************************)
(* Recursion over the candles.  A loop is a function from 0..n whose value *)
(* at i is a step from its value at i - 1; FromZero takes the place of     *)
(* induction.                                                              *)
(***************************************************************************)

\* A set that has 0, and n + 1 whenever it has n, has every number.
LEMMA FromZero ==
    ASSUME NEW S, 0 \in S, \A n \in Nat : n \in S => n + 1 \in S
    PROVE  \A n \in Nat : n \in S
<1> SUFFICES ASSUME NEW n \in Nat, n \notin S PROVE FALSE
    OBVIOUS
<1> DEFINE C == {R \in SUBSET (0..n) : \E m \in 0..n : R = 0..m /\ m \notin S}
<1>1. IsFiniteSet(0..n)
    BY FS_Interval
<1>2. IsWellFoundedOn(StrictSubsetOrdering(0..n), SUBSET (0..n))
    <2> DEFINE I == 0..n
    <2>1. IsFiniteSet(I)
        BY <1>1
    <2> HIDE DEF I
    <2>2. IsWellFoundedOn(StrictSubsetOrdering(I), SUBSET I)
        BY <2>1, FS_StrictSubsetOrderingWellFounded, FS_FiniteSubsetsOfFinite
    <2> QED BY <2>2 DEF I
<1>3. C \subseteq SUBSET (0..n) /\ C # {}
    <2>1. 0..n \in C
        OBVIOUS
    <2> QED BY <2>1
<1>4. PICK R \in C : \A Q \in C : <<Q, R>> \notin StrictSubsetOrdering(0..n)
    <2> HIDE DEF C
    <2> QED BY <1>2, <1>3, WFMin
<1>5. PICK m \in 0..n : R = 0..m /\ m \notin S
    OBVIOUS
<1>6. m # 0 /\ m - 1 \in 0..n /\ m - 1 \in Nat
    BY <1>5
<1>7. m - 1 \notin S
    BY <1>5, <1>6
<1>8. 0..(m - 1) \in C
    BY <1>6, <1>7
<1>9. 0..(m - 1) # R /\ 0..(m - 1) \subseteq R
    <2>1. m \in R /\ m \notin 0..(m - 1)
        BY <1>5
    <2>2. 0..(m - 1) \subseteq R
        BY <1>5
    <2> QED BY <2>1, <2>2
<1> QED BY <1>4, <1>8, <1>9 DEF StrictSubsetOrdering

\* g is a loop of n turns; step[i] is what turn i makes of the value before it.
Loop(g, n, first, step) ==
    g = [i \in 0..n |-> IF i = 0 THEN first ELSE step[i][g[i - 1]]]

LEMMA LoopAt ==
    ASSUME NEW n \in Nat, NEW first, NEW step, NEW g, Loop(g, n, first, step)
    PROVE  /\ g[0] = first /\ DOMAIN g = 0..n
           /\ \A i \in 1..n : g[i] = step[i][g[i - 1]]
<1> DEFINE at(i) == IF i = 0 THEN first ELSE step[i][g[i - 1]]
<1>1. g = [i \in 0..n |-> at(i)]
    BY DEF Loop
<1> HIDE DEF at
<1>2. DOMAIN g = 0..n /\ \A i \in 0..n : g[i] = at(i)
    BY <1>1
<1> QED BY <1>2 DEF at

\* The first loop's turns are turns of the second.
LEMMA LoopsAgree ==
    ASSUME NEW n \in Nat, NEW m \in Nat, n <= m, NEW first, NEW step, NEW turn,
           NEW g, Loop(g, n, first, step), NEW h, Loop(h, m, first, turn),
           \A i \in 1..n : step[i] = turn[i]
    PROVE  \A i \in 0..n : g[i] = h[i]
<1> DEFINE S == {i \in Nat : i <= n => g[i] = h[i]}
<1>1. 0 \in S
    BY LoopAt
<1>2. ASSUME NEW i \in Nat, i \in S PROVE i + 1 \in S
    <2> SUFFICES ASSUME i + 1 <= n PROVE g[i + 1] = h[i + 1]
        OBVIOUS
    <2>1. g[i] = h[i] /\ i + 1 \in 1..n /\ i + 1 \in 1..m /\ (i + 1) - 1 = i
        BY <1>2
    <2>2. g[i + 1] = step[i + 1][g[i]] /\ h[i + 1] = turn[i + 1][h[i]]
        BY <2>1, LoopAt
    <2> QED BY <2>1, <2>2
<1> HIDE DEF S
<1>3. \A i \in Nat : i \in S
    BY <1>1, <1>2, FromZero
<1> QED BY <1>3 DEF S

LEMMA LoopExists ==
    ASSUME NEW n \in Nat, NEW first, NEW step
    PROVE  \E g : Loop(g, n, first, step)
<1> DEFINE S == {m \in Nat : \E g : Loop(g, m, first, step)}
<1>1. 0 \in S
    <2> DEFINE g == [i \in 0..0 |-> first]
    <2>1. Loop(g, 0, first, step)
        BY DEF Loop
    <2> QED BY <2>1
<1>2. ASSUME NEW m \in Nat, m \in S PROVE m + 1 \in S
    <2>1. PICK g : Loop(g, m, first, step)
        BY <1>2
    <2> DEFINE h == [i \in 0..(m + 1) |-> IF i <= m THEN g[i] ELSE step[i][g[i - 1]]]
    <2>2. /\ g[0] = first
          /\ \A i \in 1..m : g[i] = step[i][g[i - 1]]
        BY <2>1, LoopAt
    <2>3. ASSUME NEW i \in 0..(m + 1)
          PROVE  h[i] = IF i = 0 THEN first ELSE step[i][h[i - 1]]
        <3>1. CASE i = 0
            BY <2>2, <3>1
        <3>2. CASE i # 0
            <4>1. i - 1 \in 0..(m + 1) /\ i - 1 <= m
                BY <3>2
            <4>2. h[i - 1] = g[i - 1]
                BY <4>1
            <4>3. h[i] = step[i][g[i - 1]]
                BY <2>2, <3>2
            <4> HIDE DEF h
            <4> QED BY <3>2, <4>2, <4>3
        <3> QED BY <3>1, <3>2
    <2>4. Loop(h, m + 1, first, step)
        <3>1. h = [i \in 0..(m + 1) |-> h[i]]
            OBVIOUS
        <3> HIDE DEF h
        <3> QED BY <2>3, <3>1 DEF Loop
    <2> QED BY <2>4
<1> HIDE DEF S
<1>3. \A m \in Nat : m \in S
    BY <1>1, <1>2, FromZero
<1> QED BY <1>3 DEF S

LEMMA LoopIn ==
    ASSUME NEW n \in Nat, NEW D, NEW first \in D, NEW step \in [1..n -> [D -> D]],
           NEW g, Loop(g, n, first, step)
    PROVE  g \in [0..n -> D]
<1> DEFINE S == {i \in Nat : i <= n => g[i] \in D}
<1>1. 0 \in S
    BY LoopAt
<1>2. ASSUME NEW i \in Nat, i \in S PROVE i + 1 \in S
    <2> SUFFICES ASSUME i + 1 <= n PROVE g[i + 1] \in D
        OBVIOUS
    <2>1. g[i] \in D /\ i + 1 \in 1..n /\ (i + 1) - 1 = i
        BY <1>2
    <2>2. g[i + 1] = step[i + 1][g[i]] /\ step[i + 1] \in [D -> D]
        BY <2>1, LoopAt
    <2> QED BY <2>1, <2>2
<1> HIDE DEF S
<1>3. \A i \in Nat : i \in S
    BY <1>1, <1>2, FromZero
<1>4. \A i \in 0..n : g[i] \in D
    BY <1>3 DEF S
<1>5. g = [i \in 0..n |-> g[i]]
    BY DEF Loop
<1> QED BY <1>4, <1>5

(***************************************************************************)
(* The averages.  What ema computes for a candle depends on the closes up  *)
(* to that candle only, so that a slice of the closes gives the same leads.*)
(***************************************************************************)
Fraction == [num : Int, den : Int]

LEMMA SmoothedType ==
    ASSUME NEW value \in Int, NEW i \in Nat, NEW period \in Int, NEW before \in Fraction
    PROVE  Smoothed(value, i, before, period) \in Fraction
<1> DEFINE b == before.num
           d == before.den
<1>1. b \in Int /\ d \in Int
    BY DEF Fraction
<1> HIDE DEF b, d
<1>2. b + value \in Int /\ 2 * value * d + (period - 1) * b \in Int /\ (period + 1) * d \in Int
    BY <1>1
<1> QED BY <1>2 DEF Smoothed, Fraction, b, d

Turns(values, period) ==
    [i \in 1..Len(values) |-> [before \in Fraction |-> Smoothed(values[i], i, before, period)]]

EmaBody(values, period, average) ==
    [i \in 0 .. Len(values) |->
        IF i = 0 THEN [num |-> 0, den |-> period]
        ELSE Smoothed(values[i], i, average[i - 1], period)]

LEMMA TurnsType ==
    ASSUME NEW values \in Seq(Int), NEW period \in Nat
    PROVE  /\ Len(values) \in Nat /\ [num |-> 0, den |-> period] \in Fraction
           /\ Turns(values, period) \in [1..Len(values) -> [Fraction -> Fraction]]
<1>1. ASSUME NEW i \in 1..Len(values)
      PROVE  [before \in Fraction |-> Smoothed(values[i], i, before, period)] \in [Fraction -> Fraction]
    <2>1. values[i] \in Int /\ i \in Nat
        OBVIOUS
    <2> QED BY <2>1, SmoothedType
<1>2. [num |-> 0, den |-> period] \in Fraction
    BY DEF Fraction
<1>3. Turns(values, period) \in [1..Len(values) -> [Fraction -> Fraction]]
    <2> HIDE DEF Fraction
    <2> QED BY <1>1 DEF Turns
<1> QED BY <1>2, <1>3

LEMMA EmaLoops ==
    ASSUME NEW values \in Seq(Int), NEW period \in Nat
    PROVE  /\ Ema(values, period) \in [0..Len(values) -> Fraction]
           /\ Loop(Ema(values, period), Len(values), [num |-> 0, den |-> period], Turns(values, period))
<1> DEFINE n == Len(values)
           first == [num |-> 0, den |-> period]
           turns == Turns(values, period)
           e == Ema(values, period)
<1>1. n \in Nat /\ first \in Fraction /\ turns \in [1..n -> [Fraction -> Fraction]]
    BY TurnsType
<1>2. \E g : g = EmaBody(values, period, g)
    <2>1. PICK g : Loop(g, n, first, turns)
        BY <1>1, LoopExists
    <2> HIDE DEF turns, first
    <2>2. g \in [0..n -> Fraction]
        BY <1>1, <2>1, LoopIn
    <2>3. ASSUME NEW i \in 1..n
          PROVE  turns[i][g[i - 1]] = Smoothed(values[i], i, g[i - 1], period)
        <3>1. i - 1 \in 0..n
            BY <1>1
        <3>2. g[i - 1] \in Fraction
            BY <2>2, <3>1
        <3> QED BY <3>2 DEF turns, Turns
    <2>4. ASSUME NEW i \in 0..n, i # 0 PROVE i \in 1..n
        BY <1>1, <2>4
    <2>5. g = EmaBody(values, period, g)
        <3> HIDE DEF n
        <3> QED BY <2>1, <2>3, <2>4 DEF Loop, EmaBody, first, n
    <2> QED BY <2>5
<1>3. e = EmaBody(values, period, e)
    <2>1. e = CHOOSE g : g = EmaBody(values, period, g)
        BY DEF Ema, EmaBody
    <2> HIDE DEF e
    <2> QED BY <1>2, <2>1
<1> HIDE DEF e
<1>4. e \in [0..n -> Fraction]
    <2> DEFINE S == {i \in Nat : i <= n => e[i] \in Fraction}
    <2> DEFINE at(i) == IF i = 0 THEN first ELSE Smoothed(values[i], i, e[i - 1], period)
    <2>a. \A i \in 0..n : e[i] = at(i)
        <3>1. e = [i \in 0..n |-> at(i)]
            BY <1>3 DEF EmaBody
        <3> HIDE DEF at
        <3> QED BY <3>1
    <2>0. e[0] = first /\ \A i \in 1..n : e[i] = Smoothed(values[i], i, e[i - 1], period)
        <3>1. 0 \in 0..n /\ \A i \in 1..n : i \in 0..n /\ i # 0
            BY <1>1
        <3> QED BY <2>a, <3>1
    <2> HIDE DEF at
    <2> HIDE DEF first
    <2>1. 0 \in S
        BY <1>1, <2>0
    <2>2. ASSUME NEW i \in Nat, i \in S PROVE i + 1 \in S
        <3> SUFFICES ASSUME i + 1 <= n PROVE e[i + 1] \in Fraction
            OBVIOUS
        <3>1. e[i] \in Fraction /\ i + 1 \in 1..n /\ (i + 1) - 1 = i
            BY <1>1, <2>2
        <3>2. e[i + 1] = Smoothed(values[i + 1], i + 1, e[i], period)
            BY <2>0, <3>1
        <3>3. values[i + 1] \in Int /\ i + 1 \in Nat /\ period \in Int
            BY <3>1
        <3> HIDE DEF n, S
        <3>4. Smoothed(values[i + 1], i + 1, e[i], period) \in Fraction
            BY <3>1, <3>3, SmoothedType
        <3> QED BY <3>2, <3>4
    <2> HIDE DEF S
    <2>3. \A i \in Nat : i \in S
        BY <2>1, <2>2, FromZero
    <2>4. \A i \in 0..n : e[i] \in Fraction
        BY <1>1, <2>3 DEF S
    <2>5. e = [i \in 0..n |-> e[i]]
        BY <1>3 DEF EmaBody
    <2> QED BY <2>4, <2>5
<1>5. Loop(e, n, first, turns)
    <2>1. ASSUME NEW i \in 1..n
          PROVE  turns[i][e[i - 1]] = Smoothed(values[i], i, e[i - 1], period)
        <3>1. i - 1 \in 0..n
            BY <1>1
        <3>2. e[i - 1] \in Fraction
            BY <1>4, <3>1
        <3> QED BY <3>2 DEF Turns
    <2>2. ASSUME NEW i \in 0..n, i # 0 PROVE i \in 1..n
        BY <1>1, <2>2
    <2> HIDE DEF n, turns
    <2> QED BY <1>3, <2>1, <2>2 DEF Loop, EmaBody, n
<1> QED BY <1>4, <1>5 DEF e

LEMMA EmaOfSlice ==
    ASSUME NEW values \in Seq(Int), NEW period \in Nat, NEW n \in 0..Len(values)
    PROVE  \A i \in 0..n : Ema(SubSeq(values, 1, n), period)[i] = Ema(values, period)[i]
<1> DEFINE slice == SubSeq(values, 1, n)
           first == [num |-> 0, den |-> period]
<1>1. /\ slice \in Seq(Int) /\ Len(slice) = n /\ n \in Nat /\ Len(values) \in Nat /\ n <= Len(values)
      /\ \A i \in 1..n : slice[i] = values[i]
    OBVIOUS
<1> HIDE DEF slice, first
<1>2. Loop(Ema(slice, period), n, first, Turns(slice, period))
    BY <1>1, EmaLoops DEF first
<1>3. Loop(Ema(values, period), Len(values), first, Turns(values, period))
    BY EmaLoops DEF first
<1>4. \A i \in 1..n : Turns(slice, period)[i] = Turns(values, period)[i]
    BY <1>1, SMTT(40) DEF Turns
<1>5. \A i \in 0..n : Ema(slice, period)[i] = Ema(values, period)[i]
    <2> DEFINE m == Len(values)
               step == Turns(slice, period)
               turn == Turns(values, period)
               g == Ema(slice, period)
               h == Ema(values, period)
    <2>1. /\ Loop(g, n, first, step) /\ Loop(h, m, first, turn)
          /\ n \in Nat /\ m \in Nat /\ n <= m /\ \A i \in 1..n : step[i] = turn[i]
        BY <1>1, <1>2, <1>3, <1>4
    <2> HIDE DEF m, step, turn, g, h
    <2>2. \A i \in 0..n : g[i] = h[i]
        BY <2>1, LoopsAgree
    <2> QED BY <2>2 DEF g, h
<1> QED BY <1>5 DEF slice

LEMMA LeadOfSlice ==
    ASSUME NEW values \in Seq(Int), NEW n \in 0..Len(values), NEW i \in 0..n
    PROVE  Lead(SubSeq(values, 1, n), i) = Lead(values, i)
BY EmaOfSlice, StrategyConstants DEF Lead

LEMMA LeadIsInt ==
    ASSUME NEW values \in Seq(Int), NEW i \in 0..Len(values)
    PROVE  Lead(values, i) \in Int
<1> DEFINE f == Ema(values, FastPeriod)[i]
           s == Ema(values, SlowPeriod)[i]
<1>1. f \in Fraction /\ s \in Fraction
    <2>1. FastPeriod \in Nat /\ SlowPeriod \in Nat
        BY StrategyConstants
    <2>2. /\ Ema(values, FastPeriod) \in [0..Len(values) -> Fraction]
          /\ Ema(values, SlowPeriod) \in [0..Len(values) -> Fraction]
        BY <2>1, EmaLoops
    <2> QED BY <2>2
<1> HIDE DEF f, s
<1> DEFINE a == f.num
           b == f.den
           c == s.num
           d == s.den
<1>2. a \in Int /\ b \in Int /\ c \in Int /\ d \in Int
    BY <1>1 DEF Fraction
<1> HIDE DEF a, b, c, d
<1>3. a * d - c * b \in Int
    BY <1>2
<1> QED BY <1>3 DEF Lead, f, s, a, b, c, d

USE BacktestConstants, StrategyConstants

(***************************************************************************)
(* The money.                                                              *)
(***************************************************************************)
\* Round is never further than half a unit from the fraction it rounds.
LEMMA RoundNear ==
    ASSUME NEW n \in Int, NEW d \in Nat \ {0}
    PROVE  /\ Round(n, d) \in Int
           /\ 2 * (Round(n, d) * d - n) <= d
           /\ 2 * (n - Round(n, d) * d) <= d
<1> DEFINE q == n \div d
           r == n % d
<1>1. q \in Int /\ r \in 0..(d - 1) /\ n = d * q + r
  OBVIOUS
<1> HIDE DEF q, r
<1>2. CASE 2 * r > d \/ (2 * r = d /\ q % 2 = 1)
  <2>1. Round(n, d) = q + 1
    BY <1>2 DEF Round, q, r
  <2>2. (q + 1) * d - n = d - r
    BY <1>1
  <2> QED BY <1>1, <1>2, <2>1, <2>2
<1>3. CASE ~(2 * r > d \/ (2 * r = d /\ q % 2 = 1))
  <2>1. Round(n, d) = q
    BY <1>3 DEF Round, q, r
  <2>2. q * d - n = -r
    BY <1>1
  <2> QED BY <1>1, <1>3, <2>1, <2>2
<1> QED BY <1>2, <1>3

LEMMA RoundExact ==
    ASSUME NEW k \in Int, NEW d \in Nat \ {0}
    PROVE  Round(k * d, d) = k
<1> DEFINE R == Round(k * d, d)
<1>1. R \in Int /\ 2 * (R * d - k * d) <= d /\ 2 * (k * d - R * d) <= d
  <2>1. k * d \in Int
    OBVIOUS
  <2> QED BY <2>1, RoundNear
<1> HIDE DEF R
<1>2. ASSUME R >= k + 1 PROVE FALSE
  <2>1. (R - k) * d >= d
    BY <1>1, <1>2
  <2> QED BY <1>1, <2>1
<1>3. ASSUME R <= k - 1 PROVE FALSE
  <2>1. (k - R) * d >= d
    BY <1>1, <1>3
  <2> QED BY <1>1, <2>1
<1>4. R = k
  BY <1>1, <1>2, <1>3
<1> QED BY <1>4 DEF R

LEMMA RoundPositive ==
    ASSUME NEW n \in Int, NEW d \in Nat \ {0}, n >= d
    PROVE  Round(n, d) \in Nat \ {0}
<1>1. Round(n, d) \in Int /\ 2 * (n - Round(n, d) * d) <= d
  BY RoundNear
<1>2. ASSUME Round(n, d) <= 0 PROVE FALSE
  <2>1. Round(n, d) * d <= 0
    BY <1>1, <1>2
  <2> QED BY <1>1, <2>1
<1> QED BY <1>1, <1>2

\* What a BUY spends, gross and fee, is all the cash but for one quantum.
LEMMA SpendsAll ==
    ASSUME cash \in Int
    PROVE  /\ Gross \in Int /\ Fee(Gross) \in Int
           /\ Gross + Fee(Gross) - cash \in -1..1
<1> DEFINE G == Gross
           F == Fee(G)
           X == G + F - cash
<1>1. /\ G \in Int
      /\ 2 * (G * (FeeDen + FeeNum) - cash * FeeDen) <= FeeDen + FeeNum
      /\ 2 * (cash * FeeDen - G * (FeeDen + FeeNum)) <= FeeDen + FeeNum
  <2>1. cash * FeeDen \in Int /\ FeeDen + FeeNum \in Nat \ {0}
    OBVIOUS
  <2> QED BY <2>1, RoundNear DEF Gross
<1> HIDE DEF G
<1>2. /\ F \in Int
      /\ 2 * (F * FeeDen - G * FeeNum) <= FeeDen
      /\ 2 * (G * FeeNum - F * FeeDen) <= FeeDen
  <2>1. G * FeeNum \in Int /\ FeeDen \in Nat \ {0}
    BY <1>1
  <2> QED BY <2>1, RoundNear DEF Fee
<1> HIDE DEF F
<1>3. X * FeeDen = (G * (FeeDen + FeeNum) - cash * FeeDen) + (F * FeeDen - G * FeeNum)
  BY <1>1, <1>2
<1>4. X \in Int
  BY <1>1, <1>2
<1> HIDE DEF X
<1>5. 2 * (X * FeeDen) < 3 * FeeDen /\ 2 * (X * FeeDen) > -3 * FeeDen
  BY <1>1, <1>2, <1>3
<1>6. ASSUME X >= 2 PROVE FALSE
  <2>1. X * FeeDen >= 2 * FeeDen
    BY <1>4, <1>6
  <2> QED BY <1>4, <1>5, <2>1
<1>7. ASSUME X <= -2 PROVE FALSE
  <2>1. X * FeeDen <= -2 * FeeDen
    BY <1>4, <1>7
  <2> QED BY <1>4, <1>5, <2>1
<1>8. X \in -1..1
  BY <1>4, <1>6, <1>7
<1> QED BY <1>1, <1>2, <1>8 DEF F, G, X

\* A price an order can execute at is positive, after slippage and rounding too.
LEMMA BuyPricePositive ==
    ASSUME NEW open \in Opens
    PROVE  BuyPrice(open) \in Nat \ {0}
<1> DEFINE n == open * (10000 + SlippageBps)
<1>1. n \in Int /\ n >= 10000
  OBVIOUS
<1> HIDE DEF n
<1>2. 10000 \in Nat \ {0}
  OBVIOUS
<1> QED BY <1>1, <1>2, RoundPositive DEF BuyPrice, n
-------------------------------------------------------------------------------
TradeSet == [side : {"buy", "sell"}, signal : Int, execution : Int]

TypeInv ==
    /\ closes \in [1..Length -> Closes]
    /\ capital \in Int /\ cash \in Int /\ quantity \in Int
    /\ openCost \in Int /\ realized \in Int
    /\ index \in Nat
    /\ trades \in Seq(TradeSet)

\* All in or all out, entries and exits taking turns.
AllInOrOut ==
    /\ quantity >= 0
    /\ quantity = 0 => openCost = 0 /\ Len(trades) % 2 = 0
    /\ quantity > 0 => cash = 0 /\ Len(trades) % 2 = 1

\* What there is, at cost, is what there was and what was made.
Balanced ==
    LET unexplained == cash + openCost - capital - realized
    IN  -Entries <= unexplained /\ unexplained <= Entries

Inv == TypeInv /\ AllInOrOut /\ Balanced

LEMMA HalfOfEven ==
    ASSUME NEW n \in Nat, n % 2 = 0
    PROVE  /\ (n + 1) \div 2 \in Int /\ (n + 1) % 2 = 1
           /\ (n + 1 + 1) \div 2 = (n + 1) \div 2 + 1
OBVIOUS

LEMMA HalfOfOdd ==
    ASSUME NEW n \in Nat, n % 2 = 1
    PROVE  /\ (n + 1) \div 2 \in Int /\ (n + 1) % 2 = 0
           /\ (n + 1 + 1) \div 2 = (n + 1) \div 2
OBVIOUS

LEMMA InitInv == Init => Inv
BY DEF Init, Inv, TypeInv, AllInOrOut, Balanced, Entries

LEMMA BuyInv == Inv /\ Buy => Inv'
<1> SUFFICES ASSUME Inv, Buy PROVE Inv'
  OBVIOUS
<1> USE DEF Inv, TypeInv
<1>1. Gross \in Int /\ Fee(Gross) \in Int /\ Gross + Fee(Gross) - cash \in -1..1
  BY SpendsAll
<1>2. quantity' \in Int /\ quantity' > 0
  <2>1. PICK open \in Opens : Bought(BuyPrice(open)) > 0 /\ quantity' = Bought(BuyPrice(open))
    BY DEF Buy
  <2>2. BuyPrice(open) \in Nat \ {0} /\ Gross * Scale \in Int
    BY <1>1, BuyPricePositive
  <2>3. Bought(BuyPrice(open)) \in Int
    BY <2>2, RoundNear DEF Bought
  <2> QED BY <2>1, <2>3
<1>3. /\ quantity = 0 /\ openCost' = Gross + Fee(Gross) /\ cash' = 0
      /\ realized' = realized /\ capital' = capital /\ closes' = closes
      /\ index' = index + 1 /\ trades' = Append(trades, Trade("buy"))
  BY DEF Buy, Advance
<1>4. /\ trades' \in Seq(TradeSet)
      /\ Len(trades) \in Nat /\ Len(trades') = Len(trades) + 1
  <2>1. Trade("buy") \in TradeSet
    BY DEF Trade, TradeSet
  <2> QED BY <1>3, <2>1
<1>5. TypeInv'
  BY <1>1, <1>2, <1>3, <1>4
<1>6. openCost = 0 /\ Len(trades) % 2 = 0
  BY <1>3 DEF AllInOrOut
<1>7. Len(trades') % 2 = 1 /\ Entries' = Entries + 1 /\ Entries \in Int
  BY <1>4, <1>6, HalfOfEven DEF Entries
<1>8. AllInOrOut'
  BY <1>2, <1>3, <1>7 DEF AllInOrOut
<1>9. Balanced'
  <2> DEFINE was == cash + openCost - capital - realized
             is == cash' + openCost' - capital' - realized'
  <2>1. -Entries <= was /\ was <= Entries
    BY DEF Balanced
  <2>2. was \in Int /\ is \in Int /\ is - was \in -1..1
    <3>1. was \in Int
      OBVIOUS
    <3>2. is = Gross + Fee(Gross) - capital - realized /\ was = cash - capital - realized
      BY <1>1, <1>3, <1>6
    <3> QED BY <1>1, <3>1, <3>2, SMTT(40)
  <2> HIDE DEF was, is
  <2>3. -Entries' <= is /\ is <= Entries'
    BY <1>7, <2>1, <2>2
  <2> QED BY <2>3 DEF Balanced, is
<1> QED BY <1>5, <1>8, <1>9

LEMMA SellInv == Inv /\ Sell => Inv'
<1> SUFFICES ASSUME Inv, Sell PROVE Inv'
  OBVIOUS
<1> USE DEF Inv, TypeInv
<1>1. PICK open \in Opens :
         LET gross    == Worth(0, quantity, SellPrice(open))
             proceeds == gross - Fee(gross)
         IN  cash' = proceeds /\ realized' = realized + proceeds - openCost
  BY DEF Sell
<1> DEFINE gross == Worth(0, quantity, SellPrice(open))
<1>2. gross \in Int /\ Fee(gross) \in Int
  <2>1. SellPrice(open) \in Int
    <3>1. open * (10000 - SlippageBps) \in Int
      OBVIOUS
    <3> QED BY <3>1, RoundNear DEF SellPrice
  <2>2. 0 * Scale + quantity * SellPrice(open) \in Int /\ Scale \in Nat \ {0}
    BY <2>1
  <2>3. gross \in Int
    BY <2>2, RoundNear DEF Worth
  <2> HIDE DEF gross
  <2>4. gross * FeeNum \in Int /\ FeeDen \in Nat \ {0}
    BY <2>3
  <2> QED BY <2>3, <2>4, RoundNear DEF Fee
<1>3. cash' = gross - Fee(gross) /\ realized' = realized + (gross - Fee(gross)) - openCost
  BY <1>1
<1> HIDE DEF gross
<1>4. /\ quantity > 0 /\ quantity' = 0 /\ openCost' = 0
      /\ capital' = capital /\ closes' = closes
      /\ index' = index + 1 /\ trades' = Append(trades, Trade("sell"))
  BY DEF Sell, Advance
<1>5. /\ trades' \in Seq(TradeSet)
      /\ Len(trades) \in Nat /\ Len(trades') = Len(trades) + 1
  <2>1. Trade("sell") \in TradeSet
    BY DEF Trade, TradeSet
  <2> QED BY <1>4, <2>1
<1>6. TypeInv'
  BY <1>2, <1>3, <1>4, <1>5, SMTT(40)
<1>7. cash = 0 /\ Len(trades) % 2 = 1
  BY <1>4 DEF AllInOrOut
<1>8. Len(trades') % 2 = 0 /\ Entries' = Entries /\ Entries \in Int
  BY <1>5, <1>7, HalfOfOdd DEF Entries
<1>9. AllInOrOut'
  BY <1>4, <1>8 DEF AllInOrOut
<1>10. Balanced'
  <2> DEFINE was == cash + openCost - capital - realized
             is == cash' + openCost' - capital' - realized'
  <2>1. -Entries <= was /\ was <= Entries
    BY DEF Balanced
  <2>2. is = was /\ was \in Int
    <3>1. is = gross - Fee(gross) - capital - (realized + (gross - Fee(gross)) - openCost)
      BY <1>2, <1>3, <1>4
    <3> QED BY <1>2, <1>7, <3>1
  <2> HIDE DEF was, is
  <2>3. -Entries' <= is /\ is <= Entries'
    BY <1>8, <2>1, <2>2
  <2> QED BY <2>3 DEF Balanced, is
<1> QED BY <1>6, <1>9, <1>10

LEMMA NextInv == Inv /\ [Next]_vars => Inv'
<1> SUFFICES ASSUME Inv, [Next]_vars PROVE Inv'
  OBVIOUS
<1>1. CASE Buy
  BY <1>1, BuyInv
<1>2. CASE Sell
  BY <1>2, SellInv
<1>3. CASE NoFill
  BY <1>3 DEF NoFill, Advance, account, Inv, TypeInv, AllInOrOut, Balanced, Entries
<1>4. CASE UNCHANGED <<closes, index, capital, account, trades>>
  BY <1>4 DEF account, Inv, TypeInv, AllInOrOut, Balanced, Entries
<1>5. CASE BuyNothing \/ Finish \/ Ended \/ UNCHANGED vars
  BY <1>4, <1>5 DEF BuyNothing, Finish, Ended, vars, account
<1> QED BY <1>1, <1>2, <1>3, <1>5 DEF Next

LEMMA BalancedExplains == Inv => PnlExplained
<1> SUFFICES ASSUME Inv PROVE PnlExplained
  OBVIOUS
<1> USE DEF Inv, TypeInv
<1> DEFINE close == closes[Length]
<1>1. close \in Int /\ Entries \in Int
  <2>1. close \in Int
    <3>1. Length \in 1..Length
      OBVIOUS
    <3>2. closes[Length] \in Closes
      BY <3>1
    <3>3. closes[Length] \in Nat
      BY <3>2, BacktestConstants
    <3> QED BY <3>3
  <2>2. Len(trades) \in Nat
    OBVIOUS
  <2>3. (Len(trades) + 1) \div 2 \in Int
    BY <2>2
  <2> QED BY <2>1, <2>3 DEF Entries
<1> HIDE DEF close
<1>2. CASE quantity = 0
  <2>1. cash * Scale + 0 * close = cash * Scale
    BY <1>1
  <2>2. EndingEquity = cash
    BY <1>2, <2>1, RoundExact DEF EndingEquity, Worth, close
  <2>3. UnrealizedPnl = 0 /\ Slack = Entries /\ openCost = 0
    BY <1>1, <1>2 DEF UnrealizedPnl, Slack, AllInOrOut
  <2> QED BY <1>1, <2>2, <2>3 DEF PnlExplained, Balanced
<1>3. CASE quantity > 0
  <2> DEFINE W == Worth(cash, quantity, close)
             U == Worth(-openCost, quantity, close)
             X == W - U - openCost
  <2>1. cash = 0
    BY <1>3 DEF AllInOrOut
  <2>2. /\ W \in Int
        /\ 2 * (W * Scale - quantity * close) <= Scale
        /\ 2 * (quantity * close - W * Scale) <= Scale
    <3>1. cash * Scale + quantity * close = quantity * close /\ quantity * close \in Int
      BY <1>1, <2>1
    <3> QED BY <3>1, RoundNear DEF Worth
  <2>3. /\ U \in Int
        /\ 2 * (U * Scale - ((-openCost) * Scale + quantity * close)) <= Scale
        /\ 2 * (((-openCost) * Scale + quantity * close) - U * Scale) <= Scale
    <3>1. (-openCost) * Scale + quantity * close \in Int
      BY <1>1
    <3> QED BY <3>1, RoundNear DEF Worth
  <2>4. UnrealizedPnl = U /\ EndingEquity = W /\ Slack = Entries + 1
    BY <1>3 DEF UnrealizedPnl, EndingEquity, Slack, close
  <2> HIDE DEF W, U
  <2>5. X * Scale = W * Scale - quantity * close - (U * Scale - ((-openCost) * Scale + quantity * close))
    BY <1>1, <2>2, <2>3
  <2>6. X \in Int
    BY <2>2, <2>3
  <2> HIDE DEF X
  <2>7. X * Scale <= Scale /\ X * Scale >= -Scale
    <3> DEFINE a == W * Scale - quantity * close
               b == U * Scale - ((-openCost) * Scale + quantity * close)
    <3>1. /\ a \in Int /\ b \in Int /\ X * Scale = a - b
          /\ 2 * a <= Scale /\ 2 * (-a) <= Scale
          /\ 2 * b <= Scale /\ 2 * (-b) <= Scale
      BY <1>1, <2>2, <2>3, <2>5
    <3> HIDE DEF a, b
    <3> QED BY <3>1
  <2>8. X <= 1 /\ X >= -1
    <3>1. ASSUME X >= 2 PROVE X * Scale >= 2 * Scale
      BY <2>6, <3>1
    <3>2. ASSUME X <= -2 PROVE X * Scale <= -2 * Scale
      BY <2>6, <3>2
    <3> QED BY <2>6, <2>7, <3>1, <3>2
  <2>9. W - U - openCost = X
    BY DEF X
  <2> QED BY <1>1, <2>1, <2>2, <2>3, <2>4, <2>6, <2>8, <2>9 DEF PnlExplained, Balanced
<1> QED BY <1>2, <1>3 DEF AllInOrOut

\* The profit of every completed run is explained by its trades (the metrics of
\* application/backtest.py:155-169 against its loop).
THEOREM BacktestExplainsPnl == Spec => []PnlExplained
<1>1. Spec => []Inv
  BY InitInv, NextInv, PTL DEF Spec
<1> QED BY <1>1, BalancedExplains, PTL

(***************************************************************************)
(* Signals.  The one that waits is the cross at the last close; a position *)
(* is only open once there was one.                                        *)
(***************************************************************************)
SignalInv ==
    /\ index \in 0..Length
    /\ pending = IF index >= RequiredHistory THEN Crossed(index) ELSE "hold"
    /\ quantity > 0 => index > RequiredHistory
    /\ \A k \in DOMAIN trades : trades[k].signal < index
    /\ TradesFollowSignals
    /\ PositionFollowsTrend

LEMMA History ==
    RequiredHistory \in Nat /\ RequiredHistory > SlowPeriod /\ RequiredHistory > 1
BY DEF RequiredHistory

LEMMA ClosesAre == TypeInv => closes \in Seq(Int) /\ Len(closes) = Length
<1> SUFFICES ASSUME TypeInv PROVE closes \in Seq(Int) /\ Len(closes) = Length
    OBVIOUS
<1>1. closes \in [1..Length -> Int]
    <2>1. \A c \in Closes : c \in Int
        OBVIOUS
    <2>2. closes \in [1..Length -> Closes]
        BY DEF TypeInv
    <2> QED BY <2>1, <2>2, ZenonT(60)
<1>2. Length \in Nat
    OBVIOUS
<1> QED BY <1>1, <1>2

\* The strategy is shown the closes up to n, and answers for n.
LEMMA EvaluateIsCrossed ==
    ASSUME TypeInv, NEW n \in 1..Length
    PROVE  Evaluate(SubSeq(closes, 1, n)) = Crossed(n)
<1> DEFINE slice == SubSeq(closes, 1, n)
<1>1. closes \in Seq(Int) /\ Len(closes) = Length
    BY ClosesAre
<1>2. n \in 0..Len(closes) /\ n \in 0..n /\ n - 1 \in 0..n
    BY <1>1
<1>3. Len(slice) = n
    BY <1>1
<1>4. Lead(slice, n) = Lead(closes, n) /\ Lead(slice, n - 1) = Lead(closes, n - 1)
    BY <1>1, <1>2, LeadOfSlice
<1> HIDE DEF slice
<1> QED BY <1>3, <1>4 DEF Evaluate, Crossed, slice

LEMMA LeadType == TypeInv => \A n \in 0..Length : Lead(closes, n) \in Int
BY ClosesAre, LeadIsInt

LEMMA SignalInit == Init => SignalInv
<1> SUFFICES ASSUME Init PROVE SignalInv
    OBVIOUS
<1>1. index = 0 /\ pending = "hold" /\ quantity = 0 /\ trades = <<>> /\ Length \in Nat
    BY DEF Init
<1>2. ~(index >= RequiredHistory) /\ index \in 0..Length
    BY <1>1, History
<1>3. TradesFollowSignals /\ \A k \in DOMAIN trades : trades[k].signal < index
    BY <1>1 DEF TradesFollowSignals
<1>4. PositionFollowsTrend
    <2>1. RequiredHistory .. index - 1 = {}
        BY <1>1, History
    <2> QED BY <1>1, <2>1 DEF PositionFollowsTrend
<1> QED BY <1>1, <1>2, <1>3, <1>4 DEF SignalInv

\* What the end of an iteration leaves for the next one.
LEMMA AdvanceSignals ==
    ASSUME TypeInv, SignalInv, Advance
    PROVE  /\ index' = index + 1 /\ index \in Nat /\ index' \in 1..Length /\ closes' = closes
           /\ pending' = IF index' >= RequiredHistory THEN Crossed(index)' ELSE "hold"
<1>1. /\ index < Length /\ index' = index + 1 /\ closes' = closes
      /\ pending' = IF index' >= RequiredHistory THEN Evaluate(SubSeq(closes, 1, index')) ELSE "hold"
    BY DEF Advance
<1>2. index \in Nat /\ index' \in 1..Length
    BY <1>1 DEF SignalInv
<1>3. Evaluate(SubSeq(closes, 1, index')) = Crossed(index')
    BY <1>2, EvaluateIsCrossed
<1>4. Crossed(index)' = Crossed(index')
    BY <1>1 DEF Crossed
<1> QED BY <1>1, <1>2, <1>3, <1>4

\* A trade that is made of the waiting signal follows it.
LEMMA TradeFollows ==
    ASSUME TypeInv, SignalInv, Advance, NEW side \in {"buy", "sell"}, pending = side,
           trades' = Append(trades, Trade(side)),
           side = IF (Len(trades) + 1) % 2 = 1 THEN "buy" ELSE "sell"
    PROVE  TradesFollowSignals'
<1>1. closes' = closes /\ index \in Nat
    BY AdvanceSignals
<1>2. Crossed(index) = side
    BY DEF SignalInv
<1>3. trades \in Seq(TradeSet)
    BY DEF TypeInv
<1>4. ASSUME NEW i \in DOMAIN trades'
      PROVE  /\ trades'[i].execution = trades'[i].signal + 1
             /\ trades'[i].side = Crossed(trades'[i].signal)
             /\ trades'[i].side = IF i % 2 = 1 THEN "buy" ELSE "sell"
    <2>1. CASE i \in DOMAIN trades
        <3>1. trades'[i] = trades[i]
            BY <1>3, <2>1
        <3> QED BY <2>1, <3>1 DEF SignalInv, TradesFollowSignals
    <2>2. CASE i \notin DOMAIN trades
        <3>1. i = Len(trades) + 1 /\ trades'[i] = Trade(side)
            BY <1>3, <2>2
        <3> QED BY <1>2, <3>1 DEF Trade
    <2> QED BY <2>1, <2>2
<1> QED BY <1>1, <1>4 DEF TradesFollowSignals, Crossed

\* A trade on the signal of the last candle decides that candle and no other.
LEMMA TradeDecides ==
    ASSUME TypeInv, SignalInv, Advance, NEW side \in {"buy", "sell"}, Crossed(index) = side,
           trades' = Append(trades, Trade(side))
    PROVE  /\ \A k \in DOMAIN trades' : trades'[k].signal < index'
           /\ \A i \in RequiredHistory .. index' - 1 :
                 Crossed(i)' # "hold" => (InMarket(i)' <=> Crossed(i)' = "buy")
<1>1. index' = index + 1 /\ index \in Nat /\ closes' = closes
    BY AdvanceSignals
<1>2. /\ trades \in Seq(TradeSet) /\ Len(trades) \in Nat
      /\ DOMAIN trades = 1..Len(trades) /\ DOMAIN trades' = 1..(Len(trades) + 1)
      /\ \A k \in DOMAIN trades : trades'[k] = trades[k] /\ trades[k].signal \in Int
      /\ trades'[Len(trades) + 1].side = side /\ trades'[Len(trades) + 1].signal = index
    <2>1. trades \in Seq(TradeSet)
        BY DEF TypeInv
    <2>2. \A k \in DOMAIN trades : trades[k].signal \in Int
        <3>1. \A k \in DOMAIN trades : trades[k] \in TradeSet
            BY <2>1
        <3> QED BY <3>1 DEF TradeSet
    <2>3. /\ Len(trades) \in Nat /\ DOMAIN trades = 1..Len(trades)
          /\ DOMAIN trades' = 1..(Len(trades) + 1)
          /\ \A k \in DOMAIN trades : trades'[k] = trades[k]
          /\ trades'[Len(trades) + 1] = Trade(side)
        BY <2>1
    <2> QED BY <2>1, <2>2, <2>3 DEF Trade
<1>3. \A k \in DOMAIN trades : trades[k].signal < index
    BY DEF SignalInv
<1>4. \A k \in DOMAIN trades' : trades'[k].signal < index'
    <2> SUFFICES ASSUME NEW k \in DOMAIN trades' PROVE trades'[k].signal < index'
        OBVIOUS
    <2>1. k \in DOMAIN trades \/ k = Len(trades) + 1
        BY <1>2
    <2> QED BY <1>1, <1>2, <1>3, <2>1
<1>5. ASSUME NEW i \in RequiredHistory .. index' - 1, Crossed(i)' # "hold"
      PROVE  InMarket(i)' <=> Crossed(i)' = "buy"
    <2>1. Crossed(i)' = Crossed(i) /\ i \in Int
        BY <1>1, History DEF Crossed, RequiredHistory
    <2>2. CASE i < index
        <3>1. \A l \in DOMAIN trades' : trades'[l].signal <= i <=> l \in DOMAIN trades /\ trades[l].signal <= i
            <4> SUFFICES ASSUME NEW l \in DOMAIN trades'
                         PROVE  trades'[l].signal <= i <=> l \in DOMAIN trades /\ trades[l].signal <= i
                OBVIOUS
            <4>1. l \in DOMAIN trades \/ (l = Len(trades) + 1 /\ l \notin DOMAIN trades)
                BY <1>2
            <4> QED BY <1>1, <1>2, <2>1, <2>2, <4>1
        <3>2. InMarket(i)' <=> InMarket(i)
            <4>1. \A k \in DOMAIN trades : k \in DOMAIN trades'
                BY <1>2
            <4>2. ASSUME InMarket(i) PROVE InMarket(i)'
                BY <1>2, <3>1, <4>1, <4>2, ZenonT(40) DEF InMarket
            <4>3. ASSUME InMarket(i)' PROVE InMarket(i)
                BY <1>2, <3>1, <4>1, <4>3, ZenonT(40) DEF InMarket
            <4> QED BY <4>2, <4>3
        <3>3. i \in RequiredHistory .. index - 1
            BY <1>1, <2>1, <2>2, History
        <3> QED BY <1>5, <2>1, <3>2, <3>3 DEF SignalInv, PositionFollowsTrend
    <2>3. CASE i = index
        <3> DEFINE new == Len(trades) + 1
        <3>1. \A l \in DOMAIN trades' : l <= new
            BY <1>2
        <3>2. new \in DOMAIN trades' /\ trades'[new].side = side /\ trades'[new].signal <= i
            BY <1>1, <1>2, <2>3
        <3>3. \A k \in DOMAIN trades' : new <= k => k = new
            BY <1>2
        <3> HIDE DEF new
        <3>4. ASSUME side = "buy" PROVE InMarket(i)'
            BY <3>1, <3>2, <3>4, Zenon DEF InMarket
        <3>5. ASSUME InMarket(i)' PROVE side = "buy"
            BY <3>2, <3>3, <3>5, Zenon DEF InMarket
        <3> QED BY <2>1, <2>3, <3>4, <3>5
    <2> QED BY <1>1, <2>1, <2>2, <2>3
<1> QED BY <1>4, <1>5

\* Without a trade the last candle, when it crossed, was already followed.
LEMMA NoTradeDecides ==
    ASSUME Inv, SignalInv, Advance, trades' = trades,
           ~(pending = "buy" /\ quantity = 0), ~(pending = "sell" /\ quantity > 0)
    PROVE  /\ \A k \in DOMAIN trades' : trades'[k].signal < index'
           /\ \A i \in RequiredHistory .. index' - 1 :
                 Crossed(i)' # "hold" => (InMarket(i)' <=> Crossed(i)' = "buy")
<1>1. index' = index + 1 /\ index \in Nat /\ closes' = closes
    BY AdvanceSignals DEF Inv
<1>2. /\ trades \in Seq(TradeSet) /\ Len(trades) \in Nat /\ DOMAIN trades = 1..Len(trades)
      /\ \A k \in DOMAIN trades : trades[k].signal \in Int /\ trades[k].signal < index
    <2>1. trades \in Seq(TradeSet)
        BY DEF Inv, TypeInv
    <2>2. \A k \in DOMAIN trades : trades[k].signal \in Int
        <3>1. \A k \in DOMAIN trades : trades[k] \in TradeSet
            BY <2>1
        <3> QED BY <3>1 DEF TradeSet
    <2> QED BY <2>1, <2>2 DEF SignalInv
<1>3. \A k \in DOMAIN trades' : trades'[k].signal < index'
    BY <1>1, <1>2
<1>4. ASSUME NEW i \in RequiredHistory .. index' - 1, Crossed(i)' # "hold"
      PROVE  InMarket(i)' <=> Crossed(i)' = "buy"
    <2>1. Crossed(i)' = Crossed(i) /\ i \in Int /\ (InMarket(i)' <=> InMarket(i))
        BY <1>1, History DEF Crossed, InMarket, RequiredHistory
    <2>2. CASE i < index
        <3>1. i \in RequiredHistory .. index - 1
            BY <1>1, <2>1, <2>2, History
        <3> QED BY <1>4, <2>1, <3>1 DEF SignalInv, PositionFollowsTrend
    <2>3. CASE i = index
        <3>1. pending = Crossed(i)
            BY <1>4, <2>1, <2>3, History DEF SignalInv
        <3>2. Crossed(i) \in {"buy", "sell", "hold"}
            BY DEF Crossed
        <3>3. quantity \in Int /\ quantity >= 0
            BY DEF Inv, TypeInv, AllInOrOut
        <3>4. quantity > 0 <=> Crossed(i) = "buy"
            BY <1>4, <2>1, <3>1, <3>2, <3>3
        <3>5. ASSUME quantity > 0 PROVE InMarket(i)
            <4>1. Len(trades) % 2 = 1
                BY <3>5 DEF Inv, AllInOrOut
            <4>2. Len(trades) \in DOMAIN trades /\ \A l \in DOMAIN trades : l <= Len(trades)
                BY <1>2, <4>1
            <4>3. trades[Len(trades)].side = "buy" /\ trades[Len(trades)].signal <= i
                BY <1>1, <1>2, <2>3, <4>1, <4>2 DEF SignalInv, TradesFollowSignals
            <4> QED BY <4>2, <4>3, Zenon DEF InMarket
        <3>6. ASSUME quantity = 0, InMarket(i) PROVE FALSE
            <4>1. Len(trades) % 2 = 0
                BY <3>6 DEF Inv, AllInOrOut
            <4>2. PICK k \in DOMAIN trades : /\ trades[k].side = "buy"
                                             /\ \A l \in DOMAIN trades : trades[l].signal <= i => l <= k
                BY <3>6, ZenonT(40) DEF InMarket
            <4>3. Len(trades) \in DOMAIN trades /\ trades[Len(trades)].signal <= i
                BY <1>1, <1>2, <2>3
            <4>4. k = Len(trades)
                BY <1>2, <4>2, <4>3
            <4> QED BY <4>1, <4>2, <4>4 DEF SignalInv, TradesFollowSignals
        <3> QED BY <2>1, <3>3, <3>4, <3>5, <3>6
    <2> QED BY <1>1, <2>1, <2>2, <2>3
<1> QED BY <1>3, <1>4

LEMMA BuySignals == Inv /\ SignalInv /\ Buy => SignalInv'
<1> SUFFICES ASSUME Inv, SignalInv, Buy PROVE SignalInv'
    OBVIOUS
<1>1. Advance /\ pending = "buy" /\ quantity = 0 /\ trades' = Append(trades, Trade("buy"))
    BY DEF Buy
<1>2. /\ index' = index + 1 /\ index \in Nat /\ index' \in 1..Length /\ closes' = closes
      /\ pending' = IF index' >= RequiredHistory THEN Crossed(index)' ELSE "hold"
    BY <1>1, AdvanceSignals DEF Inv
<1>3. index >= RequiredHistory /\ Crossed(index) = "buy"
    BY <1>1 DEF SignalInv
<1>4. Lead(closes, index) > 0
    BY <1>3 DEF Crossed
<1>5. TradesFollowSignals'
    <2>1. Len(trades) \in Nat /\ Len(trades) % 2 = 0
        BY <1>1 DEF Inv, TypeInv, AllInOrOut
    <2>2. (Len(trades) + 1) % 2 = 1
        BY <2>1, HalfOfEven
    <2> QED BY <1>1, <2>2, TradeFollows DEF Inv
<1>6. PositionFollowsTrend' /\ \A k \in DOMAIN trades' : trades'[k].signal < index'
    <2>1. Lead(closes, index) \in Int /\ index' - 1 = index
        BY <1>2, LeadType DEF Inv, SignalInv
    <2>2. /\ \A k \in DOMAIN trades' : trades'[k].signal < index'
          /\ \A i \in RequiredHistory .. index' - 1 :
                Crossed(i)' # "hold" => (InMarket(i)' <=> Crossed(i)' = "buy")
        BY <1>1, <1>3, TradeDecides DEF Inv
    <2> QED BY <1>2, <1>4, <2>1, <2>2 DEF PositionFollowsTrend, RequiredHistory
<1>7. index' > RequiredHistory
    BY <1>2, <1>3, History
<1>8. index' \in 0..Length
    BY <1>2
<1> QED BY <1>2, <1>5, <1>6, <1>7, <1>8 DEF SignalInv, RequiredHistory

LEMMA SellSignals == Inv /\ SignalInv /\ Sell => SignalInv'
<1> SUFFICES ASSUME Inv, SignalInv, Sell PROVE SignalInv'
    OBVIOUS
<1>1. /\ Advance /\ pending = "sell" /\ quantity > 0 /\ quantity' = 0
      /\ trades' = Append(trades, Trade("sell"))
    BY DEF Sell
<1>2. /\ index' = index + 1 /\ index \in Nat /\ index' \in 1..Length /\ closes' = closes
      /\ pending' = IF index' >= RequiredHistory THEN Crossed(index)' ELSE "hold"
    BY <1>1, AdvanceSignals DEF Inv
<1>3. TradesFollowSignals'
    <2>1. Len(trades) \in Nat /\ Len(trades) % 2 = 1
        BY <1>1 DEF Inv, TypeInv, AllInOrOut
    <2>2. (Len(trades) + 1) % 2 = 0
        BY <2>1, HalfOfOdd
    <2> QED BY <1>1, <2>2, TradeFollows DEF Inv
<1>4. PositionFollowsTrend' /\ \A k \in DOMAIN trades' : trades'[k].signal < index'
    <2>1. Crossed(index) = "sell"
        BY <1>1 DEF SignalInv
    <2>2. /\ \A k \in DOMAIN trades' : trades'[k].signal < index'
          /\ \A i \in RequiredHistory .. index' - 1 :
                Crossed(i)' # "hold" => (InMarket(i)' <=> Crossed(i)' = "buy")
        BY <1>1, <2>1, TradeDecides DEF Inv
    <2> QED BY <1>1, <2>2 DEF PositionFollowsTrend, RequiredHistory
<1>5. index' \in 0..Length /\ ~(quantity' > 0)
    BY <1>1, <1>2
<1> QED BY <1>2, <1>3, <1>4, <1>5 DEF SignalInv, RequiredHistory

LEMMA NoFillSignals == Inv /\ SignalInv /\ NoFill => SignalInv'
<1> SUFFICES ASSUME Inv, SignalInv, NoFill PROVE SignalInv'
    OBVIOUS
<1>1. /\ Advance /\ ~(pending = "sell" /\ quantity > 0)
      /\ quantity' = quantity /\ trades' = trades
    BY DEF NoFill, account
<1>2. /\ index' = index + 1 /\ index \in Nat /\ index' \in 1..Length /\ closes' = closes
      /\ pending' = IF index' >= RequiredHistory THEN Crossed(index)' ELSE "hold"
    BY <1>1, AdvanceSignals DEF Inv
<1>3. TradesFollowSignals'
    BY <1>1, <1>2 DEF SignalInv, TradesFollowSignals, Crossed
<1>4. ASSUME quantity > 0 PROVE index' > RequiredHistory /\ Lead(closes, index) >= 0
    <2>1. index > RequiredHistory /\ Lead(closes, index - 1) >= 0
        BY <1>4 DEF SignalInv, PositionFollowsTrend
    <2>2. Crossed(index) # "sell"
        BY <1>1, <1>4, <2>1, <1>2, History DEF SignalInv
    <2>3. Lead(closes, index) \in Int
        BY LeadType DEF Inv, SignalInv
    <2> QED BY <1>2, <2>1, <2>2, <2>3, History DEF Crossed
<1>5. PositionFollowsTrend' /\ \A k \in DOMAIN trades' : trades'[k].signal < index'
    <2>1. index' - 1 = index
        BY <1>2
    <2>2. /\ \A k \in DOMAIN trades' : trades'[k].signal < index'
          /\ \A i \in RequiredHistory .. index' - 1 :
                Crossed(i)' # "hold" => (InMarket(i)' <=> Crossed(i)' = "buy")
        BY <1>1, NoTradeDecides DEF NoFill
    <2> QED BY <1>1, <1>2, <1>4, <2>1, <2>2 DEF PositionFollowsTrend, RequiredHistory
<1>6. index' \in 0..Length
    BY <1>2
<1> QED BY <1>1, <1>2, <1>3, <1>4, <1>5, <1>6 DEF SignalInv, RequiredHistory

LEMMA SignalStep == Inv /\ SignalInv /\ [Next]_vars => SignalInv'
<1> SUFFICES ASSUME Inv, SignalInv, [Next]_vars PROVE SignalInv'
    OBVIOUS
<1>1. CASE Buy
    BY <1>1, BuySignals
<1>2. CASE Sell
    BY <1>2, SellSignals
<1>3. CASE NoFill
    BY <1>3, NoFillSignals
<1>4. CASE UNCHANGED <<closes, index, pending, account, trades>>
    BY <1>4 DEF account, SignalInv, TradesFollowSignals, PositionFollowsTrend, InMarket, Crossed, RequiredHistory
<1>5. CASE BuyNothing \/ Finish \/ Ended \/ UNCHANGED vars
    BY <1>4, <1>5 DEF BuyNothing, Finish, Ended, vars, account
<1> QED BY <1>1, <1>2, <1>3, <1>5 DEF Next

LEMMA SignalsCorrect == Spec => [](Inv /\ SignalInv)
BY InitInv, NextInv, SignalInit, SignalStep, PTL DEF Spec

\* A trade executes one candle after the signal of the closes so far (the loop
\* of application/backtest.py:98-153); entries and exits alternate.
THEOREM TradesAreSignals == Spec => []TradesFollowSignals
<1>1. SignalInv => TradesFollowSignals
    BY DEF SignalInv
<1> QED BY <1>1, SignalsCorrect, PTL

\* No cross is missed, as an entry or as an exit (strategies/ema_atr.py:142-146).
THEOREM NoCrossIsMissed == Spec => []PositionFollowsTrend
<1>1. SignalInv => PositionFollowsTrend
    BY DEF SignalInv
<1> QED BY <1>1, SignalsCorrect, PTL

(***************************************************************************)
(* The drawdown.  After i turns peak is the highest equity so far and worst*)
(* the largest fall between two of them.                                   *)
(***************************************************************************)
CurveInv == curve \in Seq(Int) /\ Len(curve) >= 1

LEMMA CurveInit == Init => CurveInv
<1> SUFFICES ASSUME Init PROVE CurveInv
    OBVIOUS
<1>1. capital \in Int /\ curve = <<capital>>
    <2>1. \A c \in Capitals : c \in Int
        OBVIOUS
    <2> QED BY <2>1 DEF Init
<1> QED BY <1>1 DEF CurveInv

LEMMA CurveStep == Inv /\ Inv' /\ CurveInv /\ [Next]_vars => CurveInv'
<1> SUFFICES ASSUME Inv, Inv', CurveInv, [Next]_vars PROVE CurveInv'
    OBVIOUS
<1>1. CASE Advance
    <2>1. /\ curve' = Append(curve, Worth(cash', quantity', closes[index']))
          /\ index' = index + 1 /\ index < Length
        BY <1>1 DEF Advance
    <2> DEFINE close == closes[index']
    <2>2. close \in Int
        <3>1. index \in Nat /\ closes \in [1..Length -> Closes]
            BY DEF Inv, TypeInv
        <3>2. index' \in 1..Length
            BY <2>1, <3>1
        <3>3. close \in Closes
            BY <3>1, <3>2
        <3>4. \A c \in Closes : c \in Int
            OBVIOUS
        <3> QED BY <3>3, <3>4, ZenonT(60)
    <2> HIDE DEF close
    <2>3. cash' \in Int /\ quantity' \in Int
        BY DEF Inv, TypeInv
    <2>4. Worth(cash', quantity', close) \in Int
        <3>1. cash' * Scale + quantity' * close \in Int /\ Scale \in Nat \ {0}
            BY <2>2, <2>3
        <3> QED BY <3>1, RoundNear DEF Worth
    <2>5. curve \in Seq(Int) /\ Len(curve) \in Nat /\ Len(curve) >= 1
        BY DEF CurveInv
    <2>6. curve' = Append(curve, Worth(cash', quantity', close))
        BY <2>1 DEF close
    <2> QED BY <2>4, <2>5, <2>6 DEF CurveInv
<1>2. CASE UNCHANGED curve
    BY <1>2 DEF CurveInv
<1>3. Advance \/ UNCHANGED curve
    BY DEF Next, Buy, Sell, NoFill, BuyNothing, Finish, Ended, vars
<1> QED BY <1>1, <1>2, <1>3

Scanned == [peak : Int, worst : Int]
Start == [peak |-> curve[1], worst |-> 0]
ScanBody(scan) ==
    [i \in 0 .. Len(curve) |->
        IF i = 0 THEN [peak |-> curve[1], worst |-> 0] ELSE Fallen(curve[i], scan[i - 1])]

LEMMA FallenType ==
    ASSUME NEW equity \in Int, NEW before \in Scanned
    PROVE  /\ Fallen(equity, before) \in Scanned
           /\ Fallen(equity, before).peak = MaxOf(before.peak, equity)
           /\ Fallen(equity, before).worst = MaxOf(before.worst, MaxOf(before.peak, equity) - equity)
BY DEF Fallen, Scanned, MaxOf

\* What the scan knows after the first equities up to i.
Known(i, s) ==
    /\ s \in Scanned
    /\ \A j \in 1..i : curve[j] <= s.peak
    /\ \E j \in 1..i : curve[j] = s.peak
    /\ \A a \in 1..i : \A b \in a..i : curve[a] - curve[b] <= s.worst
    /\ \E a \in 1..i : \E b \in a..i : curve[a] - curve[b] = s.worst

LEMMA ScanExists == CurveInv => \E scan : scan = ScanBody(scan)
<1> SUFFICES ASSUME CurveInv PROVE \E scan : scan = ScanBody(scan)
    OBVIOUS
<1> DEFINE n == Len(curve)
           turns == [i \in 1..n |-> [before \in Scanned |-> Fallen(curve[i], before)]]
<1>1. n \in Nat /\ n >= 1 /\ \A i \in 1..n : curve[i] \in Int
    BY DEF CurveInv
<1>2. Start \in Scanned
    BY <1>1 DEF Start, Scanned
<1>3. turns \in [1..n -> [Scanned -> Scanned]]
    <2>1. ASSUME NEW i \in 1..n
          PROVE  [before \in Scanned |-> Fallen(curve[i], before)] \in [Scanned -> Scanned]
        BY <1>1, FallenType
    <2> HIDE DEF n
    <2> QED BY <2>1
<1> HIDE DEF turns
<1>4. PICK g : Loop(g, n, Start, turns)
    BY <1>1, LoopExists
<1>5. g \in [0..n -> Scanned]
    BY <1>1, <1>2, <1>3, <1>4, LoopIn
<1>6. ASSUME NEW i \in 1..n PROVE turns[i][g[i - 1]] = Fallen(curve[i], g[i - 1])
    <2>1. i - 1 \in 0..n
        BY <1>1
    <2>2. g[i - 1] \in Scanned
        BY <1>5, <2>1
    <2> QED BY <2>2 DEF turns
<1>7. ASSUME NEW i \in 0..n, i # 0 PROVE i \in 1..n
    BY <1>1, <1>7
<1>8. g = ScanBody(g)
    <2> HIDE DEF n
    <2> QED BY <1>4, <1>6, <1>7 DEF Loop, ScanBody, Start, n
<1> QED BY <1>8

LEMMA KnowsFirst ==
    ASSUME CurveInv PROVE Known(1, Fallen(curve[1], Start))
<1> DEFINE c == curve[1]
           s == Fallen(curve[1], Start)
<1>1. c \in Int /\ Start \in Scanned /\ Start.peak = c /\ Start.worst = 0
    BY DEF CurveInv, Start, Scanned
<1>2. s \in Scanned /\ s.peak = c /\ s.worst = 0
    BY <1>1, FallenType DEF MaxOf
<1> HIDE DEF s
<1>3. c - c = 0 /\ \A j \in 1..1 : j = 1
    BY <1>1
<1> QED BY <1>1, <1>2, <1>3 DEF Known, s

LEMMA KnowsNext ==
    ASSUME CurveInv, NEW i \in Nat, i >= 1, i + 1 <= Len(curve), NEW s, Known(i, s)
    PROVE  Known(i + 1, Fallen(curve[i + 1], s))
<1> DEFINE t == Fallen(curve[i + 1], s)
           e == curve[i + 1]
<1>1. e \in Int /\ \A j \in 1..(i + 1) : curve[j] \in Int
    BY DEF CurveInv
<1>2. s \in Scanned /\ s.peak \in Int /\ s.worst \in Int
    BY DEF Known, Scanned
<1>3. t \in Scanned /\ t.peak = MaxOf(s.peak, e) /\ t.worst = MaxOf(s.worst, MaxOf(s.peak, e) - e)
    BY <1>1, <1>2, FallenType
<1> HIDE DEF t
<1>4. /\ t.peak >= s.peak /\ t.peak >= e /\ (t.peak = s.peak \/ t.peak = e)
      /\ t.worst >= s.worst /\ t.worst >= t.peak - e
      /\ (t.worst = s.worst \/ t.worst = t.peak - e)
      /\ t.peak \in Int /\ t.worst \in Int
    BY <1>1, <1>2, <1>3 DEF MaxOf
<1>5. \A j \in 1..(i + 1) : j \in 1..i \/ j = i + 1
    OBVIOUS
<1>6. ASSUME NEW j \in 1..(i + 1) PROVE curve[j] <= t.peak
    <2>1. CASE j \in 1..i
        <3>1. curve[j] <= s.peak
            BY <2>1 DEF Known
        <3> QED BY <1>1, <1>2, <1>4, <3>1
    <2>2. CASE j = i + 1
        BY <1>4, <2>2
    <2> QED BY <1>5, <2>1, <2>2
<1>7. \E j \in 1..(i + 1) : curve[j] = t.peak
    <2>1. PICK j \in 1..i : curve[j] = s.peak
        BY DEF Known
    <2>2. j \in 1..(i + 1) /\ i + 1 \in 1..(i + 1)
        OBVIOUS
    <2> QED BY <1>4, <2>1, <2>2
<1>8. ASSUME NEW a \in 1..(i + 1), NEW b \in a..(i + 1) PROVE curve[a] - curve[b] <= t.worst
    <2>1. CASE b \in a..i
        <3>1. a \in 1..i
            BY <2>1
        <3>2. curve[a] - curve[b] <= s.worst
            BY <2>1, <3>1 DEF Known
        <3>3. curve[a] \in Int /\ curve[b] \in Int
            BY <1>1
        <3> QED BY <1>2, <1>4, <3>2, <3>3, SMTT(40)
    <2>2. CASE b = i + 1
        <3>1. curve[a] <= t.peak /\ curve[a] \in Int /\ curve[b] = e
            BY <1>1, <1>6, <2>2
        <3> QED BY <1>1, <1>4, <3>1
    <2>3. b \in a..i \/ b = i + 1
        OBVIOUS
    <2> QED BY <2>1, <2>2, <2>3
<1>9. \E a \in 1..(i + 1) : \E b \in a..(i + 1) : curve[a] - curve[b] = t.worst
    <2>1. CASE t.worst = s.worst
        <3>1. PICK a \in 1..i : \E b \in a..i : curve[a] - curve[b] = s.worst
            BY DEF Known
        <3>2. PICK b \in a..i : curve[a] - curve[b] = s.worst
            BY <3>1
        <3>3. a \in 1..(i + 1) /\ b \in a..(i + 1)
            OBVIOUS
        <3> QED BY <2>1, <3>2, <3>3
    <2>2. CASE t.worst = t.peak - e
        <3>1. PICK a \in 1..(i + 1) : curve[a] = t.peak
            BY <1>7
        <3>2. i + 1 \in a..(i + 1)
            OBVIOUS
        <3> QED BY <2>2, <3>1, <3>2
    <2> QED BY <1>4, <2>1, <2>2
<1>10. Known(i + 1, t)
    BY <1>3, <1>6, <1>7, <1>8, <1>9 DEF Known
<1> QED BY <1>10 DEF t

LEMMA ScanKnows ==
    ASSUME CurveInv, NEW scan, scan = ScanBody(scan)
    PROVE  Known(Len(curve), scan[Len(curve)])
<1> DEFINE n == Len(curve)
<1>1. n \in Nat /\ n >= 1
    BY DEF CurveInv
<1> DEFINE at(i) == IF i = 0 THEN Start ELSE Fallen(curve[i], scan[i - 1])
<1>2. \A i \in 0..n : scan[i] = at(i)
    <2>1. scan = [i \in 0..n |-> at(i)]
        BY DEF ScanBody, Start
    <2> HIDE DEF at
    <2> QED BY <2>1
<1>3. scan[0] = Start /\ \A i \in 1..n : scan[i] = Fallen(curve[i], scan[i - 1])
    <2>1. 0 \in 0..n /\ \A i \in 1..n : i \in 0..n /\ i # 0
        BY <1>1
    <2> QED BY <1>2, <2>1
<1> HIDE DEF n, at
<1> DEFINE S == {i \in Nat : 1 <= i /\ i <= n => Known(i, scan[i])}
<1>4. 0 \in S
    OBVIOUS
<1>5. ASSUME NEW i \in Nat, i \in S PROVE i + 1 \in S
    <2> SUFFICES ASSUME i + 1 <= n PROVE Known(i + 1, scan[i + 1])
        OBVIOUS
    <2>0. i + 1 \in 1..n /\ (i + 1) - 1 = i
        BY <1>1
    <2>1. scan[i + 1] = Fallen(curve[i + 1], scan[i])
        BY <1>3, <2>0
    <2>2. CASE i = 0
        <3>1. scan[1] = Fallen(curve[1], Start) /\ i + 1 = 1
            BY <1>3, <2>1, <2>2
        <3> QED BY <3>1, KnowsFirst
    <2>3. CASE i >= 1
        <3>1. Known(i, scan[i])
            BY <1>1, <1>5, <2>3
        <3>2. i + 1 <= Len(curve)
            BY DEF n
        <3> QED BY <2>1, <2>3, <3>1, <3>2, KnowsNext
    <2> QED BY <2>2, <2>3
<1> HIDE DEF S
<1>6. \A i \in Nat : i \in S
    BY <1>4, <1>5, FromZero
<1>7. Known(n, scan[n])
    BY <1>1, <1>6 DEF S
<1> QED BY <1>7 DEF n

LEMMA WorstFall == CurveInv => DrawdownIsWorst
<1> SUFFICES ASSUME CurveInv PROVE DrawdownIsWorst
    OBVIOUS
<1> DEFINE scan == CHOOSE g : g = ScanBody(g)
           n == Len(curve)
<1>1. scan = ScanBody(scan)
    BY ScanExists
<1>2. Drawdown = scan[n].worst
    BY DEF Drawdown, ScanBody
<1> HIDE DEF scan
<1>3. Known(n, scan[n])
    BY <1>1, ScanKnows
<1>4. n \in Nat /\ DOMAIN curve = 1..n
    BY DEF CurveInv
<1> HIDE DEF n
<1> DEFINE w == scan[n].worst
<1>5. /\ \A a \in 1..n : \A b \in a..n : curve[a] - curve[b] <= w
      /\ \E a \in 1..n : \E b \in a..n : curve[a] - curve[b] = w
    BY <1>3 DEF Known
<1> HIDE DEF w
<1>6. \A a, b \in 1..n : a <= b => b \in a..n
    BY <1>4
<1>7. \A a \in 1..n : \A b \in a..n : b \in 1..n /\ a <= b
    BY <1>4
<1> QED BY <1>2, <1>4, <1>5, <1>6, <1>7 DEF DrawdownIsWorst, w

\* The drawdown that is reported is the largest fall from any equity to a later
\* one (_drawdown, application/backtest.py:221-231).
THEOREM DrawdownIsTheWorstFall == Spec => []DrawdownIsWorst
<1>1. Spec => []Inv
    BY InitInv, NextInv, PTL DEF Spec
<1>2. Spec => []CurveInv
    BY <1>1, CurveInit, CurveStep, PTL DEF Spec
<1> QED BY <1>2, WorstFall, PTL
================================================================================
