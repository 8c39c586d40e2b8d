------------------------- MODULE LedgerRounding_proofs -------------------------
(***************************************************************************)
(* How far rounding can take the account from its fills, whatever the      *)
(* prices, quantities and fees, and however many digits Python keeps and   *)
(* the tables lack.                                                        *)
(***************************************************************************)
EXTENDS LedgerRounding, FiniteSetTheorems, TLAPS

USE RoundingConstants

\* A stored number is the nearest one, and the upper of two that are as near.
LEMMA StoredNear ==
    ASSUME NEW x \in Nat
    PROVE  /\ Stored(x) \in Nat
           /\ 2 * (Grains * Stored(x)) <= 2 * x + Grains
           /\ 2 * (Grains * Stored(x)) > 2 * x - Grains
<1> DEFINE d == 2 * Grains
           n == 2 * x + Grains
           q == n \div d
           r == n % d
<1>1. n \in Nat /\ d \in Nat \ {0}
  OBVIOUS
<1> HIDE DEF n, d
<1>2. q \in Int /\ r \in 0..(d - 1) /\ n = d * q + r
  BY <1>1
<1>3. Stored(x) = q
  BY DEF Stored, q, n, d
<1> HIDE DEF q, r
<1>4. ASSUME q < 0 PROVE FALSE
  <2>1. d * q <= -d
    BY <1>1, <1>2, <1>4
  <2> QED BY <1>1, <1>2, <2>1
<1>5. d * q = 2 * (Grains * q)
  BY <1>2 DEF d
<1> QED BY <1>1, <1>2, <1>3, <1>4, <1>5 DEF n, d

\* What the column can keep comes back as it was written.
LEMMA StoredExact ==
    ASSUME NEW k \in Nat
    PROVE  Stored(k * Grains) = k
<1> DEFINE s == Stored(k * Grains)
<1>1. k * Grains \in Nat
  OBVIOUS
<1>2. /\ s \in Nat
      /\ 2 * (Grains * s) <= 2 * (k * Grains) + Grains
      /\ 2 * (Grains * s) > 2 * (k * Grains) - Grains
  BY <1>1, StoredNear
<1> HIDE DEF s
<1>3. 2 * ((s - k) * Grains) <= Grains /\ 2 * ((s - k) * Grains) > -Grains
  BY <1>2
<1>4. ASSUME s >= k + 1 PROVE FALSE
  <2>1. (s - k) * Grains >= Grains
    BY <1>2, <1>4
  <2> QED BY <1>2, <1>3, <2>1
<1>5. ASSUME s <= k - 1 PROVE FALSE
  <2>1. (s - k) * Grains <= -Grains
    BY <1>2, <1>5
  <2> QED BY <1>2, <1>3, <2>1
<1> QED BY <1>2, <1>4, <1>5 DEF s

LEMMA WholeQuotient ==
    ASSUME NEW k \in Int
    PROVE  (k * Grains) \div Grains = k
<1> DEFINE x == k * Grains
           q == x \div Grains
           r == x % Grains
<1>1. x \in Int /\ q \in Int /\ r \in 0..(Grains - 1) /\ x = Grains * q + r
  OBVIOUS
<1> HIDE DEF q, r
<1>2. (k - q) * Grains = r
  BY <1>1
<1>3. ASSUME k - q >= 1 PROVE FALSE
  <2>1. (k - q) * Grains >= Grains
    BY <1>1, <1>3
  <2> QED BY <1>1, <1>2, <2>1
<1>4. ASSUME k - q <= -1 PROVE FALSE
  <2>1. (k - q) * Grains <= -Grains
    BY <1>1, <1>4
  <2> QED BY <1>1, <1>2, <2>1
<1> QED BY <1>1, <1>3, <1>4 DEF q

LEMMA KeptIsWhole ==
    ASSUME NEW x \in Nat, Kept(x)
    PROVE  \E k \in Nat : x = k * Grains /\ Stored(x) = k
<1> DEFINE k == x \div Grains
<1>1. k \in Int /\ x = Grains * k + (x % Grains)
  OBVIOUS
<1>2. x = Grains * k
  BY <1>1 DEF Kept
<1> HIDE DEF k
<1>3. ASSUME k < 0 PROVE FALSE
  <2>1. Grains * k <= -Grains
    BY <1>1, <1>3
  <2> QED BY <1>2, <2>1
<1>4. k \in Nat /\ x = k * Grains
  BY <1>1, <1>2, <1>3
<1> QED BY <1>4, StoredExact

-------------------------------------------------------------------------------
(***************************************************************************)
(* Python's rounding.                                                      *)
(***************************************************************************)

\* A set of naturals has a least one.
LEMMA LeastNatural ==
    ASSUME NEW T, T \subseteq Nat, NEW t \in T
    PROVE  \E m \in T : \A v \in T : m <= v
<1> DEFINE I == 0..t
           C == {R \in SUBSET I : \E m \in T : R = 0..m /\ m <= t}
<1>1. t \in Nat /\ IsFiniteSet(I)
  BY FS_Interval
<1>2. I \in C /\ C \subseteq SUBSET I
  BY <1>1
<1>3. PICK R \in C : \A Q \in C : <<Q, R>> \notin StrictSubsetOrdering(I)
  <2> HIDE DEF I, C
  <2>1. IsWellFoundedOn(StrictSubsetOrdering(I), SUBSET I)
    BY <1>1, FS_StrictSubsetOrderingWellFounded, FS_FiniteSubsetsOfFinite
  <2> QED BY <1>2, <2>1, WFMin
<1>4. PICK m \in T : R = 0..m /\ m <= t
  OBVIOUS
<1>5. ASSUME NEW v \in T, v < m PROVE FALSE
  <2>1. 0..v \in C
    BY <1>1, <1>4, <1>5
  <2>2. 0..v \subseteq R /\ 0..v # R
    <3>1. m \in R /\ m \notin 0..v
      BY <1>4, <1>5
    <3> QED BY <1>4, <1>5, <3>1
  <2> QED BY <1>3, <2>1, <2>2 DEF StrictSubsetOrdering
<1> QED BY <1>4, <1>5

\* The unit of the last digit is the least one that holds the number.
LEMMA UlpIsLeast ==
    ASSUME NEW x \in Int, Fits(x)
    PROVE  /\ Ulp(x) \in Ulps /\ Ulp(x) \in Nat \ {0}
           /\ x <= Significand * Ulp(x) /\ -x <= Significand * Ulp(x)
           /\ \A v \in Ulps : x <= Significand * v /\ -x <= Significand * v => Ulp(x) <= v
<1>1. Units(x) \subseteq Nat /\ Units(x) # {}
  BY Decimals DEF Units, Fits
<1>2. \E u \in Units(x) : \A v \in Units(x) : u <= v
  BY <1>1, LeastNatural
<1>3. Ulp(x) \in Units(x) /\ \A v \in Units(x) : Ulp(x) <= v
  BY <1>2 DEF Ulp
<1> QED BY <1>3, Decimals DEF Units

\* A unit is a multiple of every smaller one, ten times over.
LEMMA UnitsNest ==
    ASSUME NEW u \in Ulps, NEW v \in Ulps, v < u
    PROVE  \E j \in Nat \ {0} : u = 10 * (v * j)
<1>1. u \in Nat \ {0} /\ v \in Nat \ {0} /\ u % (10 * v) = 0
  BY Decimals
<1> DEFINE d == 10 * v
           j == u \div d
<1>2. d \in Nat \ {0} /\ u % d = 0
  BY <1>1
<1> HIDE DEF d
<1>3. j \in Int /\ u = d * j
  BY <1>1, <1>2
<1> HIDE DEF j
<1>4. ASSUME j <= 0 PROVE FALSE
  <2>1. d * j <= 0
    BY <1>2, <1>3, <1>4
  <2> QED BY <1>1, <1>3, <2>1
<1>5. d * j = 10 * (v * j)
  BY <1>1, <1>3 DEF d
<1> QED BY <1>3, <1>4, <1>5

\* HalfEven is within half a unit, and never passes a multiple of the unit.
LEMMA HalfEvenNear ==
    ASSUME NEW x \in Int, NEW u \in Nat \ {0}
    PROVE  /\ HalfEven(x, u) \in Int
           /\ 2 * (u * HalfEven(x, u)) <= 2 * x + u
           /\ 2 * (u * HalfEven(x, u)) >= 2 * x - u
           /\ \A k \in Int : u * k <= x => k <= HalfEven(x, u)
           /\ \A k \in Int : x <= u * k => HalfEven(x, u) <= k
<1> DEFINE q == x \div u
           r == x % u
           h == HalfEven(x, u)
           down == 2 * r < u \/ (2 * r = u /\ q % 2 = 0)
<1>1. q \in Int /\ r \in 0..(u - 1) /\ x = u * q + r
  OBVIOUS
<1>2. /\ down => h = q
      /\ ~down => h = q + 1
      /\ down => 2 * r <= u
      /\ ~down => 2 * r >= u
  <2>1. h = IF down THEN q ELSE q + 1
    BY DEF HalfEven
  <2>2. (down => 2 * r <= u) /\ (~down => 2 * r >= u)
    <3> HIDE DEF q, r
    <3> QED BY <1>1
  <2> QED BY <2>1, <2>2
<1> HIDE DEF q, r, h, down
<1>3. u * (q + 1) = u * q + u
  BY <1>1
<1>4. h \in Int /\ q <= h /\ h <= q + 1 /\ 2 * (u * h) <= 2 * x + u /\ 2 * (u * h) >= 2 * x - u
  <2>1. CASE down
    BY <1>1, <1>2, <2>1
  <2>2. CASE ~down
    BY <1>1, <1>2, <1>3, <2>2
  <2> QED BY <2>1, <2>2
<1>5. ASSUME NEW k \in Int, u * k <= x PROVE k <= h
  <2>1. ASSUME k >= q + 1 PROVE FALSE
    <3>1. u * k >= u * (q + 1)
      BY <1>1, <2>1
    <3> QED BY <1>1, <1>3, <1>5, <3>1
  <2> QED BY <1>1, <1>4, <2>1
<1>6. ASSUME NEW k \in Int, x <= u * k PROVE h <= k
  <2>1. ASSUME k <= q - 1 PROVE FALSE
    <3>1. u * k <= u * (q - 1) /\ u * (q - 1) = u * q - u
      BY <1>1, <2>1
    <3> QED BY <1>1, <1>6, <3>1
  <2>2. ASSUME k = q, h = q + 1 PROVE FALSE
    <3>1. r = 0
      BY <1>1, <1>6, <2>2
    <3>2. ~down /\ 2 * r >= u
      BY <1>1, <1>2, <2>2
    <3> QED BY <3>1, <3>2
  <2> QED BY <1>1, <1>4, <2>1, <2>2
<1> QED BY <1>4, <1>5, <1>6 DEF h

\* The context's result is the multiple of the unit that HalfEven names.
LEMMA ContextNear ==
    ASSUME NEW x \in Int, Fits(x)
    PROVE  /\ Ulp(x) \in Ulps /\ Ulp(x) \in Nat \ {0} /\ Context(x) \in Int
           /\ \E h \in Int : Context(x) = Ulp(x) * h
           /\ 2 * Context(x) <= 2 * x + Ulp(x)
           /\ 2 * Context(x) >= 2 * x - Ulp(x)
           /\ \A k \in Int : Ulp(x) * k <= x => Ulp(x) * k <= Context(x)
           /\ \A k \in Int : x <= Ulp(x) * k => Context(x) <= Ulp(x) * k
<1> DEFINE u == Ulp(x)
           h == HalfEven(x, u)
<1>1. u \in Ulps /\ u \in Nat \ {0}
  BY UlpIsLeast
<1>2. Context(x) = u * h
  BY DEF Context
<1> HIDE DEF u
<1>3. /\ h \in Int /\ 2 * (u * h) <= 2 * x + u /\ 2 * (u * h) >= 2 * x - u
      /\ \A k \in Int : u * k <= x => k <= h
      /\ \A k \in Int : x <= u * k => h <= k
  BY <1>1, HalfEvenNear
<1> HIDE DEF h
<1>4. ASSUME NEW k \in Int, NEW l \in Int, k <= l PROVE u * k <= u * l
  BY <1>1, <1>4
<1>5. /\ \A k \in Int : u * k <= x => u * k <= u * h
      /\ \A k \in Int : x <= u * k => u * h <= u * k
  BY <1>3, <1>4
<1>6. u * h \in Int
  BY <1>1, <1>3
<1> QED BY <1>1, <1>2, <1>3, <1>5, <1>6 DEF u

LEMMA ContextNatural ==
    ASSUME NEW x \in Nat, Fits(x)
    PROVE  Context(x) \in Nat
<1>1. Ulp(x) * 0 <= x /\ Context(x) \in Int
  BY ContextNear
<1>2. Ulp(x) * 0 <= Context(x)
  BY <1>1, ContextNear
<1> QED BY <1>1, <1>2, ContextNear

\* Whole quanta stay whole, and up to Limit they are not rounded at all.
LEMMA ContextWhole ==
    ASSUME NEW k \in Int, Fits(k * Grains)
    PROVE  \E j \in Int : /\ Context(k * Grains) = j * Grains
                          /\ -Limit <= k * Grains /\ k * Grains <= Limit => j = k
<1> DEFINE x == k * Grains
           u == Ulp(x)
<1>1. x \in Int /\ Fits(x)
  OBVIOUS
<1>2. Grains \in Ulps /\ Limit \in Nat
  BY Decimals DEF Limit
<1> HIDE DEF x
<1>3. /\ u \in Ulps /\ u \in Nat \ {0} /\ Context(x) \in Int
      /\ \E h \in Int : Context(x) = u * h
      /\ \A l \in Int : u * l <= x => u * l <= Context(x)
      /\ \A l \in Int : x <= u * l => Context(x) <= u * l
  BY <1>1, ContextNear
<1>4. -Limit <= x /\ x <= Limit => u <= Grains
  <2>1. \A v \in Ulps : x <= Significand * v /\ -x <= Significand * v => u <= v
    BY <1>1, UlpIsLeast
  <2> HIDE DEF u
  <2> QED BY <1>1, <1>2, <2>1 DEF Limit
<1> HIDE DEF u
<1>5. CASE u <= Grains
  <2>1. PICK i \in Nat \ {0} : Grains = u * i
    <3>1. CASE u = Grains
      BY <3>1
    <3>2. CASE u < Grains
      <4>1. PICK j \in Nat \ {0} : Grains = 10 * (u * j)
        BY <1>2, <1>3, <3>2, UnitsNest
      <4>2. Grains = u * (10 * j) /\ 10 * j \in Nat \ {0}
        BY <1>3, <4>1
      <4> QED BY <4>2
    <3> QED BY <1>3, <1>5, <3>1, <3>2
  <2>2. x = u * (i * k) /\ i * k \in Int
    BY <1>3, <2>1 DEF x
  <2>3. Context(x) = x
    BY <1>1, <1>3, <2>2
  <2> QED BY <2>3 DEF x
<1>6. CASE u > Grains
  <2>1. PICK i \in Nat \ {0} : u = 10 * (Grains * i)
    BY <1>2, <1>3, <1>6, UnitsNest
  <2>2. PICK h \in Int : Context(x) = u * h
    BY <1>3
  <2>3. u * h = (10 * (i * h)) * Grains /\ 10 * (i * h) \in Int
    BY <2>1, <2>2
  <2>4. ~(-Limit <= x /\ x <= Limit)
    BY <1>3, <1>4, <1>6
  <2> QED BY <2>2, <2>3, <2>4 DEF x
<1> QED BY <1>3, <1>5, <1>6

\* Rounding is monotone against a number that is already rounded.
LEMMA ContextAbove ==
    ASSUME NEW a \in Int, NEW n \in Nat, n <= a, Fits(a), Fits(n), Context(n) = n
    PROVE  Context(a) >= n
<1> DEFINE u == Ulp(a)
           v == Ulp(n)
<1>1. /\ u \in Ulps /\ u \in Nat \ {0} /\ Context(a) \in Int
      /\ \A k \in Int : u * k <= a => u * k <= Context(a)
  BY ContextNear
<1>2. \A w \in Ulps : a <= Significand * w /\ -a <= Significand * w => u <= w
  BY UlpIsLeast
<1>3. v \in Ulps /\ v \in Nat \ {0} /\ n <= Significand * v
  BY UlpIsLeast
<1>4. PICK h \in Int : n = v * h
  BY ContextNear
<1> HIDE DEF u, v
<1>5. CASE u = v
  BY <1>1, <1>3, <1>4, <1>5
<1>6. CASE u < v
  <2>1. PICK j \in Nat \ {0} : v = 10 * (u * j)
    BY <1>1, <1>3, <1>6, UnitsNest
  <2>2. v * h = u * (10 * (j * h)) /\ 10 * (j * h) \in Int
    BY <1>1, <1>4, <2>1
  <2> QED BY <1>1, <1>4, <2>2
<1>7. CASE v < u
  <2>1. PICK w \in Ulps : v <= w /\ w < u /\ (Significand * w) % u = 0
    BY <1>1, <1>3, <1>7, Decimals
  <2>2. w \in Nat \ {0}
    BY Decimals
  <2> DEFINE s == Significand * w
             k == s \div u
  <2>3. s \in Nat /\ s % u = 0
    BY <2>1, <2>2
  <2>4. Significand * v <= s
    BY <1>3, <2>1, <2>2
  <2>5. a > s
    BY <1>1, <1>2, <2>1, <2>2
  <2> HIDE DEF s
  <2>6. k \in Int /\ s = u * k
    BY <1>1, <2>3
  <2> HIDE DEF k
  <2>7. s <= Context(a)
    BY <1>1, <2>3, <2>5, <2>6
  <2>8. n <= s
    BY <1>3, <2>3, <2>4
  <2> QED BY <1>1, <2>3, <2>7, <2>8
<1> QED BY <1>1, <1>3, <1>5, <1>6, <1>7

-------------------------------------------------------------------------------
(***************************************************************************)
(* Both roundings of one fill.                                             *)
(***************************************************************************)

Within(x) == -Limit <= x /\ x <= Limit

LEMMA ContextExact ==
    ASSUME NEW x \in Int, \E k \in Int : x = k * Grains, Fits(x), Within(x)
    PROVE  Context(x) = x
<1>1. PICK k \in Int : x = k * Grains
  OBVIOUS
<1> QED BY <1>1, ContextWhole DEF Within

\* Up to Limit the last digit is worth a quantum, or a tenth of one or less.
LEMMA UlpWithin ==
    ASSUME NEW x \in Int, Fits(x), Within(x)
    PROVE  \/ Ulp(x) = Grains
           \/ \E j \in Nat \ {0} : Grains = 10 * (Ulp(x) * j)
<1> DEFINE u == Ulp(x)
<1>1. Grains \in Ulps /\ x <= Significand * Grains /\ -x <= Significand * Grains
  BY Decimals DEF Within, Limit
<1>2. u \in Ulps /\ u \in Nat \ {0} /\ u <= Grains
  BY <1>1, UlpIsLeast
<1> HIDE DEF u
<1>3. CASE u < Grains
  BY <1>1, <1>2, <1>3, UnitsNest DEF u
<1>4. CASE u = Grains
  BY <1>4, Zenon DEF u
<1>5. u < Grains \/ u = Grains
  BY <1>1, <1>2, RoundingConstants
<1> QED BY <1>3, <1>4, <1>5, Zenon

\* A sum up to Limit, rounded by Python and then by the column, is within 11
\* twentieths of a quantum of what it was.
LEMMA TwiceRounded ==
    ASSUME NEW x \in Int, Fits(x), Within(x), Context(x) \in Nat
    PROVE  /\ Stored(Context(x)) \in Nat
           /\ 20 * (Grains * Stored(Context(x))) <= 20 * x + 11 * Grains
           /\ 20 * (Grains * Stored(Context(x))) >= 20 * x - 11 * Grains
<1> DEFINE u == Ulp(x)
           y == Context(x)
           s == Stored(y)
<1>1. /\ u \in Nat \ {0} /\ y \in Nat
      /\ \E h \in Int : y = u * h
      /\ 2 * y <= 2 * x + u /\ 2 * y >= 2 * x - u
  BY ContextNear
<1>2. s \in Nat /\ 2 * (Grains * s) <= 2 * y + Grains /\ 2 * (Grains * s) > 2 * y - Grains
  BY <1>1, StoredNear
<1>3. CASE u = Grains
  <2>1. PICK h \in Int : y = u * h
    BY <1>1
  <2> HIDE DEF u, y
  <2>2. ASSUME h < 0 PROVE FALSE
    <3>1. u * h <= -u
      BY <1>1, <2>2
    <3> QED BY <1>1, <2>1, <3>1
  <2>3. s = h
    BY <1>3, <2>1, <2>2, StoredExact
  <2>4. Grains * s = y
    BY <1>3, <2>1, <2>3
  <2> HIDE DEF s
  <2>5. 20 * (Grains * s) <= 20 * x + 11 * Grains /\ 20 * (Grains * s) >= 20 * x - 11 * Grains
    BY <1>1, <1>3, <2>4
  <2> QED BY <1>2, <2>5 DEF s, y
<1>4. ASSUME NEW j \in Nat \ {0}, Grains = 10 * (u * j) PROVE Grains >= 10 * u
  <2> HIDE DEF u
  <2>1. u * j >= u
    BY <1>1
  <2> QED BY <1>1, <1>4, <2>1
<1>5. ASSUME Grains >= 10 * u
      PROVE  /\ 20 * (Grains * s) <= 20 * x + 11 * Grains
             /\ 20 * (Grains * s) >= 20 * x - 11 * Grains
  <2> HIDE DEF u, y, s
  <2>1. Grains * s \in Int
    BY <1>2
  <2> QED BY <1>1, <1>2, <1>5, <2>1
<1> QED BY <1>2, <1>3, <1>4, <1>5, UlpWithin

\* The drift that a purchase adds.
LEMMA BuyDrift ==
    ASSUME NEW c \in Nat, NEW n \in Nat, NEW f \in Nat,
           Fits(n + f), Context(n + f) <= c * Grains, Fits(c * Grains - Context(n + f)),
           Within(n + f), Within(c * Grains - Context(n + f))
    PROVE  /\ Stored(Context(c * Grains - Context(n + f))) - c + Stored(n) + Stored(f) \in -1..1
           /\ Kept(n) /\ Kept(f) =>
                Stored(Context(c * Grains - Context(n + f))) - c + Stored(n) + Stored(f) = 0
<1> DEFINE a == n + f
           d == Context(a)
           x == c * Grains - d
           sy == Stored(Context(x))
           sn == Stored(n)
           sf == Stored(f)
           D == sy - c + sn + sf
<1>1. /\ a \in Int /\ d \in Int /\ x \in Nat /\ Fits(a) /\ Fits(x) /\ Within(a) /\ Within(x)
      /\ Ulp(a) \in Nat \ {0}
      /\ 2 * d <= 2 * a + Ulp(a) /\ 2 * d >= 2 * a - Ulp(a)
  BY ContextNear
<1>2. a = n + f /\ x = c * Grains - d
  OBVIOUS
<1>3. /\ sn \in Nat /\ sf \in Nat
      /\ 2 * (Grains * sn) <= 2 * n + Grains /\ 2 * (Grains * sn) > 2 * n - Grains
      /\ 2 * (Grains * sf) <= 2 * f + Grains /\ 2 * (Grains * sf) > 2 * f - Grains
  BY StoredNear
<1> HIDE DEF a
<1>4. \E h \in Int : d = Ulp(a) * h
  BY <1>1, ContextNear
<1> HIDE DEF d, sn, sf
<1>5. ASSUME NEW k \in Int, d = k * Grains PROVE sy = c - k
  <2>1. x = (c - k) * Grains
    BY <1>2, <1>5
  <2>2. ASSUME c - k < 0 PROVE FALSE
    <3>1. (c - k) * Grains <= -Grains
      BY <2>2
    <3> QED BY <1>1, <2>1, <3>1
  <2> HIDE DEF x
  <2>3. c - k \in Int
    BY <1>5
  <2>4. \E r \in Int : x = r * Grains
    BY <2>1, <2>3, Zenon
  <2>5. Context(x) = x
    BY <1>1, <2>4, ContextExact
  <2> QED BY <2>1, <2>2, <2>3, <2>5, StoredExact
<1>6. ASSUME Kept(n), Kept(f) PROVE D = 0
  <2>1. PICK k \in Nat : n = k * Grains /\ sn = k
    BY <1>6, KeptIsWhole DEF sn
  <2>2. PICK l \in Nat : f = l * Grains /\ sf = l
    BY <1>6, KeptIsWhole DEF sf
  <2>3. a = (k + l) * Grains
    BY <1>2, <2>1, <2>2
  <2>4. \E r \in Int : a = r * Grains
    <3>1. k + l \in Int
      BY <2>1, <2>2
    <3> QED BY <2>3, <3>1, Zenon
  <2>5. d = a
    BY <1>1, <2>4, ContextExact DEF d
  <2>6. sy = c - (k + l)
    BY <1>5, <2>1, <2>2, <2>3, <2>5
  <2> HIDE DEF sy
  <2> QED BY <2>1, <2>2, <2>6
<1>7. x \in Nat => Context(x) \in Nat
  <2> HIDE DEF x
  <2> QED BY <1>1, ContextNatural
<1>8. /\ sy \in Nat
      /\ 20 * (Grains * sy) <= 20 * x + 11 * Grains
      /\ 20 * (Grains * sy) >= 20 * x - 11 * Grains
  <2> HIDE DEF x
  <2> QED BY <1>1, <1>7, TwiceRounded
<1> HIDE DEF x, sy
<1>9. Grains * D = Grains * sy - c * Grains + Grains * sn + Grains * sf
  BY <1>3, <1>8
<1>10. ASSUME Grains * D < 2 * Grains, Grains * D > -2 * Grains PROVE D \in -1..1
  <2> HIDE DEF D
  <2>1. D \in Int
    BY <1>3, <1>8 DEF D
  <2>2. ASSUME D >= 2 PROVE FALSE
    <3>1. Grains * D >= 2 * Grains
      BY <2>1, <2>2
    <3> QED BY <1>10, <2>1, <3>1
  <2>3. ASSUME D <= -2 PROVE FALSE
    <3>1. Grains * D <= -2 * Grains
      BY <2>1, <2>3
    <3> QED BY <1>10, <2>1, <3>1
  <2> QED BY <2>1, <2>2, <2>3
<1>11. ASSUME Ulp(a) = Grains PROVE D \in -1..1
  <2>1. PICK k \in Int : d = k * Grains
    BY <1>1, <1>4, <1>11
  <2>2. sy = c - k
    BY <1>5, <2>1
  <2>3. Grains * sy = c * Grains - d
    BY <2>1, <2>2
  <2>4. 2 * d <= 2 * (n + f) + Grains /\ 2 * d >= 2 * (n + f) - Grains
    BY <1>1, <1>2, <1>11
  <2> HIDE DEF D
  <2>5. Grains * D < 2 * Grains /\ Grains * D > -2 * Grains
    BY <1>1, <1>3, <1>8, <1>9, <2>3, <2>4
  <2> QED BY <1>10, <2>5
<1>12. ASSUME Grains >= 10 * Ulp(a) PROVE D \in -1..1
  <2> HIDE DEF D
  <2>1. Grains * D < 2 * Grains /\ Grains * D > -2 * Grains
    BY <1>1, <1>2, <1>3, <1>8, <1>9, <1>12
  <2> QED BY <1>10, <2>1
<1>13. Ulp(a) = Grains \/ Grains >= 10 * Ulp(a)
  <2>1. ASSUME NEW j \in Nat \ {0}, Grains = 10 * (Ulp(a) * j) PROVE Grains >= 10 * Ulp(a)
    <3>1. Ulp(a) * j >= Ulp(a)
      BY <1>1
    <3> QED BY <1>1, <2>1, <3>1
  <2> QED BY <1>1, <2>1, UlpWithin
<1>14. D \in -1..1 /\ (Kept(n) /\ Kept(f) => D = 0)
  BY <1>6, <1>11, <1>12, <1>13
<1> QED BY <1>14 DEF D, sy, x, d, a, sn, sf

\* Half a quantum under a whole number of quanta is never passed by a rounding
\* that comes from above it.
LEMMA RoundedAbove ==
    ASSUME NEW x \in Nat, NEW k \in Int, NEW l \in Int, NEW f \in Int,
           Fits(x), Within(x), x = k * Grains - f, 2 * (Grains * l) > 2 * f - Grains
    PROVE  Stored(Context(x)) >= k - l
<1> DEFINE u == Ulp(x)
           y == Context(x)
           s == Stored(y)
<1>1. /\ u \in Nat \ {0} /\ y \in Nat
      /\ \E h \in Int : y = u * h
      /\ 2 * y >= 2 * x - u
      /\ \A m \in Int : u * m <= x => u * m <= y
  BY ContextNear, ContextNatural
<1>2. s \in Nat /\ 2 * (Grains * s) > 2 * y - Grains
  BY <1>1, StoredNear
<1>3. u = Grains \/ \E j \in Nat \ {0} : Grains = 10 * (u * j)
  BY UlpWithin
<1> HIDE DEF u
<1>4. Grains * (s - k + l) = Grains * s - k * Grains + Grains * l
  BY <1>2
<1>5. ASSUME Grains * (s - k + l) > -Grains PROVE s >= k - l
  <2> DEFINE d == s - k + l
  <2>1. d \in Int /\ Grains * d > -Grains
    BY <1>2, <1>5
  <2> HIDE DEF d
  <2>2. ASSUME d <= -1 PROVE FALSE
    <3>1. Grains * d <= -Grains
      BY <2>1, <2>2
    <3> QED BY <2>1, <3>1
  <2>3. d >= 0
    BY <2>1, <2>2
  <2> QED BY <1>2, <2>3 DEF d
<1>6. ASSUME u = Grains PROVE s >= k - l
  <2>1. PICK h \in Int : y = u * h
    BY <1>1
  <2> HIDE DEF y
  <2>2. ASSUME h < 0 PROVE FALSE
    <3>1. u * h <= -u
      BY <1>1, <2>2
    <3> QED BY <1>1, <2>1, <3>1
  <2>3. h \in Nat /\ y = h * Grains
    BY <1>6, <2>1, <2>2
  <2>4. s = h /\ Grains * s = y
    BY <2>3, StoredExact
  <2> HIDE DEF s
  <2>5. Grains * (s - k + l) > -Grains
    BY <1>1, <1>4, <1>6, <2>4
  <2> QED BY <1>5, <2>5
<1>7. ASSUME NEW j \in Nat \ {0}, Grains = 10 * (u * j) PROVE s >= k - l
  <2> DEFINE m == 10 * (j * (k - l)) - 5 * j
  <2> HIDE DEF y, s
  <2>1. m \in Int
    OBVIOUS
  <2>2. u * m = Grains * (k - l) - 5 * (u * j)
    BY <1>1, <1>7
  <2>3. Grains * (k - l) = k * Grains - Grains * l
    OBVIOUS
  <2> HIDE DEF m
  <2>4. 2 * (u * m) = 2 * (k * Grains) - 2 * (Grains * l) - Grains
    BY <1>1, <1>7, <2>1, <2>2, <2>3
  <2>5. u * m \in Int
    BY <1>1, <2>1
  <2>6. u * m <= x
    BY <2>4, <2>5
  <2>7. u * m <= y
    BY <1>1, <2>1, <2>6
  <2>8. 2 * y >= 2 * (k * Grains) - 2 * (Grains * l) - Grains
    BY <1>1, <2>4, <2>5, <2>7
  <2>9. Grains * (s - k + l) > -Grains
    BY <1>1, <1>2, <1>4, <2>8
  <2> QED BY <1>5, <2>9 DEF s
<1> QED BY <1>3, <1>6, <1>7

\* The drift that a sale adds.
LEMMA SellDrift ==
    ASSUME NEW c \in Nat, NEW n \in Nat, NEW f \in Nat,
           Fits(c * Grains + n), f <= Context(c * Grains + n),
           Fits(Context(c * Grains + n) - f),
           Within(c * Grains + n), Within(Context(c * Grains + n) - f)
    PROVE  /\ Stored(Context(Context(c * Grains + n) - f)) - c - Stored(n) + Stored(f) \in -1..1
           /\ Kept(n) /\ Kept(f) =>
                Stored(Context(Context(c * Grains + n) - f)) - c - Stored(n) + Stored(f) = 0
<1> DEFINE a == c * Grains + n
           s == Context(a)
           x == s - f
           sy == Stored(Context(x))
           sn == Stored(n)
           sf == Stored(f)
           D == sy - c - sn + sf
<1>1. /\ a \in Int /\ s \in Int /\ x \in Nat /\ Fits(a) /\ Fits(x) /\ Within(a) /\ Within(x)
      /\ Ulp(a) \in Nat \ {0}
      /\ 2 * s <= 2 * a + Ulp(a) /\ 2 * s >= 2 * a - Ulp(a)
      /\ \E h \in Int : s = Ulp(a) * h
  BY ContextNear
<1>2. a = c * Grains + n /\ x = s - f
  OBVIOUS
<1>3. /\ sn \in Nat /\ sf \in Nat
      /\ 2 * (Grains * sn) <= 2 * n + Grains /\ 2 * (Grains * sn) > 2 * n - Grains
      /\ 2 * (Grains * sf) <= 2 * f + Grains /\ 2 * (Grains * sf) > 2 * f - Grains
  BY StoredNear
<1> HIDE DEF a, s, sn, sf
<1>4. ASSUME Kept(n), Kept(f) PROVE D = 0
  <2>1. PICK k \in Nat : n = k * Grains /\ sn = k
    BY <1>4, KeptIsWhole DEF sn
  <2>2. PICK l \in Nat : f = l * Grains /\ sf = l
    BY <1>4, KeptIsWhole DEF sf
  <2>3. a = (c + k) * Grains /\ c + k \in Int
    BY <1>2, <2>1
  <2>4. \E r \in Int : a = r * Grains
    BY <2>3, Zenon
  <2>5. s = a
    BY <1>1, <2>4, ContextExact DEF s
  <2>6. x = (c + k - l) * Grains /\ c + k - l \in Int
    BY <1>2, <2>2, <2>3, <2>5
  <2>7. ASSUME c + k - l < 0 PROVE FALSE
    <3>1. (c + k - l) * Grains <= -Grains
      BY <2>7
    <3> QED BY <1>1, <2>6, <3>1
  <2>8. \E r \in Int : x = r * Grains
    BY <2>6, Zenon
  <2> HIDE DEF x
  <2>9. Context(x) = x
    BY <1>1, <2>8, ContextExact
  <2>10. sy = c + k - l
    BY <2>6, <2>7, <2>9, StoredExact
  <2> HIDE DEF sy
  <2> QED BY <2>1, <2>2, <2>10
<1>5. x \in Nat => Context(x) \in Nat
  <2> HIDE DEF x
  <2> QED BY <1>1, ContextNatural
<1>6. /\ sy \in Nat
      /\ 20 * (Grains * sy) <= 20 * x + 11 * Grains
      /\ 20 * (Grains * sy) >= 20 * x - 11 * Grains
  <2> HIDE DEF x
  <2> QED BY <1>1, <1>5, TwiceRounded
<1>7. ASSUME NEW k \in Int, s = k * Grains PROVE sy >= k - sf
  <2>1. x = k * Grains - f
    BY <1>2, <1>7
  <2> HIDE DEF x
  <2>2. /\ x \in Nat /\ k \in Int /\ sf \in Int /\ f \in Int
        /\ 2 * (Grains * sf) > 2 * f - Grains
    BY <1>1, <1>3, <1>7
  <2> QED BY <1>1, <2>1, <2>2, RoundedAbove, Zenon
<1> HIDE DEF x, sy
<1>8. ASSUME NEW d \in Int, Grains * d < 2 * Grains, Grains * d > -2 * Grains PROVE d \in -1..1
  <2>1. ASSUME d >= 2 PROVE FALSE
    <3>1. Grains * d >= 2 * Grains
      BY <2>1
    <3> QED BY <1>8, <3>1
  <2>2. ASSUME d <= -2 PROVE FALSE
    <3>1. Grains * d <= -2 * Grains
      BY <2>2
    <3> QED BY <1>8, <3>1
  <2> QED BY <2>1, <2>2
<1>9. D \in Int /\ Grains * D = Grains * sy - c * Grains - Grains * sn + Grains * sf
  BY <1>3, <1>6
<1>10. ASSUME Grains >= 10 * Ulp(a) PROVE D \in -1..1
  <2> HIDE DEF D
  <2>1. Grains * D < 2 * Grains /\ Grains * D > -2 * Grains
    BY <1>1, <1>2, <1>3, <1>6, <1>9, <1>10
  <2> QED BY <1>8, <1>9, <2>1
<1>11. ASSUME Ulp(a) = Grains PROVE D \in -1..1
  <2>1. PICK k \in Int : s = k * Grains
    BY <1>1, <1>11
  <2> DEFINE d1 == k - c - sn
             d2 == sy - k + sf
  <2>2. d1 \in Int /\ d2 \in Int /\ D = d1 + d2 /\ d2 >= 0
    BY <1>3, <1>6, <1>7, <2>1
  <2>3. /\ Grains * d1 = s - c * Grains - Grains * sn
        /\ Grains * d2 = Grains * sy - s + Grains * sf
    BY <1>3, <1>6, <2>1
  <2>4. 2 * s <= 2 * (c * Grains) + 2 * n + Grains /\ 2 * s >= 2 * (c * Grains) + 2 * n - Grains
    BY <1>1, <1>2, <1>11
  <2> HIDE DEF D, d1, d2
  <2>5. Grains * d1 < Grains /\ Grains * d1 >= -Grains
    BY <1>1, <1>3, <2>2, <2>3, <2>4
  <2>6. Grains * d2 < 2 * Grains
    BY <1>1, <1>2, <1>3, <1>6, <2>2, <2>3
  <2>7. ASSUME d1 >= 1 PROVE FALSE
    <3>1. Grains * d1 >= Grains
      BY <2>2, <2>7
    <3> QED BY <2>2, <2>5, <3>1
  <2>8. d1 \in -1..1
    BY <1>8, <2>2, <2>5
  <2>9. d2 \in -1..1
    <3>1. Grains * d2 >= 0
      BY <2>2
    <3> QED BY <1>8, <2>2, <2>6, <3>1
  <2> QED BY <2>2, <2>7, <2>8, <2>9
<1>12. Ulp(a) = Grains \/ Grains >= 10 * Ulp(a)
  <2>1. ASSUME NEW j \in Nat \ {0}, Grains = 10 * (Ulp(a) * j) PROVE Grains >= 10 * Ulp(a)
    <3>1. Ulp(a) * j >= Ulp(a)
      BY <1>1
    <3> QED BY <1>1, <2>1, <3>1
  <2> QED BY <1>1, <2>1, UlpWithin
<1>13. D \in -1..1 /\ (Kept(n) /\ Kept(f) => D = 0)
  BY <1>4, <1>10, <1>11, <1>12
<1> QED BY <1>13 DEF D, sy, x, s, a, sn, sf

\* A position and its replay are rounded alike, and up to Limit not at all.
LEMMA QuantitiesAgree ==
    ASSUME NEW w \in Nat, Fits(w * Grains)
    PROVE  /\ Stored(Context(w * Grains)) \in Nat
           /\ Context(w * Grains) \div Grains = Stored(Context(w * Grains))
           /\ Within(w * Grains) => Stored(Context(w * Grains)) = w
<1>1. PICK j \in Int : /\ Context(w * Grains) = j * Grains
                       /\ Within(w * Grains) => j = w
  BY ContextWhole DEF Within
<1>2. j * Grains \in Nat
  <2>1. w * Grains \in Nat
    OBVIOUS
  <2> QED BY <1>1, <2>1, ContextNatural
<1>3. ASSUME j < 0 PROVE FALSE
  <2>1. j * Grains <= -Grains
    BY <1>3
  <2> QED BY <1>2, <2>1
<1>4. (j * Grains) \div Grains = j
  BY WholeQuotient
<1>5. j \in Nat
  BY <1>3
<1>6. Stored(j * Grains) = j
  BY <1>5, StoredExact
<1> QED BY <1>1, <1>4, <1>5, <1>6

-------------------------------------------------------------------------------
\* The intent of a cycle in progress: it has a row, and asks for the quantity
\* that its client_order_id hashes.
HandIsIntent ==
    /\ step = "idle" <=> hand = None
    /\ hand # None => intents[hand.order] # None /\ hand.qty = OrderQty[hand.order]

RoundingInv == TypeOK /\ HandIsIntent /\ DriftBounded /\ PositionExact

\* What an execution finds in hand.
LEMMA HandWhole ==
    ASSUME RoundingInv, step = "execute", SameSignature(intents[hand.order], hand)
    PROVE  /\ hand \in [order : Orders, qty : Nat, asked : Nat]
           /\ intents[hand.order] \in [qty : Nat, asked : Nat, filled : BOOLEAN]
           /\ \E k \in Nat : hand.qty = k * Grains /\ OrderQty[hand.order] = k * Grains
                             /\ Stored(hand.qty) = k
<1>1. hand # None /\ hand \in [order : Orders, qty : Nat, asked : Nat]
  BY DEF RoundingInv, TypeOK, HandIsIntent
<1>2. /\ intents[hand.order] # None
      /\ intents[hand.order] \in [qty : Nat, asked : Nat, filled : BOOLEAN]
  BY <1>1 DEF RoundingInv, TypeOK, HandIsIntent
<1>3. hand.qty = OrderQty[hand.order]
  BY <1>1 DEF RoundingInv, HandIsIntent
<1>4. intents[hand.order].qty \in Nat /\ hand.qty = intents[hand.order].qty * Grains
  BY <1>2 DEF SameSignature
<1> QED BY <1>1, <1>2, <1>3, <1>4, StoredExact

LEMMA RoundingInitially == Init => RoundingInv
<1> SUFFICES ASSUME Init PROVE RoundingInv
  OBVIOUS
<1>1. TypeOK
  BY DEF Init, TypeOK
<1>2. HandIsIntent /\ DriftBounded /\ PositionExact
  BY DEF Init, HandIsIntent, DriftBounded, PositionExact
<1> QED BY <1>1, <1>2 DEF RoundingInv

\* A fill keeps the invariant, given what its roundings do.
LEMMA FillKeeps ==
    ASSUME RoundingInv,
           NEW m \in Money, NEW x, NEW y, NEW rx, NEW ry, NEW parts,
           step = "execute", hand \in [order : Orders, qty : Nat, asked : Nat],
           intents[hand.order] \in [qty : Nat, asked : Nat, filled : BOOLEAN],
           Fill(x, y, rx, ry, parts, m),
           Stored(Context(x)) \in Nat, Stored(Context(y)) \in Nat, bought' \in Int,
           Context(rx) \div Grains \in Int,
           Context(ry) \div Grains = Stored(Context(y)),
           precise' =>
             /\ precise
             /\ Stored(Context(x)) - cash - (Context(rx) \div Grains - replayed.cash) \in -1..1
             /\ Kept(m.notional) /\ Kept(m.fee) =>
                  Stored(Context(x)) - cash - (Context(rx) \div Grains - replayed.cash) = 0
             /\ Stored(Context(y)) * Grains = bought'
    PROVE  RoundingInv'
<1> DEFINE X == Stored(Context(x))
           Y == Stored(Context(y))
           RX == Context(rx) \div Grains
           RY == Context(ry) \div Grains
<1>1. /\ cash' = X /\ quantity' = Y
      /\ replayed' = [cash |-> RX, quantity |-> RY]
      /\ intents' = [intents EXCEPT ![hand.order].filled = TRUE]
      /\ rounded' = IF Kept(m.notional) /\ Kept(m.fee) THEN rounded ELSE rounded + 1
      /\ precise' \in BOOLEAN
      /\ step' = "reconcile" /\ sys' = sys /\ hand' = hand
  BY DEF Fill
<1>2. /\ TypeOK /\ HandIsIntent /\ DriftBounded /\ PositionExact
      /\ cash \in Nat /\ quantity \in Nat /\ bought \in Int /\ rounded \in Nat
      /\ replayed.cash \in Int /\ replayed.quantity \in Int
  BY DEF RoundingInv, TypeOK
<1>3. /\ X \in Nat /\ Y \in Nat /\ RX \in Int /\ RY = Y
      /\ precise' => /\ precise
                     /\ X - cash - (RX - replayed.cash) \in -1..1
                     /\ Kept(m.notional) /\ Kept(m.fee) =>
                          X - cash - (RX - replayed.cash) = 0
                     /\ Y * Grains = bought'
  OBVIOUS
<1> HIDE DEF X, Y, RX, RY
<1>4. rounded' \in Nat /\ (rounded' = rounded \/ rounded' = rounded + 1)
  BY <1>1, <1>2
<1>5. DriftBounded'
  <2> SUFFICES ASSUME precise'
               PROVE  X - RX <= rounded' /\ RX - X <= rounded'
    BY <1>1 DEF DriftBounded
  <2>1. cash - replayed.cash <= rounded /\ replayed.cash - cash <= rounded
    BY <1>2, <1>3 DEF DriftBounded
  <2>2. CASE Kept(m.notional) /\ Kept(m.fee)
    <3>1. X - cash - (RX - replayed.cash) = 0 /\ rounded' = rounded
      BY <1>1, <1>3, <2>2
    <3> QED BY <1>2, <1>3, <2>1, <3>1
  <2>3. CASE ~(Kept(m.notional) /\ Kept(m.fee))
    <3>1. X - cash - (RX - replayed.cash) \in -1..1 /\ rounded' = rounded + 1
      BY <1>1, <1>3, <2>3
    <3> QED BY <1>2, <1>3, <2>1, <3>1
  <2> QED BY <2>2, <2>3
<1>6. PositionExact'
  BY <1>1, <1>3 DEF PositionExact
<1>7. intents' \in [Orders -> [qty : Nat, asked : Nat, filled : BOOLEAN] \cup {None}]
  BY <1>1, <1>2 DEF TypeOK
<1>8. TypeOK'
  BY <1>1, <1>2, <1>3, <1>4, <1>7 DEF TypeOK
<1>9. HandIsIntent'
  <2>1. intents'[hand.order] # None
    BY <1>1, <1>2 DEF TypeOK
  <2>2. hand # None
    OBVIOUS
  <2> QED BY <1>1, <1>2, <2>1, <2>2 DEF HandIsIntent
<1> QED BY <1>5, <1>6, <1>8, <1>9 DEF RoundingInv

\* The replay of a fill: whole quanta, and what it adds is exact up to Limit.
LEMMA ReplayWhole ==
    ASSUME NEW r \in Int, NEW q \in Int, Fits(q * Grains)
    PROVE  \E p \in Int :
             /\ Context(q * Grains) = p * Grains
             /\ Within(q * Grains) => p = q
             /\ r * Grains - p * Grains = (r - p) * Grains
             /\ r * Grains + p * Grains = (r + p) * Grains
<1>1. PICK p \in Int : /\ Context(q * Grains) = p * Grains
                       /\ Within(q * Grains) => p = q
  BY ContextWhole DEF Within
<1>2. /\ r * Grains - p * Grains = (r - p) * Grains
      /\ r * Grains + p * Grains = (r + p) * Grains
  OBVIOUS
<1> QED BY <1>1, <1>2

\* A stored amount of whole quanta, divided again.
LEMMA ReplayQuotient ==
    ASSUME NEW q \in Int, Fits(q * Grains)
    PROVE  /\ Context(q * Grains) \div Grains \in Int
           /\ Within(q * Grains) => Context(q * Grains) \div Grains = q
<1>1. PICK p \in Int : /\ Context(q * Grains) = p * Grains
                       /\ Within(q * Grains) => p = q
  BY ContextWhole DEF Within
<1>2. (p * Grains) \div Grains = p
  BY WholeQuotient
<1> QED BY <1>1, <1>2

LEMMA BuyKeeps == RoundingInv /\ ExecuteBuy => RoundingInv'
<1> SUFFICES ASSUME RoundingInv, ExecuteBuy PROVE RoundingInv'
  OBVIOUS
<1>1. PICK k \in Nat : hand.qty = k * Grains /\ OrderQty[hand.order] = k * Grains
                       /\ Stored(hand.qty) = k
  BY HandWhole DEF ExecuteBuy, MayExecute
<1>2. /\ hand \in [order : Orders, qty : Nat, asked : Nat]
      /\ intents[hand.order] \in [qty : Nat, asked : Nat, filled : BOOLEAN]
      /\ step = "execute"
  BY HandWhole DEF ExecuteBuy, MayExecute
<1>3. PICK m \in Money : Context(m.notional + m.fee) <= cash * Grains /\ Buy(m)
  BY DEF ExecuteBuy
<1>4. /\ cash \in Nat /\ quantity \in Nat /\ bought \in Int
      /\ replayed.cash \in Int /\ replayed.quantity = quantity
      /\ precise => quantity * Grains = bought
  BY DEF RoundingInv, TypeOK, PositionExact
<1> DEFINE n == m.notional
           f == m.fee
           sn == Stored(n)
           sf == Stored(f)
           debit == n + f
           cost == (sn + sf) * Grains
           x == cash * Grains - Context(debit)
           y == quantity * Grains + hand.qty
           rx == replayed.cash * Grains - Context(cost)
           ry == (replayed.quantity + Stored(hand.qty)) * Grains
<1>5. n \in Nat /\ f \in Nat /\ sn \in Nat /\ sf \in Nat
  <2>1. n \in Nat /\ f \in Nat
    BY DEF Money
  <2> QED BY <2>1, StoredNear
<1>6. Fill(x, y, rx, ry, {debit, cost}, m)
  BY <1>3 DEF Buy
<1>7. /\ Fits(debit) /\ Fits(cost) /\ Fits(x) /\ Fits(y) /\ Fits(rx) /\ Fits(ry)
      /\ precise' => /\ precise
                     /\ Within(debit) /\ Within(cost) /\ Within(x)
                     /\ Within(y) /\ Within(rx) /\ Within(ry)
  <2> HIDE DEF debit, cost, x, y, rx, ry
  <2> QED BY <1>6 DEF Fill, Within
<1>8. /\ Stored(Context(x)) \in Nat
      /\ precise' => /\ Stored(Context(x)) - cash + sn + sf \in -1..1
                     /\ Kept(n) /\ Kept(f) => Stored(Context(x)) - cash + sn + sf = 0
  <2>1. x \in Nat
    <3> HIDE DEF n, f
    <3>1. Context(n + f) \in Int
      BY <1>5, <1>7, ContextNear
    <3>2. Context(n + f) <= cash * Grains
      BY <1>3 DEF n, f
    <3> QED BY <1>4, <3>1, <3>2
  <2>2. Stored(Context(x)) \in Nat
    <3> HIDE DEF x
    <3> QED BY <1>7, <2>1, ContextNatural, StoredNear
  <2>3. Context(n + f) <= cash * Grains
    BY <1>3
  <2> HIDE DEF n, f
  <2> QED BY <1>4, <1>5, <1>7, <2>2, <2>3, BuyDrift
<1>9. /\ Context(rx) \div Grains \in Int
      /\ precise' => Context(rx) \div Grains = replayed.cash - (sn + sf)
  <2> HIDE DEF sn, sf
  <2> DEFINE q == sn + sf
  <2>1. q \in Int /\ cost = q * Grains
    BY <1>5
  <2> HIDE DEF q, cost
  <2>2. PICK p \in Int :
             /\ Context(q * Grains) = p * Grains
             /\ Within(q * Grains) => p = q
             /\ replayed.cash * Grains - p * Grains = (replayed.cash - p) * Grains
    BY <1>4, <1>7, <2>1, ReplayWhole
  <2>3. rx = (replayed.cash - p) * Grains /\ replayed.cash - p \in Int
    BY <1>4, <2>1, <2>2
  <2> HIDE DEF rx
  <2>4. /\ Context(rx) \div Grains \in Int
        /\ Within(rx) => Context(rx) \div Grains = replayed.cash - p
    BY <1>7, <2>3, ReplayQuotient
  <2> QED BY <1>7, <2>1, <2>2, <2>4 DEF q
<1>10. /\ Stored(Context(y)) \in Nat
       /\ Context(ry) \div Grains = Stored(Context(y))
       /\ precise' => Stored(Context(y)) = quantity + k
  <2> DEFINE w == quantity + k
  <2>1. w \in Nat /\ y = w * Grains /\ ry = w * Grains
    BY <1>1, <1>4
  <2> HIDE DEF w, y, ry
  <2> QED BY <1>7, <2>1, QuantitiesAgree DEF w
<1>11. bought' = bought + k * Grains /\ bought' \in Int
  BY <1>1, <1>4 DEF ExecuteBuy
<1> HIDE DEF sn, sf, debit, cost, x, y, rx, ry
<1>12. precise' =>
         /\ precise
         /\ Stored(Context(x)) - cash - (Context(rx) \div Grains - replayed.cash) \in -1..1
         /\ Kept(n) /\ Kept(f) =>
              Stored(Context(x)) - cash - (Context(rx) \div Grains - replayed.cash) = 0
         /\ Stored(Context(y)) * Grains = bought'
  <2> SUFFICES ASSUME precise'
               PROVE  /\ Stored(Context(x)) - cash - (Context(rx) \div Grains - replayed.cash) \in -1..1
                      /\ Kept(n) /\ Kept(f) =>
                           Stored(Context(x)) - cash - (Context(rx) \div Grains - replayed.cash) = 0
                      /\ Stored(Context(y)) * Grains = bought'
    BY <1>7
  <2>1. Stored(Context(x)) - cash - (Context(rx) \div Grains - replayed.cash)
          = Stored(Context(x)) - cash + sn + sf
    BY <1>4, <1>5, <1>8, <1>9
  <2>2. (quantity + k) * Grains = bought + k * Grains
    BY <1>4, <1>7
  <2> QED BY <1>8, <1>10, <1>11, <2>1, <2>2
<1> QED BY <1>2, <1>6, <1>8, <1>9, <1>10, <1>11, <1>12, FillKeeps

LEMMA SellKeeps == RoundingInv /\ ExecuteSell => RoundingInv'
<1> SUFFICES ASSUME RoundingInv, ExecuteSell PROVE RoundingInv'
  OBVIOUS
<1>1. PICK k \in Nat : hand.qty = k * Grains /\ OrderQty[hand.order] = k * Grains
                       /\ Stored(hand.qty) = k
  BY HandWhole DEF ExecuteSell, MayExecute
<1>2. /\ hand \in [order : Orders, qty : Nat, asked : Nat]
      /\ intents[hand.order] \in [qty : Nat, asked : Nat, filled : BOOLEAN]
      /\ step = "execute"
  BY HandWhole DEF ExecuteSell, MayExecute
<1>3. PICK m \in Money : m.fee <= m.notional /\ Sell(m)
  BY DEF ExecuteSell
<1>4. /\ cash \in Nat /\ quantity \in Nat /\ bought \in Int
      /\ replayed.cash \in Int /\ replayed.quantity = quantity
      /\ precise => quantity * Grains = bought
  BY DEF RoundingInv, TypeOK, PositionExact
<1> DEFINE n == m.notional
           f == m.fee
           sn == Stored(n)
           sf == Stored(f)
           credit == cash * Grains + n
           proceeds == (sn - sf) * Grains
           x == Context(credit) - f
           y == quantity * Grains - hand.qty
           rx == replayed.cash * Grains + Context(proceeds)
           ry == (replayed.quantity - Stored(hand.qty)) * Grains
<1>5. n \in Nat /\ f \in Nat /\ sn \in Nat /\ sf \in Nat
  <2>1. n \in Nat /\ f \in Nat
    BY DEF Money
  <2> QED BY <2>1, StoredNear
<1>6. Fill(x, y, rx, ry, {credit, proceeds}, m)
  BY <1>3 DEF Sell
<1>7. /\ Fits(credit) /\ Fits(proceeds) /\ Fits(x) /\ Fits(y) /\ Fits(rx) /\ Fits(ry)
      /\ precise' => /\ precise
                     /\ Within(credit) /\ Within(proceeds) /\ Within(x)
                     /\ Within(y) /\ Within(rx) /\ Within(ry)
  <2> HIDE DEF credit, proceeds, x, y, rx, ry
  <2> QED BY <1>6 DEF Fill, Within
<1>8. /\ Stored(Context(x)) \in Nat
      /\ precise' => /\ Stored(Context(x)) - cash - sn + sf \in -1..1
                     /\ Kept(n) /\ Kept(f) => Stored(Context(x)) - cash - sn + sf = 0
  <2>1. f <= n /\ Fits(n) /\ Context(n) = n
    BY <1>3, Products DEF Money
  <2> HIDE DEF n, f
  <2>2. Context(credit) \in Int /\ Context(credit) >= n
    <3>1. credit \in Int /\ n <= credit
      BY <1>4, <1>5
    <3> HIDE DEF credit
    <3> QED BY <1>5, <1>7, <2>1, <3>1, ContextNear, ContextAbove
  <2>3. x \in Nat /\ f <= Context(credit)
    <3> HIDE DEF credit
    <3> QED BY <1>5, <2>1, <2>2
  <2>4. Stored(Context(x)) \in Nat
    <3> HIDE DEF x
    <3> QED BY <1>7, <2>3, ContextNatural, StoredNear
  <2> QED BY <1>4, <1>5, <1>7, <2>3, <2>4, SellDrift
<1>9. /\ Context(rx) \div Grains \in Int
      /\ precise' => Context(rx) \div Grains = replayed.cash + (sn - sf)
  <2> HIDE DEF sn, sf
  <2> DEFINE q == sn - sf
  <2>1. q \in Int /\ proceeds = q * Grains
    BY <1>5
  <2> HIDE DEF q, proceeds
  <2>2. PICK p \in Int :
             /\ Context(q * Grains) = p * Grains
             /\ Within(q * Grains) => p = q
             /\ replayed.cash * Grains + p * Grains = (replayed.cash + p) * Grains
    BY <1>4, <1>7, <2>1, ReplayWhole
  <2>3. rx = (replayed.cash + p) * Grains /\ replayed.cash + p \in Int
    BY <1>4, <2>1, <2>2
  <2> HIDE DEF rx
  <2>4. /\ Context(rx) \div Grains \in Int
        /\ Within(rx) => Context(rx) \div Grains = replayed.cash + p
    BY <1>7, <2>3, ReplayQuotient
  <2> QED BY <1>7, <2>1, <2>2, <2>4 DEF q
<1>10. /\ Stored(Context(y)) \in Nat
       /\ Context(ry) \div Grains = Stored(Context(y))
       /\ precise' => Stored(Context(y)) = quantity - k
  <2> DEFINE w == quantity - k
  <2>1. w \in Int /\ y = w * Grains /\ ry = w * Grains
    BY <1>1, <1>4
  <2>2. y >= 0
    BY <1>1, <1>4 DEF ExecuteSell
  <2> HIDE DEF w, y, ry
  <2>3. ASSUME w < 0 PROVE FALSE
    <3>1. w * Grains <= -Grains
      BY <2>1, <2>3
    <3> QED BY <2>1, <2>2, <3>1
  <2> QED BY <1>7, <2>1, <2>3, QuantitiesAgree DEF w
<1>11. bought' = bought - k * Grains /\ bought' \in Int
  BY <1>1, <1>4 DEF ExecuteSell
<1> HIDE DEF sn, sf, credit, proceeds, x, y, rx, ry
<1>12. precise' =>
         /\ precise
         /\ Stored(Context(x)) - cash - (Context(rx) \div Grains - replayed.cash) \in -1..1
         /\ Kept(n) /\ Kept(f) =>
              Stored(Context(x)) - cash - (Context(rx) \div Grains - replayed.cash) = 0
         /\ Stored(Context(y)) * Grains = bought'
  <2> SUFFICES ASSUME precise'
               PROVE  /\ Stored(Context(x)) - cash - (Context(rx) \div Grains - replayed.cash) \in -1..1
                      /\ Kept(n) /\ Kept(f) =>
                           Stored(Context(x)) - cash - (Context(rx) \div Grains - replayed.cash) = 0
                      /\ Stored(Context(y)) * Grains = bought'
    BY <1>7
  <2>1. Stored(Context(x)) - cash - (Context(rx) \div Grains - replayed.cash)
          = Stored(Context(x)) - cash - sn + sf
    BY <1>4, <1>5, <1>8, <1>9
  <2>2. (quantity - k) * Grains = bought - k * Grains
    BY <1>4, <1>7
  <2> QED BY <1>8, <1>10, <1>11, <2>1, <2>2
<1> QED BY <1>2, <1>6, <1>8, <1>9, <1>10, <1>11, <1>12, FillKeeps

\* Everything but a fill leaves the account and the histories alone.
LEMMA RoundingStep == RoundingInv /\ [Next]_vars => RoundingInv'
<1> SUFFICES ASSUME RoundingInv, [Next]_vars PROVE RoundingInv'
  OBVIOUS
<1> USE DEF RoundingInv
<1>1. ASSUME NEW o \in Orders, CreateIntent(o) PROVE RoundingInv'
  <2>1. PICK a \in Asked :
          /\ hand' = [order |-> o, qty |-> OrderQty[o], asked |-> a]
          /\ intents' = [intents EXCEPT ![o] =
                [qty |-> Stored(OrderQty[o]), asked |-> Stored(a), filled |-> FALSE]]
    BY <1>1 DEF CreateIntent
  <2>2. /\ Stored(OrderQty[o]) \in Nat /\ Stored(a) \in Nat
        /\ OrderQty[o] \in Nat /\ a \in Nat
    BY StoredNear
  <2>3. TypeOK'
    BY <1>1, <2>1, <2>2 DEF TypeOK, CreateIntent
  <2>4. HandIsIntent'
    <3>1. hand' # None /\ hand'.order = o /\ hand'.qty = OrderQty[o]
      <4> DEFINE h == [order |-> o, qty |-> OrderQty[o], asked |-> a]
      <4>1. h \in [order : Orders, qty : Nat, asked : Nat]
        BY <2>2
      <4>2. h # None /\ h.order = o /\ h.qty = OrderQty[o]
        BY <4>1
      <4> QED BY <2>1, <4>2
    <3>2. intents'[o] # None
      <4> DEFINE row == [qty |-> Stored(OrderQty[o]), asked |-> Stored(a), filled |-> FALSE]
      <4>1. row \in [qty : Nat, asked : Nat, filled : BOOLEAN]
        BY <2>2
      <4>2. row # None
        BY <4>1
      <4> HIDE DEF row
      <4>3. intents' = [intents EXCEPT ![o] = row]
        BY <2>1 DEF row
      <4> QED BY <4>2, <4>3 DEF TypeOK
    <3> QED BY <1>1, <3>1, <3>2 DEF CreateIntent, HandIsIntent
  <2> QED BY <1>1, <2>3, <2>4 DEF CreateIntent, DriftBounded, PositionExact
<1>2. ASSUME NEW o \in Orders, RetryIntent(o) PROVE RoundingInv'
  <2>1. PICK a \in Asked : hand' = [order |-> o, qty |-> OrderQty[o], asked |-> a]
    BY <1>2 DEF RetryIntent
  <2>2. OrderQty[o] \in Nat /\ a \in Nat
    OBVIOUS
  <2> DEFINE h == [order |-> o, qty |-> OrderQty[o], asked |-> a]
  <2>3. h \in [order : Orders, qty : Nat, asked : Nat]
    BY <2>2
  <2>4. h # None /\ h.order = o /\ h.qty = OrderQty[o]
    BY <2>3
  <2> HIDE DEF h
  <2>5. hand' = h
    BY <2>1 DEF h
  <2>6. TypeOK'
    BY <1>2, <2>3, <2>5 DEF TypeOK, RetryIntent
  <2>7. HandIsIntent'
    BY <1>2, <2>4, <2>5 DEF RetryIntent, HandIsIntent
  <2> QED BY <1>2, <2>6, <2>7 DEF RetryIntent, DriftBounded, PositionExact
<1>3. CASE ExecuteRefused
  BY <1>3 DEF ExecuteRefused, TypeOK, HandIsIntent, DriftBounded, PositionExact
<1>4. CASE ExecuteReloads
  BY <1>4 DEF ExecuteReloads, TypeOK, HandIsIntent, DriftBounded, PositionExact
<1>5. CASE ExecuteBuy
  BY <1>5, BuyKeeps
<1>6. CASE ExecuteSell
  BY <1>6, SellKeeps
<1>7. CASE Reconcile
  BY <1>7 DEF Reconcile, TypeOK, HandIsIntent, DriftBounded, PositionExact
<1>8. CASE Abandon
  BY <1>8 DEF Abandon, TypeOK, HandIsIntent, DriftBounded, PositionExact
<1>9. CASE Revive
  BY <1>9 DEF Revive, TypeOK, HandIsIntent, DriftBounded, PositionExact
<1>10. CASE UNCHANGED vars
  BY <1>10 DEF vars, TypeOK, HandIsIntent, DriftBounded, PositionExact
<1> QED BY <1>1, <1>2, <1>3, <1>4, <1>5, <1>6, <1>7, <1>8, <1>9, <1>10 DEF Next

LEMMA RoundingInvariant == Spec => []RoundingInv
<1> QED BY RoundingInitially, RoundingStep, PTL DEF Spec

\* Rounding stores no negative balance or position (repositories/paper.py).
THEOREM RoundedTypes == Spec => []TypeOK
<1>1. RoundingInv => TypeOK
  BY DEF RoundingInv
<1> QED BY <1>1, RoundingInvariant, PTL

\* While no sum goes over Limit (10^10 units), the balance and the replayed fills
\* are never further apart than one quantum for each fill that lost digits, so an
\* account whose fills lost none passes the exact comparison of
\* reconciliation.py:75.
THEOREM RoundingDrift == Spec => []DriftBounded
<1>1. RoundingInv => DriftBounded
  BY DEF RoundingInv
<1> QED BY <1>1, RoundingInvariant, PTL

\* The stored position is always the replayed one (reconciliation.py:81), and up
\* to Limit the exact one: an order whose quantity the columns cannot keep is
\* never executed.
THEOREM RoundedPosition == Spec => []PositionExact
<1>1. RoundingInv => PositionExact
  BY DEF RoundingInv
<1> QED BY <1>1, RoundingInvariant, PTL
===============================================================================
