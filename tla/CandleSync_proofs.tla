--------------------------- MODULE CandleSync_proofs --------------------------
(***************************************************************************)
(* What holds of candle synchronisation for any number of overlapping syncs,*)
(* any pages, durations and page sizes: what is kept of the pages, counted,*)
(* written and reported as missing.  SyncInv says of each sync what its    *)
(* variables are worth at each label; the table's properties follow from it*)
(* at the one step, Commit, that changes the table.                        *)
(***************************************************************************)
EXTENDS CandleSync, FiniteSetTheorems, TLAPS

\* A finite set of numbers has a largest element.
LEMMA HasMaximum ==
    ASSUME NEW S, IsFiniteSet(S), S \subseteq Int, S # {}
    PROVE  \E m \in S : \A x \in S : x <= m
<1> DEFINE C == {R \in SUBSET S : R # {} /\ ~\E m \in R : \A x \in R : x <= m}
<1> SUFFICES ASSUME S \in C PROVE FALSE
    OBVIOUS
<1>1. IsWellFoundedOn(StrictSubsetOrdering(S), SUBSET S)
    BY FS_StrictSubsetOrderingWellFounded, FS_FiniteSubsetsOfFinite
<1>2. PICK R \in C : \A Q \in C : <<Q, R>> \notin StrictSubsetOrdering(S)
    <2> HIDE DEF C
    <2>1. C \subseteq SUBSET S
        BY DEF C
    <2> QED BY <1>1, <2>1, WFMin
<1>3. R \in SUBSET S /\ R # {} /\ ~\E m \in R : \A x \in R : x <= m
    BY <1>2
<1>4. PICK e \in R : TRUE
    BY <1>3
<1>5. R \ {e} \notin C
    BY <1>2, <1>3, <1>4, ZenonT(60) DEF StrictSubsetOrdering
<1>6. R \ {e} # {}
    BY <1>3, <1>4
<1>7. PICK m \in R \ {e} : \A x \in R \ {e} : x <= m
    BY <1>3, <1>5, <1>6
<1>8. m \in Int /\ e \in Int /\ \A x \in R : x \in Int
    BY <1>3
<1>9. CASE e <= m
    BY <1>3, <1>7, <1>8, <1>9
<1>10. CASE e > m
    <2>1. \A x \in R : x <= e
        BY <1>7, <1>8, <1>10
    <2> QED BY <1>3, <2>1
<1> QED BY <1>8, <1>9, <1>10

\* ... and a smallest one.
LEMMA HasMinimum ==
    ASSUME NEW S, IsFiniteSet(S), S \subseteq Int, S # {}
    PROVE  \E m \in S : \A x \in S : m <= x
<1> DEFINE f == [x \in S |-> -x]
           N == {-x : x \in S}
<1>1. f \in Surjection(S, N)
    BY DEF Surjection
<1>2. IsFiniteSet(N)
    <2> HIDE DEF f, N
    <2> QED BY <1>1, FS_Surjection
<1>3. PICK n \in N : \A y \in N : y <= n
    <2>1. N \subseteq Int /\ N # {}
        <3>1. \A x \in S : x \in Int /\ -x \in Int
            OBVIOUS
        <3>2. PICK x \in S : TRUE
            OBVIOUS
        <3>3. -x \in N
            BY <3>2
        <3> QED BY <3>1, <3>3
    <2> HIDE DEF N
    <2> QED BY <1>2, <2>1, HasMaximum
<1>4. PICK m \in S : n = -m
    BY <1>3
<1>5. ASSUME NEW x \in S PROVE m <= x
    <2>1. -x <= n
        BY <1>3
    <2>2. x \in Int /\ m \in Int /\ -x <= -m
        BY <1>4, <2>1
    <2> QED BY <2>2
<1> QED BY <1>5

LEMMA MaxIs ==
    ASSUME NEW S, IsFiniteSet(S), S \subseteq Int, S # {}
    PROVE  Max(S) \in S /\ \A x \in S : x <= Max(S)
<1>1. \E m \in S : \A x \in S : m >= x
    BY HasMaximum
<1> QED BY <1>1 DEF Max

LEMMA MinIs ==
    ASSUME NEW S, IsFiniteSet(S), S \subseteq Int, S # {}
    PROVE  Min(S) \in S /\ \A x \in S : Min(S) <= x
<1>1. \E m \in S : \A x \in S : m =< x
    BY HasMinimum
<1> QED BY <1>1 DEF Min

\* Two sets with as many elements as each other: an injection misses nothing.
LEMMA PlacesAreTaken ==
    ASSUME NEW S, IsFiniteSet(S), NEW f \in [S -> 1..Cardinality(S)],
           \A a, b \in S : f[a] = f[b] => a = b
    PROVE  \A k \in 1..Cardinality(S) : \E a \in S : f[a] = k
<1> DEFINE n == Cardinality(S)
<1>0. n \in Nat
    BY FS_CardinalityType
<1>1. IsFiniteSet(1..n) /\ Cardinality(1..n) = n
    BY <1>0, FS_Interval
<1>2. f \in Injection(S, 1..n)
    BY DEF Injection, IsInjective
<1>3. f \in Surjection(S, 1..n)
    <2> HIDE DEF n
    <2> QED BY <1>1, <1>2, FS_Injection DEF n
<1> QED BY <1>3 DEF Surjection

LEMMA ValidIsFinite ==
    ASSUME NEW n \in Nat, NEW p \in [1..n -> Rows]
    PROVE  /\ IsFiniteSet(Valid(p)) /\ Valid(p) \subseteq 1..n
           /\ Cardinality(Valid(p)) \in Nat
           /\ Cardinality(DOMAIN p \ Valid(p)) \in Nat
           /\ Cardinality(Valid(p)) + Cardinality(DOMAIN p \ Valid(p)) = n
<1>1. IsFiniteSet(1..n) /\ Cardinality(1..n) = n
    BY FS_Interval
<1>2. Valid(p) \in SUBSET (1..n) /\ DOMAIN p = 1..n
    BY DEF Valid
<1>3. IsFiniteSet(Valid(p)) /\ IsFiniteSet(1..n \ Valid(p))
    BY <1>1, <1>2, FS_Subset
<1>4. Cardinality(Valid(p)) \in Nat /\ Cardinality(1..n \ Valid(p)) \in Nat
    BY <1>3, FS_CardinalityType
<1>5. Cardinality(1..n \ Valid(p)) = n - Cardinality(Valid(p))
    <2>1. (1..n) \cap Valid(p) = Valid(p)
        BY <1>2
    <2>2. Cardinality((1..n) \ Valid(p)) = Cardinality(1..n) - Cardinality((1..n) \cap Valid(p))
        BY <1>1, FS_Difference
    <2> QED BY <1>1, <2>1, <2>2
<1>6. DOMAIN p \ Valid(p) = 1..n \ Valid(p)
    BY <1>2
<1> QED BY <1>2, <1>3, <1>4, <1>5, <1>6

\* The sort puts every valid row somewhere, and two rows nowhere together.
LEMMA PlaceIsTaken ==
    ASSUME NEW n \in Nat, NEW p \in [1..n -> Rows], NEW k \in 1..Cardinality(Valid(p))
    PROVE  \E i \in Valid(p) : Place(p, i) = k
<1> DEFINE V == Valid(p)
           before(i) == {j \in V : p[j].at < p[i].at \/ (p[j].at = p[i].at /\ j <= i)}
           f == [i \in V |-> Cardinality(before(i))]
<1>1. IsFiniteSet(V) /\ Cardinality(V) \in Nat /\ V \subseteq 1..n
    BY ValidIsFinite
<1>2. \A i \in V : p[i].at \in Nat /\ i \in Int
    BY <1>1, SyncConstants
<1>3. ASSUME NEW i \in V
      PROVE  before(i) \in SUBSET V /\ IsFiniteSet(before(i)) /\ i \in before(i)
    <2>1. before(i) \in SUBSET V /\ i \in before(i)
        BY <1>2
    <2> HIDE DEF before, V
    <2> QED BY <1>1, <2>1, FS_Subset
<1>4. ASSUME NEW i \in V PROVE Cardinality(before(i)) \in 1..Cardinality(V)
    <2> HIDE DEF before, V
    <2>1. Cardinality(before(i)) <= Cardinality(V) /\ Cardinality(before(i)) \in Nat
        BY <1>1, <1>3, FS_Subset, FS_CardinalityType
    <2>2. Cardinality(before(i)) # 0
        BY <1>3, FS_EmptySet
    <2> QED BY <1>1, <2>1, <2>2
<1>5. ASSUME NEW a \in V, NEW b \in V, before(a) \subseteq before(b),
             Cardinality(before(a)) = Cardinality(before(b))
      PROVE  a = b
    <2>1. before(a) = before(b)
        <3> HIDE DEF before, V
        <3> QED BY <1>3, <1>5, FS_Subset
    <2>2. a \in before(b) /\ b \in before(a)
        BY <1>3, <2>1
    <2> QED BY <1>2, <2>2
<1>6. ASSUME NEW a \in V, NEW b \in V
      PROVE  before(a) \subseteq before(b) \/ before(b) \subseteq before(a)
    BY <1>2
<1>7. \A a, b \in V : f[a] = f[b] => a = b
    <2> HIDE DEF before, V
    <2> QED BY <1>5, <1>6
<1>8. f \in [V -> 1..Cardinality(V)]
    <2> HIDE DEF before, V
    <2> QED BY <1>4
<1>9. PICK i \in V : f[i] = k
    <2> HIDE DEF f
    <2> QED BY <1>1, <1>7, <1>8, PlacesAreTaken
<1> QED BY <1>9 DEF Place

\* The mapper's result has one candle for every valid row.
LEMMA MappedType ==
    ASSUME NEW n \in Nat, NEW p \in [1..n -> Rows]
    PROVE  Mapped(p) \in Seq(Candle) /\ Len(Mapped(p)) = Cardinality(Valid(p))
<1> DEFINE v == Cardinality(Valid(p))
           row(k) == CHOOSE j \in Valid(p) : Place(p, j) = k
<1>1. v \in Nat /\ Valid(p) \subseteq 1..n
    BY ValidIsFinite
<1>2. ASSUME NEW k \in 1..v PROVE row(k) \in 1..n
    BY <1>1, PlaceIsTaken
<1>3. ASSUME NEW k \in 1..v PROVE [at |-> p[row(k)].at, value |-> p[row(k)].value] \in Candle
    <2> HIDE DEF row
    <2> QED BY <1>2 DEF Candle
<1>4. Mapped(p) = [k \in 1..v |-> [at |-> p[row(k)].at, value |-> p[row(k)].value]]
    BY DEF Mapped
<1> HIDE DEF v, row
<1>5. Mapped(p) \in [1..v -> Candle]
    BY <1>3, <1>4
<1>6. Mapped(p) \in Seq(Candle) /\ Len(Mapped(p)) = v
    BY <1>1, <1>5
<1> QED BY <1>6 DEF v

LEMMA CandleFields == \A c \in Candle : c.at \in Nat
BY SyncConstants DEF Candle

\* A page adds its length to what was received or rejected.
LEMMA PageAdds ==
    ASSUME TypeOK, NEW s \in Syncs, NEW p \in Pages
    PROVE  /\ Got(s, p) \in Seq(Candle) /\ Bad(s, p) \in Nat /\ Len(p) \in 0..PageSize
           /\ Len(Got(s, p)) + Bad(s, p) = Len(received[s]) + bad[s] + Len(p)
<1>1. PICK n \in 0..PageSize : p \in [1..n -> Rows]
    BY DEF Pages, BoundedSeq, SeqOf
<1>2. n \in Nat /\ Len(p) = n
    BY <1>1, SyncConstants
<1>3. Mapped(p) \in Seq(Candle) /\ Len(Mapped(p)) = Cardinality(Valid(p))
    BY <1>1, <1>2, MappedType
<1>4. /\ Cardinality(Valid(p)) \in Nat /\ Cardinality(DOMAIN p \ Valid(p)) \in Nat
      /\ Cardinality(Valid(p)) + Cardinality(DOMAIN p \ Valid(p)) = n
    BY <1>1, <1>2, ValidIsFinite
<1>5. received[s] \in Seq(Candle) /\ bad[s] \in Nat
    BY DEF TypeOK
<1>6. Got(s, p) \in Seq(Candle) /\ Len(Got(s, p)) = Len(received[s]) + Len(Mapped(p))
    BY <1>3, <1>5 DEF Got
<1>7. Len(received[s]) \in Nat
    BY <1>5
<1>8. Bad(s, p) = bad[s] + Cardinality(DOMAIN p \ Valid(p))
    BY DEF Bad
<1>9. Bad(s, p) \in Nat /\ Len(p) \in 0..PageSize
    BY <1>1, <1>2, <1>4, <1>5, <1>8
<1> DEFINE v == Cardinality(Valid(p))
           w == Cardinality(DOMAIN p \ Valid(p))
<1>10. v \in Nat /\ w \in Nat /\ v + w = n
    BY <1>4
<1>11. Len(Got(s, p)) = Len(received[s]) + v /\ Bad(s, p) = bad[s] + w
    BY <1>3, <1>6, <1>8
<1> HIDE DEF v, w
<1>12. Len(Got(s, p)) + Bad(s, p) = Len(received[s]) + bad[s] + Len(p)
    <2>1. \A a, b, x, y \in Nat : (a + x) + (b + y) = a + b + (x + y)
        OBVIOUS
    <2>2. (Len(received[s]) + v) + (bad[s] + w) = Len(received[s]) + bad[s] + (v + w)
        BY <1>5, <1>7, <1>10, <2>1
    <2> QED BY <1>2, <1>10, <1>11, <2>2
<1> QED BY <1>6, <1>9, <1>12

\* What is kept of a sequence: one candle for each of its times.
LEMMA KeptType ==
    ASSUME NEW seq \in Seq(Candle), NEW r \in Ranges
    PROVE  /\ Normalized(seq, r) \subseteq Candle /\ IsFiniteSet(Normalized(seq, r))
           /\ \A c \in Normalized(seq, r) :
                 c.at \in Nat /\ Aligned(c.at) /\ r.start <= c.at /\ c.at <= r.end
           /\ \A c, d \in Normalized(seq, r) : c.at = d.at => c = d
<1>1. DOMAIN seq = 1..Len(seq) /\ Len(seq) \in Nat /\ \A i \in DOMAIN seq : seq[i] \in Candle
    OBVIOUS
<1> DEFINE D == {j \in DOMAIN seq : /\ seq[j].at >= r.start /\ seq[j].at <= r.end
                                    /\ Aligned(seq[j].at)
                                    /\ \A h \in 1..(j - 1) : seq[h].at # seq[j].at}
           f == [i \in D |-> seq[i]]
           N == {seq[i] : i \in D}
<1>2. Normalized(seq, r) = N
    BY DEF Normalized
<1>3. f \in Surjection(D, N)
    <2> HIDE DEF D
    <2> QED BY DEF Surjection
<1>4. IsFiniteSet(D)
    <2>1. D \in SUBSET (1..Len(seq)) /\ IsFiniteSet(1..Len(seq))
        BY <1>1, FS_Interval
    <2> HIDE DEF D
    <2> QED BY <2>1, FS_Subset
<1>5. IsFiniteSet(N)
    <2> HIDE DEF f, N, D
    <2> QED BY <1>3, <1>4, FS_Surjection
<1>6. \A i, j \in D : seq[i].at = seq[j].at => i = j
    <2> SUFFICES ASSUME NEW i \in D, NEW j \in D, seq[i].at = seq[j].at PROVE i = j
        OBVIOUS
    <2>1. i \in Int /\ j \in Int /\ i >= 1 /\ j >= 1
        BY <1>1
    <2>2. ~(i \in 1..(j - 1)) /\ ~(j \in 1..(i - 1))
        OBVIOUS
    <2> QED BY <2>1, <2>2
<1>7. \A i \in D : /\ seq[i] \in Candle /\ seq[i].at \in Nat /\ Aligned(seq[i].at)
                   /\ r.start <= seq[i].at /\ seq[i].at <= r.end
    BY <1>1, CandleFields, SyncConstants
<1> HIDE DEF D
<1> QED BY <1>2, <1>5, <1>6, <1>7

\* The checks before the first page have let the range through.
Asked(s) ==
    /\ range[s] \in Ranges /\ range[s].start <= range[s].end
    /\ Aligned(range[s].start) /\ Aligned(range[s].end)
AskedInv == \A s \in Syncs : pc[s] \notin {"idle", "refused"} => Asked(s)

LEMMA TypeStart == Init => TypeOK /\ AskedInv
BY DEF Init, TypeOK, Labels, AskedInv

LEMMA AskedStep == TypeOK /\ AskedInv /\ [Next]_syncVars => AskedInv'
<1> SUFFICES ASSUME TypeOK, AskedInv, [Next]_syncVars PROVE AskedInv'
    OBVIOUS
<1> USE DEF Goto, TypeOK, AskedInv, Asked, Aligned
<1>1. ASSUME NEW s \in Syncs, Start(s) PROVE AskedInv'
    <2>1. PICK r \in Ranges : /\ range' = [range EXCEPT ![s] = r]
                              /\ pc' = [pc EXCEPT ![s] = IF r.end >= r.start /\ Aligned(r.start) /\ Aligned(r.end)
                                                         THEN "fetch" ELSE "refused"]
        BY <1>1 DEF Start
    <2>2. r.start \in Nat /\ r.end \in Nat
        BY SyncConstants
    <2> QED BY <2>1, <2>2
<1>2. ASSUME NEW s \in Syncs, Proceed(s) \/ Fail(s)
      PROVE  UNCHANGED range /\ \E there : pc' = [pc EXCEPT ![s] = there] /\ pc[s] \notin {"idle", "refused"}
    <2>1. pc[s] \notin {"idle", "refused"}
        BY <1>2 DEF Proceed, NextPage, TooManyPages, LastPage, SelectOne, UpsertOne, Commit, Fail, InFlight
    <2>2. CASE NextPage(s)
        BY <2>1, <2>2 DEF NextPage
    <2>3. CASE LastPage(s)
        BY <2>1, <2>3 DEF LastPage
    <2>4. CASE SelectOne(s) \/ UpsertOne(s)
        BY <2>1, <2>4 DEF SelectOne, UpsertOne
    <2>5. CASE TooManyPages(s) \/ Commit(s) \/ Fail(s)
        BY <2>1, <2>5 DEF TooManyPages, Commit, Fail
    <2> QED BY <1>2, <2>2, <2>3, <2>4, <2>5 DEF Proceed
<1>3. ASSUME NEW s \in Syncs, Proceed(s) \/ Fail(s) PROVE AskedInv'
    BY <1>2, <1>3
<1>4. CASE Quiet \/ UNCHANGED syncVars
    BY <1>4 DEF Quiet, syncVars
<1> QED BY <1>1, <1>3, <1>4 DEF Next

LEMMA TypeStep == TypeOK /\ AskedInv /\ [Next]_syncVars => TypeOK'
<1> SUFFICES ASSUME TypeOK, AskedInv, [Next]_syncVars PROVE TypeOK'
    OBVIOUS
<1> USE DEF Goto
<1>1. ASSUME NEW s \in Syncs, Start(s) PROVE TypeOK'
    BY <1>1 DEF Start, TypeOK, fetchVars, writeVars, Labels
<1>2. ASSUME NEW s \in Syncs, NextPage(s) PROVE TypeOK'
    <2>1. PICK p \in Pages : /\ received' = [received EXCEPT ![s] = Got(s, p)]
                             /\ bad' = [bad EXCEPT ![s] = Bad(s, p)]
        BY <1>2 DEF NextPage
    <2>2. Got(s, p) \in Seq(Candle) /\ Bad(s, p) \in Nat
        BY PageAdds
    <2> QED BY <1>2, <2>1, <2>2 DEF NextPage, TypeOK, writeVars
<1>3. ASSUME NEW s \in Syncs, TooManyPages(s) PROVE TypeOK'
    <2>1. PICK p \in Pages : /\ received' = [received EXCEPT ![s] = Got(s, p)]
                             /\ bad' = [bad EXCEPT ![s] = Bad(s, p)]
        BY <1>3 DEF TooManyPages
    <2>2. Got(s, p) \in Seq(Candle) /\ Bad(s, p) \in Nat
        BY PageAdds
    <2> QED BY <1>3, <2>1, <2>2 DEF TooManyPages, TypeOK, writeVars, Labels
<1>4. ASSUME NEW s \in Syncs, LastPage(s) PROVE TypeOK'
    <2>1. PICK p \in Pages : LET kept == Normalized(Got(s, p), range[s]) IN
              /\ bad' = [bad EXCEPT ![s] = Bad(s, p)]
              /\ rows' = [rows EXCEPT ![s] = kept]
              /\ todo' = [todo EXCEPT ![s] = TimesOf(kept)]
              /\ DOMAIN result' = DOMAIN result
              /\ pc' = [pc EXCEPT ![s] = IF kept = {} THEN "commit" ELSE "select"]
        BY <1>4 DEF LastPage
    <2>2. Got(s, p) \in Seq(Candle) /\ Bad(s, p) \in Nat
        BY PageAdds
    <2> DEFINE kept == Normalized(Got(s, p), range[s])
    <2>3. kept \subseteq Candle /\ \A c \in kept : c.at \in Nat
        <3>1. range[s] \in Ranges
            BY <1>4 DEF LastPage, AskedInv, Asked
        <3> QED BY <2>2, <3>1, KeptType
    <2> HIDE DEF kept
    <2>4. TimesOf(kept) \subseteq Nat
        BY <2>3 DEF TimesOf
    <2>5. pc' \in [Syncs -> Labels] /\ rows' \in [Syncs -> SUBSET Candle]
          /\ todo' \in [Syncs -> SUBSET Nat] /\ bad' \in [Syncs -> Nat]
        BY <2>1, <2>2, <2>3, <2>4 DEF TypeOK, Labels, kept
    <2> QED BY <1>4, <2>1, <2>5 DEF LastPage, TypeOK
<1>5. ASSUME NEW s \in Syncs, SelectOne(s) PROVE TypeOK'
    BY <1>5 DEF SelectOne, TypeOK, fetchVars, Labels
<1>6. ASSUME NEW s \in Syncs, UpsertOne(s) PROVE TypeOK'
    <2>1. PICK c \in NextRow(s) :
              /\ tx' = [tx EXCEPT ![s] = {d \in @ : d.at # c.at} \cup {c}]
              /\ rows' = [rows EXCEPT ![s] = @ \ {c}]
              /\ pc' = [pc EXCEPT ![s] = IF rows[s] = {c} THEN "commit" ELSE "upsert"]
        BY <1>6 DEF UpsertOne
    <2>2. c \in Candle
        BY DEF NextRow, TypeOK
    <2>3. tx' \in [Syncs -> SUBSET Candle]
        BY <2>1, <2>2 DEF TypeOK
    <2> QED BY <1>6, <2>1, <2>3 DEF UpsertOne, TypeOK, fetchVars, Labels
<1>7. ASSUME NEW s \in Syncs, Commit(s) PROVE TypeOK'
    BY <1>7 DEF Commit, TypeOK, fetchVars, writeVars, Labels
<1>8. ASSUME NEW s \in Syncs, Fail(s) PROVE TypeOK'
    BY <1>8 DEF Fail, TypeOK, Labels
<1>9. CASE Quiet \/ UNCHANGED syncVars
    BY <1>9 DEF Quiet, syncVars, TypeOK
<1> QED BY <1>1, <1>2, <1>3, <1>4, <1>5, <1>6, <1>7, <1>8, <1>9 DEF Next, Proceed

\* A range of E candles fits the pages before the last one that is allowed.
LEMMA PagesSuffice ==
    ASSUME NEW r \in Ranges
    PROVE  MaxPages(r) \in Int /\ MaxPages(r) * PageSize > Estimated(r) /\ Estimated(r) \in Int
<1> DEFINE e == Estimated(r)
           x == e + PageSize - 1
           q == x \div PageSize
           m == x % PageSize
<1>1. e \in Int /\ PageSize \in Nat \ {0}
    BY SyncConstants DEF Estimated
<1>2. MaxPages(r) = q + 1
    BY DEF MaxPages
<1> HIDE DEF e
<1>3. x \in Int
    BY <1>1
<1> HIDE DEF x
<1>4. q \in Int /\ m \in 0..(PageSize - 1) /\ x = PageSize * q + m
    BY <1>1, <1>3
<1> HIDE DEF q, m
<1>5. (q + 1) * PageSize = PageSize * q + PageSize
    BY <1>1, <1>4
<1> QED BY <1>1, <1>2, <1>4, <1>5 DEF e, x

\* One candle for each time: as many times as candles.
LEMMA TimesAreAsMany ==
    ASSUME NEW K, IsFiniteSet(K), \A c, d \in K : c.at = d.at => c = d
    PROVE  IsFiniteSet(TimesOf(K)) /\ Cardinality(TimesOf(K)) = Cardinality(K)
           /\ Cardinality(K) \in Nat
<1> DEFINE f == [c \in K |-> c.at]
<1>1. f \in Bijection(K, TimesOf(K))
    BY DEF Bijection, Injection, Surjection, IsInjective, TimesOf
<1>2. ExistsBijection(K, TimesOf(K))
    BY <1>1 DEF ExistsBijection
<1> QED BY <1>2, FS_Bijection, FS_CardinalityType

LEMMA SplitCount ==
    ASSUME NEW S, IsFiniteSet(S), NEW T
    PROVE  /\ IsFiniteSet(S \ T)
           /\ Cardinality(S \ T) \in Nat /\ Cardinality(S \cap T) \in Nat
           /\ Cardinality(S \ T) + Cardinality(S \cap T) = Cardinality(S)
<1>1. IsFiniteSet(S \ T) /\ IsFiniteSet(S \cap T)
    BY FS_Subset
<1>2. Cardinality(S \ T) = Cardinality(S) - Cardinality(S \cap T)
    BY FS_Difference
<1>3. Cardinality(S) \in Nat /\ Cardinality(S \ T) \in Nat /\ Cardinality(S \cap T) \in Nat
    BY <1>1, FS_CardinalityType
<1> QED BY <1>1, <1>2, <1>3

\* _normalize keeps a candle or takes one of its rejecting branches.
LEMMA KeptOrRejected ==
    ASSUME NEW seq \in Seq(Candle), NEW r \in Ranges
    PROVE  /\ Cardinality(Normalized(seq, r)) + Rejected(seq, r) = Len(seq)
           /\ Rejected(seq, r) \in Nat
<1> DEFINE n == Len(seq)
           D == 1..n
           O == OutOfRange(seq, r)
           G == OffGrid(seq)
           R == Repeated(seq)
           A == D \ O
           B == A \ G
           I == B \ R
<1>1. n \in Nat /\ DOMAIN seq = D /\ \A i \in D : seq[i] \in Candle /\ seq[i].at \in Nat
    BY CandleFields
<1>2. IsFiniteSet(D) /\ Cardinality(D) = n
    <2>1. n \in Nat
        OBVIOUS
    <2> HIDE DEF n
    <2> QED BY <2>1, FS_Interval
<1>3. O \subseteq D /\ G \subseteq D /\ R \subseteq D
    BY <1>1 DEF OutOfRange, OffGrid, Repeated
<1>4. r.start \in Nat /\ r.end \in Nat
    BY SyncConstants
<1>5. I = {j \in DOMAIN seq :
              /\ seq[j].at >= r.start /\ seq[j].at <= r.end
              /\ Aligned(seq[j].at)
              /\ \A h \in 1..(j - 1) : seq[h].at # seq[j].at}
    BY <1>1, <1>4 DEF OutOfRange, OffGrid, Repeated
<1> HIDE DEF D, O, G, R
<1>6. /\ IsFiniteSet(A) /\ Cardinality(A) + Cardinality(O) = n
      /\ Cardinality(A) \in Nat /\ Cardinality(O) \in Nat
    <2>1. D \cap O = O
        BY <1>3
    <2> QED BY <1>2, <2>1, SplitCount
<1>7. /\ IsFiniteSet(B) /\ Cardinality(B) + Cardinality(G \ O) = Cardinality(A)
      /\ Cardinality(B) \in Nat /\ Cardinality(G \ O) \in Nat
    <2>1. A \cap G = G \ O
        BY <1>3
    <2> HIDE DEF A
    <2> QED BY <1>6, <2>1, SplitCount
<1>8. /\ IsFiniteSet(I) /\ Cardinality(I) + Cardinality(R \ (O \cup G)) = Cardinality(B)
      /\ Cardinality(I) \in Nat /\ Cardinality(R \ (O \cup G)) \in Nat
    <2>1. B \cap R = R \ (O \cup G)
        BY <1>3
    <2> HIDE DEF B
    <2> QED BY <1>7, <2>1, SplitCount
<1>9. Cardinality(Normalized(seq, r)) = Cardinality(I)
    <2> DEFINE f == [i \in I |-> seq[i]]
               K == {seq[i] : i \in I}
    <2>1. Normalized(seq, r) = K
        BY <1>5 DEF Normalized
    <2>2. ASSUME NEW i \in I, NEW j \in I, seq[i] = seq[j] PROVE i = j
        <3>1. i \in Nat /\ j \in Nat /\ i >= 1 /\ j >= 1
            BY <1>1, <1>5 DEF D
        <3>2. /\ \A h \in 1..(i - 1) : seq[h].at # seq[i].at
              /\ \A h \in 1..(j - 1) : seq[h].at # seq[j].at
            BY <1>5
        <3>3. ~(i < j) /\ ~(j < i)
            BY <2>2, <3>1, <3>2
        <3> QED BY <3>1, <3>3
    <2> HIDE DEF I
    <2>3. f \in Bijection(I, K)
        BY <2>2 DEF Bijection, Injection, Surjection, IsInjective
    <2>4. ExistsBijection(I, K)
        BY <2>3 DEF ExistsBijection
    <2> QED BY <1>8, <2>1, <2>4, FS_Bijection
<1>10. Rejected(seq, r) = Cardinality(O) + Cardinality(G \ O) + Cardinality(R \ (O \cup G))
    BY DEF Rejected, O, G, R
<1> DEFINE a == Cardinality(A)
           b == Cardinality(B)
           k == Cardinality(I)
           o == Cardinality(O)
           g == Cardinality(G \ O)
           t == Cardinality(R \ (O \cup G))
<1>11. /\ n \in Nat /\ a \in Nat /\ b \in Nat /\ k \in Nat
       /\ o \in Nat /\ g \in Nat /\ t \in Nat
       /\ a + o = n /\ b + g = a /\ k + t = b
    BY <1>1, <1>6, <1>7, <1>8
<1>12. Cardinality(Normalized(seq, r)) = k /\ Rejected(seq, r) = o + g + t
    BY <1>9, <1>10
<1> HIDE DEF A, B, I, a, b, k, o, g, t, n
<1>13. k + (o + g + t) = n /\ k \in Nat /\ o + g + t \in Nat
    BY <1>11
<1> QED BY <1>12, <1>13 DEF n

-------------------------------------------------------------------------------
Past == {"select", "upsert", "commit", "done"}

\* Every page but the last is full, so their number tells what was received.
Reading(s) ==
    /\ pc[s] \in {"idle", "refused"} => page[s] = 1 /\ received[s] = <<>> /\ bad[s] = 0
    /\ pc[s] = "fetch" => /\ page[s] >= 1 /\ page[s] <= MaxPages(range[s])
                          /\ Len(received[s]) + bad[s] = (page[s] - 1) * PageSize
    /\ pc[s] = "exceeded" => Len(received[s]) + bad[s] = MaxPages(range[s]) * PageSize

\* The result is computed once, from what was kept of the pages.
Answer(s) ==
    /\ pc[s] \notin Past => result[s] = None
    /\ pc[s] \in Past =>
          /\ IsFiniteSet(result[s].times) /\ result[s].times \subseteq Nat
          /\ \A t \in result[s].times : Aligned(t) /\ range[s].start <= t /\ t <= range[s].end
          /\ result[s].gaps = Gaps(result[s].times, range[s])
          /\ result[s].received + bad[s] = Cardinality(result[s].times) + result[s].rejected

\* What a sync has written and what it has still to write: times of its result,
\* each once, the written ones first; what it has found was there and still is.
Holding(s) ==
    /\ pc[s] \notin {"upsert", "commit"} => tx[s] = {}
    /\ pc[s] \notin {"select", "upsert"} => rows[s] = {}
    /\ pc[s] \in Past => \A c \in tx[s] \cup rows[s] : c.at \in result[s].times
    /\ \A c, d \in tx[s] \cup rows[s] : c.at = d.at => c = d
    /\ \A c \in tx[s], d \in rows[s] : c.at < d.at
    /\ existing[s] \subseteq TimesOf(candles)

SyncInv == \A s \in Syncs : Reading(s) /\ Answer(s) /\ Holding(s)

LEMMA SyncStart == Init => SyncInv
BY DEF Init, SyncInv, Reading, Answer, Holding, Past, TimesOf

\* The variables of q.
Mine(q) == <<pc[q], range[q], page[q], received[q], bad[q], rows[q], todo[q], existing[q],
             result[q], tx[q]>>
TimesStay == \A c \in candles : \E d \in candles' : d.at = c.at

LEMMA OthersKeep ==
    ASSUME SyncInv, NEW q \in Syncs, Mine(q)' = Mine(q), TimesStay
    PROVE  Reading(q)' /\ Answer(q)' /\ Holding(q)'
<1>1. Reading(q) /\ Answer(q) /\ Holding(q)
    BY DEF SyncInv
<1>2. Reading(q)'
    BY <1>1 DEF Reading, Mine
<1>3. Answer(q)'
    BY <1>1 DEF Answer, Mine
<1>4. TimesOf(candles) \subseteq TimesOf(candles')
    BY DEF TimesStay, TimesOf
<1>5. Holding(q)'
    BY <1>1, <1>4 DEF Holding, Mine
<1> QED BY <1>2, <1>3, <1>5

LEMMA SyncOneStep ==
    ASSUME TypeOK, NEW s \in Syncs, Start(s) \/ Proceed(s) \/ Fail(s)
    PROVE  /\ \A q \in Syncs : q # s => Mine(q)' = Mine(q)
           /\ TimesStay
           /\ ~Commit(s) => candles' = candles
<1> USE DEF Goto, TypeOK, Mine, TimesStay
<1>1. CASE Start(s)
    BY <1>1 DEF Start, fetchVars, writeVars, Commit
<1>2. CASE NextPage(s)
    BY <1>2 DEF NextPage, writeVars, Commit
<1>3. CASE TooManyPages(s)
    BY <1>3 DEF TooManyPages, writeVars, Commit
<1>4. CASE LastPage(s)
    <2>1. PICK p \in Pages : LET kept == Normalized(Got(s, p), range[s]) IN
              /\ bad' = [bad EXCEPT ![s] = Bad(s, p)]
              /\ rows' = [rows EXCEPT ![s] = kept]
              /\ todo' = [todo EXCEPT ![s] = TimesOf(kept)]
              /\ \E r : result' = [result EXCEPT ![s] = r]
              /\ pc' = [pc EXCEPT ![s] = IF kept = {} THEN "commit" ELSE "select"]
        BY <1>4 DEF LastPage
    <2> QED BY <1>4, <2>1 DEF LastPage
<1>5. CASE SelectOne(s)
    BY <1>5 DEF SelectOne, fetchVars, Commit
<1>6. CASE UpsertOne(s)
    BY <1>6 DEF UpsertOne, fetchVars, Commit
<1>7. CASE Commit(s)
    <2>1. \A q \in Syncs : q # s => Mine(q)' = Mine(q)
        BY <1>7 DEF Commit, fetchVars, writeVars
    <2>2. TimesStay
        BY <1>7 DEF Commit, TimesOf
    <2> QED BY <1>7, <2>1, <2>2
<1>8. CASE Fail(s)
    BY <1>8 DEF Fail
<1> QED BY <1>1, <1>2, <1>3, <1>4, <1>5, <1>6, <1>7, <1>8 DEF Proceed

LEMMA QuotientIsNatural ==
    ASSUME NEW n \in Nat, NEW d \in Nat \ {0}
    PROVE  n \div d \in Nat
<1> DEFINE q == n \div d
           m == n % d
<1>1. q \in Int /\ m \in 0..(d - 1) /\ n = d * q + m
    OBVIOUS
<1> HIDE DEF q, m
<1>2. ASSUME q < 0 PROVE FALSE
    <2>1. d * q <= -d
        BY <1>1, <1>2
    <2> QED BY <1>1, <2>1
<1>3. q \in Nat
    BY <1>1, <1>2
<1> QED BY <1>3 DEF q

LEMMA FirstPageIsAllowed ==
    ASSUME NEW r \in Ranges, r.start <= r.end
    PROVE  MaxPages(r) \in Nat /\ MaxPages(r) >= 1
<1>1. /\ MaxPages(r) \in Int /\ MaxPages(r) * PageSize > Estimated(r)
      /\ Estimated(r) \in Int
    BY PagesSuffice
<1>2. r.end - r.start \in Nat
    BY SyncConstants
<1>3. Estimated(r) >= 1
    BY <1>2, QuotientIsNatural, SyncConstants DEF Estimated
<1> DEFINE m == MaxPages(r)
           e == Estimated(r)
<1>4. m \in Int /\ e \in Int /\ m * PageSize > e /\ e >= 1
    BY <1>1, <1>3
<1> HIDE DEF m, e
<1>5. ASSUME m <= 0 PROVE FALSE
    <2>1. m * PageSize <= 0
        BY <1>4, <1>5, SyncConstants
    <2> QED BY <1>4, <2>1, SyncConstants
<1>6. m \in Nat /\ m >= 1
    BY <1>4, <1>5
<1> QED BY <1>6 DEF m

LEMMA StartKeeps ==
    ASSUME TypeOK, SyncInv, NEW s \in Syncs, Start(s)
    PROVE  Reading(s)' /\ Answer(s)' /\ Holding(s)'
<1> USE DEF TypeOK, Goto
<1>1. Reading(s) /\ Answer(s) /\ Holding(s)
    BY DEF SyncInv
<1>2. PICK r \in Ranges :
          /\ pc[s] = "idle" /\ range'[s] = r /\ pc'[s] \in {"fetch", "refused"}
          /\ pc'[s] = "fetch" => r.end >= r.start
    BY DEF Start
<1>3. UNCHANGED <<candles, page, received, bad, rows, todo, existing, result, tx>>
    BY DEF Start, fetchVars, writeVars
<1>4. r.end >= r.start => MaxPages(r) \in Nat /\ MaxPages(r) >= 1
    BY FirstPageIsAllowed, SyncConstants
<1>5. Reading(s)'
    <2>1. Len(<<>>) + 0 = (1 - 1) * PageSize
        BY SyncConstants
    <2> QED BY <1>1, <1>2, <1>3, <1>4, <2>1 DEF Reading
<1>6. Answer(s)'
    BY <1>1, <1>2, <1>3 DEF Answer, Past
<1>7. Holding(s)'
    BY <1>1, <1>2, <1>3 DEF Holding, Past
<1> QED BY <1>5, <1>6, <1>7

LEMMA FullPage ==
    ASSUME TypeOK, SyncInv, AskedInv, NEW s \in Syncs, NextPage(s) \/ TooManyPages(s)
    PROVE  Reading(s)' /\ Answer(s)' /\ Holding(s)'
<1> USE DEF TypeOK, Goto
<1>1. Reading(s) /\ Answer(s) /\ Holding(s) /\ range[s] \in Ranges /\ range[s].start <= range[s].end
    BY DEF SyncInv, AskedInv, Asked, NextPage, TooManyPages
<1>2. PICK p \in Pages : /\ HasMore(p) /\ pc[s] = "fetch"
                         /\ received' = [received EXCEPT ![s] = Got(s, p)]
                         /\ bad' = [bad EXCEPT ![s] = Bad(s, p)]
    BY DEF NextPage, TooManyPages
<1>3. Len(received'[s]) + bad'[s] = (page[s] - 1) * PageSize + PageSize
    <2>1. Len(received'[s]) + bad'[s] = Len(received[s]) + bad[s] + Len(p)
        BY <1>2, PageAdds
    <2>2. Len(p) = PageSize
        BY <1>2 DEF HasMore
    <2>3. Len(received[s]) + bad[s] = (page[s] - 1) * PageSize
        BY <1>1, <1>2 DEF Reading
    <2> QED BY <2>1, <2>2, <2>3
<1>4. (page[s] - 1) * PageSize + PageSize = page[s] * PageSize
    BY SyncConstants
<1>5. UNCHANGED <<candles, range, rows, todo, existing, result, tx>>
    BY DEF NextPage, TooManyPages, writeVars
<1>6. MaxPages(range[s]) \in Nat
    BY <1>1, FirstPageIsAllowed
<1>7. CASE NextPage(s)
    <2>1. pc' = pc /\ page'[s] = page[s] + 1 /\ page[s] < MaxPages(range[s])
        BY <1>7 DEF NextPage
    <2>2. Reading(s)'
        <3>1. page'[s] - 1 = page[s]
            BY <2>1
        <3>2. page'[s] >= 1 /\ page'[s] <= MaxPages(range[s])
            BY <2>1, <1>6
        <3> QED BY <1>2, <1>3, <1>4, <1>5, <2>1, <3>1, <3>2 DEF Reading
    <2> QED BY <1>1, <1>2, <1>5, <2>1, <2>2 DEF Answer, Holding, Past
<1>8. CASE TooManyPages(s)
    <2>1. pc'[s] = "exceeded" /\ page[s] = MaxPages(range[s])
        BY <1>8 DEF TooManyPages
    <2>2. Reading(s)'
        BY <1>3, <1>4, <1>5, <2>1 DEF Reading
    <2> QED BY <1>1, <1>2, <1>5, <2>1, <2>2 DEF Answer, Holding, Past
<1> QED BY <1>7, <1>8

\* The fields of the result that the last page leaves.
LEMMA LastPageKeeps ==
    ASSUME TypeOK, SyncInv, AskedInv, NEW s \in Syncs, LastPage(s)
    PROVE  Reading(s)' /\ Answer(s)' /\ Holding(s)'
<1> USE DEF TypeOK, Goto
<1>1. Reading(s) /\ Answer(s) /\ Holding(s) /\ pc[s] = "fetch" /\ range[s] \in Ranges
    BY DEF SyncInv, AskedInv, Asked, LastPage
<1>2. PICK p \in Pages : LET kept == Normalized(Got(s, p), range[s]) IN
          /\ bad' = [bad EXCEPT ![s] = Bad(s, p)]
          /\ rows' = [rows EXCEPT ![s] = kept]
          /\ result' = [result EXCEPT ![s] =
                [received |-> Len(Got(s, p)),
                 rejected |-> Bad(s, p) + Rejected(Got(s, p), range[s]),
                 times |-> TimesOf(kept), gaps |-> Gaps(TimesOf(kept), range[s])]]
          /\ pc' = [pc EXCEPT ![s] = IF kept = {} THEN "commit" ELSE "select"]
    BY DEF LastPage
<1> DEFINE kept == Normalized(Got(s, p), range[s])
           times == TimesOf(kept)
<1>3. UNCHANGED <<candles, range, existing, tx>>
    BY DEF LastPage
<1>4. Got(s, p) \in Seq(Candle) /\ Bad(s, p) \in Nat /\ Len(Got(s, p)) \in Nat
    BY PageAdds
<1>5. /\ kept \subseteq Candle /\ IsFiniteSet(kept)
      /\ \A c \in kept : c.at \in Nat /\ Aligned(c.at) /\ range[s].start <= c.at /\ c.at <= range[s].end
      /\ \A c, d \in kept : c.at = d.at => c = d
    BY <1>1, <1>4, KeptType
<1> HIDE DEF kept
<1>6. IsFiniteSet(times) /\ Cardinality(times) = Cardinality(kept) /\ Cardinality(kept) \in Nat
    BY <1>5, TimesAreAsMany
<1>7. /\ times \subseteq Nat
      /\ \A t \in times : Aligned(t) /\ range[s].start <= t /\ t <= range[s].end
      /\ \A c \in kept : c.at \in times
    BY <1>5 DEF TimesOf
<1> HIDE DEF times
<1>8. /\ result'[s].received = Len(Got(s, p)) /\ bad'[s] = Bad(s, p)
      /\ result'[s].rejected = Bad(s, p) + Rejected(Got(s, p), range[s])
      /\ result'[s].times = times /\ result'[s].gaps = Gaps(times, range[s])
    BY <1>2 DEF kept, times
<1>9. /\ pc'[s] = IF kept = {} THEN "commit" ELSE "select"
      /\ rows'[s] = kept /\ tx'[s] = {}
    <2>1. tx[s] = {}
        BY <1>1 DEF Holding
    <2> QED BY <1>2, <1>3, <2>1 DEF kept
<1>10. Reading(s)'
    BY <1>9 DEF Reading
<1>11. Answer(s)'
    <2>1. result'[s].received + bad'[s] = Cardinality(times) + result'[s].rejected
        <3>1. /\ Cardinality(kept) + Rejected(Got(s, p), range[s]) = Len(Got(s, p))
              /\ Rejected(Got(s, p), range[s]) \in Nat
            BY <1>1, <1>4, KeptOrRejected DEF kept
        <3> QED BY <1>4, <1>6, <1>8, <3>1
    <2>2. pc'[s] \in Past
        BY <1>9 DEF Past
    <2> QED BY <1>3, <1>6, <1>7, <1>8, <2>1, <2>2 DEF Answer
<1>12. Holding(s)'
    <2>1. existing'[s] \subseteq TimesOf(candles)
        BY <1>1, <1>3 DEF Holding
    <2> QED BY <1>3, <1>5, <1>7, <1>8, <1>9, <2>1 DEF Holding
<1> QED BY <1>10, <1>11, <1>12

LEMMA WritingKeeps ==
    ASSUME TypeOK, SyncInv, NEW s \in Syncs, SelectOne(s) \/ UpsertOne(s) \/ Commit(s) \/ Fail(s)
    PROVE  Reading(s)' /\ Answer(s)' /\ Holding(s)'
<1> USE DEF TypeOK, Goto
<1>1. Reading(s) /\ Answer(s) /\ Holding(s)
    BY DEF SyncInv
<1>2. CASE SelectOne(s)
    <2>1. PICK t \in todo[s] :
              /\ existing' = [existing EXCEPT ![s] = IF t \in TimesOf(candles) THEN @ \cup {t} ELSE @]
              /\ pc' = [pc EXCEPT ![s] = IF todo[s] = {t} THEN "upsert" ELSE "select"]
        BY <1>2 DEF SelectOne
    <2>2. pc[s] = "select" /\ UNCHANGED <<candles, range, page, received, bad, rows, result, tx>>
        BY <1>2 DEF SelectOne, fetchVars
    <2>3. existing'[s] \subseteq TimesOf(candles) /\ pc'[s] \in {"select", "upsert"}
        BY <1>1, <2>1 DEF Holding
    <2>4. Reading(s)'
        BY <2>3 DEF Reading
    <2>5. Answer(s)'
        BY <1>1, <2>2, <2>3 DEF Answer, Past
    <2>6. Holding(s)'
        BY <1>1, <2>2, <2>3 DEF Holding, Past
    <2> QED BY <2>4, <2>5, <2>6
<1>3. CASE UpsertOne(s)
    <2>1. PICK c \in NextRow(s) :
              /\ tx' = [tx EXCEPT ![s] = {d \in @ : d.at # c.at} \cup {c}]
              /\ rows' = [rows EXCEPT ![s] = @ \ {c}]
              /\ pc' = [pc EXCEPT ![s] = IF rows[s] = {c} THEN "commit" ELSE "upsert"]
        BY <1>3 DEF UpsertOne
    <2>2. pc[s] = "upsert" /\ UNCHANGED <<candles, range, page, received, bad, existing, result>>
        BY <1>3 DEF UpsertOne, fetchVars
    <2>3. c \in rows[s] /\ \A d \in rows[s] : c.at <= d.at
        BY DEF NextRow
    <2>4. \A d \in rows[s] : d \in Candle /\ d.at \in Nat
        BY CandleFields
    <2>5. pc'[s] \in {"commit", "upsert"} /\ (pc'[s] = "commit" => rows'[s] = {})
        BY <2>1
    <2>6. rows'[s] = rows[s] \ {c} /\ tx'[s] \subseteq tx[s] \cup {c}
        BY <2>1
    <2>7. Reading(s)'
        BY <2>5 DEF Reading
    <2>8. Answer(s)'
        BY <1>1, <2>2, <2>5 DEF Answer, Past
    <2>9. \A d \in rows'[s] : c.at < d.at
        BY <1>1, <2>3, <2>4, <2>6 DEF Holding
    <2>10. Holding(s)'
        BY <1>1, <2>2, <2>3, <2>5, <2>6, <2>9 DEF Holding, Past
    <2> QED BY <2>7, <2>8, <2>10
<1>4. CASE Commit(s)
    <2>1. /\ pc[s] = "commit" /\ pc'[s] = "done" /\ tx'[s] = {}
          /\ UNCHANGED <<range, page, received, bad, rows, existing, result>>
        BY <1>4 DEF Commit, fetchVars, writeVars
    <2>2. TimesOf(candles) \subseteq TimesOf(candles')
        BY <1>4, SyncOneStep DEF Proceed, TimesStay, TimesOf
    <2>3. Reading(s)'
        BY <2>1 DEF Reading
    <2>4. Answer(s)'
        BY <1>1, <2>1 DEF Answer, Past
    <2>5. Holding(s)'
        BY <1>1, <2>1, <2>2 DEF Holding, Past
    <2> QED BY <2>3, <2>4, <2>5
<1>5. CASE Fail(s)
    <2>1. /\ pc'[s] = "failed" /\ tx'[s] = {} /\ rows'[s] = {} /\ existing'[s] = {}
          /\ result'[s] = None
        BY <1>5 DEF Fail
    <2> QED BY <2>1 DEF Reading, Answer, Holding, Past
<1> QED BY <1>2, <1>3, <1>4, <1>5

LEMMA SyncStep == TypeOK /\ AskedInv /\ SyncInv /\ [Next]_syncVars => SyncInv'
<1> SUFFICES ASSUME TypeOK, AskedInv, SyncInv, [Next]_syncVars PROVE SyncInv'
    OBVIOUS
<1>1. ASSUME NEW s \in Syncs, Start(s) \/ Proceed(s) \/ Fail(s) PROVE SyncInv'
    <2>1. Reading(s)' /\ Answer(s)' /\ Holding(s)'
        BY <1>1, StartKeeps, FullPage, LastPageKeeps, WritingKeeps DEF Proceed
    <2>2. ASSUME NEW q \in Syncs, q # s PROVE Reading(q)' /\ Answer(q)' /\ Holding(q)'
        BY <1>1, <2>2, SyncOneStep, OthersKeep
    <2> QED BY <2>1, <2>2 DEF SyncInv
<1>2. CASE Quiet \/ UNCHANGED syncVars
    <2>1. UNCHANGED syncVars
        BY <1>2 DEF Quiet
    <2>2. \A q \in Syncs : Mine(q)' = Mine(q)
        BY <2>1 DEF syncVars, Mine
    <2>3. TimesStay
        BY <2>1 DEF syncVars, TimesStay
    <2> QED BY <2>2, <2>3, OthersKeep DEF SyncInv
<1> QED BY <1>1, <1>2 DEF Next

LEMMA SyncCorrect == Spec => [](TypeOK /\ AskedInv /\ SyncInv)
<1>1. Init => TypeOK /\ AskedInv /\ SyncInv
    BY TypeStart, SyncStart
<1>2. TypeOK /\ AskedInv /\ SyncInv /\ [Next]_syncVars => (TypeOK /\ AskedInv /\ SyncInv)'
    BY TypeStep, AskedStep, SyncStep
<1> QED BY <1>1, <1>2, PTL DEF Spec

\* The next row to write lies after all that are written, so the rows that a
\* circle of syncs wait for would grow all the way round.
LEMMA NoCircle ==
    ASSUME TypeOK, SyncInv
    PROVE  NoWaitCycle
<1> SUFFICES ASSUME NEW S \in (SUBSET Syncs) \ {{}}, \A s \in S : \E q \in S : Waits(s, q)
             PROVE  FALSE
    BY DEF NoWaitCycle
<1> DEFINE awaited(s) == CHOOSE c \in NextRow(s) : TRUE
           f == [s \in S |-> awaited(s).at]
           T == {awaited(s).at : s \in S}
<1>1. ASSUME NEW s \in S
      PROVE  /\ awaited(s) \in NextRow(s) /\ awaited(s) \in rows[s] /\ awaited(s).at \in Nat
             /\ \A c \in NextRow(s) : c.at = awaited(s).at
    <2>1. PICK q \in S : Waits(s, q)
        OBVIOUS
    <2>2. PICK c \in NextRow(s) : TRUE
        BY <2>1 DEF Waits
    <2>3. awaited(s) \in NextRow(s)
        BY <2>2
    <2>4. \A d \in rows[s] : d \in Candle
        BY DEF TypeOK
    <2> HIDE DEF awaited
    <2> QED BY <2>3, <2>4, CandleFields DEF NextRow
<1>2. IsFiniteSet(T) /\ T \subseteq Int /\ T # {}
    <2>1. f \in Surjection(S, T)
        <3> HIDE DEF awaited
        <3> QED BY DEF Surjection
    <2>2. IsFiniteSet(S)
        BY SyncConstants, FS_Subset
    <2>3. IsFiniteSet(T)
        <3> HIDE DEF f, T
        <3> QED BY <2>1, <2>2, FS_Surjection
    <2> HIDE DEF awaited
    <2>4. T # {} /\ T \subseteq Int
        BY <1>1
    <2> QED BY <2>3, <2>4
<1>3. PICK m \in T : \A t \in T : t <= m
    <2> HIDE DEF T
    <2> QED BY <1>2, HasMaximum
<1>4. PICK s \in S : m = awaited(s).at
    BY <1>3
<1>5. PICK q \in S : Waits(s, q)
    OBVIOUS
<1> HIDE DEF awaited
<1>6. PICK c \in tx[q] : c.at = m
    BY <1>1, <1>4, <1>5 DEF Waits, TimesOf
<1>7. c.at < awaited(q).at
    BY <1>1, <1>6 DEF SyncInv, Holding
<1>8. awaited(q).at <= m
    BY <1>3
<1>9. m \in Nat /\ awaited(q).at \in Nat
    BY <1>1, <1>4
<1> QED BY <1>6, <1>7, <1>8, <1>9

\* No syncs, however many, wait for each other's rows in a circle.
THEOREM NoSyncDeadlock == Spec => []NoWaitCycle
BY SyncCorrect, NoCircle, PTL

\* A sync that is refused at the page bound was sent more rows than its range has
\* candles; a range that exactly fills its pages is not refused.
THEOREM PageBoundIsFair == Spec => []BoundIsFair
<1>1. TypeOK /\ AskedInv /\ SyncInv => BoundIsFair
    <2> SUFFICES ASSUME TypeOK, AskedInv, SyncInv, NEW s \in Syncs, pc[s] = "exceeded"
                 PROVE  Len(received[s]) + bad[s] > Estimated(range[s])
        BY DEF BoundIsFair
    <2>1. Len(received[s]) + bad[s] = MaxPages(range[s]) * PageSize
        BY DEF SyncInv, Reading
    <2>2. range[s] \in Ranges
        BY DEF AskedInv, Asked
    <2> QED BY <2>1, <2>2, PagesSuffice
<1> QED BY <1>1, SyncCorrect, PTL

\* Every row the exchange sent is counted once: as inserted, as updated or as
\* rejected.
THEOREM EveryRowIsCounted == Spec => []RowsAccounted
<1>1. TypeOK /\ SyncInv => RowsAccounted
    <2> SUFFICES ASSUME TypeOK, SyncInv, NEW s \in Syncs, pc[s] = "done"
                 PROVE  result[s].received + bad[s]
                          = Cardinality(Inserted(s)) + Cardinality(Updated(s)) + result[s].rejected
        BY DEF RowsAccounted
    <2> DEFINE t == result[s].times
               e == existing[s]
    <2>1. IsFiniteSet(t) /\ result[s].received + bad[s] = Cardinality(t) + result[s].rejected
        BY DEF SyncInv, Answer, Past
    <2> HIDE DEF t, e
    <2>2. /\ Cardinality(t \ e) = Cardinality(t) - Cardinality(t \cap e)
          /\ Cardinality(t) \in Nat
        BY <2>1, FS_Difference, FS_CardinalityType
    <2>3. Cardinality(t \cap e) \in Nat
        BY <2>1, FS_Intersection, FS_CardinalityType
    <2>4. Inserted(s) = t \ e /\ Updated(s) = t \cap e
        BY DEF Inserted, Updated, t, e
    <2>5. Cardinality(t \ e) + Cardinality(t \cap e) = Cardinality(t)
        BY <2>2, <2>3
    <2> QED BY <2>1, <2>4, <2>5
<1> QED BY <1>1, SyncCorrect, PTL

-------------------------------------------------------------------------------
\* Steps that leave the table and who is done alone.
LEMMA QuietSteps ==
    ASSUME TypeOK, SyncInv, [Next]_syncVars, \A s \in Syncs : ~Commit(s)
    PROVE  /\ candles' = candles
           /\ \A q \in Syncs : pc[q] = "done" => Mine(q)' = Mine(q)
<1>1. ASSUME NEW s \in Syncs, Start(s) \/ Proceed(s) \/ Fail(s)
      PROVE  /\ candles' = candles
             /\ \A q \in Syncs : pc[q] = "done" => Mine(q)' = Mine(q)
    <2>1. pc[s] # "done"
        BY <1>1 DEF Start, Proceed, NextPage, TooManyPages, LastPage, SelectOne, UpsertOne, Commit, Fail, InFlight
    <2> QED BY <1>1, <2>1, SyncOneStep
<1>2. CASE Quiet \/ UNCHANGED syncVars
    BY <1>2 DEF Quiet, syncVars, Mine
<1> QED BY <1>1, <1>2 DEF Next

LEMMA CommitShape ==
    ASSUME TypeOK, SyncInv, AskedInv, NEW s \in Syncs, Commit(s)
    PROVE  /\ candles' = {c \in candles : c.at \notin TimesOf(tx[s])} \cup tx[s]
           /\ \A q \in Syncs : pc[q] = "done" => Mine(q)' = Mine(q)
           /\ pc'[s] = "done" /\ range'[s] = range[s] /\ Inserted(s)' = Inserted(s)
           /\ \A c \in tx[s] : /\ c.at \in result[s].times /\ Aligned(c.at)
                               /\ range[s].start <= c.at /\ c.at <= range[s].end
           /\ \A c, d \in tx[s] : c.at = d.at => c = d
           /\ existing[s] \subseteq TimesOf(candles)
<1>1. Answer(s) /\ Holding(s)
    BY DEF SyncInv
<1>2. pc[s] = "commit" /\ pc[s] \in Past
    BY DEF Commit, Past
<1>3. \A q \in Syncs : pc[q] = "done" => Mine(q)' = Mine(q)
    BY <1>2, SyncOneStep DEF Proceed
<1>4. pc'[s] = "done" /\ UNCHANGED <<range, result, existing>>
    BY DEF Commit, Goto, TypeOK, writeVars
<1>5. candles' = {c \in candles : c.at \notin TimesOf(tx[s])} \cup tx[s]
    BY DEF Commit
<1> QED BY <1>1, <1>2, <1>3, <1>4, <1>5 DEF Answer, Holding, Inserted

LEMMA StoredStep == TypeOK /\ AskedInv /\ SyncInv /\ StoredOnce /\ [Next]_syncVars => StoredOnce'
<1> SUFFICES ASSUME TypeOK, AskedInv, SyncInv, StoredOnce, [Next]_syncVars PROVE StoredOnce'
    OBVIOUS
<1>1. ASSUME \A s \in Syncs : ~Commit(s) PROVE StoredOnce'
    BY <1>1, QuietSteps DEF StoredOnce, Mine
<1>2. ASSUME NEW s \in Syncs, Commit(s) PROVE StoredOnce'
    <2>1. ASSUME NEW c \in candles'
          PROVE  /\ Aligned(c.at)
                 /\ \E q \in Syncs : pc'[q] = "done" /\ range'[q].start <= c.at /\ c.at <= range'[q].end
        <3>1. CASE c \in tx[s]
            BY <1>2, <3>1, CommitShape
        <3>2. CASE c \in candles
            BY <1>2, <3>2, CommitShape DEF StoredOnce, Mine
        <3> QED BY <1>2, <3>1, <3>2, CommitShape
    <2>2. ASSUME NEW c \in candles', NEW d \in candles', c.at = d.at PROVE c = d
        BY <1>2, <2>2, CommitShape DEF StoredOnce, TimesOf
    <2> QED BY <2>1, <2>2 DEF StoredOnce
<1> QED BY <1>1, <1>2

\* However syncs overlap and whatever their pages held, the table has one candle
\* at most for a time, on the grid and asked for.
THEOREM CandlesAreStoredOnce == Spec => []StoredOnce
<1>1. Init => StoredOnce
    BY DEF Init, StoredOnce
<1> QED BY <1>1, StoredStep, SyncCorrect, PTL DEF Spec

LEMMA CountedStep ==
    TypeOK /\ AskedInv /\ SyncInv /\ NothingUncounted /\ [Next]_syncVars => NothingUncounted'
<1> SUFFICES ASSUME TypeOK, AskedInv, SyncInv, NothingUncounted, [Next]_syncVars
             PROVE  NothingUncounted'
    OBVIOUS
<1>0. ASSUME NEW q \in Syncs, Mine(q)' = Mine(q) PROVE Inserted(q)' = Inserted(q) /\ pc'[q] = pc[q]
    BY <1>0 DEF Mine, Inserted
<1>1. ASSUME \A s \in Syncs : ~Commit(s) PROVE NothingUncounted'
    BY <1>0, <1>1, QuietSteps DEF NothingUncounted
<1>2. ASSUME NEW s \in Syncs, Commit(s) PROVE NothingUncounted'
    <2>1. ASSUME NEW c \in candles PROVE \E q \in Syncs : pc'[q] = "done" /\ c.at \in Inserted(q)'
        BY <1>0, <1>2, CommitShape DEF NothingUncounted
    <2>2. ASSUME NEW c \in tx[s] PROVE \E q \in Syncs : pc'[q] = "done" /\ c.at \in Inserted(q)'
        <3>1. CASE c.at \in existing[s]
            BY <1>2, <2>1, <3>1, CommitShape DEF TimesOf
        <3>2. CASE c.at \notin existing[s]
            <4>1. c.at \in Inserted(s)
                BY <1>2, <3>2, CommitShape DEF Inserted
            <4> QED BY <1>2, <4>1, CommitShape
        <3> QED BY <3>1, <3>2
    <2>3. candles' \subseteq candles \cup tx[s]
        BY <1>2, CommitShape
    <2> QED BY <2>1, <2>2, <2>3 DEF NothingUncounted
<1> QED BY <1>1, <1>2

\* Every stored candle was counted as inserted by a sync that ended, also when a
\* sync that had written it before failed.
THEOREM NoCandleUncounted == Spec => []NothingUncounted
<1>1. Init => NothingUncounted
    BY DEF Init, NothingUncounted
<1> QED BY <1>1, CountedStep, SyncCorrect, PTL DEF Spec

(***************************************************************************)
(* The gaps.  Times on the grid are multiples of the duration; a gap of    *)
(* a number of candles covers the grid points between two of them.         *)
(***************************************************************************)

LEMMA WholeMultiple ==
    ASSUME NEW k \in Int
    PROVE  (k * Duration) \div Duration = k /\ (k * Duration) % Duration = 0
<1> DEFINE x == k * Duration
           q == x \div Duration
           m == x % Duration
<1>0. Duration \in Nat \ {0}
    BY SyncConstants
<1>1. x \in Int /\ x = k * Duration
    BY <1>0
<1> HIDE DEF x
<1>2. q \in Int /\ m \in 0..(Duration - 1) /\ x = Duration * q + m
    BY <1>0, <1>1
<1> HIDE DEF q, m
<1>3. (k - q) * Duration = m
    BY <1>0, <1>1, <1>2
<1>4. ASSUME k - q >= 1 PROVE FALSE
    <2>1. (k - q) * Duration >= Duration
        BY <1>0, <1>2, <1>4
    <2> QED BY <1>0, <1>2, <1>3, <2>1
<1>5. ASSUME k - q <= -1 PROVE FALSE
    <2>1. (k - q) * Duration <= -Duration
        BY <1>0, <1>2, <1>5
    <2> QED BY <1>0, <1>2, <1>3, <2>1
<1>6. k = q
    BY <1>2, <1>4, <1>5
<1>7. m = 0
    BY <1>0, <1>2, <1>3, <1>6
<1> QED BY <1>6, <1>7 DEF x, q, m

LEMMA AlignedIs ==
    ASSUME NEW t \in Int
    PROVE  Aligned(t) <=> \E k \in Int : t = k * Duration
<1>0. Duration \in Nat \ {0}
    BY SyncConstants
<1>1. ASSUME Aligned(t) PROVE \E k \in Int : t = k * Duration
    <2> DEFINE q == t \div Duration
               m == t % Duration
    <2>1. q \in Int /\ t = Duration * q + m
        BY <1>0
    <2>2. m = 0
        BY <1>1 DEF Aligned
    <2> HIDE DEF q, m
    <2> QED BY <1>0, <2>1, <2>2
<1> QED BY <1>1, WholeMultiple DEF Aligned

\* The order of multiples is that of their factors.
LEMMA FactorsOrder ==
    ASSUME NEW a \in Int, NEW b \in Int
    PROVE  a * Duration < b * Duration <=> a + 1 <= b
<1>0. Duration \in Nat \ {0} /\ (b - a) * Duration = b * Duration - a * Duration
      /\ a * Duration \in Int /\ b * Duration \in Int
    BY SyncConstants
<1>1. ASSUME b - a >= 1 PROVE (b - a) * Duration >= 1
    BY <1>0, <1>1
<1>2. ASSUME b - a <= 0 PROVE (b - a) * Duration <= 0
    BY <1>0, <1>2
<1> QED BY <1>0, <1>1, <1>2

\* The grid points from u on that lie before v.
Points(u, v) == {t \in Int : u <= t /\ t < v /\ Aligned(t)}

LEMMA NextPoint ==
    ASSUME NEW t \in Int, NEW u \in Int, Aligned(t), Aligned(u)
    PROVE  Aligned(t + Duration) /\ (t < u => t + Duration <= u)
<1>0. Duration \in Nat \ {0}
    BY SyncConstants
<1>1. PICK a \in Int, b \in Int : t = a * Duration /\ u = b * Duration
    BY AlignedIs
<1>2. t + Duration = (a + 1) * Duration
    BY <1>0, <1>1
<1>3. Aligned(t + Duration)
    BY <1>0, <1>2, AlignedIs
<1>4. ASSUME t < u PROVE t + Duration <= u
    <2>1. a + 1 <= b
        BY <1>1, <1>4, FactorsOrder
    <2>2. ~(b * Duration < (a + 1) * Duration)
        BY <2>1, FactorsOrder
    <2> QED BY <1>0, <1>1, <1>2, <2>2
<1> QED BY <1>3, <1>4

\* A gap of so many candles covers the grid from its start to its end.
LEMMA Span ==
    ASSUME NEW u \in Int, NEW v \in Int, Aligned(u), Aligned(v), u <= v, NEW kind
    PROVE  Covered(Gap(kind, u, (v - u) \div Duration)) = Points(u, v)
<1>0. Duration \in Nat \ {0}
    BY SyncConstants
<1>1. PICK a \in Int, b \in Int : u = a * Duration /\ v = b * Duration
    BY AlignedIs
<1>2. v - u = (b - a) * Duration
    BY <1>0, <1>1
<1>3. (v - u) \div Duration = b - a
    BY <1>2, WholeMultiple
<1>4. Covered(Gap(kind, u, b - a)) = {u + i * Duration : i \in 0..((b - a) - 1)}
    BY DEF Covered, Gap
<1>5. ASSUME NEW i \in 0..((b - a) - 1) PROVE u + i * Duration \in Points(u, v)
    <2>1. u + i * Duration = (a + i) * Duration /\ a + i \in Int
        BY <1>0, <1>1
    <2>2. (a + i) * Duration < b * Duration
        BY FactorsOrder
    <2>3. ~((a + i) * Duration < a * Duration)
        BY FactorsOrder
    <2>4. u + i * Duration \in Int
        BY <1>0
    <2> QED BY <1>0, <1>1, <2>1, <2>2, <2>3, <2>4, AlignedIs DEF Points
<1>6. ASSUME NEW t \in Points(u, v) PROVE \E i \in 0..((b - a) - 1) : t = u + i * Duration
    <2>1. t \in Int /\ u <= t /\ t < v
        BY DEF Points
    <2>2. PICK k \in Int : t = k * Duration
        BY <2>1, AlignedIs DEF Points
    <2>3. k + 1 <= b
        BY <1>1, <2>1, <2>2, FactorsOrder
    <2>4. ~(k + 1 <= a)
        BY <1>0, <1>1, <2>1, <2>2, FactorsOrder
    <2>5. k - a \in 0..((b - a) - 1)
        BY <2>3, <2>4
    <2>6. t = u + (k - a) * Duration
        BY <1>0, <1>1, <2>2
    <2> QED BY <2>5, <2>6
<1> QED BY <1>3, <1>4, <1>5, <1>6

\* The candles of a range are its grid up to one step after its end.
LEMMA RangeSpan ==
    ASSUME NEW r \in Ranges, r.start <= r.end, Aligned(r.start), Aligned(r.end)
    PROVE  /\ Grid(r) = Points(r.start, r.end + Duration)
           /\ Covered(Gap("empty", r.start, Estimated(r))) = Grid(r)
<1>0. Duration \in Nat \ {0} /\ r.start \in Nat /\ r.end \in Nat
    BY SyncConstants
<1>1. PICK a \in Int, b \in Int : r.start = a * Duration /\ r.end = b * Duration
    BY <1>0, AlignedIs
<1>2. /\ r.end - r.start = (b - a) * Duration
      /\ (r.end + Duration) - r.start = ((b - a) + 1) * Duration
    BY <1>0, <1>1
<1>3. Estimated(r) = ((r.end + Duration) - r.start) \div Duration
    BY <1>2, WholeMultiple DEF Estimated
<1>4. Aligned(r.end + Duration)
    BY <1>0, NextPoint
<1>5. ASSUME NEW t \in Int, Aligned(t), t < r.end + Duration PROVE t <= r.end
    BY <1>0, <1>5, NextPoint
<1>6. Grid(r) = Points(r.start, r.end + Duration)
    BY <1>0, <1>5 DEF Grid, Points
<1>7. Covered(Gap("empty", r.start, Estimated(r))) = Points(r.start, r.end + Duration)
    <2> DEFINE u == r.start
               v == r.end + Duration
    <2>1. u \in Int /\ v \in Int /\ u <= v /\ Aligned(u) /\ Aligned(v) /\ Estimated(r) = (v - u) \div Duration
        BY <1>0, <1>3, <1>4
    <2> HIDE DEF u, v
    <2>2. Covered(Gap("empty", u, (v - u) \div Duration)) = Points(u, v)
        BY <2>1, Span
    <2>3. Covered(Gap("empty", u, Estimated(r))) = Points(u, v)
        BY <2>1, <2>2
    <2> QED BY <2>3 DEF u, v
<1> QED BY <1>6, <1>7

-------------------------------------------------------------------------------
\* The three kinds of gaps of a nonempty set of times.
LeadingGap(T, r)  == Gap("leading", r.start, (Min(T) - r.start) \div Duration)
InternalGap(T, t) == Gap("internal", t + Duration,
                         (After(T, t) - (t + Duration)) \div Duration)
TrailingGap(T, r) == Gap("trailing", Max(T) + Duration, (r.end - Max(T)) \div Duration)
Holes(T)          == {t \in T \ {Max(T)} : After(T, t) > t + Duration}

Within(T, r) ==
    /\ IsFiniteSet(T) /\ T \subseteq Nat
    /\ \A t \in T : Aligned(t) /\ r.start <= t /\ t <= r.end

LEMMA AfterIs ==
    ASSUME NEW T, IsFiniteSet(T), T \subseteq Nat, NEW t \in Int, \E u \in T : u > t
    PROVE  After(T, t) \in T /\ After(T, t) > t /\ \A u \in T : u > t => After(T, t) <= u
<1> DEFINE U == {u \in T : u > t}
<1>1. U \in SUBSET T /\ U # {} /\ U \subseteq Int
    <2>1. PICK u \in T : u > t
        OBVIOUS
    <2>2. \A x \in T : x \in Int
        OBVIOUS
    <2> QED BY <2>1, <2>2
<1>2. IsFiniteSet(U)
    <2> HIDE DEF U
    <2> QED BY <1>1, FS_Subset
<1>3. Min(U) \in U /\ \A x \in U : Min(U) <= x
    <2> HIDE DEF U
    <2> QED BY <1>1, <1>2, MinIs
<1> QED BY <1>3 DEF After

LEMMA GapsAre ==
    ASSUME NEW T, T # {}, NEW r
    PROVE  Gaps(T, r) = (IF Min(T) > r.start THEN {LeadingGap(T, r)} ELSE {})
                        \cup {InternalGap(T, t) : t \in Holes(T)}
                        \cup (IF Max(T) < r.end THEN {TrailingGap(T, r)} ELSE {})
BY DEF Gaps, LeadingGap, InternalGap, TrailingGap, Holes

LEMMA GapSpans ==
    ASSUME NEW r \in Ranges, Aligned(r.start), Aligned(r.end), NEW T, T # {}, Within(T, r)
    PROVE  /\ Min(T) \in T /\ Max(T) \in T /\ \A t \in T : Min(T) <= t /\ t <= Max(T)
           /\ Min(T) > r.start => Covered(LeadingGap(T, r)) = Points(r.start, Min(T))
           /\ \A t \in T \ {Max(T)} :
                 After(T, t) \in T /\ After(T, t) > t /\ \A u \in T : u > t => After(T, t) <= u
           /\ \A t \in Holes(T) :
                 Covered(InternalGap(T, t)) = Points(t + Duration, After(T, t))
           /\ Max(T) < r.end =>
                 Covered(TrailingGap(T, r)) = Points(Max(T) + Duration, r.end + Duration)
<1>0. Duration \in Nat \ {0} /\ r.start \in Nat /\ r.end \in Nat
    BY SyncConstants
<1>1. IsFiniteSet(T) /\ T \subseteq Nat /\ T \subseteq Int /\ \A t \in T : Aligned(t)
    BY DEF Within
<1>2. Min(T) \in T /\ Max(T) \in T /\ \A t \in T : Min(T) <= t /\ t <= Max(T)
    BY <1>1, MinIs, MaxIs
<1>3. ASSUME Min(T) > r.start PROVE Covered(LeadingGap(T, r)) = Points(r.start, Min(T))
    <2> DEFINE m == Min(T)
    <2>1. m \in Int /\ Aligned(m) /\ m > r.start
        BY <1>1, <1>2, <1>3
    <2> HIDE DEF m
    <2>2. r.start <= m
        BY <1>0, <2>1
    <2>3. Covered(Gap("leading", r.start, (m - r.start) \div Duration)) = Points(r.start, m)
        BY <1>0, <2>1, <2>2, Span
    <2> QED BY <2>3 DEF LeadingGap, m
<1>4. ASSUME NEW t \in T \ {Max(T)}
      PROVE  After(T, t) \in T /\ After(T, t) > t /\ \A u \in T : u > t => After(T, t) <= u
    <2>1. t \in Int /\ Max(T) \in Int /\ t <= Max(T) /\ t # Max(T)
        BY <1>1, <1>2
    <2>2. Max(T) > t
        BY <2>1
    <2> QED BY <1>1, <1>2, <2>1, <2>2, AfterIs
<1>5. ASSUME NEW t \in Holes(T)
      PROVE  Covered(InternalGap(T, t)) = Points(t + Duration, After(T, t))
    <2> DEFINE u == t + Duration
               v == After(T, t)
    <2>1. t \in T \ {Max(T)} /\ v > u
        BY DEF Holes
    <2>2. v \in Int /\ Aligned(v) /\ t \in Int /\ Aligned(t)
        BY <1>1, <1>4, <2>1
    <2>3. u \in Int /\ Aligned(u)
        BY <1>0, <2>2, NextPoint
    <2>4. u <= v
        <3> HIDE DEF v
        <3> QED BY <2>1, <2>2, <2>3
    <2> HIDE DEF u, v
    <2>5. Covered(Gap("internal", u, (v - u) \div Duration)) = Points(u, v)
        BY <2>2, <2>3, <2>4, Span
    <2> QED BY <2>5 DEF InternalGap, u, v
<1>6. ASSUME Max(T) < r.end
      PROVE  Covered(TrailingGap(T, r)) = Points(Max(T) + Duration, r.end + Duration)
    <2> DEFINE m == Max(T)
               u == m + Duration
               v == r.end + Duration
    <2>1. m \in Int /\ Aligned(m) /\ m < r.end
        BY <1>1, <1>2, <1>6
    <2> HIDE DEF m
    <2>2. u \in Int /\ v \in Int /\ Aligned(u) /\ Aligned(v) /\ u <= v
        BY <1>0, <2>1, NextPoint
    <2>3. v - u = r.end - m
        BY <1>0, <2>1
    <2> HIDE DEF u, v
    <2>4. Covered(Gap("trailing", u, (v - u) \div Duration)) = Points(u, v)
        BY <2>2, Span
    <2>5. Covered(Gap("trailing", u, (r.end - m) \div Duration)) = Points(u, v)
        BY <2>3, <2>4
    <2> QED BY <2>5 DEF TrailingGap, m, u, v
<1> QED BY <1>2, <1>3, <1>4, <1>5, <1>6

\* A grid point without a candle lies before the first, after the last, or in the
\* hole that follows the last candle before it.
LEMMA MissingIsCovered ==
    ASSUME NEW r \in Ranges, r.start <= r.end, Aligned(r.start), Aligned(r.end),
           NEW T, T # {}, Within(T, r), NEW x \in Grid(r) \ T
    PROVE  \E g \in Gaps(T, r) : x \in Covered(g)
<1>0. Duration \in Nat \ {0} /\ r.start \in Nat /\ r.end \in Nat
    BY SyncConstants
<1>1. x \in Int /\ r.start <= x /\ x <= r.end /\ Aligned(x) /\ x \notin T
    BY <1>0 DEF Grid
<1>2. IsFiniteSet(T) /\ T \subseteq Nat /\ \A t \in T : t \in Int /\ Aligned(t)
    BY DEF Within
<1>3. Min(T) \in T /\ Max(T) \in T /\ \A t \in T : Min(T) <= t /\ t <= Max(T)
    BY GapSpans
<1>4. CASE x < Min(T)
    <2> DEFINE m == Min(T)
    <2>1. m \in Int /\ x < m
        BY <1>2, <1>3, <1>4
    <2> HIDE DEF m
    <2>2. m > r.start /\ x \in Points(r.start, m)
        BY <1>0, <1>1, <2>1 DEF Points
    <2>3. LeadingGap(T, r) \in Gaps(T, r) /\ x \in Covered(LeadingGap(T, r))
        BY <2>2, GapSpans, GapsAre DEF m
    <2> QED BY <2>3
<1>5. CASE x > Max(T)
    <2> DEFINE m == Max(T)
    <2>1. m \in Int /\ Aligned(m) /\ m < x
        BY <1>2, <1>3, <1>5
    <2> HIDE DEF m
    <2>2. m < r.end /\ m + Duration <= x
        BY <1>0, <1>1, <2>1, NextPoint
    <2>3. x \in Points(m + Duration, r.end + Duration)
        BY <1>0, <1>1, <2>2 DEF Points
    <2>4. TrailingGap(T, r) \in Gaps(T, r) /\ x \in Covered(TrailingGap(T, r))
        BY <2>2, <2>3, GapSpans, GapsAre DEF m
    <2> QED BY <2>4
<1>6. CASE Min(T) < x /\ x < Max(T)
    <2> DEFINE B == {u \in T : u < x}
               t == Max(B)
    <2>1. B \in SUBSET T /\ B \subseteq Int /\ Min(T) \in B
        BY <1>2, <1>3, <1>6
    <2>2. IsFiniteSet(B)
        <3> HIDE DEF B
        <3> QED BY <1>2, <2>1, FS_Subset
    <2>3. t \in B /\ \A u \in B : u <= t
        <3> HIDE DEF B
        <3> QED BY <2>1, <2>2, MaxIs
    <2>4. t \in T /\ t < x /\ \A u \in T : u < x => u <= t
        BY <2>3
    <2> HIDE DEF t, B
    <2>5. t \in Int /\ Max(T) \in Int
        BY <1>2, <1>3, <2>4
    <2>6. t \in T \ {Max(T)}
        BY <1>1, <1>6, <2>4, <2>5
    <2> DEFINE v == After(T, t)
    <2>7. v \in T /\ v > t
        BY <2>6, GapSpans
    <2> HIDE DEF v
    <2>8. v \in Int /\ v # x /\ ~(v < x)
        BY <1>1, <1>2, <2>4, <2>5, <2>7
    <2>9. t + Duration <= x
        BY <1>1, <1>2, <2>4, NextPoint
    <2>10. v > t + Duration /\ x < v
        BY <1>0, <1>1, <2>5, <2>8, <2>9
    <2>11. t \in Holes(T) /\ x \in Points(t + Duration, After(T, t))
        BY <1>1, <2>6, <2>9, <2>10 DEF Holes, Points, v
    <2>12. InternalGap(T, t) \in Gaps(T, r) /\ x \in Covered(InternalGap(T, t))
        BY <2>11, GapSpans, GapsAre
    <2> QED BY <2>12
<1>7. Min(T) \in Int /\ Max(T) \in Int /\ x # Min(T) /\ x # Max(T)
    BY <1>1, <1>2, <1>3
<1> QED BY <1>1, <1>4, <1>5, <1>6, <1>7

\* Where a point lies that a gap covers.
LEMMA CoveredLies ==
    ASSUME NEW r \in Ranges, r.start <= r.end, Aligned(r.start), Aligned(r.end),
           NEW T, T # {}, Within(T, r), NEW g \in Gaps(T, r), NEW x \in Covered(g)
    PROVE  /\ x \in Int /\ Aligned(x) /\ r.start <= x /\ x < r.end + Duration
           /\ \/ g = LeadingGap(T, r) /\ x < Min(T)
              \/ \E t \in Holes(T) : g = InternalGap(T, t) /\ t < x /\ x < After(T, t)
              \/ g = TrailingGap(T, r) /\ Max(T) < x
<1>0. Duration \in Nat \ {0} /\ r.start \in Nat /\ r.end \in Nat
    BY SyncConstants
<1>1. \A t \in T : t \in Int /\ r.start <= t /\ t <= r.end
    BY DEF Within
<1>2. Min(T) \in T /\ Max(T) \in T
    BY GapSpans
<1>3. CASE Min(T) > r.start /\ g = LeadingGap(T, r)
    <2>1. x \in Points(r.start, Min(T))
        BY <1>3, GapSpans
    <2> QED BY <1>0, <1>1, <1>2, <1>3, <2>1 DEF Points
<1>4. ASSUME NEW t \in Holes(T), g = InternalGap(T, t)
      PROVE  /\ x \in Int /\ Aligned(x) /\ r.start <= x /\ x < r.end + Duration
             /\ t < x /\ x < After(T, t)
    <2>1. x \in Points(t + Duration, After(T, t))
        BY <1>4, GapSpans
    <2>2. t \in T /\ After(T, t) \in T
        BY GapSpans DEF Holes
    <2> QED BY <1>0, <1>1, <2>1, <2>2 DEF Points
<1>5. CASE Max(T) < r.end /\ g = TrailingGap(T, r)
    <2>1. x \in Points(Max(T) + Duration, r.end + Duration)
        BY <1>5, GapSpans
    <2> QED BY <1>0, <1>1, <1>2, <1>5, <2>1 DEF Points
<1>6. \/ Min(T) > r.start /\ g = LeadingGap(T, r)
      \/ \E t \in Holes(T) : g = InternalGap(T, t)
      \/ Max(T) < r.end /\ g = TrailingGap(T, r)
    BY GapsAre
<1> QED BY <1>3, <1>4, <1>5, <1>6

LEMMA GapsAreExact ==
    ASSUME NEW r \in Ranges, r.start <= r.end, Aligned(r.start), Aligned(r.end),
           NEW T, Within(T, r)
    PROVE  /\ UNION {Covered(g) : g \in Gaps(T, r)} = Grid(r) \ T
           /\ \A g, h \in Gaps(T, r) : g # h => Covered(g) \cap Covered(h) = {}
<1>0. Duration \in Nat \ {0} /\ r.start \in Nat /\ r.end \in Nat
    BY SyncConstants
<1>1. CASE T = {}
    <2>1. Gaps(T, r) = {Gap("empty", r.start, Estimated(r))}
        BY <1>1 DEF Gaps
    <2>2. Covered(Gap("empty", r.start, Estimated(r))) = Grid(r)
        BY RangeSpan
    <2> QED BY <1>1, <2>1, <2>2
<1>2. CASE T # {}
    <2>1. /\ Min(T) \in T /\ Max(T) \in T /\ \A t \in T : Min(T) <= t /\ t <= Max(T)
          /\ \A t \in T \ {Max(T)} :
                After(T, t) \in T /\ After(T, t) > t /\ \A u \in T : u > t => After(T, t) <= u
        BY <1>2, GapSpans
    <2>2. \A t \in T : t \in Int
        BY DEF Within
    <2>3. Holes(T) \subseteq T \ {Max(T)}
        BY DEF Holes
    <2>4. ASSUME NEW g \in Gaps(T, r), NEW x \in Covered(g) PROVE x \in Grid(r) \ T
        <3>1. x \in Grid(r)
            BY <1>2, CoveredLies, RangeSpan DEF Points
        <3>2. x \notin T
            BY <1>2, <2>1, <2>2, <2>3, CoveredLies
        <3> QED BY <3>1, <3>2
    <2>5. ASSUME NEW x \in Grid(r) \ T PROVE \E g \in Gaps(T, r) : x \in Covered(g)
        BY <1>2, MissingIsCovered
    <2>6. ASSUME NEW g \in Gaps(T, r), NEW h \in Gaps(T, r), NEW x \in Covered(g), x \in Covered(h)
          PROVE  g = h
        <3>0. x \in Int
            BY <1>2, CoveredLies
        <3>1. \/ g = LeadingGap(T, r) /\ x < Min(T)
              \/ \E t \in Holes(T) : g = InternalGap(T, t) /\ t < x /\ x < After(T, t)
              \/ g = TrailingGap(T, r) /\ Max(T) < x
            BY <1>2, CoveredLies
        <3>2. \/ h = LeadingGap(T, r) /\ x < Min(T)
              \/ \E t \in Holes(T) : h = InternalGap(T, t) /\ t < x /\ x < After(T, t)
              \/ h = TrailingGap(T, r) /\ Max(T) < x
            BY <1>2, <2>6, CoveredLies
        <3>3. ASSUME NEW t \in Holes(T), t < x, x < After(T, t)
              PROVE  ~(x < Min(T)) /\ ~(Max(T) < x)
            BY <2>1, <2>2, <2>3, <3>0, <3>3
        <3>4. ASSUME NEW t \in Holes(T), t < x, x < After(T, t),
                     NEW u \in Holes(T), u < x, x < After(T, u)
              PROVE  t = u
            BY <2>1, <2>2, <2>3, <3>0, <3>4
        <3>5. ~(x < Min(T) /\ Max(T) < x)
            BY <2>1, <2>2, <3>0
        <3> QED BY <3>1, <3>2, <3>3, <3>4, <3>5
    <2>7. UNION {Covered(g) : g \in Gaps(T, r)} = Grid(r) \ T
        BY <2>4, <2>5
    <2> QED BY <2>6, <2>7
<1> QED BY <1>1, <1>2

\* docs/market-data.md:14-15.  The gaps a sync reports are disjoint and cover
\* exactly the candles of its range that it did not get, for every duration and
\* whatever was received.
THEOREM ReportedGapsAreExact == Spec => []GapsExact
<1>1. TypeOK /\ AskedInv /\ SyncInv => GapsExact
    <2> SUFFICES ASSUME TypeOK, AskedInv, SyncInv, NEW s \in Syncs, result[s] # None
                 PROVE  /\ UNION {Covered(g) : g \in result[s].gaps} = Grid(range[s]) \ result[s].times
                        /\ \A g, h \in result[s].gaps : g # h => Covered(g) \cap Covered(h) = {}
        BY DEF GapsExact
    <2>1. pc[s] \in Past
        BY DEF SyncInv, Answer
    <2>2. /\ range[s] \in Ranges /\ range[s].start <= range[s].end
          /\ Aligned(range[s].start) /\ Aligned(range[s].end)
        BY <2>1 DEF AskedInv, Asked, Past
    <2>3. Within(result[s].times, range[s]) /\ result[s].gaps = Gaps(result[s].times, range[s])
        BY <2>1 DEF SyncInv, Answer, Within
    <2> QED BY <2>2, <2>3, GapsAreExact
<1> QED BY <1>1, SyncCorrect, PTL
===============================================================================
