----------------------------- MODULE Ledger_proofs ----------------------------
(***************************************************************************)
(* What holds of the account, the kill switch and the risk row.            *)
(* 1. For requests that overlap in any way: a divergence of the account    *)
(* from its fills is reported, and a kill stops what has not passed the    *)
(* last check.                                                             *)
(* 2. For requests that do not overlap (MaxInFlight = 1): the account is   *)
(* exactly what its fills say, no alarm is false, KILLED is left only by   *)
(* reset-kill, and the trading core implements PaperLedger.                *)
(* 3. If moreover one symbol is traded, the equity and the count of open   *)
(* positions that the risk rules see are those of the account.             *)
(***************************************************************************)
EXTENDS TradingCycle_proofs, FiniteSetTheorems

(***************************************************************************)
(* Sums over a finite set.  The model sums with MapThenSumSet, whose function*)
(* is chosen; Sums says which functions are eligible, and SmallestSubset, a*)
(* smallest counterexample, takes the place of induction over the set.     *)
(***************************************************************************)

\* A nonempty set of subsets of a finite set has a smallest one.
LEMMA SmallestSubset ==
    ASSUME NEW S, IsFiniteSet(S), NEW C, C \subseteq SUBSET S, C # {}
    PROVE  \E R \in C : \A Q \in C : Q \subseteq R => Q = R
<1>1. IsWellFoundedOn(StrictSubsetOrdering(S), SUBSET S)
    BY FS_StrictSubsetOrderingWellFounded, FS_FiniteSubsetsOfFinite
<1>2. PICK R \in C : \A Q \in C : <<Q, R>> \notin StrictSubsetOrdering(S)
    BY <1>1, WFMin
<1>3. ASSUME NEW Q \in C, Q \subseteq R PROVE Q = R
    BY <1>2, <1>3 DEF StrictSubsetOrdering
<1> QED BY <1>3

Pick(s) == CHOOSE x \in s : TRUE

\* g sums w over every subset of S, one element after another.
Sums(g, S, w) ==
    g = [s \in SUBSET S |-> IF s = {} THEN 0 ELSE w[Pick(s)] + g[s \ {Pick(s)}]]

Total(w, S) == (CHOOSE g : Sums(g, S, w))[S]

LEMMA PickIn == ASSUME NEW s, s # {} PROVE Pick(s) \in s
BY DEF Pick

LEMMA SumsAt ==
    ASSUME NEW S, NEW w, NEW g, Sums(g, S, w)
    PROVE  /\ g[{}] = 0
           /\ \A s \in SUBSET S : s # {} =>
                 Pick(s) \in s /\ g[s] = w[Pick(s)] + g[s \ {Pick(s)}]
<1> DEFINE at(s) == IF s = {} THEN 0 ELSE w[Pick(s)] + g[s \ {Pick(s)}]
<1>1. g = [s \in SUBSET S |-> at(s)]
    BY DEF Sums
<1> HIDE DEF at
<1>2. \A s \in SUBSET S : g[s] = at(s)
    BY <1>1
<1> QED BY <1>2, PickIn DEF at

\* Two functions that sum the same weights agree on what both sum.
LEMMA SumsAgree ==
    ASSUME NEW S, IsFiniteSet(S), NEW T, NEW w, NEW v, NEW g, NEW h,
           Sums(g, S, w), Sums(h, T, v), S \subseteq T, \A x \in S : w[x] = v[x]
    PROVE  \A s \in SUBSET S : g[s] = h[s]
<1> DEFINE C == {s \in SUBSET S : g[s] # h[s]}
<1> SUFFICES ASSUME C # {} PROVE FALSE
    OBVIOUS
<1>0. C \subseteq SUBSET S
    OBVIOUS
<1>1. PICK R \in C : \A Q \in C : Q \subseteq R => Q = R
    <2> HIDE DEF C
    <2> QED BY <1>0, SmallestSubset
<1>2. R \in SUBSET S /\ g[R] # h[R]
    OBVIOUS
<1>a. R # {} /\ R \in SUBSET T
    BY <1>2, SumsAt
<1>3. /\ Pick(R) \in R
      /\ g[R] = w[Pick(R)] + g[R \ {Pick(R)}]
      /\ h[R] = v[Pick(R)] + h[R \ {Pick(R)}]
    <2> HIDE DEF C
    <2> QED BY <1>2, <1>a, SumsAt
<1>4. R \ {Pick(R)} \notin C
    BY <1>1, <1>3
<1>5. g[R \ {Pick(R)}] = h[R \ {Pick(R)}] /\ w[Pick(R)] = v[Pick(R)]
    BY <1>3, <1>4
<1> QED BY <1>1, <1>3, <1>5

\* ... and there is one for every finite set.
LEMMA SumsExist ==
    ASSUME NEW S, IsFiniteSet(S), NEW w
    PROVE  \E g : Sums(g, S, w)
<1> DEFINE C == {s \in SUBSET S : ~\E g : Sums(g, s, w)}
<1> SUFFICES ASSUME C # {} PROVE FALSE
    OBVIOUS
<1>0. C \subseteq SUBSET S
    OBVIOUS
<1>1. PICK R \in C : \A Q \in C : Q \subseteq R => Q = R
    <2> HIDE DEF C
    <2> QED BY <1>0, SmallestSubset
<1>2. ASSUME NEW Q \in SUBSET R, Q # R PROVE Sums(CHOOSE g : Sums(g, Q, w), Q, w)
    BY <1>1, <1>2
<1> DEFINE y == Pick(R)
           at(s) == IF s # R THEN Total(w, s)
                    ELSE IF R = {} THEN 0 ELSE w[y] + Total(w, R \ {y})
           g == [s \in SUBSET R |-> at(s)]
<1>3. ASSUME NEW s \in SUBSET R
      PROVE  at(s) = IF s = {} THEN 0 ELSE w[Pick(s)] + g[s \ {Pick(s)}]
    <2>1. CASE s = {}
        <3>1. CASE R = {}
            BY <2>1, <3>1
        <3>2. CASE R # {}
            BY <1>2, <2>1, <3>2, SumsAt DEF Total
        <3> QED BY <3>1, <3>2
    <2>2. CASE s # {}
        <3> DEFINE rest == s \ {Pick(s)}
        <3>1. Pick(s) \in s
            BY <2>2, PickIn
        <3>2. rest \in SUBSET R /\ rest # R
            BY <3>1
        <3>3. g[rest] = Total(w, rest)
            BY <3>2
        <3>4. CASE s = R
            BY <2>2, <3>3, <3>4
        <3>5. CASE s # R
            <4> DEFINE gs == CHOOSE f : Sums(f, s, w)
                       gr == CHOOSE f : Sums(f, rest, w)
            <4>1. Sums(gs, s, w) /\ Sums(gr, rest, w)
                BY <1>2, <3>2, <3>5
            <4>2. gs[s] = w[Pick(s)] + gs[rest]
                <5> HIDE DEF gs
                <5> QED BY <2>2, <4>1, SumsAt
            <4>3. IsFiniteSet(rest)
                BY <3>2, FS_Subset
            <4>4. gr[rest] = gs[rest]
                <5> HIDE DEF gs, gr
                <5> QED BY <4>1, <4>3, SumsAgree
            <4>5. Total(w, s) = gs[s] /\ Total(w, rest) = gr[rest]
                BY DEF Total
            <4>6. at(s) = Total(w, s)
                BY <3>5
            <4> HIDE DEF gs, gr, at, g
            <4> QED BY <2>2, <3>3, <4>2, <4>4, <4>5, <4>6
        <3> QED BY <3>4, <3>5
    <2> QED BY <2>1, <2>2
<1>4. Sums(g, R, w)
    <2> HIDE DEF at
    <2> QED BY <1>3 DEF Sums
<1> QED BY <1>1, <1>4

\* Every function that sums w over S says what the total is.
LEMMA TotalIs ==
    ASSUME NEW S, IsFiniteSet(S), NEW w, NEW g, Sums(g, S, w)
    PROVE  Total(w, S) = g[S]
<1> DEFINE f == CHOOSE h : Sums(h, S, w)
<1>1. Sums(f, S, w)
    BY SumsExist
<1> HIDE DEF f
<1>2. f[S] = g[S]
    BY <1>1, SumsAgree
<1> QED BY <1>2 DEF Total, f

\* Total of the empty set, and of a set without one of its elements.
LEMMA TotalEmpty == ASSUME NEW w PROVE Total(w, {}) = 0
BY SumsExist, SumsAt, FS_EmptySet DEF Total

LEMMA TotalIsInt ==
    ASSUME NEW S, IsFiniteSet(S), NEW w, \A x \in S : w[x] \in Int,
           NEW g, Sums(g, S, w)
    PROVE  \A s \in SUBSET S : g[s] \in Int
<1> DEFINE C == {s \in SUBSET S : g[s] \notin Int}
<1> SUFFICES ASSUME C # {} PROVE FALSE
    OBVIOUS
<1>0. C \subseteq SUBSET S
    OBVIOUS
<1>1. PICK R \in C : \A Q \in C : Q \subseteq R => Q = R
    <2> HIDE DEF C
    <2> QED BY <1>0, SmallestSubset
<1>2. R \in SUBSET S /\ g[R] \notin Int
    OBVIOUS
<1>3. R # {}
    <2>1. g[{}] = 0
        BY SumsAt
    <2> QED BY <1>2, <2>1
<1>4. Pick(R) \in R /\ g[R] = w[Pick(R)] + g[R \ {Pick(R)}]
    <2> HIDE DEF C
    <2> QED BY <1>2, <1>3, SumsAt
<1>5. g[R \ {Pick(R)}] \in Int
    BY <1>1, <1>4
<1> QED BY <1>2, <1>4, <1>5

\* It does not matter which element is taken out first.
LEMMA SumsWithout ==
    ASSUME NEW S, IsFiniteSet(S), NEW w, \A x \in S : w[x] \in Int,
           NEW g, Sums(g, S, w)
    PROVE  \A s \in SUBSET S : \A x \in s : g[s] = w[x] + g[s \ {x}]
<1> DEFINE C == {s \in SUBSET S : \E x \in s : g[s] # w[x] + g[s \ {x}]}
<1> SUFFICES ASSUME C # {} PROVE FALSE
    OBVIOUS
<1>0. C \subseteq SUBSET S
    OBVIOUS
<1>1. PICK R \in C : \A Q \in C : Q \subseteq R => Q = R
    <2> HIDE DEF C
    <2> QED BY <1>0, SmallestSubset
<1>2. R \in SUBSET S
    OBVIOUS
<1>3. PICK x \in R : g[R] # w[x] + g[R \ {x}]
    OBVIOUS
<1> DEFINE y == Pick(R)
           both == (R \ {x}) \ {y}
<1>4. y \in R /\ g[R] = w[y] + g[R \ {y}]
    <2>1. R # {}
        BY <1>3
    <2> HIDE DEF C
    <2> QED BY <1>2, <2>1, SumsAt
<1> HIDE DEF y
<1>5. x # y
    BY <1>3, <1>4
<1>6. g[R \ {x}] = w[y] + g[both]
    <2>1. R \ {x} \notin C
        BY <1>1, <1>3
    <2> QED BY <1>2, <1>4, <1>5, <2>1
<1>7. g[R \ {y}] = w[x] + g[both]
    <2>1. R \ {y} \notin C
        BY <1>1, <1>4
    <2>2. (R \ {y}) \ {x} = both
        OBVIOUS
    <2> QED BY <1>2, <1>3, <1>5, <2>1, <2>2
<1>8. g[both] \in Int /\ w[x] \in Int /\ w[y] \in Int
    BY <1>2, <1>3, <1>4, TotalIsInt
<1> HIDE DEF both
<1> QED BY <1>3, <1>4, <1>6, <1>7, <1>8

LEMMA TotalInt ==
    ASSUME NEW S, IsFiniteSet(S), NEW w, \A x \in S : w[x] \in Int
    PROVE  Total(w, S) \in Int
<1>1. PICK g : Sums(g, S, w)
    BY SumsExist
<1> QED BY <1>1, TotalIs, TotalIsInt

LEMMA TotalAdd ==
    ASSUME NEW S, IsFiniteSet(S), NEW x, x \notin S, NEW w, w[x] \in Int,
           \A y \in S : w[y] \in Int
    PROVE  Total(w, S \cup {x}) = w[x] + Total(w, S)
<1> DEFINE U == S \cup {x}
<1>1. IsFiniteSet(U) /\ \A y \in U : w[y] \in Int
    BY FS_AddElement
<1>2. PICK g : Sums(g, U, w)
    BY <1>1, SumsExist
<1>3. PICK h : Sums(h, S, w)
    BY SumsExist
<1>4. g[U] = w[x] + g[U \ {x}]
    <2> HIDE DEF U
    <2>1. U \in SUBSET U /\ x \in U
        BY DEF U
    <2> QED BY <1>1, <1>2, <2>1, SumsWithout
<1>5. U \ {x} = S
    OBVIOUS
<1>6. g[S] = h[S]
    BY <1>2, <1>3, SumsAgree
<1>7. Total(w, U) = g[U] /\ Total(w, S) = h[S]
    <2> HIDE DEF U
    <2> QED BY <1>1, <1>2, <1>3, TotalIs
<1> QED BY <1>4, <1>5, <1>6, <1>7
-------------------------------------------------------------------------------
(***************************************************************************)
(* The three sums over fills, as totals of a weight.                       *)
(***************************************************************************)
Lots    == [f \in FillRow |-> Signed(f)]
Flows   == [f \in FillRow |-> CashFlow(f)]
Profits == [f \in FillRow |-> f.realized]

Profit(F) == MapThenSumSet(LAMBDA f : f.realized, F)

LEMMA NetQtyIsTotal ==
    ASSUME NEW F \in SUBSET FillRow, IsFiniteSet(F)
    PROVE  NetQty(F) = Total(Lots, F)
<1> DEFINE sums(g) == g = [s \in SUBSET F |->
                IF s = {} THEN 0 ELSE Signed(Pick(s)) + g[s \ {Pick(s)}]]
<1>1. NetQty(F) = (CHOOSE g : sums(g))[F]
    BY DEF NetQty, MapThenSumSet, MapThenFoldSet, Pick
<1>2. ASSUME NEW g PROVE sums(g) <=> Sums(g, F, Lots)
    <2>1. ASSUME NEW s \in SUBSET F, s # {} PROVE Lots[Pick(s)] = Signed(Pick(s))
        BY <2>1, PickIn DEF Lots
    <2> QED BY <2>1 DEF Sums
<1> DEFINE f == CHOOSE g : sums(g)
<1>3. sums(f)
    BY <1>2, SumsExist
<1> HIDE DEF f, sums
<1> QED BY <1>1, <1>2, <1>3, TotalIs DEF f

LEMMA CashFlowIsTotal ==
    ASSUME NEW F \in SUBSET FillRow, IsFiniteSet(F)
    PROVE  ExpectedCash(F) = InitialCash + Total(Flows, F)
<1> DEFINE sums(g) == g = [s \in SUBSET F |->
                IF s = {} THEN 0 ELSE CashFlow(Pick(s)) + g[s \ {Pick(s)}]]
<1>1. ExpectedCash(F) = InitialCash + (CHOOSE g : sums(g))[F]
    BY DEF ExpectedCash, MapThenSumSet, MapThenFoldSet, Pick
<1>2. ASSUME NEW g PROVE sums(g) <=> Sums(g, F, Flows)
    <2>1. ASSUME NEW s \in SUBSET F, s # {} PROVE Flows[Pick(s)] = CashFlow(Pick(s))
        BY <2>1, PickIn DEF Flows
    <2> QED BY <2>1 DEF Sums
<1> DEFINE f == CHOOSE g : sums(g)
<1>3. sums(f)
    BY <1>2, SumsExist
<1> HIDE DEF f, sums
<1> QED BY <1>1, <1>2, <1>3, TotalIs DEF f

LEMMA ProfitIsTotal ==
    ASSUME NEW F \in SUBSET FillRow, IsFiniteSet(F)
    PROVE  Profit(F) = Total(Profits, F)
<1> DEFINE sums(g) == g = [s \in SUBSET F |->
                IF s = {} THEN 0 ELSE Pick(s).realized + g[s \ {Pick(s)}]]
<1>1. Profit(F) = (CHOOSE g : sums(g))[F]
    BY DEF Profit, MapThenSumSet, MapThenFoldSet, Pick
<1>2. ASSUME NEW g PROVE sums(g) <=> Sums(g, F, Profits)
    <2>1. ASSUME NEW s \in SUBSET F, s # {} PROVE Profits[Pick(s)] = Pick(s).realized
        BY <2>1, PickIn DEF Profits
    <2> QED BY <2>1 DEF Sums
<1> DEFINE f == CHOOSE g : sums(g)
<1>3. sums(f)
    BY <1>2, SumsExist
<1> HIDE DEF f, sums
<1> QED BY <1>1, <1>2, <1>3, TotalIs DEF f

LEMMA WeightsAreInt ==
    /\ \A f \in FillRow : Lots[f] = Signed(f) /\ Signed(f) \in Int
    /\ \A f \in FillRow : Flows[f] = CashFlow(f) /\ CashFlow(f) \in Int
    /\ \A f \in FillRow : Profits[f] = f.realized /\ f.realized \in Int
<1> SUFFICES ASSUME NEW f \in FillRow
             PROVE  /\ Lots[f] = Signed(f) /\ Signed(f) \in Int
                    /\ Flows[f] = CashFlow(f) /\ CashFlow(f) \in Int
                    /\ Profits[f] = f.realized /\ f.realized \in Int
    OBVIOUS
<1>1. f.order \in Orders /\ f.price \in Nat /\ f.realized \in Int
    BY DEF FillRow
<1>2. OrderQty[f.order] \in Nat
    BY <1>1, CycleConstants
<1>3. Debit(OrderQty[f.order], f.price) \in Nat /\ Credit(OrderQty[f.order], f.price) \in Nat
    BY <1>1, <1>2, DebitAndCreditAreNat
<1> QED BY <1>1, <1>2, <1>3 DEF Lots, Flows, Profits, Signed, CashFlow

\* What no fill adds up to ...
LEMMA SumsOfNothing == NetQty({}) = 0 /\ ExpectedCash({}) = InitialCash /\ Profit({}) = 0
<1>1. {} \in SUBSET FillRow /\ IsFiniteSet({})
    BY FS_EmptySet
<1>2. InitialCash \in Int
    BY CycleConstants
<1> QED BY <1>1, <1>2, NetQtyIsTotal, CashFlowIsTotal, ProfitIsTotal, TotalEmpty

LEMMA SumsAreInt ==
    ASSUME NEW F \in SUBSET FillRow, IsFiniteSet(F)
    PROVE  NetQty(F) \in Int /\ ExpectedCash(F) \in Int /\ Profit(F) \in Int
<1>1. Total(Lots, F) \in Int /\ Total(Flows, F) \in Int /\ Total(Profits, F) \in Int
    BY WeightsAreInt, TotalInt
<1> QED BY <1>1, NetQtyIsTotal, CashFlowIsTotal, ProfitIsTotal, CycleConstants

\* ... and what one more fill adds.
LEMMA SumsWithOneMore ==
    ASSUME NEW F \in SUBSET FillRow, IsFiniteSet(F), NEW f \in FillRow, f \notin F
    PROVE  /\ NetQty(F \cup {f}) = NetQty(F) + Signed(f)
           /\ ExpectedCash(F \cup {f}) = ExpectedCash(F) + CashFlow(f)
           /\ Profit(F \cup {f}) = Profit(F) + f.realized
<1> DEFINE G == F \cup {f}
<1>1. G \in SUBSET FillRow /\ IsFiniteSet(G)
    BY FS_AddElement
<1>2. /\ Total(Lots, G) = Lots[f] + Total(Lots, F)
      /\ Total(Flows, G) = Flows[f] + Total(Flows, F)
      /\ Total(Profits, G) = Profits[f] + Total(Profits, F)
    <2>1. /\ Lots[f] \in Int /\ \A y \in F : Lots[y] \in Int
          /\ Flows[f] \in Int /\ \A y \in F : Flows[y] \in Int
          /\ Profits[f] \in Int /\ \A y \in F : Profits[y] \in Int
        BY WeightsAreInt
    <2>2. Total(Lots, G) = Lots[f] + Total(Lots, F)
        BY <2>1, TotalAdd
    <2>3. Total(Flows, G) = Flows[f] + Total(Flows, F)
        BY <2>1, TotalAdd
    <2>4. Total(Profits, G) = Profits[f] + Total(Profits, F)
        BY <2>1, TotalAdd
    <2> QED BY <2>2, <2>3, <2>4
<1>3. Total(Lots, F) \in Int /\ Total(Flows, F) \in Int /\ Total(Profits, F) \in Int
    BY WeightsAreInt, TotalInt
<1>4. /\ NetQty(G) = Total(Lots, G)
      /\ ExpectedCash(G) = InitialCash + Total(Flows, G)
      /\ Profit(G) = Total(Profits, G)
    BY <1>1, NetQtyIsTotal, CashFlowIsTotal, ProfitIsTotal
<1>5. /\ NetQty(F) = Total(Lots, F)
      /\ ExpectedCash(F) = InitialCash + Total(Flows, F)
      /\ Profit(F) = Total(Profits, F)
    BY NetQtyIsTotal, CashFlowIsTotal, ProfitIsTotal
<1> HIDE DEF G
<1>6. InitialCash \in Int
    BY CycleConstants
<1>7. NetQty(G) = NetQty(F) + Signed(f)
    BY <1>2, <1>3, <1>4, <1>5, WeightsAreInt
<1>8. ExpectedCash(G) = ExpectedCash(F) + CashFlow(f)
    BY <1>2, <1>3, <1>4, <1>5, <1>6, WeightsAreInt
<1>9. Profit(G) = Profit(F) + f.realized
    BY <1>2, <1>3, <1>4, <1>5, WeightsAreInt
<1> QED BY <1>7, <1>8, <1>9 DEF G

(***************************************************************************)
(* Why a divergence is reported: the last request to commit an execution   *)
(* reads the tables after every other commit, so it is a watcher until its *)
(* report is committed; only its own death can keep it from reporting.     *)
(***************************************************************************)
Balanced == BalancesConsistent(fills, cash, pos)
Reported == \E e \in events : e.type = "reconciliation_failed"

\* p has seen the account as it is, or is still to see it; or has seen that it
\* is wrong; or died on the way.
Watcher(p) ==
    \/ pc[p] = "done" /\ Unanswered(p)
    \/ pc[p] = "listFills"
    \/ pc[p] = "listBalances" /\ loc[p].seen = fills
    \/ pc[p] = "listPositions" /\ loc[p].seen = fills /\ loc[p].cash = cash
    \/ pc[p] \in {"killRead", "saveKilled", "commitReport"} /\ ~loc[p].consistent

WatchInv == Balanced \/ Reported \/ \E p \in Procs : Watcher(p)

LEMMA WatchInit == Init => WatchInv
<1> SUFFICES ASSUME Init PROVE Balanced
    BY DEF WatchInv
<1>1. cash = ExpectedCash(fills)
    BY SumsOfNothing DEF Init
<1>2. ASSUME NEW s \in Symbols PROVE pos[s].qty = NetQty(Of(fills, s))
    <2>1. Of(fills, s) = {} /\ pos[s].qty = 0
        BY DEF Init, Of, NoPosition
    <2> QED BY <2>1, SumsOfNothing
<1> QED BY <1>1, <1>2 DEF Balanced, BalancesConsistent

\* A request is in flight when it moves, unless it is just received.
LEMMA Movers ==
    ASSUME TypeInv, NEW p \in Procs, Aside(p) \/ Buffering(p) \/ CommitIntent(p)
    PROVE  pc[p] # "done"
<1>1. ASSUME DeadlockVictim(p) PROVE pc[p] # "done"
    BY <1>1 DEF DeadlockVictim, WaitsFor, NextTable
<1> QED BY <1>1 DEF Aside, Buffering, Reconciliation, Administration, Arrive, CycleHold, GetTicker,
    QuoteUnavailable, GetBalance, GetPosition, LatestSnapshot, EvaluateRisk, SaveDayReset,
    IdempotencyConflict, CheckFill, CheckSystemState, ExecBalance, ExecPosition,
    ExecutionFailed, StartReconcile, ListFills, ListBalances, ListPositions,
    ReadRiskToKill, SaveKilled, CommitReport, AdminRead, AdminSave, AdminCommit, Crash,
    CreateIntent, InsertFill, SetBalance, UpsertPosition, FinalizeIntent, ReadRisk,
    SaveRisk, CommitIntent, Step, MayArrive

\* What a watcher's own step makes of it.
LEMMA WatcherMoves ==
    ASSUME TypeInv, NEW p \in Procs, Watcher(p), Still, ~Balanced,
           Aside(p) \/ Buffering(p) \/ CommitIntent(p)
    PROVE  Watcher(p)' \/ Reported'
<1> USE DEF TypeInv, TypeOK
<1>0. pc[p] \in {"listFills", "listBalances", "listPositions", "killRead", "saveKilled",
                 "commitReport"}
    BY Movers DEF Watcher
<1>1. CASE ListFills(p)
    <2>1. pc'[p] = "listBalances" /\ loc'[p].seen = fills
        BY <1>1 DEF ListFills, Step, Locals
    <2> QED BY <2>1 DEF Watcher, Still
<1>2. CASE ListBalances(p)
    <2>1. pc'[p] = "listPositions" /\ loc'[p].seen = loc[p].seen /\ loc'[p].cash = cash
        BY <1>2 DEF ListBalances, Step, Locals
    <2>2. loc[p].seen = fills
        BY <1>2 DEF ListBalances, Step, Watcher
    <2> QED BY <2>1, <2>2 DEF Watcher, Still
<1>3. CASE ListPositions(p)
    <2>1. loc[p].seen = fills /\ loc[p].cash = cash
        BY <1>3 DEF ListPositions, Step, Watcher
    <2>2. ~BalancesConsistent(loc[p].seen, loc[p].cash, pos)
        BY <2>1 DEF Balanced
    <2>3. /\ pc' = [pc EXCEPT ![p] = "killRead"]
          /\ loc' = [loc EXCEPT ![p].seen = {}, ![p].cash = 0, ![p].consistent = FALSE]
        BY <1>3, <2>2 DEF ListPositions, Step
    <2>4. loc'[p] = [loc[p] EXCEPT !.seen = {}, !.cash = 0, !.consistent = FALSE]
        BY <2>3
    <2>5. pc'[p] = "killRead" /\ loc'[p].consistent = FALSE
        BY <2>3, <2>4 DEF Locals
    <2> QED BY <2>5 DEF Watcher
<1>4. CASE ReadRiskToKill(p) \/ SaveKilled(p)
    <2>1. pc'[p] \in {"saveKilled", "commitReport"} /\ loc'[p].consistent = loc[p].consistent
        BY <1>4 DEF ReadRiskToKill, SaveKilled, Step, Locals
    <2>2. ~loc[p].consistent
        BY <1>4 DEF ReadRiskToKill, SaveKilled, Step, Watcher
    <2> QED BY <2>1, <2>2 DEF Watcher
<1>5. CASE CommitReport(p)
    <2>1. ~loc[p].consistent
        BY <1>5 DEF CommitReport, Step, Watcher
    <2>2. Commit(p, {"reconciliation_failed"})
        BY <1>5, <2>1 DEF CommitReport
    <2>3. [type |-> "reconciliation_failed", proc |-> p] \in events'
        BY <2>2 DEF Commit
    <2> QED BY <2>3 DEF Reported
<1>6. CASE DeadlockVictim(p) \/ Crash(p)
    <2>1. pc'[p] = "done" /\ loc'[p].outcome \in {"crashed", "deadlock_victim"}
        BY <1>6 DEF DeadlockVictim, Crash, Answer, Fresh
    <2> QED BY <2>1 DEF Watcher, Unanswered
<1> QED BY <1>0, <1>1, <1>2, <1>3, <1>4, <1>5, <1>6
        DEF Aside, Buffering, Reconciliation, Administration, Arrive, CycleHold, GetTicker,
    QuoteUnavailable, GetBalance, GetPosition, LatestSnapshot, EvaluateRisk, SaveDayReset,
    IdempotencyConflict, CheckFill, CheckSystemState, ExecBalance, ExecPosition,
    ExecutionFailed, StartReconcile, AdminRead, AdminSave, AdminCommit,
    CreateIntent, InsertFill, SetBalance, UpsertPosition, FinalizeIntent, ReadRisk,
    SaveRisk, CommitIntent, Step, MayArrive

LEMMA WatchStep == TypeInv /\ ExecInv /\ BookInv /\ WatchInv /\ [Next]_vars => WatchInv'
<1> SUFFICES ASSUME TypeInv, ExecInv, BookInv, WatchInv, [Next]_vars PROVE WatchInv'
    OBVIOUS
<1>1. CASE UNCHANGED vars
    BY <1>1 DEF WatchInv, Balanced, Reported, Watcher, Unanswered, vars
<1>2. ASSUME NEW p \in Procs, CommitExecution(p) PROVE WatchInv'
    BY <1>2, CommitExecutionBooks DEF BookInv, WatchInv, Watcher
<1>3. ASSUME NEW p \in Procs, Aside(p) \/ Buffering(p) \/ CommitIntent(p), Moves(p), Still
      PROVE  WatchInv'
    <2>1. CASE Balanced
        BY <1>3, <2>1 DEF WatchInv, Balanced, Still
    <2>2. CASE Reported
        BY <2>2, EventsGrow DEF WatchInv, Reported
    <2>3. CASE ~Balanced /\ \E q \in Procs : Watcher(q)
        <3>1. PICK q \in Procs : Watcher(q)
            BY <2>3
        <3>2. CASE q = p
            BY <1>3, <2>3, <3>1, <3>2, WatcherMoves DEF WatchInv
        <3>3. CASE q # p
            <4>1. pc'[q] = pc[q] /\ loc'[q] = loc[q]
                BY <1>3, <3>3 DEF Moves, TypeInv, TypeOK
            <4> QED BY <1>3, <3>1, <4>1 DEF WatchInv, Watcher, Unanswered, Still
        <3> QED BY <3>2, <3>3
    <2> QED BY <2>1, <2>2, <2>3 DEF WatchInv
<1> QED BY <1>1, <1>2, <1>3, StepBooks

\* However executions overlap and overwrite each other's balances: when all
\* requests were answered, either cash and positions are what the fills say or
\* a reconciliation has reported that they are not.
THEOREM DivergenceIsReported == Spec => []DivergenceReported
<1>1. ASSUME WatchInv PROVE DivergenceReported
    <2> SUFFICES ASSUME InFlight = {}, \A p \in Procs : ~Unanswered(p), ~Balanced
                 PROVE  Reported
        BY DEF DivergenceReported, Balanced, Reported
    <2>1. ASSUME NEW p \in Procs, Watcher(p) PROVE FALSE
        BY <2>1 DEF InFlight, Watcher
    <2> QED BY <1>1, <2>1 DEF WatchInv
<1> QED BY <1>1, BookCorrect, WatchInit, WatchStep, PTL DEF Spec

-------------------------------------------------------------------------------
(***************************************************************************)
(* The kill switch and what is pending.                                    *)
(***************************************************************************)
Begins == \E p \in Admins : pc[p] = "idle" /\ pc'[p] = "adminSave"

\* The step of KillStopsPendingExecution.
KillStep ==
    Stopped => /\ fills' = fills
               /\ \/ Stopped'
                  \/ \E p \in Admins : pc[p] = "idle" /\ pc'[p] = "adminSave"

\* The copy of the risk row that p carries in its variables or its buffer.
Carries(p) == \A r \in {loc[p].risk, tx[p].risk} \ {None} : r.sys = "KILLED"

LEMMA StoppedMeans ==
    Stopped <=> /\ risk.sys = "KILLED"
                /\ \A p \in Procs : /\ pc[p] \notin {"execBalance", "execPosition", "insertFill"}
                                    /\ tx[p].fill = {} /\ Carries(p)
BY DEF Stopped, PastTheCheck, Carries

\* p stays stopped by its own step.
StaysStopped(p) ==
    /\ pc'[p] \notin {"execBalance", "execPosition", "insertFill"}
    /\ tx'[p].fill = {} /\ Carries(p)'

LEMMA StoppedOneStep ==
    ASSUME TypeInv, Stopped, NEW p \in Procs, Moves(p), fills' = fills,
           risk'.sys = "KILLED", StaysStopped(p)
    PROVE  fills' = fills /\ Stopped'
<1>1. ASSUME NEW q \in Procs, q # p
      PROVE  /\ pc'[q] \notin {"execBalance", "execPosition", "insertFill"}
             /\ tx'[q].fill = {} /\ Carries(q)'
    <2>1. pc'[q] = pc[q] /\ loc'[q] = loc[q] /\ tx'[q] = tx[q]
        BY <1>1 DEF Moves, TypeInv, TypeOK
    <2> QED BY <2>1, StoppedMeans DEF Carries
<1>2. \A q \in Procs : /\ pc'[q] \notin {"execBalance", "execPosition", "insertFill"}
                       /\ tx'[q].fill = {} /\ Carries(q)'
    BY <1>1 DEF StaysStopped
<1> QED BY <1>2 DEF Stopped, PastTheCheck, Carries

LEMMA StoppedCommit ==
    ASSUME TypeInv, Stopped, NEW p \in Procs, NEW E, Commit(p, E)
    PROVE  fills' = fills /\ risk'.sys = "KILLED" /\ tx'[p] = NoWrites
<1>1. tx[p].fill = {} /\ Carries(p) /\ risk.sys = "KILLED"
    BY StoppedMeans
<1> QED BY <1>1 DEF Commit, Carries, TypeInv, TypeOK

LEMMA AnswerForgets ==
    ASSUME TypeInv, NEW p \in Procs, NEW o, Answer(p, o)
    PROVE  loc'[p].risk = None
BY DEF Answer, Fresh, TypeInv, TypeOK

LEMMA StoppedEvaluation ==
    ASSUME TypeInv, ExecInv, Stopped, NEW p \in Procs,
           Evaluation(p) \/ (p \in Requests /\ Arrive(p))
    PROVE  fills' = fills /\ Stopped'
<1> USE DEF TypeInv, TypeOK
<1>0. risk.sys = "KILLED" /\ tx[p].fill = {} /\ Carries(p)
    BY StoppedMeans
<1>1. CASE Arrive(p) \/ GetTicker(p) \/ GetBalance(p) \/ GetPosition(p) \/ LatestSnapshot(p)
    <2>1. Aside(p) /\ UNCHANGED <<db, tx>>
        BY <1>1 DEF Aside, Arrive, GetTicker, GetBalance, GetPosition, LatestSnapshot
    <2>2. loc'[p].risk = loc[p].risk
        <3>1. CASE Arrive(p)
            <4>1. PICK o, t : loc' = [loc EXCEPT ![p].order = o, ![p].now = t]
                BY <3>1 DEF Arrive
            <4>2. loc'[p] = [loc[p] EXCEPT !.order = o, !.now = t]
                BY <4>1
            <4> QED BY <4>2 DEF Locals
        <3>2. CASE GetTicker(p)
            <4>1. PICK t, a : loc' = [loc EXCEPT ![p].tick = t, ![p].active = a]
                BY <3>2 DEF GetTicker
            <4>2. loc'[p] = [loc[p] EXCEPT !.tick = t, !.active = a]
                BY <4>1
            <4> QED BY <4>2 DEF Locals
        <3>3. CASE GetBalance(p) \/ GetPosition(p) \/ LatestSnapshot(p)
            BY <3>3 DEF GetBalance, GetPosition, LatestSnapshot, Locals
        <3> QED BY <1>1, <3>1, <3>2, <3>3
    <2>3. pc'[p] \notin {"execBalance", "execPosition", "insertFill"}
        BY <1>1 DEF Arrive, GetTicker, GetBalance, GetPosition, LatestSnapshot, Step
    <2> QED BY <1>0, <2>1, <2>2, <2>3, AsideIsHarmless, StoppedOneStep
            DEF Harmless, StaysStopped, Carries, db
<1>2. CASE EvaluateRisk(p)
    <2> DEFINE state == ResetForDay(risk, Day(loc[p].now), loc[p].equity)
               ok == Approves(Qty(p), Context(p), state)
    <2>1. Aside(p) /\ UNCHANGED <<db, tx>>
        BY <1>2 DEF Aside, EvaluateRisk
    <2>2. state.sys = "KILLED"
        BY <1>0 DEF ResetForDay
    <2>3. loc' = [loc EXCEPT ![p].risk = state, ![p].approved = ok]
        BY <1>2 DEF EvaluateRisk
    <2>4. pc'[p] \in {"createIntent", "saveDayReset"}
        BY <1>2 DEF EvaluateRisk, Step
    <2> HIDE DEF state, ok
    <2>5. loc'[p] = [loc[p] EXCEPT !.risk = state, !.approved = ok]
        BY <2>3
    <2>6. loc'[p].risk = state
        BY <2>5 DEF Locals
    <2> QED BY <1>0, <2>1, <2>2, <2>4, <2>6, AsideIsHarmless, StoppedOneStep
            DEF Harmless, StaysStopped, Carries, db
<1>3. CASE SaveDayReset(p)
    <2>1. Aside(p) /\ UNCHANGED <<db, loc>> /\ pc'[p] = "createIntent"
        BY <1>3 DEF Aside, SaveDayReset, Step
    <2>2. tx'[p].fill = tx[p].fill /\ tx'[p].risk = loc[p].risk
        BY <1>3 DEF SaveDayReset, Writes
    <2> QED BY <1>0, <2>1, <2>2, AsideIsHarmless, StoppedOneStep
            DEF Harmless, StaysStopped, Carries, db
<1>4. CASE CreateIntent(p)
    <2>1. Moves(p) /\ Kept
        BY <1>4, CreateIntentExec
    <2>2. pc'[p] = "commitIntent" /\ UNCHANGED db
        BY <1>4 DEF CreateIntent, Step
    <2>3. PICK i : /\ loc' = [loc EXCEPT ![p].intent = i, ![p].risk = None]
                   /\ tx' = [tx EXCEPT ![p].intent = i] \/ tx' = tx
        BY <1>4 DEF CreateIntent
    <2>4. loc'[p] = [loc[p] EXCEPT !.intent = i, !.risk = None]
        BY <2>3
    <2>5. loc'[p].risk = None /\ tx'[p].fill = tx[p].fill /\ tx'[p].risk = tx[p].risk
        BY <2>3, <2>4 DEF Locals, Writes
    <2> QED BY <1>0, <2>1, <2>2, <2>5, StoppedOneStep DEF StaysStopped, Carries, Kept, db
<1>5. CASE CycleHold(p) \/ CommitIntent(p)
    <2>1. PICK E : Commit(p, E)
        BY <1>5 DEF CycleHold, CommitIntent
    <2>2. fills' = fills /\ risk'.sys = "KILLED" /\ tx'[p] = NoWrites
        BY <2>1, StoppedCommit
    <2>3. pc'[p] \in {"checkFill", "done"}
        BY <1>5 DEF CycleHold, CommitIntent, Step
    <2>4. loc'[p].risk \in {None, loc[p].risk}
        <3>1. CASE \E o : Answer(p, o)
            BY <3>1, AnswerForgets
        <3>2. CASE loc' = [loc EXCEPT ![p].cash = 0, ![p].pos = NoPosition,
                                      ![p].equity = 0, ![p].approved = FALSE]
            <4>1. loc'[p] = [loc[p] EXCEPT !.cash = 0, !.pos = NoPosition, !.equity = 0,
                                           !.approved = FALSE]
                BY <3>2
            <4> QED BY <4>1 DEF Locals
        <3> QED BY <1>5, <3>1, <3>2 DEF CycleHold, CommitIntent
    <2>5. Moves(p)
        BY <1>5 DEF CycleHold, CommitIntent, Step, Answer, Commit, Moves
    <2> QED BY <1>0, <2>2, <2>3, <2>4, <2>5, StoppedOneStep DEF StaysStopped, Carries, NoWrites
<1>6. CASE QuoteUnavailable(p) \/ IdempotencyConflict(p)
    <2>1. Aside(p) /\ UNCHANGED db /\ pc'[p] = "done"
        BY <1>6 DEF Aside, QuoteUnavailable, IdempotencyConflict, Step
    <2>2. loc'[p].risk = None
        BY <1>6, AnswerForgets DEF QuoteUnavailable, IdempotencyConflict
    <2>3. tx'[p] = tx[p] \/ tx'[p] = NoWrites
        BY <1>6 DEF QuoteUnavailable, IdempotencyConflict, Rollback
    <2> QED BY <1>0, <2>1, <2>2, <2>3, AsideIsHarmless, StoppedOneStep
            DEF Harmless, StaysStopped, Carries, NoWrites, db
<1> QED BY <1>1, <1>2, <1>3, <1>4, <1>5, <1>6 DEF Evaluation

\* Nothing is executed: whoever looks at the state again is stopped there.
LEMMA StoppedExecution ==
    ASSUME TypeInv, ExecInv, BookInv, Stopped, NEW p \in Procs, Execution(p)
    PROVE  fills' = fills /\ Stopped'
<1> USE DEF TypeInv, TypeOK
<1>0. /\ risk.sys = "KILLED" /\ tx[p].fill = {} /\ Carries(p)
      /\ pc[p] \notin {"execBalance", "execPosition", "insertFill"}
    BY StoppedMeans
<1>a. pc[p] \notin Busy
    BY <1>0 DEF ExecInv, Buffers, Whole, Busy
<1>1. CASE CheckFill(p) \/ CheckSystemState(p)
    <2>1. Aside(p) /\ UNCHANGED <<db, tx, loc>>
        BY <1>1 DEF Aside, CheckFill, CheckSystemState
    <2>2. pc'[p] \in {"commitExecution", "checkState", "failed"}
        BY <1>0, <1>1 DEF CheckFill, CheckSystemState, Step
    <2> QED BY <1>0, <2>1, <2>2, AsideIsHarmless, StoppedOneStep
            DEF Harmless, StaysStopped, Carries, db
<1>2. CASE CommitExecution(p)
    <2>1. Commit(p, {}) /\ Answer(p, "none")
        BY <1>2 DEF CommitExecution
    <2>2. fills' = fills /\ risk'.sys = "KILLED"
        BY <2>1, StoppedCommit
    <2>3. loc'[p].risk = None
        BY <2>1, AnswerForgets
    <2> QED BY <1>2, <2>2, <2>3, CommitExecutionBooks, StoppedOneStep
            DEF BookInv, StaysStopped, Carries, NoWrites
<1>3. CASE ExecutionFailed(p)
    <2>1. Aside(p) /\ risk' = risk /\ fills' = fills /\ pc'[p] = "done" /\ tx'[p] = NoWrites
        BY <1>3 DEF Aside, ExecutionFailed, Step, Rollback
    <2>2. loc'[p].risk = None
        BY <1>3, AnswerForgets DEF ExecutionFailed
    <2> QED BY <1>0, <2>1, <2>2, AsideIsHarmless, StoppedOneStep
            DEF Harmless, StaysStopped, Carries, NoWrites
<1>4. CASE ExecBalance(p) \/ ExecPosition(p) \/ InsertFill(p)
    BY <1>0, <1>4 DEF ExecBalance, ExecPosition, InsertFill, Step
<1>5. CASE SetBalance(p) \/ UpsertPosition(p) \/ FinalizeIntent(p) \/ ReadRisk(p) \/ SaveRisk(p)
    BY <1>a, <1>5 DEF SetBalance, UpsertPosition, FinalizeIntent, ReadRisk, SaveRisk, Step, Busy
<1> QED BY <1>1, <1>2, <1>3, <1>4, <1>5 DEF Execution

LEMMA StoppedReconciliation ==
    ASSUME TypeInv, ExecInv, Stopped, NEW p \in Procs,
           StartReconcile(p) \/ Reconciliation(p) \/ Administration(p)
    PROVE  fills' = fills /\ Stopped'
<1> USE DEF TypeInv, TypeOK
<1>0. risk.sys = "KILLED" /\ tx[p].fill = {} /\ Carries(p)
    BY StoppedMeans
<1>a. Aside(p)
    BY DEF Aside
<1>1. CASE StartReconcile(p) \/ ListFills(p) \/ ListBalances(p) \/ ListPositions(p)
           \/ ReadRiskToKill(p)
    <2>1. UNCHANGED <<db, tx>>
        BY <1>1 DEF StartReconcile, ListFills, ListBalances, ListPositions, ReadRiskToKill
    <2>2. loc'[p].risk \in {None, loc[p].risk}
        <3>1. CASE ListPositions(p)
            <4>1. PICK b : loc' = [loc EXCEPT ![p].seen = {}, ![p].cash = 0, ![p].consistent = b]
                BY <3>1 DEF ListPositions
            <4>2. loc'[p] = [loc[p] EXCEPT !.seen = {}, !.cash = 0, !.consistent = b]
                BY <4>1
            <4> QED BY <4>2 DEF Locals
        <3> QED BY <1>0, <1>1, <3>1
                DEF StartReconcile, ListFills, ListBalances, ReadRiskToKill, Locals
    <2>3. pc'[p] \notin {"execBalance", "execPosition", "insertFill"}
        BY <1>1 DEF StartReconcile, ListFills, ListBalances, ListPositions, ReadRiskToKill, Step
    <2> QED BY <1>0, <1>a, <2>1, <2>2, <2>3, AsideIsHarmless, StoppedOneStep
            DEF Harmless, StaysStopped, Carries, db
<1>2. CASE SaveKilled(p) \/ AdminSave(p)
    <2>1. UNCHANGED <<db, loc>> /\ pc'[p] \in {"commitReport", "adminCommit"}
        BY <1>2 DEF SaveKilled, AdminSave, Step
    <2>2. loc[p].risk \in RiskState
        BY <1>2 DEF SaveKilled, AdminSave, Step, LocalsOK
    <2>3. PICK r : tx' = [tx EXCEPT ![p].risk = r] /\ r \in {loc[p].risk, [loc[p].risk EXCEPT !.sys = "KILLED"]}
        BY <1>2 DEF SaveKilled, AdminSave
    <2>4. tx'[p].fill = tx[p].fill /\ tx'[p].risk = r
        BY <2>3 DEF Writes
    <2>5. r # None => r.sys = "KILLED"
        BY <1>0, <2>2, <2>3 DEF Carries, RiskState
    <2> QED BY <1>0, <1>a, <2>1, <2>4, <2>5, AsideIsHarmless, StoppedOneStep
            DEF Harmless, StaysStopped, Carries, db
<1>3. CASE CommitReport(p) \/ AdminCommit(p)
    <2>1. PICK E : Commit(p, E)
        BY <1>3 DEF CommitReport, AdminCommit
    <2>2. fills' = fills /\ risk'.sys = "KILLED" /\ tx'[p] = NoWrites
        BY <2>1, StoppedCommit
    <2>3. loc'[p].risk = None /\ pc'[p] = "done"
        BY <1>3, AnswerForgets DEF CommitReport, AdminCommit, Step
    <2> QED BY <1>a, <2>2, <2>3, AsideIsHarmless, StoppedOneStep
            DEF Harmless, StaysStopped, Carries, NoWrites
<1> QED BY <1>1, <1>2, <1>3 DEF Reconciliation, Administration

LEMMA StoppedStep ==
    TypeInv /\ ExecInv /\ BookInv /\ [Next]_vars => KillStep
<1> SUFFICES ASSUME TypeInv, ExecInv, BookInv, [Next]_vars, Stopped
             PROVE  fills' = fills /\ (Stopped' \/ Begins)
    BY DEF KillStep, Begins
<1>1. ASSUME NEW p \in Procs, DeadlockVictim(p) \/ Crash(p) PROVE fills' = fills /\ Stopped'
    <2>1. Aside(p) /\ UNCHANGED db /\ pc'[p] = "done" /\ tx'[p] = NoWrites
        BY <1>1 DEF Aside, DeadlockVictim, Crash, Rollback, TypeInv, TypeOK
    <2>2. loc'[p].risk = None
        BY <1>1, AnswerForgets DEF DeadlockVictim, Crash
    <2> QED BY <2>1, <2>2, AsideIsHarmless, StoppedOneStep, StoppedMeans
            DEF Harmless, StaysStopped, Carries, NoWrites, db
<1>2. ASSUME NEW p \in Admins, AdminRead(p) PROVE fills' = fills /\ (Stopped' \/ Begins)
    <2>1. p \in Procs /\ Aside(p) /\ UNCHANGED <<db, tx>>
        BY <1>2 DEF Aside, Procs, AdminRead
    <2>2. CASE pc'[p] = "adminSave"
        BY <1>2, <2>1, <2>2 DEF AdminRead, MayArrive, Begins, db
    <2>3. CASE pc'[p] # "adminSave"
        <3>1. pc'[p] = "done" /\ Answer(p, "conflict")
            BY <1>2, <2>1, <2>3 DEF AdminRead, Step, TypeInv, TypeOK
        <3>2. loc'[p].risk = None
            BY <2>1, <3>1, AnswerForgets
        <3> QED BY <2>1, <3>1, <3>2, AsideIsHarmless, StoppedOneStep, StoppedMeans
                DEF Harmless, StaysStopped, Carries, db
    <2> QED BY <2>2, <2>3
<1>3. CASE UNCHANGED vars
    BY <1>3 DEF Stopped, PastTheCheck, vars, db
<1> QED BY <1>1, <1>2, <1>3, StoppedEvaluation, StoppedExecution, StoppedReconciliation
        DEF Next, Proceed, Procs, Quiet

\* A kill that finds no request past the executor's last look at the state
\* stops everything that is pending: nothing is filled, approved intents
\* included, until the administrator begins another transition.
THEOREM KillStopsPending == Spec => KillStopsPendingExecution
<1>1. Spec => [][KillStep]_vars
    BY BookCorrect, StoppedStep, PTL DEF Spec
<1> QED BY <1>1 DEF KillStopsPendingExecution, KillStep

(***************************************************************************)
(* Requests that do not overlap.  SerialInv says, label by label, that what*)
(* the one request under way has read is what is stored, and that what it has*)
(* buffered is what it computed from that.                                 *)
(***************************************************************************)
Underway(p) == pc[p] \notin {"idle", "done"}
OneAtATime == \A p, q \in Procs : Underway(p) /\ Underway(q) => p = q

\* From the commit of the evaluation to that of the execution.
Reviewed == Busy \cup {"checkFill", "checkState", "execBalance", "execPosition",
                       "insertFill", "commitExecution", "failed"}

\* An execution has been decided, and its fill is in the buffer.
Booked(p) == pc[p] \in Busy \/ (pc[p] = "commitExecution" /\ tx[p].fill # {})

\* r is the risk row rolled to the day of p.
Rolled(p, r) ==
    /\ r.sys = risk.sys /\ r.open = risk.open
    /\ r.pnl = 0 /\ r.day = Day(loc[p].now) /\ r.day # risk.day

\* What the risk row will be when p's execution is committed.
Recorded(p) == AfterExecution(risk, NewFill(p).realized, NewEquity(p), OpenAfter(p), loc[p].now)

\* The row that an administrator's command makes of the row.
Switched(r) == \E c \in AdminCommands : /\ risk.sys \in AllowedFrom[c]
                                        /\ r = [risk EXCEPT !.sys = Target[c]]

\* What p has read is what the tables still hold.
Reads(p) ==
    /\ pc[p] \in CycleSteps => loc[p].now = clock
    /\ pc[p] \in CycleSteps \ {"hold"} => Side(p) # "hold"
    /\ pc[p] \in {"getPosition", "latestSnapshot", "execPosition", "listPositions"} =>
          loc[p].cash = cash
    /\ pc[p] = "insertFill" \/ Booked(p) =>
          /\ loc[p].cash = cash /\ loc[p].pos = pos[Symbol(p)]
          /\ Affordable(Side(p), Qty(p), Price(p), loc[p].cash, loc[p].pos)
    /\ pc[p] \in {"listBalances", "listPositions"} => loc[p].seen = fills
    /\ pc[p] \in {"saveRisk", "saveKilled"} => loc[p].risk = risk
    /\ pc[p] = "saveDayReset" => Rolled(p, loc[p].risk)
    /\ pc[p] = "adminSave" => Switched(loc[p].risk)

\* What p has written to the risk row, and what it knows of the row.
RiskRow(p) ==
    /\ pc[p] \in {"createIntent", "commitIntent"} =>
          IF tx[p].risk = None THEN risk.day = Day(loc[p].now) ELSE Rolled(p, tx[p].risk)
    /\ pc[p] \in Reviewed => risk.day = Day(loc[p].now)
    /\ pc[p] \in {"execBalance", "execPosition", "insertFill"} \/ Booked(p) =>
          risk.sys = "ENABLED"
    /\ pc[p] = "commitExecution" =>
          tx[p].risk = IF tx[p].fill = {} THEN None ELSE Recorded(p)
    /\ pc[p] = "commitReport" => tx[p].risk \in {None, [risk EXCEPT !.sys = "KILLED"]}
    /\ pc[p] = "adminCommit" => Switched(tx[p].risk)
    /\ pc[p] \notin {"createIntent", "commitIntent", "commitExecution", "commitReport",
                     "adminCommit"} => tx[p].risk = None

\* What p has written of its execution.
Shelf(p) ==
    Booked(p) =>
        /\ tx[p].fill = {NewFill(p)}
        /\ pc[p] # "setBalance" => tx[p].cash = NewCash(p)
        /\ pc[p] \notin {"setBalance", "upsertPosition"} =>
              tx[p].pos = NewPosition(p) /\ tx[p].snap = {NewSnapshot(p)}

Current(p) == Reads(p) /\ RiskRow(p) /\ Shelf(p)

SerialInv == OneAtATime /\ \A p \in Procs : Current(p)

LEMMA SerialInit == Init => SerialInv
<1> SUFFICES ASSUME Init PROVE SerialInv
    OBVIOUS
<1>1. ASSUME NEW p \in Procs PROVE pc[p] = "idle" /\ tx[p].risk = None
    BY DEF Init, NoWrites
<1>2. OneAtATime
    BY <1>1 DEF OneAtATime, Underway
<1>3. ASSUME NEW p \in Procs PROVE Reads(p) /\ RiskRow(p) /\ Shelf(p)
    BY <1>1 DEF Reads, RiskRow, Shelf, Booked, Busy, Reviewed, CycleSteps
<1> QED BY <1>2, <1>3 DEF SerialInv, Current

\* The others are idle, and stay so.
OnlyOne(p) == \A q \in Procs : q # p => ~Underway(q)

LEMMA NoOneElse ==
    ASSUME MaxInFlight = 1, SerialInv, NEW p \in Procs, Underway(p) \/ MayArrive(p)
    PROVE  OnlyOne(p)
<1>1. CASE Underway(p)
    BY <1>1 DEF SerialInv, OneAtATime, OnlyOne
<1>2. CASE MayArrive(p)
    <2> SUFFICES ASSUME NEW q \in Procs, Underway(q) PROVE FALSE
        BY DEF OnlyOne
    <2>1. InFlight = {q}
        BY DEF SerialInv, OneAtATime, InFlight, Underway
    <2>2. Cardinality(InFlight) = 1
        BY <2>1, FS_Singleton
    <2> QED BY <1>2, <2>2 DEF MayArrive
<1> QED BY <1>1, <1>2

LEMMA SerialOneStep ==
    ASSUME TypeInv, SerialInv, NEW p \in Procs, Moves(p), OnlyOne(p), Current(p)'
    PROVE  SerialInv'
<1>1. ASSUME NEW q \in Procs, q # p PROVE ~Underway(q)' /\ Current(q)'
    <2>1. pc'[q] = pc[q] /\ tx'[q] = tx[q] /\ pc[q] \in {"idle", "done"}
        BY <1>1 DEF Moves, OnlyOne, Underway, TypeInv, TypeOK
    <2>2. tx[q].risk = None
        BY <2>1 DEF SerialInv, Current, RiskRow
    <2>3. ~Booked(q)'
        BY <2>1 DEF Booked, Busy
    <2>4. Reads(q)'
        BY <2>1, <2>3 DEF Reads, CycleSteps
    <2>5. RiskRow(q)'
        BY <2>1, <2>2, <2>3 DEF RiskRow, Reviewed, Busy
    <2>6. Shelf(q)'
        BY <2>3 DEF Shelf
    <2> QED BY <2>1, <2>4, <2>5, <2>6 DEF Underway, Current
<1>2. OneAtATime'
    BY <1>1 DEF OneAtATime
<1> QED BY <1>1, <1>2 DEF SerialInv

\* A request that has ended, or is just to read the account, knows nothing.
LEMMA NothingKnown ==
    ASSUME NEW p \in Procs, tx'[p].risk = None, pc'[p] \in {"done", "listFills"}
    PROVE  Current(p)'
<1>1. ~Booked(p)'
    BY DEF Booked, Busy
<1>2. Reads(p)'
    BY <1>1 DEF Reads, CycleSteps
<1>3. RiskRow(p)'
    BY <1>1 DEF RiskRow, Reviewed, Busy
<1>4. Shelf(p)'
    BY <1>1 DEF Shelf
<1> QED BY <1>2, <1>3, <1>4 DEF Current

\* Up to the commit of the evaluation.
LEMMA SerialEvaluation ==
    ASSUME TypeInv, SerialInv, NEW p \in Procs,
           \/ Arrive(p)
           \/ GetTicker(p) \/ GetBalance(p) \/ GetPosition(p) \/ LatestSnapshot(p)
           \/ EvaluateRisk(p) \/ SaveDayReset(p) \/ CreateIntent(p)
    PROVE  Current(p)'
<1> USE DEF TypeInv, TypeOK
<1>a. Reads(p) /\ RiskRow(p)
    BY DEF SerialInv, Current
<1> DEFINE early == {"hold", "quote", "getBalance", "getPosition", "latestSnapshot", "evaluate"}
<1>b. ASSUME pc'[p] \in early, tx'[p].risk = None, loc'[p].now = clock',
             pc'[p] # "hold" => Side(p)' # "hold",
             pc'[p] \in {"getPosition", "latestSnapshot"} => loc'[p].cash = cash'
      PROVE  Current(p)'
    <2>1. ~Booked(p)'
        BY <1>b DEF Booked, Busy
    <2>2. Reads(p)'
        BY <1>b, <2>1 DEF Reads, CycleSteps
    <2>3. RiskRow(p)'
        BY <1>b, <2>1 DEF RiskRow, Reviewed, Busy
    <2>4. Shelf(p)'
        BY <2>1 DEF Shelf
    <2> QED BY <2>2, <2>3, <2>4 DEF Current
<1>1. CASE Arrive(p)
    <2>1. PICK o \in Orders, t \in (clock + 1)..MaxClock :
              /\ clock' = t
              /\ loc' = [loc EXCEPT ![p].order = o, ![p].now = t]
              /\ Step(p, "idle", IF OrderSide[o] = "hold" THEN "hold" ELSE "quote")
        BY <1>1 DEF Arrive
    <2>2. loc'[p] = [loc[p] EXCEPT !.order = o, !.now = t]
        BY <2>1
    <2>3. loc'[p].order = o /\ loc'[p].now = clock'
        BY <2>1, <2>2 DEF Locals
    <2>4. pc'[p] = IF OrderSide[o] = "hold" THEN "hold" ELSE "quote"
        BY <2>1 DEF Step
    <2>5. tx'[p].risk = None
        BY <1>1, <1>a, <2>1 DEF Arrive, RiskRow, Step
    <2> QED BY <1>b, <2>3, <2>4, <2>5 DEF Side
<1>2. CASE GetTicker(p) \/ GetBalance(p) \/ GetPosition(p) \/ LatestSnapshot(p)
    <2>1. UNCHANGED <<db, clock, tx>>
        BY <1>2 DEF GetTicker, GetBalance, GetPosition, LatestSnapshot
    <2>2. loc'[p].order = loc[p].order /\ loc'[p].now = loc[p].now
        <3>1. CASE GetTicker(p)
            <4>1. PICK t, a : loc' = [loc EXCEPT ![p].tick = t, ![p].active = a]
                BY <3>1 DEF GetTicker
            <4>2. loc'[p] = [loc[p] EXCEPT !.tick = t, !.active = a]
                BY <4>1
            <4> QED BY <4>2 DEF Locals
        <3>2. CASE GetBalance(p) \/ GetPosition(p) \/ LatestSnapshot(p)
            BY <3>2 DEF GetBalance, GetPosition, LatestSnapshot, Locals
        <3> QED BY <1>2, <3>1, <3>2
    <2>3. pc[p] \in early \ {"hold"} /\ pc'[p] \in early \ {"hold"}
        BY <1>2 DEF GetTicker, GetBalance, GetPosition, LatestSnapshot, Step
    <2>4. loc[p].now = clock /\ Side(p) # "hold" /\ tx[p].risk = None
        BY <1>a, <2>3 DEF Reads, RiskRow, CycleSteps
    <2>5. pc'[p] \in {"getPosition", "latestSnapshot"} => loc'[p].cash = cash
        BY <1>2, <1>a DEF GetTicker, GetBalance, GetPosition, LatestSnapshot, Step, Locals, Reads
    <2> QED BY <1>b, <2>1, <2>2, <2>3, <2>4, <2>5 DEF Side, db
<1> DEFINE late == {"saveDayReset", "createIntent", "commitIntent"}
<1>c. ASSUME pc[p] \in late \cup {"evaluate"}, pc'[p] \in late,
             UNCHANGED <<db, clock>>,
             loc'[p].order = loc[p].order, loc'[p].now = loc[p].now,
             IF pc'[p] = "saveDayReset"
             THEN Rolled(p, loc'[p].risk) /\ tx'[p].risk = None
             ELSE IF tx'[p].risk = None THEN risk.day = Day(loc[p].now)
                                        ELSE Rolled(p, tx'[p].risk)
      PROVE  Current(p)'
    <2>1. ~Booked(p)'
        BY <1>c DEF Booked, Busy
    <2>2. loc[p].now = clock /\ Side(p) # "hold"
        BY <1>a, <1>c DEF Reads, CycleSteps
    <2>3. pc'[p] = "saveDayReset" => Rolled(p, loc[p].risk)'
        BY <1>c DEF Rolled, db
    <2>4. Reads(p)'
        BY <1>c, <2>1, <2>2, <2>3 DEF Reads, CycleSteps, Side
    <2>5. RiskRow(p)'
        BY <1>c, <2>1 DEF RiskRow, Reviewed, Busy, Rolled, db
    <2>6. Shelf(p)'
        BY <2>1 DEF Shelf
    <2> QED BY <2>4, <2>5, <2>6 DEF Current
<1>3. CASE EvaluateRisk(p)
    <2> DEFINE state == ResetForDay(risk, Day(loc[p].now), loc[p].equity)
               ok == Approves(Qty(p), Context(p), state)
    <2>1. UNCHANGED <<db, clock, tx>> /\ pc[p] = "evaluate"
        BY <1>3 DEF EvaluateRisk, Step
    <2>2. loc' = [loc EXCEPT ![p].risk = state, ![p].approved = ok]
        BY <1>3 DEF EvaluateRisk
    <2>3. pc'[p] = IF state = risk THEN "createIntent" ELSE "saveDayReset"
        BY <1>3 DEF EvaluateRisk, Step
    <2>4. IF state = risk THEN risk.day = Day(loc[p].now) ELSE Rolled(p, state)
        BY DEF ResetForDay, Rolled
    <2>5. tx[p].risk = None
        BY <1>a, <2>1 DEF RiskRow
    <2> HIDE DEF state, ok
    <2>6. loc'[p] = [loc[p] EXCEPT !.risk = state, !.approved = ok]
        BY <2>2
    <2>7. loc'[p].risk = state /\ loc'[p].order = loc[p].order /\ loc'[p].now = loc[p].now
        BY <2>6 DEF Locals
    <2> QED BY <1>c, <2>1, <2>3, <2>4, <2>5, <2>7
<1>4. CASE SaveDayReset(p)
    <2>1. pc[p] = "saveDayReset" /\ pc'[p] = "createIntent" /\ UNCHANGED <<db, clock, loc>>
        BY <1>4 DEF SaveDayReset, Step
    <2>2. tx'[p].risk = loc[p].risk
        BY <1>4 DEF SaveDayReset, Writes
    <2>3. Rolled(p, loc[p].risk)
        BY <1>a, <2>1 DEF Reads
    <2>4. loc[p].risk # None
        BY <2>1, NoneIsNoRow DEF LocalsOK
    <2> QED BY <1>c, <2>1, <2>2, <2>3, <2>4
<1>5. CASE CreateIntent(p)
    <2>1. pc[p] = "createIntent" /\ pc'[p] = "commitIntent" /\ UNCHANGED <<db, clock>>
        BY <1>5 DEF CreateIntent, Step
    <2>2. PICK i : /\ loc' = [loc EXCEPT ![p].intent = i, ![p].risk = None]
                   /\ tx' = [tx EXCEPT ![p].intent = i] \/ tx' = tx
        BY <1>5 DEF CreateIntent
    <2>3. loc'[p] = [loc[p] EXCEPT !.intent = i, !.risk = None]
        BY <2>2
    <2>4. loc'[p].order = loc[p].order /\ loc'[p].now = loc[p].now /\ tx'[p].risk = tx[p].risk
        BY <2>2, <2>3 DEF Locals, Writes
    <2>5. IF tx[p].risk = None THEN risk.day = Day(loc[p].now) ELSE Rolled(p, tx[p].risk)
        BY <1>a, <2>1 DEF RiskRow
    <2> QED BY <1>c, <2>1, <2>4, <2>5
<1> QED BY <1>1, <1>2, <1>3, <1>4, <1>5

LEMMA SerialCommitIntent ==
    ASSUME TypeInv, SerialInv, NEW p \in Procs, CommitIntent(p)
    PROVE  Current(p)'
<1> USE DEF TypeInv, TypeOK
<1>a. Reads(p) /\ RiskRow(p)
    BY DEF SerialInv, Current
<1>1. pc[p] = "commitIntent" /\ tx'[p].risk = None /\ clock' = clock
    BY DEF CommitIntent, Step, Commit, NoWrites
<1>2. CASE ~loc[p].approved
    <2>1. pc'[p] = "done"
        BY <1>2 DEF CommitIntent, Step
    <2> QED BY <1>1, <2>1, NothingKnown
<1>3. CASE loc[p].approved
    <2>1. pc'[p] = "checkFill"
        BY <1>3 DEF CommitIntent, Step
    <2>2. loc' = [loc EXCEPT ![p].cash = 0, ![p].pos = NoPosition,
                             ![p].equity = 0, ![p].approved = FALSE]
        BY <1>3 DEF CommitIntent
    <2>3. loc'[p] = [loc[p] EXCEPT !.cash = 0, !.pos = NoPosition, !.equity = 0, !.approved = FALSE]
        BY <2>2
    <2>4. loc'[p].order = loc[p].order /\ loc'[p].now = loc[p].now
        BY <2>3 DEF Locals
    <2>5. risk' = IF tx[p].risk = None THEN risk ELSE tx[p].risk
        BY DEF CommitIntent, Commit
    <2>6. risk'.day = Day(loc[p].now)
        BY <1>1, <1>a, <2>5 DEF RiskRow, Rolled
    <2>7. ~Booked(p)' /\ Shelf(p)'
        BY <2>1 DEF Booked, Busy, Shelf
    <2>8. Reads(p)'
        BY <1>1, <1>a, <2>1, <2>4, <2>7 DEF Reads, CycleSteps, Side
    <2>9. RiskRow(p)'
        BY <1>1, <2>1, <2>4, <2>6, <2>7 DEF RiskRow
    <2> QED BY <2>7, <2>8, <2>9 DEF Current
<1> QED BY <1>2, <1>3

\* What p computes does not change while its variables do not.
SameInputs(p) ==
    /\ loc'[p].order = loc[p].order /\ loc'[p].now = loc[p].now
    /\ loc'[p].tick = loc[p].tick
    /\ loc'[p].cash = loc[p].cash /\ loc'[p].pos = loc[p].pos

LEMMA SameOutputs ==
    ASSUME NEW p \in Procs, SameInputs(p)
    PROVE  /\ Side(p)' = Side(p) /\ Qty(p)' = Qty(p) /\ Symbol(p)' = Symbol(p)
           /\ Price(p)' = Price(p)
           /\ NewCash(p)' = NewCash(p) /\ NewPosition(p)' = NewPosition(p)
           /\ NewEquity(p)' = NewEquity(p) /\ OpenAfter(p)' = OpenAfter(p)
           /\ NewFill(p)' = NewFill(p) /\ NewSnapshot(p)' = NewSnapshot(p)
<1>1. Side(p)' = Side(p) /\ Qty(p)' = Qty(p) /\ Symbol(p)' = Symbol(p)
    BY DEF SameInputs, Side, Qty, Symbol
<1>2. Price(p)' = Price(p)
    BY <1>1 DEF SameInputs, Price
<1>3. NewCash(p)' = NewCash(p) /\ NewPosition(p)' = NewPosition(p)
    BY <1>1, <1>2 DEF SameInputs, NewCash, NewPosition
<1>4. NewEquity(p)' = NewEquity(p) /\ OpenAfter(p)' = OpenAfter(p)
    BY <1>3 DEF SameInputs, NewEquity, OpenAfter
<1>5. NewFill(p)' = NewFill(p) /\ NewSnapshot(p)' = NewSnapshot(p)
    BY <1>1, <1>2, <1>4 DEF SameInputs, NewFill, NewSnapshot
<1> QED BY <1>1, <1>2, <1>3, <1>4, <1>5

\* From the check of the system state to the check of the balance.
LEMMA SerialChecks ==
    ASSUME TypeInv, ExecInv, SerialInv, NEW p \in Procs,
           CheckFill(p) \/ CheckSystemState(p) \/ ExecBalance(p) \/ ExecPosition(p)
    PROVE  Current(p)'
<1> USE DEF TypeInv, TypeOK
<1>a. Reads(p) /\ RiskRow(p)
    BY DEF SerialInv, Current
<1>0. UNCHANGED <<db, clock, tx>>
    BY DEF CheckFill, CheckSystemState, ExecBalance, ExecPosition
<1>1. pc[p] \in {"checkFill", "checkState", "execBalance", "execPosition"}
    BY DEF CheckFill, CheckSystemState, ExecBalance, ExecPosition, Step
<1>2. /\ loc[p].now = clock /\ Side(p) # "hold" /\ tx[p].risk = None
      /\ risk.day = Day(loc[p].now) /\ tx[p].fill = {}
    BY <1>1, <1>a, EmptyOutside DEF Reads, RiskRow, Reviewed, Busy, CycleSteps, Empty
<1>3. /\ loc'[p].order = loc[p].order /\ loc'[p].now = loc[p].now
      /\ loc'[p].tick = loc[p].tick
    BY DEF CheckFill, CheckSystemState, ExecBalance, ExecPosition, Locals
<1>4. pc'[p] \in {"commitExecution", "checkState", "execBalance", "failed", "execPosition",
                  "insertFill"}
    BY DEF CheckFill, CheckSystemState, ExecBalance, ExecPosition, Step
<1>5. ~Booked(p)' /\ Shelf(p)'
    BY <1>0, <1>2, <1>4 DEF Booked, Busy, Shelf
<1>6. pc'[p] = "execPosition" => loc'[p].cash = cash
    BY <1>1 DEF CheckFill, CheckSystemState, ExecBalance, ExecPosition, Step, Locals
<1>7. pc'[p] = "insertFill" =>
          /\ loc'[p].cash = cash /\ loc'[p].pos = pos[Symbol(p)]
          /\ Affordable(Side(p), Qty(p), Price(p), loc'[p].cash, loc'[p].pos)
    <2> SUFFICES ASSUME pc'[p] = "insertFill"
                 PROVE  /\ loc'[p].cash = cash /\ loc'[p].pos = pos[Symbol(p)]
                        /\ Affordable(Side(p), Qty(p), Price(p), loc'[p].cash, loc'[p].pos)
        OBVIOUS
    <2>1. ExecPosition(p)
        BY <1>1 DEF CheckFill, CheckSystemState, ExecBalance, ExecPosition, Step
    <2>2. loc'[p].cash = loc[p].cash /\ loc'[p].pos = pos[Symbol(p)] /\ pc[p] = "execPosition"
        BY <2>1 DEF ExecPosition, Step, Locals
    <2>3. loc[p].cash = cash
        BY <1>a, <2>2 DEF Reads
    <2>4. Affordable(Side(p), Qty(p), Price(p), loc[p].cash, pos[Symbol(p)])
        BY <2>1 DEF ExecPosition, Step, Price
    <2> QED BY <2>2, <2>3, <2>4
<1>8. Side(p)' = Side(p) /\ Qty(p)' = Qty(p) /\ Symbol(p)' = Symbol(p) /\ Price(p)' = Price(p)
    BY <1>3 DEF Side, Qty, Symbol, Price
<1>9. Reads(p)'
    BY <1>0, <1>2, <1>3, <1>4, <1>5, <1>6, <1>7, <1>8 DEF Reads, CycleSteps, db
<1>10. pc'[p] \in {"execBalance", "execPosition", "insertFill"} => risk.sys = "ENABLED"
    BY <1>1, <1>a DEF CheckFill, CheckSystemState, ExecBalance, ExecPosition, Step, RiskRow
<1>11. RiskRow(p)'
    BY <1>0, <1>2, <1>3, <1>4, <1>5, <1>10 DEF RiskRow, Reviewed, Busy, db
<1> QED BY <1>5, <1>9, <1>11 DEF Current

\* The writes of the execution.
LEMMA SerialWrites ==
    ASSUME TypeInv, ExecInv, SerialInv, NEW p \in Procs,
           \/ InsertFill(p) \/ SetBalance(p) \/ UpsertPosition(p) \/ FinalizeIntent(p)
           \/ ReadRisk(p) \/ SaveRisk(p)
    PROVE  Current(p)'
<1> USE DEF TypeInv, TypeOK
<1>a. Reads(p) /\ RiskRow(p) /\ Shelf(p)
    BY DEF SerialInv, Current
<1>0. UNCHANGED <<db, clock>>
    BY DEF InsertFill, SetBalance, UpsertPosition, FinalizeIntent, ReadRisk, SaveRisk
<1>1. pc[p] \in Busy \cup {"insertFill"}
    BY DEF InsertFill, SetBalance, UpsertPosition, FinalizeIntent, ReadRisk, SaveRisk, Step, Busy
<1>2. /\ loc[p].now = clock /\ Side(p) # "hold" /\ tx[p].risk = None
      /\ risk.day = Day(loc[p].now) /\ risk.sys = "ENABLED"
      /\ loc[p].cash = cash /\ loc[p].pos = pos[Symbol(p)]
      /\ Affordable(Side(p), Qty(p), Price(p), loc[p].cash, loc[p].pos)
    BY <1>1, <1>a DEF Reads, RiskRow, Reviewed, Busy, CycleSteps, Booked
<1>3. SameInputs(p)
    BY DEF InsertFill, SetBalance, UpsertPosition, FinalizeIntent, ReadRisk, SaveRisk, Locals,
           SameInputs
<1>4. pc'[p] \in (Busy \ {"setBalance"}) \cup {"setBalance", "commitExecution", "failed"}
    BY DEF InsertFill, SetBalance, UpsertPosition, FinalizeIntent, ReadRisk, SaveRisk, Step, Busy
<1>5. pc'[p] = "saveRisk" => loc'[p].risk = risk
    BY <1>1 DEF InsertFill, SetBalance, UpsertPosition, FinalizeIntent, ReadRisk, SaveRisk, Step,
           Locals
<1>6. Reads(p)'
    BY <1>0, <1>2, <1>3, <1>4, <1>5, SameOutputs DEF Reads, CycleSteps, Busy, SameInputs, db
<1>b. ASSUME Shelf(p)',
             IF pc'[p] = "commitExecution"
             THEN tx'[p].risk = IF tx'[p].fill = {} THEN None ELSE Recorded(p)
             ELSE tx'[p].risk = None
      PROVE  Current(p)'
    <2>1. Recorded(p)' = Recorded(p)
        BY <1>0, <1>3, SameOutputs DEF Recorded, SameInputs, db
    <2>2. RiskRow(p)'
        BY <1>0, <1>2, <1>3, <1>4, <1>b, <2>1 DEF RiskRow, Reviewed, Busy, SameInputs, db
    <2> QED BY <1>6, <1>b, <2>2 DEF Current
<1>7. CASE InsertFill(p)
    <2>1. Empty(p)
        BY <1>7, EmptyOutside DEF InsertFill, Step, Busy
    <2>2. CASE \E f \in fills : f.order = loc[p].order
        <3>1. pc'[p] = "commitExecution" /\ tx'[p].fill = {} /\ tx'[p].risk = None
            BY <1>2, <1>7, <2>2 DEF InsertFill, Step, Writes
        <3>2. Shelf(p)'
            BY <3>1 DEF Shelf, Booked, Busy
        <3> QED BY <1>b, <3>1, <3>2
    <2>3. CASE ~\E f \in fills : f.order = loc[p].order
        <3>1. pc'[p] = "setBalance" /\ tx'[p].fill = {NewFill(p)} /\ tx'[p].risk = None
            BY <1>2, <1>7, <2>3 DEF InsertFill, Step, Writes
        <3>2. Shelf(p)'
            BY <1>3, <3>1, SameOutputs DEF Shelf
        <3> QED BY <1>b, <3>1, <3>2
    <2> QED BY <2>2, <2>3
<1>8. CASE SetBalance(p)
    <2>1. pc[p] = "setBalance" /\ pc'[p] = "upsertPosition"
        BY <1>8 DEF SetBalance, Step
    <2>2. tx'[p].fill = tx[p].fill /\ tx'[p].cash = NewCash(p) /\ tx'[p].risk = tx[p].risk
        BY <1>8 DEF SetBalance, Writes
    <2>3. Shelf(p)'
        BY <1>a, <1>3, <2>1, <2>2, SameOutputs DEF Shelf, Booked, Busy
    <2> QED BY <1>2, <1>b, <2>1, <2>2, <2>3
<1>9. CASE UpsertPosition(p)
    <2>1. pc[p] = "upsertPosition" /\ pc'[p] = "finalizeIntent"
        BY <1>9 DEF UpsertPosition, Step
    <2>2. tx'[p] = [tx[p] EXCEPT !.pos = NewPosition(p), !.snap = {NewSnapshot(p)}]
        BY <1>9 DEF UpsertPosition
    <2>3. /\ tx'[p].fill = tx[p].fill /\ tx'[p].cash = tx[p].cash /\ tx'[p].risk = tx[p].risk
          /\ tx'[p].pos = NewPosition(p) /\ tx'[p].snap = {NewSnapshot(p)}
        BY <2>2 DEF Writes
    <2>4. Shelf(p)'
        BY <1>a, <1>3, <2>1, <2>3, SameOutputs DEF Shelf, Booked, Busy
    <2> QED BY <1>2, <1>b, <2>1, <2>3, <2>4
<1>10. CASE FinalizeIntent(p) \/ ReadRisk(p)
    <2>1. pc[p] \in {"finalizeIntent", "readRisk"} /\ pc'[p] \in {"readRisk", "saveRisk", "failed"}
        BY <1>10 DEF FinalizeIntent, ReadRisk, Step
    <2>2. /\ tx'[p].fill = tx[p].fill /\ tx'[p].cash = tx[p].cash /\ tx'[p].risk = tx[p].risk
          /\ tx'[p].pos = tx[p].pos /\ tx'[p].snap = tx[p].snap
        BY <1>10 DEF FinalizeIntent, ReadRisk, Writes
    <2>3. Shelf(p)'
        BY <1>a, <1>3, <2>1, <2>2, SameOutputs DEF Shelf, Booked, Busy
    <2> QED BY <1>2, <1>b, <2>1, <2>2, <2>3
<1>11. CASE SaveRisk(p)
    <2>1. pc[p] = "saveRisk" /\ pc'[p] = "commitExecution"
        BY <1>11 DEF SaveRisk, Step
    <2>2. loc[p].risk = risk
        BY <1>a, <2>1 DEF Reads
    <2>3. /\ tx'[p].fill = tx[p].fill /\ tx'[p].cash = tx[p].cash
          /\ tx'[p].pos = tx[p].pos /\ tx'[p].snap = tx[p].snap
          /\ tx'[p].risk = Recorded(p)
        BY <1>11, <2>2 DEF SaveRisk, Recorded, Writes
    <2>4. Shelf(p)'
        BY <1>a, <1>3, <2>1, <2>3, SameOutputs DEF Shelf, Booked, Busy
    <2>5. tx'[p].fill # {}
        BY <1>a, <2>1, <2>3 DEF Shelf, Booked, Busy
    <2> QED BY <1>b, <2>1, <2>3, <2>4, <2>5
<1> QED BY <1>7, <1>8, <1>9, <1>10, <1>11

\* Reconciliation and the administrator's transitions.
LEMMA SerialOthers ==
    ASSUME TypeInv, SerialInv, NEW p \in Procs,
           \/ StartReconcile(p) \/ ListFills(p) \/ ListBalances(p) \/ ListPositions(p)
           \/ ReadRiskToKill(p) \/ SaveKilled(p)
           \/ AdminRead(p) \/ AdminSave(p)
    PROVE  Current(p)'
<1> USE DEF TypeInv, TypeOK
<1>a. Reads(p) /\ RiskRow(p)
    BY DEF SerialInv, Current
<1>0. UNCHANGED <<db, clock>>
    BY DEF StartReconcile, ListFills, ListBalances, ListPositions, ReadRiskToKill, SaveKilled,
           AdminRead, AdminSave
<1> DEFINE there == {"done", "listFills", "listBalances", "listPositions", "killRead",
                     "saveKilled", "commitReport", "adminSave", "adminCommit"}
<1>1. pc'[p] \in there
    BY DEF StartReconcile, ListFills, ListBalances, ListPositions, ReadRiskToKill, SaveKilled,
           AdminRead, AdminSave, Step
<1>2. pc[p] \in {"idle", "listFills", "listBalances", "listPositions", "killRead", "saveKilled",
                 "adminSave"}
    BY DEF StartReconcile, ListFills, ListBalances, ListPositions, ReadRiskToKill, SaveKilled,
           AdminRead, AdminSave, Step
<1>3. tx[p].risk = None
    BY <1>a, <1>2 DEF RiskRow
<1>4. ~Booked(p)' /\ Shelf(p)'
    BY <1>1 DEF Booked, Busy, Shelf
<1>b. ASSUME pc'[p] \in {"listBalances", "listPositions"} => loc'[p].seen = fills,
             pc'[p] = "listPositions" => loc'[p].cash = cash,
             pc'[p] = "saveKilled" => loc'[p].risk = risk,
             pc'[p] = "adminSave" => Switched(loc'[p].risk),
             IF pc'[p] = "adminCommit" THEN Switched(tx'[p].risk)
             ELSE IF pc'[p] = "commitReport"
                  THEN tx'[p].risk \in {None, [risk EXCEPT !.sys = "KILLED"]}
                  ELSE tx'[p].risk = None
      PROVE  Current(p)'
    <2>1. Reads(p)'
        BY <1>0, <1>1, <1>4, <1>b DEF Reads, CycleSteps, Switched, db
    <2>2. RiskRow(p)'
        BY <1>0, <1>1, <1>4, <1>b DEF RiskRow, Reviewed, Busy, Switched, db
    <2> QED BY <1>4, <2>1, <2>2 DEF Current
<1>5. CASE StartReconcile(p)
    BY <1>3, <1>5, <1>b DEF StartReconcile, Step
<1>6. CASE ListFills(p)
    BY <1>3, <1>6, <1>b DEF ListFills, Step, Locals
<1>7. CASE ListBalances(p)
    <2>1. pc[p] = "listBalances" /\ pc'[p] = "listPositions"
        BY <1>7 DEF ListBalances, Step
    <2>2. loc'[p].seen = loc[p].seen /\ loc'[p].cash = cash /\ tx' = tx
        BY <1>7 DEF ListBalances, Locals
    <2>3. loc[p].seen = fills
        BY <1>a, <2>1 DEF Reads
    <2> QED BY <1>3, <1>b, <2>1, <2>2, <2>3
<1>8. CASE ListPositions(p)
    <2>1. pc'[p] \in {"commitReport", "killRead"} /\ tx' = tx
        BY <1>8 DEF ListPositions, Step
    <2> QED BY <1>3, <1>b, <2>1
<1>9. CASE ReadRiskToKill(p)
    <2>1. pc'[p] = IF risk.sys = "KILLED" THEN "commitReport" ELSE "saveKilled"
        BY <1>9 DEF ReadRiskToKill, Step
    <2>2. tx' = tx /\ loc'[p].risk = IF risk.sys = "KILLED" THEN None ELSE risk
        BY <1>9 DEF ReadRiskToKill, Locals
    <2> QED BY <1>3, <1>b, <2>1, <2>2
<1>10. CASE SaveKilled(p)
    <2>1. pc[p] = "saveKilled" /\ pc'[p] = "commitReport"
        BY <1>10 DEF SaveKilled, Step
    <2>2. tx'[p].risk = [loc[p].risk EXCEPT !.sys = "KILLED"]
        BY <1>10 DEF SaveKilled, Writes
    <2>3. loc[p].risk = risk
        BY <1>a, <2>1 DEF Reads
    <2> QED BY <1>b, <2>1, <2>2, <2>3
<1>11. CASE AdminRead(p)
    <2>1. PICK c \in AdminCommands :
              IF risk.sys \in AllowedFrom[c]
              THEN /\ Step(p, "idle", "adminSave")
                   /\ loc' = [loc EXCEPT ![p].risk = [risk EXCEPT !.sys = Target[c]]]
              ELSE /\ Step(p, "idle", "done")
                   /\ Answer(p, "conflict")
        BY <1>11 DEF AdminRead
    <2>2. tx' = tx
        BY <1>11 DEF AdminRead
    <2>3. CASE risk.sys \in AllowedFrom[c]
        <3>1. pc'[p] = "adminSave" /\ loc'[p].risk = [risk EXCEPT !.sys = Target[c]]
            BY <2>1, <2>3 DEF Step, Locals
        <3>2. Switched(loc'[p].risk)
            BY <2>3, <3>1 DEF Switched
        <3> QED BY <1>3, <1>b, <2>2, <3>1, <3>2
    <2>4. CASE risk.sys \notin AllowedFrom[c]
        BY <1>3, <2>1, <2>2, <2>4, NothingKnown DEF Step
    <2> QED BY <2>3, <2>4
<1>12. CASE AdminSave(p)
    <2>1. pc[p] = "adminSave" /\ pc'[p] = "adminCommit"
        BY <1>12 DEF AdminSave, Step
    <2>2. tx'[p].risk = loc[p].risk
        BY <1>12 DEF AdminSave, Writes
    <2>3. Switched(loc[p].risk)
        BY <1>a, <2>1 DEF Reads
    <2> QED BY <1>b, <2>1, <2>2, <2>3
<1> QED BY <1>5, <1>6, <1>7, <1>8, <1>9, <1>10, <1>11, <1>12

\* The steps that leave p with nothing to know.
LEMMA SerialEnds ==
    ASSUME TypeInv, SerialInv, NEW p \in Procs,
           \/ CycleHold(p) \/ QuoteUnavailable(p) \/ IdempotencyConflict(p)
           \/ CommitExecution(p) \/ ExecutionFailed(p) \/ CommitReport(p)
           \/ AdminCommit(p) \/ DeadlockVictim(p) \/ Crash(p)
    PROVE  Current(p)'
<1> USE DEF TypeInv, TypeOK
<1>1. pc'[p] \in {"done", "listFills"}
    BY DEF CycleHold, QuoteUnavailable, IdempotencyConflict, CommitExecution, ExecutionFailed,
           CommitReport, AdminCommit, DeadlockVictim, Crash, Step
<1>2. CASE QuoteUnavailable(p)
    <2>1. pc[p] = "quote" /\ tx' = tx
        BY <1>2 DEF QuoteUnavailable, Step
    <2>2. tx[p].risk = None
        BY <2>1 DEF SerialInv, Current, RiskRow
    <2> QED BY <1>1, <2>1, <2>2, NothingKnown
<1>3. CASE ~QuoteUnavailable(p)
    <2>1. tx'[p] = NoWrites
        BY <1>3 DEF CycleHold, IdempotencyConflict, CommitExecution, ExecutionFailed,
           CommitReport, AdminCommit, DeadlockVictim, Crash, Rollback, Commit
    <2> QED BY <1>1, <2>1, NothingKnown DEF NoWrites
<1> QED BY <1>2, <1>3

LEMMA WhoMoves ==
    ASSUME NEW p \in Procs,
           Aside(p) \/ Buffering(p) \/ CommitIntent(p) \/ CommitExecution(p)
    PROVE  Underway(p) \/ MayArrive(p)
<1>1. ASSUME DeadlockVictim(p) PROVE Underway(p)
    BY <1>1 DEF DeadlockVictim, WaitsFor, NextTable, Underway
<1>2. CASE Reconciliation(p) \/ Administration(p) \/ Crash(p)
    BY <1>2 DEF Reconciliation, Administration, ListFills, ListBalances, ListPositions,
       ReadRiskToKill, SaveKilled, CommitReport, AdminSave, AdminCommit, Crash, Step, Underway
<1>3. CASE Buffering(p) \/ CommitIntent(p) \/ CommitExecution(p)
    BY <1>3 DEF Buffering, CreateIntent, InsertFill, SetBalance, UpsertPosition, FinalizeIntent,
       ReadRisk, SaveRisk, CommitIntent, CommitExecution, Step, Underway
<1> QED BY <1>1, <1>2, <1>3 DEF Aside, Arrive, CycleHold, GetTicker, QuoteUnavailable,
    GetBalance, GetPosition, LatestSnapshot, EvaluateRisk, SaveDayReset, IdempotencyConflict,
    CheckFill, CheckSystemState, ExecBalance, ExecPosition, ExecutionFailed, StartReconcile,
    AdminRead, Step, Underway

LEMMA SerialStep ==
    ASSUME MaxInFlight = 1
    PROVE  TypeInv /\ ExecInv /\ BookInv /\ SerialInv /\ [Next]_vars => SerialInv'
<1> SUFFICES ASSUME TypeInv, ExecInv, BookInv, SerialInv, [Next]_vars PROVE SerialInv'
    OBVIOUS
<1>1. CASE UNCHANGED vars
    <2>1. ASSUME NEW p \in Procs PROVE Current(p)'
        <3>1. Current(p)
            BY DEF SerialInv
        <3>2. SameInputs(p) /\ UNCHANGED <<db, clock, pc, loc, tx>>
            BY <1>1 DEF SameInputs, vars, db
        <3>3. Reads(p)'
            BY <3>1, <3>2, SameOutputs DEF Current, Reads, Booked, Rolled, Switched, db
        <3>4. RiskRow(p)'
            BY <3>1, <3>2, SameOutputs DEF Current, RiskRow, Booked, Rolled, Switched, Recorded, db
        <3>5. Shelf(p)'
            BY <3>1, <3>2, SameOutputs DEF Current, Shelf, Booked
        <3> QED BY <3>3, <3>4, <3>5 DEF Current
    <2>2. OneAtATime'
        BY <1>1 DEF SerialInv, OneAtATime, Underway, vars
    <2> QED BY <2>1, <2>2 DEF SerialInv
<1>2. ASSUME NEW p \in Procs,
             Aside(p) \/ Buffering(p) \/ CommitIntent(p) \/ CommitExecution(p)
      PROVE  OnlyOne(p) /\ Current(p)'
    <2>1. OnlyOne(p)
        BY <1>2, WhoMoves, NoOneElse
    <2>2. Current(p)'
        BY <1>2, SerialEvaluation, SerialCommitIntent, SerialChecks, SerialWrites, SerialOthers,
           SerialEnds DEF Aside, Buffering, Reconciliation, Administration
    <2> QED BY <2>1, <2>2
<1> QED BY <1>1, <1>2, StepBooks, SerialOneStep

LEMMA SerialCorrect ==
    ASSUME MaxInFlight = 1
    PROVE  Spec => [](TypeInv /\ ExecInv /\ BookInv /\ SerialInv)
BY BookCorrect, SerialInit, SerialStep, PTL DEF Spec

-------------------------------------------------------------------------------
(***************************************************************************)
(* What a step does to the account and to the risk row.                    *)
(***************************************************************************)

\* The commit of an execution: everything that p decided, on the account that
\* it decided on.
Booking(p) ==
    /\ cash' = NewCash(p)
    /\ pos' = [pos EXCEPT ![Symbol(p)] = NewPosition(p)]
    /\ fills' = fills \cup {NewFill(p)}
    /\ snaps' = snaps \cup {NewSnapshot(p)}
    /\ risk' = Recorded(p)
    /\ loc[p].cash = cash /\ loc[p].pos = pos[Symbol(p)] /\ loc[p].now = clock
    /\ loc[p].order \in Orders /\ loc[p].tick \in Tickers /\ Side(p) # "hold"
    /\ Affordable(Side(p), Qty(p), Price(p), loc[p].cash, loc[p].pos)
    /\ \A f \in fills : f.order # loc[p].order
    /\ risk.sys = "ENABLED" /\ risk.day = Day(clock)
    /\ NewFill(p) \in FillRow /\ NewSnapshot(p) \in SnapRow

\* The only other thing that changes is the risk row: it is rolled to the day
\* of the request that is under way, reconciliation kills, or an administrator
\* switches.
RowStep ==
    \/ risk' = risk
    \/ \E p \in Procs : Rolled(p, risk') /\ loc[p].now = clock
    \/ risk' = [risk EXCEPT !.sys = "KILLED"] /\ \E p \in Procs : pc[p] = "commitReport"
    \/ \E p \in Procs : Switched(risk') /\ pc[p] = "adminCommit" /\ pc'[p] = "done"

LEMMA BookingIs ==
    ASSUME TypeInv, ExecInv, BookInv, SerialInv, NEW p \in Procs, CommitExecution(p)
    PROVE  \/ Whole(p) /\ Booking(p) /\ UNCHANGED <<clock, events>>
           \/ Still /\ snaps' = snaps /\ risk' = risk
<1> USE DEF TypeInv, TypeOK
<1>1. pc[p] = "commitExecution" /\ Commit(p, {}) /\ clock' = clock
    BY DEF CommitExecution, Step
<1>2. Buffers(p) /\ Reads(p) /\ RiskRow(p) /\ Shelf(p)
    BY DEF ExecInv, SerialInv, Current
<1>3. CASE Empty(p)
    <2>1. tx[p].risk = None /\ tx[p].fill = {} /\ tx[p].snap = {}
        BY <1>1, <1>2, <1>3 DEF RiskRow, Empty
    <2>2. tx[p].cash = None /\ tx[p].pos = None
        BY <2>1 DEF BookInv, Books
    <2> QED BY <1>1, <2>1, <2>2 DEF Commit, Still
<1>4. CASE Whole(p)
    <2>1. Booked(p)
        BY <1>1, <1>4 DEF Booked, Whole
    <2>2. /\ tx[p].fill = {NewFill(p)} /\ tx[p].snap = {NewSnapshot(p)}
          /\ tx[p].cash = NewCash(p) /\ tx[p].pos = NewPosition(p) /\ tx[p].risk = Recorded(p)
        BY <1>1, <1>2, <2>1 DEF Shelf, RiskRow
    <2>3. /\ loc[p].cash = cash /\ loc[p].pos = pos[Symbol(p)] /\ loc[p].now = clock
          /\ Affordable(Side(p), Qty(p), Price(p), loc[p].cash, loc[p].pos)
          /\ Side(p) # "hold" /\ risk.sys = "ENABLED" /\ risk.day = Day(clock)
        BY <1>1, <1>2, <2>1 DEF Reads, RiskRow, CycleSteps, Reviewed
    <2>4. loc[p].order \in Orders /\ loc[p].tick \in Tickers
        BY <1>1 DEF LocalsOK, CycleSteps
    <2>5. \A f \in fills : f.order # loc[p].order
        BY <1>2, <1>4 DEF Buffers, Whole
    <2>6. NewFill(p) \in FillRow /\ NewSnapshot(p) \in SnapRow
        BY <2>2 DEF Writes
    <2>7. loc[p].cash \in Nat /\ loc[p].pos \in Position /\ loc[p].now \in Nat /\ risk \in RiskState
        BY DEF Locals, TablesOK
    <2>8. Qty(p) \in Nat \ {0} /\ Price(p) \in Nat
        <3>1. loc[p].tick \in Ticker
            BY <2>4, CycleConstants
        <3> QED BY <2>4, <3>1, CycleConstants, FillPriceIsNat DEF Qty, Price
    <2>9. NewCash(p) \in Nat
        BY <2>3, <2>7, <2>8, CashAfterIsNat DEF NewCash
    <2>10. NewPosition(p) \in Position
        BY <2>3, <2>7, <2>8, PositionAfterIsPosition DEF NewPosition
    <2>11. Recorded(p) \in RiskState
        <3>1. NewFill(p).realized \in Int /\ NewEquity(p) \in Int
            <4>1. NewSnapshot(p).equity \in Int /\ NewFill(p).realized \in Int
                BY <2>6 DEF FillRow, SnapRow
            <4> QED BY <4>1 DEF NewSnapshot
        <3>2. OpenAfter(p) \in Nat
            BY DEF OpenAfter
        <3> QED BY <2>7, <3>1, <3>2, ExecutionIsRiskState DEF Recorded
    <2>12. NewCash(p) # None /\ NewPosition(p) # None /\ Recorded(p) # None
        BY <2>9, <2>10, <2>11, NoneIsNoRow
    <2>13. /\ cash' = NewCash(p) /\ pos' = [pos EXCEPT ![Symbol(p)] = NewPosition(p)]
           /\ fills' = fills \cup {NewFill(p)} /\ snaps' = snaps \cup {NewSnapshot(p)}
           /\ risk' = Recorded(p) /\ events' = events
        BY <1>1, <2>2, <2>12 DEF Commit
    <2> QED BY <1>1, <1>4, <2>3, <2>4, <2>5, <2>6, <2>13 DEF Booking
<1> QED BY <1>1, <1>2, <1>3, <1>4 DEF Buffers

LEMMA AsideRow ==
    ASSUME TypeInv, ExecInv, SerialInv, NEW p \in Procs, Aside(p)
    PROVE  snaps' = snaps /\ RowStep
<1> USE DEF TypeInv, TypeOK
<1>a. RiskRow(p)
    BY DEF SerialInv, Current
<1>1. snaps' = snaps
    BY AsideIsHarmless DEF Harmless, Kept
<1>2. CASE CycleHold(p)
    <2>1. tx[p].risk = None
        BY <1>a, <1>2 DEF CycleHold, Step, RiskRow
    <2>2. risk' = risk
        BY <1>2, <2>1 DEF CycleHold, Commit
    <2> QED BY <1>1, <2>2 DEF RowStep
<1>3. CASE CommitReport(p)
    <2>1. pc[p] = "commitReport" /\ tx[p].risk \in {None, [risk EXCEPT !.sys = "KILLED"]}
        BY <1>a, <1>3 DEF CommitReport, Step, RiskRow
    <2>2. risk' = IF tx[p].risk = None THEN risk ELSE tx[p].risk
        BY <1>3 DEF CommitReport, Commit
    <2> QED BY <1>1, <2>1, <2>2 DEF RowStep
<1>4. CASE AdminCommit(p)
    <2>1. pc[p] = "adminCommit" /\ pc'[p] = "done" /\ Switched(tx[p].risk)
        BY <1>a, <1>4 DEF AdminCommit, Step, RiskRow
    <2>2. risk' = IF tx[p].risk = None THEN risk ELSE tx[p].risk
        BY <1>4 DEF AdminCommit, Commit
    <2> QED BY <1>1, <2>1, <2>2 DEF RowStep, Switched
<1>5. CASE ~CycleHold(p) /\ ~CommitReport(p) /\ ~AdminCommit(p)
    <2>1. risk' = risk
        BY <1>5 DEF Aside, Reconciliation, Administration, Arrive, GetTicker, QuoteUnavailable,
           GetBalance, GetPosition, LatestSnapshot, EvaluateRisk, SaveDayReset,
           IdempotencyConflict, CheckFill, CheckSystemState, ExecBalance, ExecPosition,
           ExecutionFailed, StartReconcile, ListFills, ListBalances, ListPositions,
           ReadRiskToKill, SaveKilled, AdminRead, AdminSave, DeadlockVictim, Crash, db
    <2> QED BY <1>1, <2>1 DEF RowStep
<1> QED BY <1>2, <1>3, <1>4, <1>5

LEMMA CommitIntentRow ==
    ASSUME TypeInv, ExecInv, SerialInv, NEW p \in Procs, CommitIntent(p)
    PROVE  snaps' = snaps /\ RowStep
<1> USE DEF TypeInv, TypeOK
<1>1. snaps' = snaps
    BY CommitIntentExec
<1>2. pc[p] = "commitIntent" /\ RiskRow(p) /\ Reads(p)
    BY DEF CommitIntent, Step, SerialInv, Current
<1>3. risk' = IF tx[p].risk = None THEN risk ELSE tx[p].risk
    BY DEF CommitIntent, Commit
<1>4. loc[p].now = clock
    BY <1>2 DEF Reads, CycleSteps
<1> QED BY <1>1, <1>2, <1>3, <1>4 DEF RiskRow, RowStep

LEMMA StepEffect ==
    ASSUME TypeInv, ExecInv, BookInv, SerialInv, [Next]_vars
    PROVE  \/ \E p \in Procs : Whole(p) /\ Booking(p) /\ UNCHANGED <<clock, events>>
           \/ Still /\ snaps' = snaps /\ RowStep
<1>1. ASSUME NEW p \in Procs, Buffering(p) PROVE snaps' = snaps /\ RowStep
    <2>1. snaps' = snaps
        BY <1>1, BufferingExec DEF Kept
    <2>2. risk' = risk
        BY <1>1 DEF Buffering, CreateIntent, InsertFill, SetBalance, UpsertPosition,
           FinalizeIntent, ReadRisk, SaveRisk, db
    <2> QED BY <2>1, <2>2 DEF RowStep
<1>2. CASE UNCHANGED vars
    BY <1>2 DEF vars, Still, RowStep
<1>3. ASSUME NEW p \in Procs, CommitExecution(p)
      PROVE  \/ Whole(p) /\ Booking(p) /\ UNCHANGED <<clock, events>>
             \/ Still /\ snaps' = snaps /\ RowStep
    BY <1>3, BookingIs DEF RowStep
<1> QED BY <1>1, <1>2, <1>3, StepBooks, AsideRow, CommitIntentRow

\* Only the administrator's requests are at an administrator's label.
AdminOnly == \A p \in Procs : pc[p] \in AdminSteps => p \in Admins

LEMMA AdminSteady ==
    ASSUME TypeInv, NEW p \in Procs, Arrive(p) \/ StartReconcile(p) \/ Proceed(p) \/ Crash(p)
    PROVE  pc' = [pc EXCEPT ![p] = pc'[p]] /\ (pc'[p] \in AdminSteps => pc[p] \in AdminSteps)
<1> USE DEF TypeInv, TypeOK, AdminSteps
<1>1. CASE Arrive(p) \/ StartReconcile(p) \/ Crash(p) \/ DeadlockVictim(p)
    BY <1>1 DEF Arrive, StartReconcile, Crash, DeadlockVictim, Step
<1>2. CASE Evaluation(p)
    BY <1>2 DEF Evaluation, CycleHold, GetTicker, QuoteUnavailable, GetBalance, GetPosition,
       LatestSnapshot, EvaluateRisk, SaveDayReset, CreateIntent, IdempotencyConflict,
       CommitIntent, Step
<1>3. CASE Execution(p)
    BY <1>3 DEF Execution, CheckFill, CheckSystemState, ExecBalance, ExecPosition, InsertFill,
       SetBalance, UpsertPosition, FinalizeIntent, ReadRisk, SaveRisk, CommitExecution,
       ExecutionFailed, Step
<1>4. CASE Reconciliation(p) \/ Administration(p)
    BY <1>4 DEF Reconciliation, Administration, ListFills, ListBalances, ListPositions,
       ReadRiskToKill, SaveKilled, CommitReport, AdminSave, AdminCommit, Step
<1> QED BY <1>1, <1>2, <1>3, <1>4 DEF Proceed

LEMMA AdminOnlyStep == TypeInv /\ AdminOnly /\ [Next]_vars => AdminOnly'
<1> SUFFICES ASSUME TypeInv, AdminOnly, [Next]_vars PROVE AdminOnly'
    OBVIOUS
<1>1. ASSUME NEW p \in Procs, pc' = [pc EXCEPT ![p] = pc'[p]],
             pc'[p] \in AdminSteps => p \in Admins
      PROVE  AdminOnly'
    <2>1. ASSUME NEW q \in Procs, q # p PROVE pc'[q] = pc[q]
        BY <1>1, <2>1 DEF TypeInv, TypeOK
    <2> QED BY <1>1, <2>1 DEF AdminOnly
<1>2. ASSUME NEW p \in Procs, Arrive(p) \/ StartReconcile(p) \/ Proceed(p) \/ Crash(p)
      PROVE  AdminOnly'
    BY <1>1, <1>2, AdminSteady DEF AdminOnly
<1>3. ASSUME NEW p \in Admins, AdminRead(p) PROVE AdminOnly'
    <2>1. p \in Procs /\ pc' = [pc EXCEPT ![p] = pc'[p]]
        BY <1>3 DEF Procs, AdminRead, Step, TypeInv, TypeOK
    <2> QED BY <1>1, <1>3, <2>1
<1>4. CASE UNCHANGED vars
    BY <1>4 DEF AdminOnly, vars
<1> QED BY <1>2, <1>3, <1>4 DEF Next, Quiet, Procs

LEMMA AdminOnlyCorrect == Spec => []AdminOnly
<1>1. Init => AdminOnly
    BY DEF Init, AdminOnly, AdminSteps
<1>2. Spec => []TypeInv
    BY TypeInit, TypeStep, PTL DEF Spec
<1> QED BY <1>1, <1>2, AdminOnlyStep, PTL DEF Spec

\* The step of KillIsSticky.
StickyStep ==
    risk.sys = "KILLED" /\ risk'.sys # "KILLED" =>
          /\ risk'.sys = "PAUSED"
          /\ \E p \in Admins : pc[p] = "adminCommit" /\ pc'[p] = "done"

\* What an administrator's command may do.
LEMMA SwitchedMeans ==
    ASSUME TypeInv, NEW r, Switched(r)
    PROVE  /\ r = [risk EXCEPT !.sys = r.sys]
           /\ \/ risk.sys = "ENABLED" /\ r.sys = "PAUSED"
              \/ risk.sys = "PAUSED" /\ r.sys = "ENABLED"
              \/ risk.sys \in {"ENABLED", "PAUSED"} /\ r.sys = "KILLED"
              \/ risk.sys = "KILLED" /\ r.sys = "PAUSED"
<1>1. PICK c \in {"pause", "resume", "kill", "reset"} :
          risk.sys \in AllowedFrom[c] /\ r = [risk EXCEPT !.sys = Target[c]]
    BY CycleConstants DEF Switched
<1>2. risk \in RiskState
    BY DEF TypeInv, TypeOK, TablesOK
<1>3. r.sys = Target[c] /\ r = [risk EXCEPT !.sys = r.sys]
    BY <1>1, <1>2 DEF RiskState
<1>4. CASE c = "pause"
    BY <1>1, <1>3, <1>4 DEF AllowedFrom, Target
<1>5. CASE c = "resume"
    BY <1>1, <1>3, <1>5 DEF AllowedFrom, Target
<1>6. CASE c = "kill"
    BY <1>1, <1>3, <1>6 DEF AllowedFrom, Target
<1>7. CASE c = "reset"
    BY <1>1, <1>3, <1>7 DEF AllowedFrom, Target
<1> QED BY <1>3, <1>4, <1>5, <1>6, <1>7

LEMMA Sticky ==
    ASSUME TypeInv, ExecInv, BookInv, SerialInv, AdminOnly, [Next]_vars
    PROVE  StickyStep
<1> SUFFICES ASSUME risk.sys = "KILLED", risk'.sys # "KILLED"
             PROVE  /\ risk'.sys = "PAUSED"
                    /\ \E p \in Admins : pc[p] = "adminCommit" /\ pc'[p] = "done"
    BY DEF StickyStep
<1>1. RowStep
    BY StepEffect DEF Booking
<1>2. risk \in RiskState
    BY DEF TypeInv, TypeOK, TablesOK
<1>3. PICK p \in Procs : Switched(risk') /\ pc[p] = "adminCommit" /\ pc'[p] = "done"
    BY <1>1, <1>2 DEF RowStep, Rolled, RiskState
<1>4. risk'.sys = "PAUSED"
    BY <1>3, SwitchedMeans
<1> QED BY <1>3, <1>4 DEF AdminOnly, AdminSteps

\* While requests do not overlap, KILLED is left by the commit of an
\* administrator's reset, for PAUSED, and by no other step: no execution and no
\* reconciliation writes an older row over it.
THEOREM KillStays == MaxInFlight = 1 => (Spec => KillIsSticky)
<1> SUFFICES ASSUME MaxInFlight = 1 PROVE Spec => KillIsSticky
    OBVIOUS
<1>1. Spec => [][StickyStep]_vars
    BY SerialCorrect, AdminOnlyCorrect, Sticky, PTL DEF Spec
<1> QED BY <1>1 DEF KillIsSticky, StickyStep

-------------------------------------------------------------------------------
(***************************************************************************)
(* Requests that do not overlap implement the ledger.                      *)
(***************************************************************************)
Holding == [s \in Symbols |-> pos[s].qty]

LEMMA LedgerInit == Init => Ledger!Init
<1> SUFFICES ASSUME Init PROVE Ledger!Init
    OBVIOUS
<1>1. \A s \in Symbols : pos[s].qty = 0
    BY DEF Init, NoPosition
<1>2. {f.order : f \in fills} = {}
    BY DEF Init
<1>3. risk.sys = "ENABLED" /\ cash = InitialCash
    BY DEF Init, FreshRiskState
<1> QED BY <1>1, <1>2, <1>3 DEF Ledger!Init

LEMMA BookingIsBook ==
    ASSUME TypeInv, NEW p \in Procs, Booking(p), NEW o \in Orders, o = loc[p].order
    PROVE  Ledger!Book(o)
<1> DEFINE s == OrderSymbol[o]
<1>0. PICK t \in Tickers : t = loc[p].tick
    BY DEF Booking
<1> DEFINE price == FillPrice(OrderSide[o], t)
<1>s. s \in Symbols
    BY CycleConstants
<1>1. /\ Side(p) = OrderSide[o] /\ Qty(p) = OrderQty[o] /\ Symbol(p) = s /\ Price(p) = price
      /\ OrderSide[o] \in {"buy", "sell"}
    BY <1>0, CycleConstants DEF Side, Qty, Symbol, Price, Booking, Sides
<1>2. Ledger!FillPrice(OrderSide[o], t) = price
    BY DEF Ledger!FillPrice, FillPrice, Ledger!BPS, BPS
<1>3. /\ Ledger!Debit(OrderQty[o], price) = Debit(OrderQty[o], price)
      /\ Ledger!Credit(OrderQty[o], price) = Credit(OrderQty[o], price)
    BY DEF Ledger!Debit, Ledger!Credit, Ledger!Fee, Ledger!BPS, Debit, Credit, Fee, BPS
<1>4. /\ cash' = CashAfter(OrderSide[o], OrderQty[o], price, cash)
      /\ pos' = [pos EXCEPT ![s] = PositionAfter(OrderSide[o], OrderQty[o], price, pos[s])]
      /\ Affordable(OrderSide[o], OrderQty[o], price, cash, pos[s])
    BY <1>1 DEF Booking, NewCash, NewPosition
<1>5. pos \in [Symbols -> Position]
    BY DEF TypeInv, TypeOK, TablesOK
<1>6. risk'.sys = risk.sys /\ risk.sys = "ENABLED"
    BY DEF Booking, Recorded, AfterExecution
<1>7. o \notin {f.order : f \in fills}
    BY DEF Booking
<1>8. {f.order : f \in fills'} = {f.order : f \in fills} \cup {o}
    <2>1. fills' = fills \cup {NewFill(p)} /\ NewFill(p).order = o
        BY DEF Booking, NewFill
    <2> QED BY <2>1
<1> HIDE DEF s, price
<1>9. CASE OrderSide[o] = "buy"
    <2>1. cash' = cash - Debit(OrderQty[o], price) /\ Debit(OrderQty[o], price) <= cash
        BY <1>4, <1>9 DEF CashAfter, Affordable
    <2>2. PositionAfter(OrderSide[o], OrderQty[o], price, pos[s]).qty = pos[s].qty + OrderQty[o]
        BY <1>s, <1>5, <1>9 DEF PositionAfter, Position
    <2>3. [x \in Symbols |-> pos'[x].qty] =
              [[x \in Symbols |-> pos[x].qty] EXCEPT ![s] = @ + OrderQty[o]]
        BY <1>s, <1>4, <1>5, <2>2
    <2>4. Ledger!Buy(o, price)
        BY <1>3, <1>9, <2>1, <2>3 DEF Ledger!Buy, s
    <2> QED BY <1>0, <1>2, <1>6, <1>7, <1>8, <2>4 DEF Ledger!Book
<1>10. CASE OrderSide[o] = "sell"
    <2>1. cash' = cash + Credit(OrderQty[o], price) /\ OrderQty[o] <= pos[s].qty
        BY <1>4, <1>10 DEF CashAfter, Affordable
    <2>2. PositionAfter(OrderSide[o], OrderQty[o], price, pos[s]).qty = pos[s].qty - OrderQty[o]
        BY <1>s, <1>5, <1>10 DEF PositionAfter, Position
    <2>3. [x \in Symbols |-> pos'[x].qty] =
              [[x \in Symbols |-> pos[x].qty] EXCEPT ![s] = @ - OrderQty[o]]
        BY <1>s, <1>4, <1>5, <2>2
    <2>4. Ledger!Sell(o, price)
        BY <1>s, <1>3, <1>10, <2>1, <2>3 DEF Ledger!Sell, s
    <2> QED BY <1>0, <1>2, <1>6, <1>7, <1>8, <2>4 DEF Ledger!Book
<1> QED BY <1>1, <1>9, <1>10

LEMMA LedgerStep ==
    ASSUME TypeInv, ExecInv, BookInv, SerialInv, [Next]_vars
    PROVE  [Ledger!Next]_(Ledger!ledger)
<1>1. ASSUME NEW p \in Procs, Booking(p) PROVE Ledger!Next
    <2>1. PICK o \in Orders : o = loc[p].order
        BY <1>1 DEF Booking
    <2> QED BY <1>1, <2>1, BookingIsBook DEF Ledger!Next
<1>2. CASE Still /\ RowStep
    <2>1. /\ cash' = cash
          /\ [s \in Symbols |-> pos'[s].qty] = [s \in Symbols |-> pos[s].qty]
          /\ {f.order : f \in fills'} = {f.order : f \in fills}
        BY <1>2 DEF Still
    <2>2. risk \in RiskState
        BY DEF TypeInv, TypeOK, TablesOK
    <2>3. CASE risk'.sys = risk.sys
        BY <2>1, <2>3 DEF Ledger!ledger
    <2>4. CASE risk'.sys # risk.sys
        <3>1. \/ risk.sys = "ENABLED" /\ risk'.sys = "PAUSED"
              \/ risk.sys = "PAUSED" /\ risk'.sys = "ENABLED"
              \/ risk.sys \in {"ENABLED", "PAUSED"} /\ risk'.sys = "KILLED"
              \/ risk.sys = "KILLED" /\ risk'.sys = "PAUSED"
            <4>1. CASE risk' = [risk EXCEPT !.sys = "KILLED"]
                BY <2>2, <2>4, <4>1 DEF RiskState, SystemStates
            <4>2. CASE Switched(risk')
                BY <4>2, SwitchedMeans
            <4> QED BY <1>2, <2>4, <4>1, <4>2 DEF RowStep, Rolled
        <3> QED BY <2>1, <3>1 DEF Ledger!Next, Ledger!Switch
    <2> QED BY <2>3, <2>4
<1> QED BY <1>1, <1>2, StepEffect

\* While requests do not overlap, the tables implement the ledger: each order
\* is booked at most once, in one step, while trading is enabled and when cash
\* or position cover it, whatever crashes and whoever retries.
THEOREM ImplementsLedger == MaxInFlight = 1 => (Spec => RefinesLedger)
<1> SUFFICES ASSUME MaxInFlight = 1 PROVE Spec => RefinesLedger
    OBVIOUS
<1> QED BY SerialCorrect, LedgerInit, LedgerStep, PTL DEF Spec, RefinesLedger, Ledger!Spec

\* A later time is on no earlier day.
LEMMA DayIsMonotone ==
    ASSUME NEW a \in Nat, NEW b \in Nat, a <= b
    PROVE  Day(a) \in Nat /\ Day(a) <= Day(b)
<1>1. TicksPerDay \in Nat \ {0}
    BY CycleConstants
<1>2. PICK t \in Nat : t = TicksPerDay /\ t > 0
    BY <1>1
<1> DEFINE x == a \div t
           y == b \div t
<1>3. x \in Nat /\ y \in Nat
    BY <1>2
<1>4. t * x <= a /\ b < t * y + t
    <2>1. a = t * x + (a % t) /\ a % t >= 0
        BY <1>2
    <2>2. b = t * y + (b % t) /\ b % t < t
        BY <1>2
    <2> HIDE DEF x, y
    <2>3. a % t \in Int /\ b % t \in Int /\ t * x \in Int /\ t * y \in Int
        BY <1>2, <1>3
    <2> QED BY <2>1, <2>2, <2>3, <1>2
<1> HIDE DEF x, y
<1>5. t * x < t * (y + 1)
    BY <1>2, <1>3, <1>4
<1>6. x < y + 1
    <2> SUFFICES ASSUME x >= y + 1 PROVE FALSE
        BY <1>3
    <2>1. PICK d \in Nat : x = y + 1 + d
        BY <1>3
    <2>2. t * x = t * (y + 1) + t * d /\ t * d >= 0
        BY <1>2, <1>3, <2>1
    <2> QED BY <1>2, <1>3, <1>5, <2>2
<1> QED BY <1>2, <1>3, <1>6 DEF Day, x, y

Today == {f \in fills : Day(f.at) = risk.day}

LEMMA DailyPnlIs == DailyPnlExact <=> risk.pnl = Profit(Today)
BY DEF DailyPnlExact, Profit, Today, MapThenSumSet, MapThenFoldSet

\* At no time in the past was more sold than held.
NeverShort == \A f \in fills : NetQty({g \in Of(fills, OrderSymbol[f.order]) : g.at <= f.at}) >= 0

\* Fills are in the order of the clock, and the risk row is not behind them.
InTime ==
    /\ \A f \in fills : f.at <= clock /\ Day(f.at) <= risk.day
    /\ risk.day <= Day(clock)
    /\ \A p \in Procs : pc[p] \in CycleSteps => \A f \in fills : f.at < clock

LedgerInv == IsFiniteSet(fills) /\ LedgerExact /\ NeverShort /\ DailyPnlExact /\ InTime

LEMMA LedgerInvInit == Init => LedgerInv
<1> SUFFICES ASSUME Init PROVE LedgerInv
    OBVIOUS
<1>1. fills = {} /\ IsFiniteSet(fills)
    BY FS_EmptySet DEF Init
<1>2. LedgerExact
    <2>1. ASSUME NEW s \in Symbols PROVE pos[s].qty = NetQty(Of(fills, s))
        <3>1. Of(fills, s) = {} /\ pos[s].qty = 0
            BY DEF Init, Of, NoPosition
        <3> QED BY <3>1, SumsOfNothing
    <2>2. cash = ExpectedCash(fills)
        BY SumsOfNothing DEF Init
    <2> QED BY <2>1, <2>2 DEF LedgerExact, BalancesConsistent
<1>3. DailyPnlExact
    <2>1. Today = {} /\ risk.pnl = 0
        BY DEF Init, Today, FreshRiskState
    <2> QED BY <2>1, SumsOfNothing, DailyPnlIs
<1>4. InTime
    <2>1. clock = 0 /\ risk.day = 0
        BY DEF Init, FreshRiskState
    <2>2. Day(clock) \in Nat
        BY <2>1, DayIsMonotone
    <2> QED BY <1>1, <2>1, <2>2 DEF InTime
<1> QED BY <1>1, <1>2, <1>3, <1>4 DEF LedgerInv, NeverShort

\* The sets that the sums are over.
LEMMA PartsAreFinite ==
    ASSUME TypeInv, IsFiniteSet(fills)
    PROVE  /\ fills \in SUBSET FillRow /\ Today \in SUBSET FillRow /\ IsFiniteSet(Today)
           /\ \A s : Of(fills, s) \in SUBSET FillRow /\ IsFiniteSet(Of(fills, s))
<1>1. fills \in SUBSET FillRow
    BY DEF TypeInv, TypeOK, TablesOK
<1>2. Today \in SUBSET fills /\ \A s : Of(fills, s) \in SUBSET fills
    BY DEF Today, Of
<1>3. ASSUME NEW S \in SUBSET fills PROVE S \in SUBSET FillRow /\ IsFiniteSet(S)
    BY <1>1, <1>3, FS_Subset
<1> QED BY <1>1, <1>2, <1>3

\* What a booking adds is what the fill says.
LEMMA BookingAdds ==
    ASSUME TypeInv, NEW p \in Procs, Booking(p)
    PROVE  LET n == NewFill(p)
           IN  /\ n \in FillRow /\ n \notin fills /\ n.at = clock /\ n.order = loc[p].order
               /\ OrderSymbol[n.order] = Symbol(p) /\ Symbol(p) \in Symbols
               /\ cash' = cash + CashFlow(n)
               /\ NewPosition(p).qty = pos[Symbol(p)].qty + Signed(n)
               /\ risk'.pnl = risk.pnl + n.realized
               /\ risk'.day = risk.day
<1> DEFINE n == NewFill(p)
<1>1. n \in FillRow /\ n.order = loc[p].order /\ n.at = clock /\ n.price = Price(p)
    BY DEF Booking, NewFill
<1>2. n \notin fills
    BY <1>1 DEF Booking
<1>3. /\ OrderSymbol[n.order] = Symbol(p) /\ OrderSide[n.order] = Side(p)
      /\ OrderQty[n.order] = Qty(p)
    BY <1>1 DEF Symbol, Side, Qty
<1>4. n.order \in Orders /\ Symbol(p) \in Symbols /\ Side(p) \in {"buy", "sell"} /\ Qty(p) \in Nat
    BY <1>1, <1>3, CycleConstants DEF Booking, Sides
<1>5. cash \in Nat /\ pos \in [Symbols -> Position] /\ loc[p].pos = pos[Symbol(p)]
    BY DEF TypeInv, TypeOK, TablesOK, Booking
<1>6. Price(p) \in Nat
    BY <1>1 DEF FillRow
<1>7. Debit(Qty(p), Price(p)) \in Nat /\ Credit(Qty(p), Price(p)) \in Nat
    BY <1>4, <1>6, DebitAndCreditAreNat
<1>8. cash' = CashAfter(Side(p), Qty(p), Price(p), cash)
    BY DEF Booking, NewCash
<1>9. pos[Symbol(p)].qty \in Nat
    BY <1>4, <1>5 DEF Position
<1>10. risk' = Recorded(p)
    BY DEF Booking
<1>11. cash' = cash + CashFlow(n)
    <2>1. CASE Side(p) = "buy"
        BY <1>1, <1>3, <1>5, <1>7, <1>8, <2>1 DEF CashAfter, CashFlow
    <2>2. CASE Side(p) = "sell"
        BY <1>1, <1>3, <1>5, <1>7, <1>8, <2>2 DEF CashAfter, CashFlow
    <2> QED BY <1>4, <2>1, <2>2
<1>12. NewPosition(p).qty = pos[Symbol(p)].qty + Signed(n)
    <2>1. CASE Side(p) = "buy"
        BY <1>3, <1>4, <1>5, <1>9, <2>1 DEF NewPosition, PositionAfter, Position, Signed
    <2>2. CASE Side(p) = "sell"
        BY <1>3, <1>4, <1>5, <1>9, <2>2 DEF NewPosition, PositionAfter, Position, Signed
    <2> QED BY <1>4, <2>1, <2>2
<1>13. risk'.pnl = risk.pnl + n.realized /\ risk'.day = risk.day
    BY <1>10 DEF Recorded, AfterExecution
<1> QED BY <1>1, <1>2, <1>3, <1>4, <1>11, <1>12, <1>13

LEMMA BookingLedger ==
    ASSUME TypeInv, TypeInv', LedgerInv, SerialInv, NEW p \in Procs, Booking(p),
           pc[p] \in CycleSteps
    PROVE  IsFiniteSet(fills') /\ LedgerExact' /\ NeverShort' /\ DailyPnlExact'
<1> DEFINE n == NewFill(p)
           s == Symbol(p)
<1>1. /\ n \in FillRow /\ n \notin fills /\ n.at = clock /\ n.order = loc[p].order
      /\ OrderSymbol[n.order] = s /\ s \in Symbols
      /\ cash' = cash + CashFlow(n)
      /\ NewPosition(p).qty = pos[s].qty + Signed(n)
      /\ risk'.pnl = risk.pnl + n.realized /\ risk'.day = risk.day
    BY BookingAdds
<1>2. /\ fills' = fills \cup {n} /\ pos' = [pos EXCEPT ![s] = NewPosition(p)]
      /\ risk.day = Day(clock)
    BY DEF Booking
<1>3. /\ IsFiniteSet(fills) /\ fills \in SUBSET FillRow
      /\ Today \in SUBSET FillRow /\ IsFiniteSet(Today)
      /\ \A x : Of(fills, x) \in SUBSET FillRow /\ IsFiniteSet(Of(fills, x))
    BY PartsAreFinite DEF LedgerInv
<1>4. /\ cash = ExpectedCash(fills) /\ \A x \in Symbols : pos[x].qty = NetQty(Of(fills, x))
      /\ risk.pnl = Profit(Today)
    BY DailyPnlIs DEF LedgerInv, LedgerExact, BalancesConsistent
<1>5. pos \in [Symbols -> Position]
    BY DEF TypeInv, TypeOK, TablesOK
<1> HIDE DEF n, s
<1>6. IsFiniteSet(fills')
    BY <1>2, <1>3, FS_AddElement
<1>7. cash' = ExpectedCash(fills')
    BY <1>1, <1>2, <1>3, <1>4, SumsWithOneMore
<1>8. ASSUME NEW x \in Symbols PROVE pos'[x].qty = NetQty(Of(fills', x))
    <2>1. CASE x = s
        <3>1. Of(fills', x) = Of(fills, x) \cup {n}
            BY <1>1, <1>2, <2>1 DEF Of
        <3>2. n \notin Of(fills, x)
            BY <1>1 DEF Of
        <3>3. NetQty(Of(fills, x) \cup {n}) = NetQty(Of(fills, x)) + Signed(n)
            BY <1>1, <1>3, <3>2, SumsWithOneMore
        <3>4. pos'[x] = NewPosition(p)
            BY <1>2, <1>5, <2>1
        <3> QED BY <1>1, <1>4, <2>1, <3>1, <3>3, <3>4
    <2>2. CASE x # s
        <3>1. Of(fills', x) = Of(fills, x)
            BY <1>1, <1>2, <2>2 DEF Of
        <3>2. pos'[x] = pos[x]
            BY <1>2, <1>5, <2>2
        <3> QED BY <1>4, <3>1, <3>2
    <2> QED BY <2>1, <2>2
<1>9. ASSUME NEW f \in fills'
      PROVE  NetQty({g \in Of(fills', OrderSymbol[f.order]) : g.at <= f.at}) >= 0
    <2>0. \A g \in fills : g.at < clock /\ g.at \in Nat
        BY <1>3 DEF LedgerInv, InTime, FillRow
    <2>1. CASE f = n
        <3>1. {g \in Of(fills', s) : g.at <= n.at} = Of(fills', s)
            BY <1>1, <1>2, <2>0 DEF Of, FillRow
        <3>2. pos'[s].qty = NetQty(Of(fills', s))
            BY <1>1, <1>8
        <3>3. pos'[s].qty >= 0
            BY <1>1 DEF TypeInv, TypeOK, TablesOK, Position
        <3> QED BY <1>1, <2>1, <3>1, <3>2, <3>3
    <2>2. CASE f \in fills
        <3>1. {g \in Of(fills', OrderSymbol[f.order]) : g.at <= f.at}
                  = {g \in Of(fills, OrderSymbol[f.order]) : g.at <= f.at}
            <4>1. ~(n.at <= f.at)
                BY <1>1, <2>0, <2>2 DEF FillRow
            <4> QED BY <1>2, <4>1 DEF Of
        <3> QED BY <2>2, <3>1 DEF LedgerInv, NeverShort
    <2> QED BY <1>2, <2>1, <2>2
<1>10. risk'.pnl = Profit(Today')
    <2>1. Today' = Today \cup {n}
        BY <1>1, <1>2 DEF Today
    <2>2. n \notin Today
        BY <1>1 DEF Today
    <2> QED BY <1>1, <1>3, <1>4, <2>1, <2>2, SumsWithOneMore
<1>11. DailyPnlExact'
    <2>1. DailyPnlExact' <=> (risk.pnl = Profit(Today))'
        BY DailyPnlIs, PTL
    <2> QED BY <1>10, <2>1
<1> QED BY <1>6, <1>7, <1>8, <1>9, <1>11 DEF LedgerExact, BalancesConsistent, NeverShort

\* A request enters the cycle by its arrival, at a later time.
LEMMA Entering ==
    ASSUME TypeInv, NEW p \in Procs,
           Aside(p) \/ Buffering(p) \/ CommitIntent(p) \/ CommitExecution(p)
    PROVE  \/ clock' \in Nat /\ clock' > clock
           \/ clock' = clock /\ (pc'[p] \in CycleSteps => pc[p] \in CycleSteps)
<1> USE DEF TypeInv, TypeOK, CycleSteps
<1>1. CASE Arrive(p)
    <2>1. PICK t \in (clock + 1)..MaxClock : clock' = t
        BY <1>1 DEF Arrive
    <2> QED BY <2>1, CycleConstants
<1>2. CASE Reconciliation(p) \/ Administration(p)
    BY <1>2 DEF Reconciliation, Administration, ListFills, ListBalances, ListPositions,
       ReadRiskToKill, SaveKilled, CommitReport, AdminSave, AdminCommit, Step
<1>3. CASE StartReconcile(p) \/ AdminRead(p) \/ Crash(p) \/ DeadlockVictim(p)
    BY <1>3 DEF StartReconcile, AdminRead, Crash, DeadlockVictim, Step
<1>4. CASE Buffering(p) \/ CommitIntent(p) \/ CommitExecution(p)
    BY <1>4 DEF Buffering, CreateIntent, InsertFill, SetBalance, UpsertPosition, FinalizeIntent,
       ReadRisk, SaveRisk, CommitIntent, CommitExecution, Step
<1>5. CASE \/ CycleHold(p) \/ GetTicker(p) \/ QuoteUnavailable(p) \/ GetBalance(p)
           \/ GetPosition(p) \/ LatestSnapshot(p) \/ EvaluateRisk(p) \/ SaveDayReset(p)
           \/ IdempotencyConflict(p) \/ CheckFill(p) \/ CheckSystemState(p)
           \/ ExecBalance(p) \/ ExecPosition(p) \/ ExecutionFailed(p)
    BY <1>5 DEF CycleHold, GetTicker, QuoteUnavailable, GetBalance, GetPosition, LatestSnapshot,
       EvaluateRisk, SaveDayReset, IdempotencyConflict, CheckFill, CheckSystemState,
       ExecBalance, ExecPosition, ExecutionFailed, Step
<1> QED BY <1>1, <1>2, <1>3, <1>4, <1>5 DEF Aside

\* What the new row of RowStep says about days.
LEMMA RowStepDay ==
    ASSUME TypeInv, TypeInv', LedgerInv, Still, RowStep
    PROVE  /\ risk.day <= risk'.day /\ (risk'.day # risk.day => risk'.day = Day(clock))
           /\ DailyPnlExact'
<1>1. risk \in RiskState /\ risk' \in RiskState /\ clock \in Nat /\ fills' = fills
      /\ \A f \in fills : f.at \in Nat
    BY CycleConstants DEF TypeInv, TypeOK, TablesOK, FillRow, Still
<1>2. risk.day \in Nat /\ risk'.day \in Nat
    BY <1>1 DEF RiskState
<1>3. DailyPnlExact' <=> (risk.pnl = Profit(Today))'
    BY DailyPnlIs, PTL
<1>4. risk.pnl = Profit(Today)
    BY DailyPnlIs DEF LedgerInv
<1>5. CASE risk'.day = risk.day /\ risk'.pnl = risk.pnl
    <2>1. Today' = Today
        BY <1>1, <1>5 DEF Today
    <2> QED BY <1>2, <1>3, <1>4, <1>5, <2>1
<1>6. CASE \E p \in Procs : Rolled(p, risk') /\ loc[p].now = clock
    <2>1. risk'.day = Day(clock) /\ risk'.day # risk.day /\ risk'.pnl = 0
        BY <1>6 DEF Rolled
    <2>2. risk.day <= Day(clock) /\ \A f \in fills : Day(f.at) <= risk.day
        BY DEF LedgerInv, InTime
    <2>3. risk.day < risk'.day
        BY <1>2, <2>1, <2>2
    <2>4. ASSUME NEW f \in fills PROVE Day(f.at) # risk'.day
        <3>1. Day(f.at) \in Nat
            BY <1>1, DayIsMonotone
        <3> QED BY <1>2, <2>2, <2>3, <3>1
    <2>5. Today' = {}
        BY <1>1, <2>4 DEF Today
    <2> QED BY <1>2, <1>3, <2>1, <2>3, <2>5, SumsOfNothing
<1>7. RowStep => \/ risk'.day = risk.day /\ risk'.pnl = risk.pnl
                 \/ \E p \in Procs : Rolled(p, risk') /\ loc[p].now = clock
    <2>1. ASSUME Switched(risk') PROVE risk'.day = risk.day /\ risk'.pnl = risk.pnl
        <3>1. risk' = [risk EXCEPT !.sys = risk'.sys]
            BY <2>1, SwitchedMeans
        <3> QED BY <1>1, <3>1 DEF RiskState
    <2>2. ASSUME risk' = [risk EXCEPT !.sys = "KILLED"]
          PROVE  risk'.day = risk.day /\ risk'.pnl = risk.pnl
        BY <1>1, <2>2 DEF RiskState
    <2> QED BY <2>1, <2>2 DEF RowStep
<1> QED BY <1>5, <1>6, <1>7

\* Time goes on.
LEMMA ClockStep ==
    ASSUME TypeInv, ExecInv, BookInv, [Next]_vars
    PROVE  clock' \in Nat /\ clock \in Nat /\ clock <= clock'
<1>1. clock \in Nat
    BY CycleConstants DEF TypeInv, TypeOK
<1> QED BY <1>1, StepKinds, Entering DEF vars

LEMMA LedgerInvStep ==
    ASSUME TypeInv, TypeInv', ExecInv, BookInv, SerialInv, LedgerInv, MaxInFlight = 1, [Next]_vars
    PROVE  LedgerInv'
<1> USE DEF TypeInv, TypeOK
<1>1. clock' \in Nat /\ clock \in Nat /\ clock <= clock'
    BY ClockStep
<1>2. \A f \in fills : f.at \in Nat
    BY DEF TablesOK, FillRow
<1>3. CASE \E p \in Procs : Whole(p) /\ Booking(p) /\ UNCHANGED <<clock, events>>
    <2>1. PICK p \in Procs : Whole(p) /\ Booking(p) /\ UNCHANGED <<clock, events>>
        BY <1>3
    <2>2. pc[p] \in CycleSteps
        <3>1. Buffers(p)
            BY DEF ExecInv
        <3> QED BY <2>1, <3>1 DEF Buffers, Whole, CycleSteps, Busy
    <2>3. IsFiniteSet(fills') /\ LedgerExact' /\ NeverShort' /\ DailyPnlExact'
        BY <2>1, <2>2, BookingLedger
    <2>4. ASSUME NEW q \in Procs PROVE pc'[q] \notin CycleSteps
        <3>1. \E r \in Procs : CommitExecution(r) /\ Moves(r) /\ pc'[r] = "listFills"
            <4>1. PICK r \in Procs : \/ /\ Aside(r) \/ Buffering(r) \/ CommitIntent(r)
                                        /\ Moves(r) /\ Still /\ Books(r)'
                                     \/ CommitExecution(r) /\ Moves(r) /\ Books(r)'
                                     \/ UNCHANGED vars
                BY StepBooks, <2>1
            <4>2. fills' # fills
                BY <2>1, BookingAdds DEF Booking
            <4> QED BY <4>1, <4>2, CommitExecutionBooks DEF BookInv, Still, vars
        <3>2. PICK r \in Procs : CommitExecution(r) /\ Moves(r) /\ pc'[r] = "listFills"
            BY <3>1
        <3>3. OnlyOne(r)
            BY <3>2, WhoMoves, NoOneElse
        <3>4. CASE q = r
            BY <3>2, <3>4 DEF CycleSteps
        <3>5. CASE q # r
            BY <3>2, <3>3, <3>5 DEF Moves, OnlyOne, Underway, CycleSteps
        <3> QED BY <3>4, <3>5
    <2>5. InTime'
        <3>1. NewFill(p).at = clock /\ risk'.day = risk.day /\ fills' = fills \cup {NewFill(p)}
              /\ risk.day = Day(clock) /\ clock' = clock
            BY <2>1, BookingAdds DEF Booking
        <3>2. Day(clock) \in Nat
            BY <1>1, DayIsMonotone
        <3>3. ASSUME NEW f \in fills' PROVE f.at <= clock' /\ Day(f.at) <= risk'.day
            BY <1>1, <3>1, <3>2, <3>3 DEF LedgerInv, InTime
        <3>4. risk'.day <= Day(clock')
            BY <3>1, <3>2
        <3> QED BY <2>4, <3>3, <3>4 DEF InTime, Day
    <2> QED BY <2>3, <2>5 DEF LedgerInv
<1>4. CASE Still /\ snaps' = snaps /\ RowStep
    <2>1. IsFiniteSet(fills') /\ LedgerExact' /\ NeverShort'
        BY <1>4 DEF LedgerInv, LedgerExact, BalancesConsistent, NeverShort, Still
    <2>2. /\ risk.day <= risk'.day /\ (risk'.day # risk.day => risk'.day = Day(clock))
          /\ DailyPnlExact'
        BY <1>4, RowStepDay
    <2>3. /\ Day(clock) \in Nat /\ Day(clock') \in Nat /\ Day(clock) <= Day(clock')
          /\ risk.day \in Nat /\ risk'.day \in Nat
        BY <1>1, DayIsMonotone DEF TablesOK, RiskState
    <2>4. risk'.day <= Day(clock')
        BY <2>2, <2>3 DEF LedgerInv, InTime
    <2>5. ASSUME NEW f \in fills' PROVE f.at <= clock' /\ Day(f.at) <= risk'.day
        <3>1. f \in fills /\ f.at <= clock /\ Day(f.at) <= risk.day
            BY <1>4, <2>5 DEF Still, LedgerInv, InTime
        <3>2. f.at \in Nat /\ Day(f.at) \in Nat
            BY <1>2, <3>1, DayIsMonotone
        <3> QED BY <1>1, <2>2, <2>3, <3>1, <3>2
    <2>6. ASSUME NEW q \in Procs, pc'[q] \in CycleSteps, NEW f \in fills'
          PROVE  f.at < clock'
        <3>1. f \in fills /\ f.at <= clock /\ f.at \in Nat
            BY <1>2, <1>4, <2>6 DEF Still, LedgerInv, InTime
        <3>2. CASE clock' > clock
            BY <1>1, <3>1, <3>2
        <3>3. CASE clock' = clock
            <4>1. pc[q] \in CycleSteps
                <5>1. CASE UNCHANGED vars
                    BY <2>6, <5>1 DEF vars
                <5>2. ASSUME NEW r \in Procs, Moves(r),
                             Aside(r) \/ Buffering(r) \/ CommitIntent(r) \/ CommitExecution(r)
                      PROVE  pc[q] \in CycleSteps
                    <6>1. pc'[r] \in CycleSteps => pc[r] \in CycleSteps
                        BY <1>1, <3>3, <5>2, Entering
                    <6> QED BY <2>6, <5>2, <6>1 DEF Moves
                <5> QED BY <5>1, <5>2, StepBooks
            <4> QED BY <3>1, <3>3, <4>1 DEF LedgerInv, InTime
        <3> QED BY <1>1, <3>2, <3>3
    <2>7. InTime'
        BY <2>4, <2>5, <2>6 DEF InTime, Day
    <2> QED BY <2>1, <2>2, <2>7 DEF LedgerInv
<1> QED BY <1>3, <1>4, StepEffect

LEMMA LedgerInvCorrect ==
    ASSUME MaxInFlight = 1
    PROVE  Spec => [](TypeInv /\ ExecInv /\ BookInv /\ SerialInv /\ LedgerInv)
<1>1. TypeInv /\ TypeInv' /\ ExecInv /\ BookInv /\ SerialInv /\ LedgerInv /\ [Next]_vars => LedgerInv'
    BY LedgerInvStep
<1> QED BY <1>1, SerialCorrect, LedgerInvInit, PTL DEF Spec

\* While requests do not overlap, cash and positions are what the fills say,
\* after every crash and every retry.
THEOREM LedgerIsExact == MaxInFlight = 1 => (Spec => []LedgerExact)
<1> SUFFICES ASSUME MaxInFlight = 1 PROVE Spec => []LedgerExact
    OBVIOUS
<1>1. LedgerInv => LedgerExact
    BY DEF LedgerInv
<1> QED BY <1>1, LedgerInvCorrect, PTL

\* ... and the risk row's profit and loss is that of its day's fills, across day
\* resets that a crash or a rejection may lose and repeat.
THEOREM DailyPnlIsExact == MaxInFlight = 1 => (Spec => []DailyPnlExact)
<1> SUFFICES ASSUME MaxInFlight = 1 PROVE Spec => []DailyPnlExact
    OBVIOUS
<1>1. LedgerInv => DailyPnlExact
    BY DEF LedgerInv
<1> QED BY <1>1, LedgerInvCorrect, PTL

(***************************************************************************)
(* Reconciliation of requests that do not overlap.                         *)
(***************************************************************************)

\* p has found nothing wrong.
Content(p) == loc[p].consistent = TRUE /\ pc[p] \notin {"killRead", "saveKilled"}

AlarmInv == NoFalseAlarm /\ \A p \in Procs : Content(p)

LEMMA AlarmInit == Init => AlarmInv
<1> SUFFICES ASSUME Init PROVE AlarmInv
    OBVIOUS
<1>1. NoFalseAlarm
    BY DEF Init, NoFalseAlarm
<1>2. ASSUME NEW p \in Procs PROVE Content(p)
    BY DEF Init, Content, Fresh
<1> QED BY <1>1, <1>2 DEF AlarmInv

\* The replay finds nothing in the tables as they are.
LEMMA HistoryIsConsistent ==
    ASSUME TypeInv, ExecInv, LedgerInv
    PROVE  HistoryConsistent(fills, intents) /\ BalancesConsistent(fills, cash, pos)
<1>1. ASSUME NEW f \in fills
      PROVE  /\ \A g \in fills : f.order = g.order => f = g
             /\ intents[f.order] # None /\ intents[f.order].status = "FILLED"
    <2>1. f.order \in Orders
        BY DEF TypeInv, TypeOK, TablesOK, FillRow
    <2> QED BY <2>1 DEF ExecInv, AtMostOneFill, AtomicExecution, Filled
<1>2. NeverShort /\ LedgerExact
    BY DEF LedgerInv
<1> QED BY <1>1, <1>2 DEF HistoryConsistent, NeverShort, LedgerExact

LEMMA ContentStep ==
    ASSUME TypeInv, ExecInv, SerialInv, LedgerInv, AlarmInv, NEW p \in Procs,
           Aside(p) \/ Buffering(p) \/ CommitIntent(p) \/ CommitExecution(p)
    PROVE  Content(p)'
<1> USE DEF TypeInv, TypeOK
<1>0. loc[p].consistent = TRUE /\ pc[p] \notin {"killRead", "saveKilled"} /\ Reads(p)
    BY DEF AlarmInv, Content, SerialInv, Current
<1>a. ASSUME NEW o, Answer(p, o) PROVE loc'[p].consistent = TRUE
    BY <1>a DEF Answer, Fresh
<1>1. CASE \/ CycleHold(p) \/ QuoteUnavailable(p) \/ IdempotencyConflict(p)
           \/ CommitExecution(p) \/ ExecutionFailed(p) \/ CommitReport(p)
           \/ AdminCommit(p) \/ DeadlockVictim(p) \/ Crash(p)
    <2>1. pc'[p] \in {"done", "listFills"}
        BY <1>1 DEF CycleHold, QuoteUnavailable, IdempotencyConflict, CommitExecution,
           ExecutionFailed, CommitReport, AdminCommit, DeadlockVictim, Crash, Step
    <2>2. \E o : Answer(p, o)
        BY <1>1 DEF CycleHold, QuoteUnavailable, IdempotencyConflict, CommitExecution,
           ExecutionFailed, CommitReport, AdminCommit, DeadlockVictim, Crash
    <2> QED BY <1>a, <2>1, <2>2 DEF Content
<1>2. CASE ListPositions(p)
    <2>1. pc[p] = "listPositions"
        BY <1>2 DEF ListPositions, Step
    <2>2. loc[p].seen = fills /\ loc[p].cash = cash
        BY <1>0, <2>1 DEF Reads
    <2>3. HistoryConsistent(loc[p].seen, intents) /\ BalancesConsistent(loc[p].seen, loc[p].cash, pos)
        BY <2>2, HistoryIsConsistent
    <2>4. /\ loc' = [loc EXCEPT ![p].seen = {}, ![p].cash = 0, ![p].consistent = TRUE]
          /\ pc'[p] = "commitReport"
        BY <1>2, <2>3 DEF ListPositions, Step
    <2>5. loc'[p] = [loc[p] EXCEPT !.seen = {}, !.cash = 0, !.consistent = TRUE]
        BY <2>4
    <2> QED BY <2>4, <2>5 DEF Content, Locals
<1>3. CASE ReadRiskToKill(p) \/ SaveKilled(p)
    BY <1>0, <1>3 DEF ReadRiskToKill, SaveKilled, Step
<1>4. CASE StartReconcile(p) \/ ListFills(p) \/ ListBalances(p) \/ AdminSave(p)
    <2>1. pc'[p] \notin {"killRead", "saveKilled"}
        BY <1>4 DEF StartReconcile, ListFills, ListBalances, AdminSave, Step
    <2>2. loc'[p].consistent = loc[p].consistent
        BY <1>4 DEF StartReconcile, ListFills, ListBalances, AdminSave, Locals
    <2> QED BY <1>0, <2>1, <2>2 DEF Content
<1>5. CASE AdminRead(p)
    <2>1. pc'[p] \in {"adminSave", "done"}
        BY <1>5 DEF AdminRead, Step
    <2>2. loc'[p].consistent = TRUE
        BY <1>0, <1>5, <1>a DEF AdminRead, Locals
    <2> QED BY <2>1, <2>2 DEF Content
<1>6. CASE \/ GetBalance(p) \/ GetPosition(p) \/ LatestSnapshot(p) \/ SaveDayReset(p)
           \/ CheckFill(p) \/ CheckSystemState(p) \/ ExecBalance(p) \/ ExecPosition(p)
           \/ InsertFill(p) \/ SetBalance(p) \/ UpsertPosition(p) \/ FinalizeIntent(p)
           \/ ReadRisk(p) \/ SaveRisk(p)
    <2>1. pc'[p] \notin {"killRead", "saveKilled"}
        BY <1>6 DEF GetBalance, GetPosition, LatestSnapshot, SaveDayReset, CheckFill,
           CheckSystemState, ExecBalance, ExecPosition, InsertFill, SetBalance, UpsertPosition,
           FinalizeIntent, ReadRisk, SaveRisk, Step
    <2>2. loc'[p].consistent = loc[p].consistent
        BY <1>6 DEF GetBalance, GetPosition, LatestSnapshot, SaveDayReset, CheckFill,
           CheckSystemState, ExecBalance, ExecPosition, InsertFill, SetBalance, UpsertPosition,
           FinalizeIntent, ReadRisk, SaveRisk, Locals
    <2> QED BY <1>0, <2>1, <2>2 DEF Content
<1>7. CASE Arrive(p)
    <2>1. pc'[p] \in {"hold", "quote"}
        BY <1>7 DEF Arrive, Step
    <2>2. PICK o, t : loc' = [loc EXCEPT ![p].order = o, ![p].now = t]
        BY <1>7 DEF Arrive
    <2>3. loc'[p] = [loc[p] EXCEPT !.order = o, !.now = t]
        BY <2>2
    <2> QED BY <1>0, <2>1, <2>3 DEF Content, Locals
<1>8. CASE GetTicker(p)
    <2>1. pc'[p] = "getBalance"
        BY <1>8 DEF GetTicker, Step
    <2>2. PICK t, a : loc' = [loc EXCEPT ![p].tick = t, ![p].active = a]
        BY <1>8 DEF GetTicker
    <2>3. loc'[p] = [loc[p] EXCEPT !.tick = t, !.active = a]
        BY <2>2
    <2> QED BY <1>0, <2>1, <2>3 DEF Content, Locals
<1>9. CASE EvaluateRisk(p)
    <2>1. pc'[p] \in {"createIntent", "saveDayReset"}
        BY <1>9 DEF EvaluateRisk, Step
    <2>2. PICK r, a : loc' = [loc EXCEPT ![p].risk = r, ![p].approved = a]
        BY <1>9 DEF EvaluateRisk
    <2>3. loc'[p] = [loc[p] EXCEPT !.risk = r, !.approved = a]
        BY <2>2
    <2> QED BY <1>0, <2>1, <2>3 DEF Content, Locals
<1>10. CASE CreateIntent(p)
    <2>1. pc'[p] = "commitIntent"
        BY <1>10 DEF CreateIntent, Step
    <2>2. PICK i : loc' = [loc EXCEPT ![p].intent = i, ![p].risk = None]
        BY <1>10 DEF CreateIntent
    <2>3. loc'[p] = [loc[p] EXCEPT !.intent = i, !.risk = None]
        BY <2>2
    <2> QED BY <1>0, <2>1, <2>3 DEF Content, Locals
<1>11. CASE CommitIntent(p)
    <2>1. pc'[p] \in {"checkFill", "done"}
        BY <1>11 DEF CommitIntent, Step
    <2>2. CASE loc[p].approved
        <3>1. loc' = [loc EXCEPT ![p].cash = 0, ![p].pos = NoPosition,
                                 ![p].equity = 0, ![p].approved = FALSE]
            BY <1>11, <2>2 DEF CommitIntent
        <3>2. loc'[p] = [loc[p] EXCEPT !.cash = 0, !.pos = NoPosition, !.equity = 0, !.approved = FALSE]
            BY <3>1
        <3> QED BY <1>0, <2>1, <3>2 DEF Content, Locals
    <2>3. CASE ~loc[p].approved
        BY <1>11, <1>a, <2>1, <2>3 DEF CommitIntent, Content
    <2> QED BY <2>2, <2>3
<1> QED BY <1>1, <1>2, <1>3, <1>4, <1>5, <1>6, <1>7, <1>8, <1>9, <1>10, <1>11
        DEF Aside, Buffering, Reconciliation, Administration

LEMMA NoAlarm ==
    ASSUME TypeInv, AlarmInv, NEW p \in Procs,
           Aside(p) \/ Buffering(p) \/ CommitIntent(p) \/ CommitExecution(p)
    PROVE  NoFalseAlarm'
<1>1. \A e \in events' \ events : e.type # "reconciliation_failed"
    <2>1. CASE CommitReport(p)
        <3>1. loc[p].consistent
            BY DEF AlarmInv, Content
        <3>2. events' = events \cup {[type |-> e, proc |-> p] : e \in {"reconciliation_succeeded"}}
            BY <2>1, <3>1 DEF CommitReport, Commit
        <3> QED BY <3>2
    <2>2. CASE CycleHold(p) \/ CommitIntent(p) \/ AdminCommit(p) \/ CommitExecution(p)
        <3>1. PICK E : Commit(p, E) /\ "reconciliation_failed" \notin E
            BY <2>2 DEF CycleHold, CommitIntent, AdminCommit, CommitExecution
        <3> QED BY <3>1 DEF Commit
    <2>3. CASE ExecutionFailed(p)
        BY <2>3 DEF ExecutionFailed
    <2>4. CASE Buffering(p)
        BY <2>4 DEF Buffering, CreateIntent, InsertFill, SetBalance, UpsertPosition,
           FinalizeIntent, ReadRisk, SaveRisk, db
    <2> QED BY <2>1, <2>2, <2>3, <2>4
            DEF Aside, Reconciliation, Administration, Arrive, GetTicker, QuoteUnavailable,
           GetBalance, GetPosition, LatestSnapshot, EvaluateRisk, SaveDayReset,
           IdempotencyConflict, CheckFill, CheckSystemState, ExecBalance, ExecPosition,
           StartReconcile, ListFills, ListBalances, ListPositions,
           ReadRiskToKill, SaveKilled, AdminRead, AdminSave, DeadlockVictim, Crash, db
<1> QED BY <1>1 DEF AlarmInv, NoFalseAlarm

LEMMA AlarmStep ==
    ASSUME TypeInv, ExecInv, BookInv, SerialInv, LedgerInv, AlarmInv, [Next]_vars
    PROVE  AlarmInv'
<1>1. CASE UNCHANGED vars
    BY <1>1 DEF AlarmInv, NoFalseAlarm, Content, vars
<1>2. ASSUME NEW p \in Procs, Moves(p),
             Aside(p) \/ Buffering(p) \/ CommitIntent(p) \/ CommitExecution(p)
      PROVE  AlarmInv'
    <2>1. Content(p)' /\ NoFalseAlarm'
        BY <1>2, ContentStep, NoAlarm
    <2>2. ASSUME NEW q \in Procs, q # p PROVE Content(q)'
        <3>1. pc'[q] = pc[q] /\ loc'[q] = loc[q]
            BY <1>2, <2>2 DEF Moves, TypeInv, TypeOK
        <3> QED BY <3>1 DEF AlarmInv, Content
    <2> QED BY <2>1, <2>2 DEF AlarmInv
<1> QED BY <1>1, <1>2, StepBooks

\* While requests do not overlap, no reconciliation fails: it reads the fills,
\* the balance and the positions of one and the same moment.
THEOREM NoAlarmIsFalse == MaxInFlight = 1 => (Spec => []NoFalseAlarm)
<1> SUFFICES ASSUME MaxInFlight = 1 PROVE Spec => []NoFalseAlarm
    OBVIOUS
<1>1. AlarmInv => NoFalseAlarm
    BY DEF AlarmInv
<1>2. TypeInv /\ ExecInv /\ BookInv /\ SerialInv /\ LedgerInv /\ AlarmInv /\ [Next]_vars => AlarmInv'
    BY AlarmStep
<1> QED BY <1>1, <1>2, LedgerInvCorrect, AlarmInit, PTL DEF Spec

-------------------------------------------------------------------------------
(***************************************************************************)
(* One symbol: the last snapshot stands for the whole account.             *)
(***************************************************************************)
Worth(equity, s) == \E t \in Tickers : equity = cash + pos[s].qty * t.last

OneSymbolInv(s) ==
    /\ risk.open = IF pos[s].qty > 0 THEN 1 ELSE 0
    /\ snaps = {} => cash = InitialCash /\ pos[s].qty = 0
    /\ \A n \in snaps : (\A u \in snaps : u.at <= n.at) => Worth(n.equity, s)
    /\ \A p \in Procs : pc[p] = "evaluate" => Worth(loc[p].equity, s)

LEMMA OneSymbolInit ==
    ASSUME NEW s \in Symbols
    PROVE  Init => OneSymbolInv(s)
BY DEF Init, OneSymbolInv, FreshRiskState, NoPosition

\* A snapshot is taken when its fill is made.
LEMMA SnapsAreEarlier ==
    ASSUME TypeInv, ExecInv, SerialInv, LedgerInv, NEW p \in Procs, pc[p] \in CycleSteps,
           NEW n \in snaps
    PROVE  n.at < clock
<1>1. <<n.order, n.proc, n.at>> \in {<<f.order, f.proc, f.at>> : f \in fills}
    BY DEF ExecInv, AtomicExecution
<1>2. PICK f \in fills : n.at = f.at
    BY <1>1
<1> QED BY <1>2 DEF LedgerInv, InTime

LEMMA OneSymbolBooking ==
    ASSUME TypeInv, ExecInv, SerialInv, LedgerInv, NEW s \in Symbols, Symbols = {s},
           OneSymbolInv(s), NEW p \in Procs, Booking(p), pc[p] \in CycleSteps,
           \A q \in Procs : pc'[q] # "evaluate"
    PROVE  OneSymbolInv(s)'
<1> DEFINE n == NewSnapshot(p)
<1>1. /\ cash' = NewCash(p) /\ pos' = [pos EXCEPT ![Symbol(p)] = NewPosition(p)]
      /\ snaps' = snaps \cup {n} /\ risk' = Recorded(p)
      /\ n.at = clock /\ n.equity = NewEquity(p)
      /\ loc[p].tick \in Tickers
    BY DEF Booking, NewSnapshot
<1>2. Symbol(p) = s
    BY BookingAdds
<1>3. pos'[s] = NewPosition(p)
    BY <1>1, <1>2 DEF TypeInv, TypeOK, TablesOK
<1>4. risk'.open = IF pos'[s].qty > 0 THEN 1 ELSE 0
    BY <1>1, <1>3 DEF Recorded, AfterExecution, OpenAfter
<1>5. NewEquity(p) = cash' + pos'[s].qty * loc[p].tick.last
    BY <1>1, <1>3 DEF NewEquity, SnapshotEquity
<1>6. \E t \in Tickers : n.equity = cash' + pos'[s].qty * t.last
    BY <1>1, <1>5
<1>7. ASSUME NEW m \in snaps', \A u \in snaps' : u.at <= m.at PROVE Worth(m.equity, s)'
    <2>1. CASE m = n
        BY <1>6, <2>1 DEF Worth
    <2>2. CASE m \in snaps
        <3>1. m.at < clock /\ m.at \in Nat /\ clock \in Nat
            BY <2>2, SnapsAreEarlier, CycleConstants DEF TypeInv, TypeOK, TablesOK, SnapRow
        <3>2. n.at <= m.at
            BY <1>1, <1>7
        <3> QED BY <1>1, <3>1, <3>2
    <2> QED BY <1>1, <2>1, <2>2
<1>8. snaps' # {}
    BY <1>1
<1> QED BY <1>4, <1>7, <1>8 DEF OneSymbolInv

\* What the evaluation is about to see.
LEMMA OneSymbolEvaluate ==
    ASSUME TypeInv, SerialInv, NEW s \in Symbols, Symbols = {s}, OneSymbolInv(s),
           NEW p \in Procs, Moves(p), UNCHANGED <<cash, pos>>, pc'[p] = "evaluate",
           Aside(p) \/ Buffering(p) \/ CommitIntent(p) \/ CommitExecution(p)
    PROVE  Worth(loc'[p].equity, s)
<1> USE DEF TypeInv, TypeOK
<1>1. LatestSnapshot(p)
    <2>1. CASE Reconciliation(p) \/ Administration(p) \/ DeadlockVictim(p) \/ Crash(p)
        BY <2>1 DEF Reconciliation, Administration, ListFills, ListBalances, ListPositions,
           ReadRiskToKill, SaveKilled, CommitReport, AdminSave, AdminCommit, DeadlockVictim,
           Crash, Step
    <2>2. CASE Buffering(p) \/ CommitIntent(p) \/ CommitExecution(p)
        BY <2>2 DEF Buffering, CreateIntent, InsertFill, SetBalance, UpsertPosition,
           FinalizeIntent, ReadRisk, SaveRisk, CommitIntent, CommitExecution, Step
    <2> QED BY <2>1, <2>2 DEF Aside, Arrive, CycleHold, GetTicker, QuoteUnavailable, GetBalance,
           GetPosition, EvaluateRisk, SaveDayReset, IdempotencyConflict, CheckFill,
           CheckSystemState, ExecBalance, ExecPosition, ExecutionFailed, StartReconcile,
           AdminRead, Step
<1>2. pc[p] = "latestSnapshot"
    BY <1>1 DEF LatestSnapshot, Step
<1>3. loc[p].cash = cash /\ loc[p].tick \in Tickers
    BY <1>2 DEF SerialInv, Current, Reads, LocalsOK, CycleSteps
<1>4. CASE snaps = {} /\ loc' = [loc EXCEPT ![p].equity = loc[p].cash]
    <2>1. loc'[p].equity = loc[p].cash
        BY <1>4 DEF Locals
    <2>2. pos[s].qty = 0 /\ cash \in Nat /\ loc[p].tick.last \in Nat
        BY <1>3, <1>4, CycleConstants DEF OneSymbolInv, TablesOK, Ticker
    <2>3. loc'[p].equity = cash + pos[s].qty * loc[p].tick.last
        BY <1>3, <2>1, <2>2
    <2> QED BY <1>3, <2>3 DEF Worth
<1>5. CASE \E n \in snaps : /\ \A u \in snaps : u.at <= n.at
                            /\ loc' = [loc EXCEPT ![p].equity = n.equity]
    <2>1. PICK n \in snaps : /\ \A u \in snaps : u.at <= n.at
                             /\ loc' = [loc EXCEPT ![p].equity = n.equity]
        BY <1>5
    <2>2. loc'[p].equity = n.equity
        BY <2>1 DEF Locals
    <2> QED BY <2>1, <2>2 DEF OneSymbolInv
<1> QED BY <1>1, <1>4, <1>5 DEF LatestSnapshot

LEMMA OneSymbolStep ==
    ASSUME TypeInv, ExecInv, BookInv, SerialInv, LedgerInv, MaxInFlight = 1,
           NEW s \in Symbols, Symbols = {s}, OneSymbolInv(s), [Next]_vars
    PROVE  OneSymbolInv(s)'
<1>1. CASE UNCHANGED vars
    BY <1>1 DEF OneSymbolInv, Worth, vars
<1>2. ASSUME NEW p \in Procs, CommitExecution(p), Booking(p) PROVE OneSymbolInv(s)'
    <2>1. pc[p] = "commitExecution" /\ Moves(p) /\ pc'[p] = "listFills"
        BY <1>2, CommitExecutionBooks DEF BookInv, CommitExecution, Step
    <2>2. ASSUME NEW q \in Procs PROVE pc'[q] # "evaluate"
        <3>1. OnlyOne(p)
            BY <1>2, WhoMoves, NoOneElse
        <3> QED BY <2>1, <3>1 DEF Moves, OnlyOne, Underway, TypeInv, TypeOK
    <2> QED BY <1>2, <2>1, <2>2, OneSymbolBooking DEF CycleSteps
<1>3. ASSUME NEW p \in Procs, Moves(p), Still, snaps' = snaps, RowStep,
             Aside(p) \/ Buffering(p) \/ CommitIntent(p) \/ CommitExecution(p)
      PROVE  OneSymbolInv(s)'
    <2>1. risk'.open = risk.open
        <3>1. risk \in RiskState
            BY DEF TypeInv, TypeOK, TablesOK
        <3>2. Switched(risk') => risk' = [risk EXCEPT !.sys = risk'.sys]
            BY SwitchedMeans
        <3> QED BY <1>3, <3>1, <3>2 DEF RowStep, Rolled, RiskState
    <2>2. ASSUME NEW q \in Procs, pc'[q] = "evaluate" PROVE Worth(loc'[q].equity, s)
        <3>1. CASE q = p
            BY <1>3, <2>2, <3>1, OneSymbolEvaluate DEF Still
        <3>2. CASE q # p
            <4>1. pc[q] = "evaluate" /\ loc'[q] = loc[q]
                BY <1>3, <2>2, <3>2 DEF Moves, TypeInv, TypeOK
            <4> QED BY <4>1 DEF OneSymbolInv
        <3> QED BY <3>1, <3>2
    <2>3. ASSUME NEW e PROVE Worth(e, s)' <=> Worth(e, s)
        BY <1>3 DEF Worth, Still
    <2>4. ASSUME NEW q \in Procs, pc'[q] = "evaluate"
          PROVE  \E t \in Tickers : loc'[q].equity = cash' + pos'[s].qty * t.last
        BY <1>3, <2>2, <2>4 DEF Worth, Still
    <2>5. \A n \in snaps' : (\A u \in snaps' : u.at <= n.at) => Worth(n.equity, s)'
        BY <1>3, <2>3 DEF OneSymbolInv
    <2> QED BY <1>3, <2>1, <2>4, <2>5 DEF OneSymbolInv, Worth, Still
<1>4. \/ \E p \in Procs : CommitExecution(p) /\ Booking(p)
      \/ \E p \in Procs : /\ Moves(p) /\ Still /\ snaps' = snaps /\ RowStep
                          /\ Aside(p) \/ Buffering(p) \/ CommitIntent(p) \/ CommitExecution(p)
      \/ UNCHANGED vars
    <2>1. ASSUME NEW p \in Procs, Aside(p) \/ Buffering(p) \/ CommitIntent(p), Still
          PROVE  snaps' = snaps /\ RowStep
        <3>1. \A q \in Procs : ~Booking(q)
            BY <2>1, BookingAdds DEF Booking, Still
        <3> QED BY <3>1, StepEffect
    <2>2. ASSUME NEW p \in Procs, CommitExecution(p)
          PROVE  Booking(p) \/ (Still /\ snaps' = snaps /\ RowStep)
        BY <2>2, BookingIs DEF RowStep
    <2> QED BY <2>1, <2>2, StepBooks
<1> QED BY <1>1, <1>2, <1>3, <1>4

LEMMA OneSymbolCorrect ==
    ASSUME MaxInFlight = 1, NEW s \in Symbols, Symbols = {s}
    PROVE  Spec => [](TypeInv /\ OneSymbolInv(s))
<1>1. /\ TypeInv /\ ExecInv /\ BookInv /\ SerialInv /\ LedgerInv
      /\ OneSymbolInv(s) /\ [Next]_vars
      => OneSymbolInv(s)'
    BY OneSymbolStep
<1>2. Init => OneSymbolInv(s)
    BY OneSymbolInit
<1> QED BY <1>1, <1>2, LedgerInvCorrect, PTL DEF Spec

\* While requests do not overlap and one symbol is traded, the open_positions
\* that the cycle writes is the number of open positions.
THEOREM OpenIsCounted ==
    ASSUME MaxInFlight = 1, NEW s \in Symbols, Symbols = {s}
    PROVE  Spec => []OpenPositionsCounted
<1>1. TypeInv /\ OneSymbolInv(s) => OpenPositionsCounted
    <2> SUFFICES ASSUME TypeInv, OneSymbolInv(s)
                 PROVE  risk.open = Cardinality({x \in Symbols : pos[x].qty > 0})
        BY DEF OpenPositionsCounted
    <2>1. CASE pos[s].qty > 0
        <3>1. {x \in Symbols : pos[x].qty > 0} = {s}
            BY <2>1
        <3> QED BY <2>1, <3>1, FS_Singleton DEF OneSymbolInv
    <2>2. CASE ~(pos[s].qty > 0)
        <3>1. {x \in Symbols : pos[x].qty > 0} = {}
            BY <2>2
        <3> QED BY <2>2, <3>1, FS_EmptySet DEF OneSymbolInv
    <2> QED BY <2>1, <2>2
<1> QED BY <1>1, OneSymbolCorrect, PTL

\* A sum over one element.
LEMMA SumOfOne ==
    ASSUME NEW s, NEW w, w[s] \in Int
    PROVE  Total(w, {s}) = w[s]
<1>1. Total(w, {} \cup {s}) = w[s] + Total(w, {})
    BY FS_EmptySet, TotalAdd
<1>2. {} \cup {s} = {s}
    OBVIOUS
<1> QED BY <1>1, <1>2, TotalEmpty

Holdings(t, S) == MapThenSumSet(LAMBDA x : pos[x].qty * t.last, S)

LEMMA HoldingsAre ==
    ASSUME NEW S, IsFiniteSet(S), NEW t, NEW w, w = [x \in S |-> pos[x].qty * t.last]
    PROVE  Holdings(t, S) = Total(w, S)
<1> DEFINE sums(g) == g = [u \in SUBSET S |->
                IF u = {} THEN 0 ELSE pos[Pick(u)].qty * t.last + g[u \ {Pick(u)}]]
<1>1. Holdings(t, S) = (CHOOSE g : sums(g))[S]
    BY DEF Holdings, MapThenSumSet, MapThenFoldSet, Pick
<1>2. ASSUME NEW g PROVE sums(g) <=> Sums(g, S, w)
    <2>1. ASSUME NEW u \in SUBSET S, u # {} PROVE w[Pick(u)] = pos[Pick(u)].qty * t.last
        BY <2>1, PickIn
    <2> QED BY <2>1 DEF Sums
<1> DEFINE f == CHOOSE g : sums(g)
<1>3. sums(f)
    BY <1>2, SumsExist
<1> HIDE DEF f, sums
<1> QED BY <1>1, <1>2, <1>3, TotalIs DEF f

\* ... and the equity that the risk rules are about to see is the account's, at
\* a price that the exchange has quoted.
THEOREM EquityIsTheAccounts ==
    ASSUME MaxInFlight = 1, NEW s \in Symbols, Symbols = {s}
    PROVE  Spec => []EquityIsCurrent
<1>1. TypeInv /\ OneSymbolInv(s) => EquityIsCurrent
    <2> SUFFICES ASSUME TypeInv, OneSymbolInv(s), NEW p \in Requests, pc[p] = "evaluate"
                 PROVE  \E t \in Tickers :
                            loc[p].equity = cash + Holdings(t, Symbols)
        BY DEF EquityIsCurrent, Holdings
    <2>1. PICK t \in Tickers : loc[p].equity = cash + pos[s].qty * t.last
        BY DEF OneSymbolInv, Worth, Procs
    <2> DEFINE w == [x \in Symbols |-> pos[x].qty * t.last]
    <2>2. Holdings(t, Symbols) = Total(w, Symbols)
        <3>1. IsFiniteSet(Symbols)
            BY FS_Singleton
        <3> QED BY <3>1, HoldingsAre
    <2>3. w[s] = pos[s].qty * t.last /\ w[s] \in Int
        <3>1. pos[s].qty \in Nat /\ t.last \in Nat
            BY CycleConstants DEF TypeInv, TypeOK, TablesOK, Position, Ticker
        <3> QED BY <3>1
    <2> HIDE DEF w
    <2>4. Total(w, Symbols) = w[s]
        BY <2>3, SumOfOne
    <2> QED BY <2>1, <2>2, <2>3, <2>4
<1> QED BY <1>1, OneSymbolCorrect, PTL
===============================================================================
