------------------------------ MODULE CandleSync ------------------------------
(***************************************************************************)
(* CandleSyncService.sync (application/market_data.py) with the adapter's  *)
(* pages and the repository's upsert, for one symbol and timeframe.  Each  *)
(* sync is a request with its own transaction at READ COMMITTED.           *)
(*                                                                         *)
(* Time is counted in ticks; a candle opens every Duration ticks.  The     *)
(* exchange is external: a page is any sequence of the rows in Rows.       *)
(***************************************************************************)
EXTENDS Integers, FiniteSets, SequencesExt

CONSTANTS
    Syncs,       \* requests and CLI runs
    Ranges,      \* [start, end] of a sync
    Rows,        \* what a page may hold: [at, value, valid]
    Duration,    \* timeframe.duration
    PageSize,    \* maximum_candles_per_page
    MaxInFlight, \* bound: syncs under way at the same time
    None

ASSUME SyncConstants ==
    /\ IsFiniteSet(Syncs) /\ None \notin Ranges
    /\ Duration \in Nat \ {0} /\ PageSize \in Nat \ {0}
    /\ \A r \in Ranges : r.start \in Nat /\ r.end \in Nat
    /\ \A w \in Rows : w.at \in Nat /\ w.valid \in BOOLEAN

VARIABLES
    candles,   \* the table: a set of [at, value], at most one for a time
    pc,
    range,     \* the requested range
    page,      \* number of the next page
    received,  \* valid candles so far; forgotten when they are normalized
    bad,       \* rows the mapper has rejected so far
    rows,      \* normalized candles still to be written
    todo,      \* identities still to be looked up
    existing,  \* identities found in the table
    result,    \* CandleSyncResult
    tx         \* candles written by the open transaction

syncVars == <<candles, pc, range, page, received, bad, rows, todo, existing, result, tx>>
fetchVars == <<page, received, bad>>
writeVars == <<rows, todo, existing>>

Init ==
    /\ candles = {}
    /\ pc = [s \in Syncs |-> "idle"]
    /\ range = [s \in Syncs |-> None]
    /\ page = [s \in Syncs |-> 1]
    /\ received = [s \in Syncs |-> <<>>]
    /\ bad = [s \in Syncs |-> 0]
    /\ rows = [s \in Syncs |-> {}]
    /\ todo = [s \in Syncs |-> {}]
    /\ existing = [s \in Syncs |-> {}]
    /\ result = [s \in Syncs |-> None]
    /\ tx = [s \in Syncs |-> {}]

InFlight == {s \in Syncs : pc[s] \in {"fetch", "select", "upsert", "commit"}}
Goto(s, there) == pc' = [pc EXCEPT ![s] = there]

Aligned(t) == t % Duration = 0
TimesOf(C) == {c.at : c \in C}

\* The candles of a range, and how many pages they can fill plus one.
Estimated(r) == (r.end - r.start) \div Duration + 1

\* Mutant of MaxPages: a full last page leaves no room for the empty one.
MaxPagesTight(r) == (Estimated(r) + PageSize - 1) \div PageSize

MaxPages(r) == (Estimated(r) + PageSize - 1) \div PageSize + 1

-------------------------------------------------------------------------------
\* Mutant of Normalized: the grid is not looked at.
NormalizedOffGrid(seq, r) ==
    {seq[i] : i \in {j \in DOMAIN seq :
        /\ seq[j].at >= r.start /\ seq[j].at <= r.end
        /\ \A h \in 1..(j - 1) : seq[h].at # seq[j].at}}

\* _normalize: in range, on the grid, and of equal times the first received
\* (the sort by time is stable).
Normalized(seq, r) ==
    {seq[i] : i \in {j \in DOMAIN seq :
        /\ seq[j].at >= r.start /\ seq[j].at <= r.end
        /\ Aligned(seq[j].at)
        /\ \A h \in 1..(j - 1) : seq[h].at # seq[j].at}}

\* The candles that each branch of _normalize leaves out, at their positions.
OutOfRange(seq, r) == {i \in DOMAIN seq : seq[i].at < r.start \/ seq[i].at > r.end}
OffGrid(seq)       == {i \in DOMAIN seq : ~Aligned(seq[i].at)}
Repeated(seq)      == {i \in DOMAIN seq : \E h \in 1..(i - 1) : seq[h].at = seq[i].at}

\* Mutant of Rejected: a candle off the grid is passed over uncounted.
RejectedInSilence(seq, r) ==
    Cardinality(OutOfRange(seq, r))
    + Cardinality(Repeated(seq) \ (OutOfRange(seq, r) \cup OffGrid(seq)))

\* What _normalize counts: one for each branch taken, the first that applies.
Rejected(seq, r) ==
    Cardinality(OutOfRange(seq, r))
    + Cardinality(OffGrid(seq) \ OutOfRange(seq, r))
    + Cardinality(Repeated(seq) \ (OutOfRange(seq, r) \cup OffGrid(seq)))

Gap(kind, from, missing) == [kind |-> kind, from |-> from, missing |-> missing]
After(T, t) == Min({u \in T : u > t})

\* Mutant of Gaps: an internal gap is counted from the candle before it.
GapsFromPrevious(T, r) ==
    IF T = {} THEN {Gap("empty", r.start, Estimated(r))}
    ELSE {Gap("internal", t + Duration, (After(T, t) - t) \div Duration) :
              t \in {u \in T \ {Max(T)} : After(T, u) > u + Duration}}

\* detect_gaps, for the times T of the normalized candles.
Gaps(T, r) ==
    IF T = {} THEN {Gap("empty", r.start, Estimated(r))}
    ELSE LET first == Min(T)
             last  == Max(T)
             leading  == Gap("leading", r.start, (first - r.start) \div Duration)
             trailing == Gap("trailing", last + Duration, (r.end - last) \div Duration)
             before   == {t \in T \ {last} : After(T, t) > t + Duration}
         IN  (IF first > r.start THEN {leading} ELSE {})
             \cup {Gap("internal", t + Duration,
                       (After(T, t) - (t + Duration)) \div Duration) : t \in before}
             \cup (IF last < r.end THEN {trailing} ELSE {})

-------------------------------------------------------------------------------
\* The checks before the first page; "raise ValueError" ends the request.
Start(s) ==
    /\ pc[s] = "idle" /\ Cardinality(InFlight) < MaxInFlight
    /\ \E r \in Ranges :
          /\ range' = [range EXCEPT ![s] = r]
          /\ Goto(s, IF r.end >= r.start /\ Aligned(r.start) /\ Aligned(r.end)
                     THEN "fetch" ELSE "refused")
    /\ UNCHANGED <<candles, fetchVars, writeVars, result, tx>>

Pages == BoundedSeq(Rows, PageSize)
HasMore(p) == Len(p) = PageSize

Valid(p) == {i \in DOMAIN p : p[i].valid}

\* Where the sort by time, which is stable, puts row i among the valid ones.
Place(p, i) == Cardinality({j \in Valid(p) :
    p[j].at < p[i].at \/ (p[j].at = p[i].at /\ j <= i)})

\* map_udf_history: invalid rows are counted, the rest sorted by time.
Mapped(p) ==
    [k \in 1..Cardinality(Valid(p)) |->
        LET i == CHOOSE j \in Valid(p) : Place(p, j) = k
        IN  [at |-> p[i].at, value |-> p[i].value]]

Got(s, p) == received[s] \o Mapped(p)
Bad(s, p) == bad[s] + Cardinality(DOMAIN p \ Valid(p))

\* A full page: there may be more.
NextPage(s) ==
    /\ pc[s] = "fetch" /\ page[s] < MaxPages(range[s])
    /\ \E p \in Pages :
          /\ HasMore(p)
          /\ received' = [received EXCEPT ![s] = Got(s, p)]
          /\ bad' = [bad EXCEPT ![s] = Bad(s, p)]
    /\ page' = [page EXCEPT ![s] = @ + 1]
    /\ UNCHANGED <<candles, pc, range, writeVars, result, tx>>

\* Still a full page at the bound: RuntimeError.
TooManyPages(s) ==
    /\ pc[s] = "fetch" /\ page[s] = MaxPages(range[s])
    /\ \E p \in Pages :
          /\ HasMore(p)
          /\ received' = [received EXCEPT ![s] = Got(s, p)]
          /\ bad' = [bad EXCEPT ![s] = Bad(s, p)]
    /\ Goto(s, "exceeded")
    /\ UNCHANGED <<candles, page, range, writeVars, result, tx>>

\* The last page; what follows needs no further await before the lookups.
LastPage(s) ==
    /\ pc[s] = "fetch"
    /\ \E p \in Pages :
          LET kept  == Normalized(Got(s, p), range[s])
              times == TimesOf(kept)
          IN  /\ ~HasMore(p)
              /\ bad' = [bad EXCEPT ![s] = Bad(s, p)]
              /\ rows' = [rows EXCEPT ![s] = kept]
              /\ todo' = [todo EXCEPT ![s] = times]
              /\ result' = [result EXCEPT ![s] =
                    [received |-> Len(Got(s, p)),
                     rejected |-> Bad(s, p) + Rejected(Got(s, p), range[s]),
                     times |-> times, gaps |-> Gaps(times, range[s])]]
              /\ Goto(s, IF kept = {} THEN "commit" ELSE "select")
    /\ received' = [received EXCEPT ![s] = <<>>]
    /\ page' = [page EXCEPT ![s] = 1]
    /\ UNCHANGED <<candles, range, existing, tx>>

\* upsert first looks every identity up, in the order of a Python set.
SelectOne(s) ==
    /\ pc[s] = "select"
    /\ \E t \in todo[s] :
          /\ existing' = [existing EXCEPT ![s] = IF t \in TimesOf(candles) THEN @ \cup {t} ELSE @]
          /\ todo' = [todo EXCEPT ![s] = @ \ {t}]
          /\ Goto(s, IF todo[s] = {t} THEN "upsert" ELSE "select")
    /\ UNCHANGED <<candles, range, fetchVars, rows, result, tx>>

\* Mutant of NextRow: rows are written in the order the dictionary was hashed.
NextRowAny(s) == rows[s]

\* The rows are written in the order of their times.
NextRow(s) == {c \in rows[s] : \A d \in rows[s] : c.at <= d.at}

\* Another open transaction has written the candle of that time.
Locked(s, t) == \E q \in Syncs \ {s} : t \in TimesOf(tx[q])

\* Mutant of UpsertOne: every statement commits on its own.
UpsertOneAutocommit(s) ==
    /\ pc[s] = "upsert"
    /\ \E c \in NextRow(s) :
          /\ candles' = {d \in candles : d.at # c.at} \cup {c}
          /\ rows' = [rows EXCEPT ![s] = @ \ {c}]
          /\ Goto(s, IF rows[s] = {c} THEN "commit" ELSE "upsert")
    /\ UNCHANGED <<range, fetchVars, todo, existing, result, tx>>

\* INSERT ... ON CONFLICT DO UPDATE, one statement for each candle.
UpsertOne(s) ==
    /\ pc[s] = "upsert"
    /\ \E c \in NextRow(s) :
          /\ ~Locked(s, c.at)
          /\ tx' = [tx EXCEPT ![s] = {d \in @ : d.at # c.at} \cup {c}]
          /\ rows' = [rows EXCEPT ![s] = @ \ {c}]
          /\ Goto(s, IF rows[s] = {c} THEN "commit" ELSE "upsert")
    /\ UNCHANGED <<candles, range, fetchVars, todo, existing, result>>

\* Mutant of Commit: no unique key, the candles are added to the table.
CommitAppends(s) ==
    /\ pc[s] = "commit"
    /\ candles' = candles \cup tx[s]
    /\ tx' = [tx EXCEPT ![s] = {}]
    /\ Goto(s, "done")
    /\ UNCHANGED <<range, fetchVars, writeVars, result>>

\* The session's commit; the answer carries the counts made on the way.
Commit(s) ==
    /\ pc[s] = "commit"
    /\ candles' = {c \in candles : c.at \notin TimesOf(tx[s])} \cup tx[s]
    /\ tx' = [tx EXCEPT ![s] = {}]
    /\ Goto(s, "done")
    /\ UNCHANGED <<range, fetchVars, writeVars, result>>

\* The exchange fails, a statement fails or the process dies: roll back.
Fail(s) ==
    /\ s \in InFlight
    /\ tx' = [tx EXCEPT ![s] = {}]
    /\ Goto(s, "failed")
    /\ received' = [received EXCEPT ![s] = <<>>]
    /\ page' = [page EXCEPT ![s] = 1]
    /\ bad' = [bad EXCEPT ![s] = 0]
    /\ rows' = [rows EXCEPT ![s] = {}]
    /\ todo' = [todo EXCEPT ![s] = {}]
    /\ existing' = [existing EXCEPT ![s] = {}]
    /\ result' = [result EXCEPT ![s] = None]
    /\ UNCHANGED <<candles, range>>

Proceed(s) ==
    \/ NextPage(s) \/ TooManyPages(s) \/ LastPage(s)
    \/ SelectOne(s) \/ UpsertOne(s) \/ Commit(s)

Quiet == InFlight = {} /\ UNCHANGED syncVars

Next == (\E s \in Syncs : Start(s) \/ Proceed(s) \/ Fail(s)) \/ Quiet

Spec == Init /\ [][Next]_syncVars

\* A sync under way goes on when its page, row or lock is there.
FairSpec == Spec /\ \A s \in Syncs : WF_syncVars(Proceed(s))
-------------------------------------------------------------------------------
Candle == {[at |-> w.at, value |-> w.value] : w \in Rows}

Labels == {"idle", "refused", "fetch", "exceeded", "select", "upsert", "commit", "done", "failed"}

TypeOK ==
    /\ candles \subseteq Candle /\ received \in [Syncs -> Seq(Candle)]
    /\ rows \in [Syncs -> SUBSET Candle] /\ tx \in [Syncs -> SUBSET Candle]
    /\ page \in [Syncs -> Nat] /\ bad \in [Syncs -> Nat]
    /\ pc \in [Syncs -> Labels] /\ range \in [Syncs -> Ranges \cup {None}]
    /\ todo \in [Syncs -> SUBSET Nat] /\ existing \in [Syncs -> SUBSET Nat]
    /\ DOMAIN result = Syncs

\* The table holds at most one candle for a time, each on the grid and asked
\* for by some sync, whatever the pages held and however syncs overlap.
StoredOnce ==
    \A c \in candles :
        /\ Aligned(c.at)
        /\ \E s \in Syncs : pc[s] = "done" /\ range[s].start <= c.at /\ c.at <= range[s].end
        /\ \A d \in candles : c.at = d.at => c = d

Grid(r) == {t \in r.start .. r.end : Aligned(t)}
Covered(g) == {g.from + i * Duration : i \in 0..(g.missing - 1)}

\* docs/market-data.md:14-15.  The gaps a sync reports are disjoint and cover
\* exactly the grid points for which it kept no candle.
GapsExact ==
    \A s \in Syncs : result[s] # None =>
        /\ UNION {Covered(g) : g \in result[s].gaps} = Grid(range[s]) \ result[s].times
        /\ \A g, h \in result[s].gaps : g # h => Covered(g) \cap Covered(h) = {}

\* Every row the exchange sent is either one of the candles the sync counts as
\* inserted or updated, or was counted by exactly one of the branches that reject:
\* the mapper's, and _normalize's three (market_data.py:161-170).
Inserted(s) == result[s].times \ existing[s]
Updated(s)  == result[s].times \cap existing[s]
RowsAccounted ==
    \A s \in Syncs : pc[s] = "done" =>
        result[s].received + bad[s]
            = Cardinality(Inserted(s)) + Cardinality(Updated(s)) + result[s].rejected

\* The page bound stops only an exchange that sent more rows than the range
\* has candles: a correct one is never refused, also when the last page is full.
BoundIsFair ==
    \A s \in Syncs : pc[s] = "exceeded" =>
        Len(received[s]) + bad[s] > Estimated(range[s])

\* Syncs never wait for each other's rows in a circle, of any length: each writes
\* in order of time.
Waits(s, q) == /\ pc[s] = "upsert" /\ s # q
               /\ \E c \in NextRow(s) : c.at \in TimesOf(tx[q])
NoWaitCycle ==
    \A S \in (SUBSET Syncs) \ {{}} : \E s \in S : \A q \in S : ~Waits(s, q)

\* tests/unit/test_market_data_services.py:228-249.  Every stored candle was
\* counted as inserted by a sync that ended, also when syncs that had written it
\* before failed; of overlapping syncs, more than one may count it.
NothingUncounted ==
    \A c \in candles : \E s \in Syncs : pc[s] = "done" /\ c.at \in Inserted(s)

\* Every sync that passed the checks ends.
EverySyncEnds == \A s \in Syncs : s \in InFlight ~> s \notin InFlight
===============================================================================
