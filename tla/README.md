# Verification of AtlasTrader

TLA+ models of AtlasTrader's PAPER trading core, of the public exchange client
and the data it synchronises, and of the backtester, with TLC configurations that
check them on small instances and TLAPS proofs for every value of the constants.
Every definition is translated from the Python source (paths below are relative
to `src/atlas_trader/`); `PROJECT.json` gives the lines each one stands for.

## 1. The system

| component | source | state it keeps | operations |
|---|---|---|---|
| Trading cycle, paper execution | `application/trading.py`, `orders.py`, `paper.py`, `api/routes/trading.py` | tables `order_intents`, `paper_fills`, `paper_balances`, `paper_positions`, `paper_portfolio_snapshots`, `system_events` | `POST /trading/cycle`: evaluate, persist an intent, execute it, reconcile |
| Account creation | `PaperAccountService.ensure_initialized`, `api/routes/trading.py`, `api/routes/admin.py` | the one row of `paper_balances` and of `risk_state` | run first by every route: look for the two rows, insert those that are missing |
| Risk engine, risk state | `risk/engine.py`, `domain/models/risk.py` | the one row of `risk_state` | eight rules, day reset, `record_execution` |
| Reconciliation | `application/reconciliation.py` | (may set `risk_state` to KILLED) | replay the fills, compare, report |
| Administration | `application/admin.py`, `api/routes/admin.py` | `risk_state.system_state` | pause, resume, kill, reset-kill |
| Transactions | `infrastructure/database/session.py`, `unit_of_work.py`, `repositories/` | one `AsyncSession` per request | commit, rollback, upserts |
| Nobitex client, rate limiter | `infrastructure/exchanges/nobitex/client.py`, `rate_limit.py` | per client: a deque and a lock per endpoint | `acquire`, `_get` with retries |
| Candle sync | `application/market_data.py`, `repositories/candles.py` | table `candles` | page, normalise, find gaps, upsert |
| Market discovery | `application/market_data.py`, `repositories/markets.py`, `adapter.py` | table `markets` | map, upsert, deactivate |
| Backtester | `application/backtest.py` | local to one run | next-open execution, metrics |
| Strategy | `strategies/ema_atr.py`, `application/strategy_service.py` | table `signals` | `ema`, crossover, one signal a candle |
| Mock exchange, settings, CLI, logging, read-only routes, n8n, migrations | the rest | | not modelled, see section 8 |

**How they interact.** An n8n workflow (or a person) synchronises candles, has the
strategy evaluated, and posts the stored signal's id to `/trading/cycle`. One
request uses one session and four transactions: the account, if it is missing;
evaluation and intent; fill, balance, position, snapshot, intent status and risk
row; reconciliation and its event. The admin routes write the same risk row, in the
transaction that may have created it. Nothing else connects the
requests: no lock, no `SELECT ... FOR UPDATE`, no version column. What keeps two
of them apart is PostgreSQL: row locks of written rows, unique constraints and
READ COMMITTED.

**What is hard.** Requests overlap at every `await`; a retry may run next to the
call it repeats; the process may die between any two statements; values read in
one statement are written back several statements later (the balance, the risk
row); the account is created by whoever comes first, while others come too;
every column rounds on its own what is later compared exactly; transactions can
wait for each other's rows; the day changes between a read
and a write; the exchange repeats, reorders and truncates pages; coroutines are
cancelled while they hold the limiter's lock. `PROJECT.json` lists each hazard at
its line with the property that covers it, or why none does.

**What makes each part correct.**
Execution: no intent is filled twice, an execution is all or nothing, only after
a review of its own, and never with a negative balance. Accounting: cash and
positions are what the fills say, and a disagreement is reported. Kill switch:
KILLED stays until reset-kill, and stops what is pending. Creation: the risk row
is created once. Rounding: the position is the replayed one and, for accounts below
10^10 units, exact, and the drift is bounded. Limiter: never more than the limit in any window, retries included. Sync: no candle is stored twice
or lost from the counts, gaps are exact. Discovery: no market is deactivated by a
response that could not be read. Backtest: no look-ahead, no missed entry or exit, all
the money explained. Everywhere: what was received ends.

## 2. Modules

| module | models | abstract / composed |
|---|---|---|
| `RiskEngine` | rules, day reset, update after a fill, as operators | used by `TradingCycle` |
| `PaperAccounting` | price, fee, cash, average cost, as operators | extends `RiskEngine` |
| `PaperLedger` | what the account promises: book once, atomically, while enabled | abstract |
| `TradingCycle` | the cycle, reconciliation and administration, any number at once | implements `PaperLedger` |
| `AccountBootstrap` | `ensure_initialized` in front of every route, from an empty database | composed with `TradingCycle` |
| `LedgerRounding` | what Python's 28 digits and NUMERIC(36,18) do to balance, position, fills and signatures | |
| `RateLimiter` | `InMemoryRateLimiter.acquire` | abstract for the client |
| `PublicClient` | `_get`: attempts, backoff, Retry-After, cancellation | composed with, and implements, `RateLimiter` |
| `CandleSync` | `sync`, `_normalize`, `detect_gaps`, `upsert` | |
| `MarketDiscovery` | `discover_markets`, `reconcile` | |
| `EmaAtr` | `ema`, `evaluate` | used by `Backtest` |
| `Backtest` | `BacktestEngine.run` and its metrics | extends `EmaAtr` |
| `MC*` | the constants' values for TLC | |
| `*_proofs` | lemmas and theorems | |

A definition marked `Mutant of X` is X with a plausible bug. It is not used by
any specification; put in the place of X it makes the named property fail, which
shows that the property depends on that part of the code. One of them,
`FreeWithoutLocks`, changes the database rather than the program: the look for a fill,
its unique key, the lock on the balance and the row count of the status update each
keep `AtMostOneFill` on their own, so no single line of the program breaks it.

### TradingCycle and the code

A process is one HTTP request: `pc[p]` is the statement it runs next, `loc[p]`
its Python variables (where stale values live), `tx[p]` the rows its open
transaction has written. Each label is one SQL statement, since between two
statements the event loop may run any other request.

* A SELECT sees the last committed rows. The repositories turn every ORM record
  into a domain object and drop it, and the session's identity map is weak, so a
  later `session.get` reads the row again.
* A write buffers the row in `tx[p]` and locks it; another writer of the row, or
  an `INSERT ... ON CONFLICT` on a key that is not committed yet, waits (`Free`).
  `Commit` publishes the buffer at once. Locks that foreign keys take are shared
  and do not conflict with the updates made here.
* `DeadlockVictim` is PostgreSQL's deadlock detector. Only cycles of two exist:
  one of the waits of any longer cycle would be for the single risk row.
* `Crash` may hit any request between any two statements (process death, a
  disconnected client, a failed statement): its transaction rolls back.
* The route reads the clock once, on arrival, so `now` is the arrival time;
  arrivals have different times. A quote's age is relative to it and may be
  negative. `Day(t)` is the trading day.
* The account exists in `Init`: every route runs `ensure_initialized` first and
  once the rows exist it writes nothing. `AccountBootstrap` starts without it.
* Percentages are basis points. A lot costs 100 or 150, fee and slippage are ten
  percent, so that all sums are exact integers; rounding to NUMERIC(36,18) is
  the subject of `LedgerRounding`.
* What a `client_order_id` hashes (signal, quantity, ...) is the model value
  `order`; of `execution_signature` only the reference price can then differ.

### AccountBootstrap and the code

`boot[p]` is where request p is in `ensure_initialized`; at "ready" p takes the
steps of `TradingCycle`, unchanged. `rows` says which of the two rows are
committed; the SELECTs look there, the upserts write `tx[p]` under the same row
locks as everything else and `CommitAccount` is the commit of `_initialize_account`.
The admin routes have no commit of their own: `AdminTransition` reads the row its
own transaction may have written, and the account is committed with the transition
or rolled back with a refused one. `early` is a history of who was in
`ensure_initialized` at the moment the balance was created.

### LedgerRounding and the code

A stored number counts quanta (10^-18), a number of Python's counts grains, several
to a quantum. Numbers are rounded twice. `Context` is Python's default decimal
context, which keeps 28 significant digits, half to even, of every sum: `Ulp(x)` is
what the last digit of x is worth. `Stored` is PostgreSQL's rounding, half away from
zero, applied where a column is written; the risk decision's size goes through JSONB,
which keeps every digit. `Buy` and `Sell` round in the code's order: a purchase
subtracts `notional + fee` from the balance, a sale adds the notional to it and then
subtracts the fee (`application/paper.py:184,204`), and the replay subtracts or adds
its own parenthesis of the stored numbers (`application/reconciliation.py:64-67`).
Notional, fee and requested notional are products whose last digits can be anything,
so they are inputs. Requests do not overlap here.

`Limit` is 10^10 units of the currency: up to there the last of 28 digits is worth a
quantum or less, above it Python drops quanta itself. `bought`, `rounded` and
`precise` are histories: the position with all digits, the fills whose notional or fee
lost some, and whether every sum of a fill and of its replay has stayed within `Limit`.
`DriftBounded`, and that the position is exact, are stated while `precise` holds;
section 4 says what happens above. The configured initial balance is taken to have at
most 18 decimals, and no number exceeds what its column holds (`Fits`).

### PublicClient and RateLimiter

`queue[k]` is the FIFO `asyncio.Lock` of endpoint `k`, `events[k]` the deque as
ages. Ages stop at `Period`: the code never distinguishes older ones, so time is
unbounded. The holder sleeps with the lock held, may wake early
(`WakeEarly`) and may be cancelled there (`Leave`). The client's answers are
external; each is classified as `_get` classifies it. `recent` is a history of
the requests really made, kept apart from the deque so that the property is not
about the deque itself.

### CandleSync and MarketDiscovery

Pages are sequences of rows in any order, repeated, off the grid, out of range
or invalid; `HasMore` is the adapter's "page is full". A page longer than the
documented maximum is not enumerated. `map_udf_history` sorts a page stably by time:
`Place` is the place each valid row gets. What `_normalize` rejects is counted branch by
branch (`OutOfRange`, `OffGrid`, `Repeated`), apart from what it keeps. Upserts go row by row under row locks. In
a discovery the options, the order books, each upsert, and each row of the
deactivating UPDATE are steps; the UPDATE's scan fixes its rows when it starts.
Of a market only its active flag is kept.

### EmaAtr and Backtest

An EMA is an exact fraction, and a loop over candles a function from 0 to their
number. The code computes averages with 28-digit
Decimals; the checked instance uses periods and closes for which every average is
a short decimal, so that ties and touching averages are the code's own. Money is
counted in the quantum `persisted_decimal` rounds to and `Round` is its
half-even rounding. An opening price is chosen when a fill needs it, since nothing
else looks at it. The ATR only places the diagnostic stop and is left out.

## 3. The runs

| run | what is asked | instance |
|---|---|---|
| `overlap` | at most one fill, atomic, reviewed, intents final, a retry books nothing, balances never negative, divergence reported, a kill stops what has not passed the check | 2 requests and a killing operator, all overlapping, crashes; 2 symbols and a HOLD; cash for one purchase and a bit; fresh and future-stamped quotes |
| `answers` | every request ends (liveness) | 2 overlapping requests for one order across midnight, prices 100/150, an audit |
| `serial` | ledger exact, no false alarm, daily PnL, equity and open positions that the rules see are current, implements `PaperLedger`, KILLED is sticky | 3 requests one at a time, buy and sell, 2 days, 2 operator calls with all four commands, crashes |
| `bootstrap` | served on committed rows without a lock, the risk row is created once, once the early requests are through, the balance moves only with a fill | an empty database; a cycle that buys or holds, an audit and an operator who kills or resumes, all overlapping, crashes |
| `rounding` | amounts never negative, drift bounded, position exact | 5 orders (two buys, two sales, a buy with too many digits), 100 grains to a quantum and sums on both sides of `Limit`, products that round up, down and not at all, crashes, alarms and revivals |
| `client` | window, Retry-After, implements `RateLimiter`, every call ends | 2 calls, 3 attempts, 2 requests per 3 ticks, cancellation |
| `sync_pages` | gaps, counts, page bound, stored once | 1 sync, every sequence of pages of at most 2 of 6 rows, 4 ranges |
| `sync_overlap` | stored once, nothing uncounted, nobody waits in a circle (of any length), every sync ends | 2 syncs of ranges that share a candle the exchange corrects, failures |
| `discovery` | no false deactivation, a complete discovery is exact | 3 discoveries, 2 at a time, 2 markets, partial mappings, failures |
| `backtest` | PnL explained, trades follow signals, no missed entry or exit, worst drawdown | all 3^7 price histories, 2 opens, 2 capitals |
| `kill_lost`, `lost_update` | two disagreements of section 4 | the smallest instances that show them |

**Why the bounds are enough.** A conflict in `TradingCycle` is between two
requests over one row; the tables are per order and per symbol, so two requests,
two orders and two symbols contain every pair (same order; same symbol; different
symbols that share only cash and risk), and the operator adds the third writer of
the risk row. `serial` adds length instead: buy, retry, sell, a day change, and a
crash anywhere; one symbol is traded there, because with several the equity and the
count of open positions are wrong (section 4). `overlap` without the limit of one
request at a time would break `LedgerExact`; that is finding `lost_update`, so the exact properties are stated
for requests that do not overlap, which is how the supplied n8n schedule calls
the route, and `DivergenceReported` says what remains true when they do overlap.
In `bootstrap` two requests that find no row are a race, the third trades or kills
meanwhile, and the operator's transaction is the one that stays open longest.
`rounding` has the smallest cash that lets a buy fit with its notional and not with its fee; its run reaches the bound in
both directions, several lossy fills, the alarm, and, by the large purchase, sums above
`Limit`, where the bound is really exceeded.
Two calls and a window of two requests fill the limiter, make one task sleep with
the lock and another queue behind it. Two overlapping syncs or discoveries are the
smallest that can wait for each other; in discovery the third follows a returned
market. Seven candles are four of warm-up plus entry, exit and re-entry; the
smaller capital buys nothing at the higher price and reaches the validation error.
The clock bound (`MaxClock`), the numbers of requests, syncs, discoveries and calls
and `MaxInFlight` are the only bounds on behaviours.

**Fairness.** `WF(Proceed(p))` for each request and sync: the event loop resumes a
coroutine whose database call has returned, and PostgreSQL grants a lock that stays
free and breaks a deadlock. For the client also time passes, the lock is handed on
and attempts end: httpx has a timeout, but one for each read and not for the whole
answer, so this assumes that the exchange does not send an answer byte by byte for
ever (`EveryCallEnds` is false of one that does). Arrivals, crashes and cancellations have
none. In `answers` a request that waits for a lock is enabled again
once the holder ends, and holders end by the same assumption.

## 4. Disagreements between the code and its documents

The first two have a run that TLC ends with a counterexample.

* **`kill_lost`.** `RiskService` reads the whole risk row and later writes every
  column back (`risk/engine.py:197-233`). A kill that commits in between is
  overwritten with ENABLED, without reset-kill (`docs/paper-trading.md:40-41`).
* **`lost_update`.** `execute` computes the new balance in Python and upserts it
  (`application/paper.py:85`, `repositories/paper.py:39`). Of two overlapping
  executions of different symbols the later erases the earlier's debit. The
  reconciliation that follows reports it and kills trading (`DivergenceReported`).

Seen while modelling, stated here without a run of their own:

* a retry of a filled order is evaluated afresh; when the position it opened now
  exceeds the limit it is answered `risk_rejected`, not with the fill
  (`application/trading.py:181`; `docs/paper-trading.md:25` promises the fill).
  `RetryBooksNothing` states what does hold;
* the cycle writes 0 or 1 into `open_positions`, for the symbol just traded
  (`application/trading.py:199`), and the equity counts only that symbol's position
  (`paper.py:102`), so with several symbols a limit above one never rejects and the
  loss and position limits see a part of the portfolio. `OpenPositionsCounted` and
  `EquityIsCurrent` state what holds for one;
* a first request that is delayed between its SELECT of the balance and its upsert
  overwrites the balance others have traded on meanwhile (`trading.py:49-58`); an
  operator's first kill can do so too, as its transaction stays open longer. The
  next reconciliation kills trading. `OnlyEarlyRequestsReset` says that nobody can
  who came after the account was created;
* reconciliation compares rounded sums exactly (`reconciliation.py:75`), so a
  quantity whose notional or fee has more than 18 decimals may raise an alarm over
  the last digit; `DriftBounded` says by how much. From 10^10 units on (and
  `paper_initial_balance` need only be positive, `config/settings.py:74`) Python's 28
  digits no longer hold 18 decimals: a sale stores `(available + notional) - fee`, the
  replay adds `notional - fee` (`paper.py:204`, `reconciliation.py:67`), the two round
  differently by several quanta, and the alarm is raised over a fill that lost
  nothing. An order whose quantity or
  requested notional has more decimals is approved and never executed, and its
  retries are conflicts (`PositionExact` depends on it);
* a request that arrived before midnight and evaluates after another one's reset
  turns the risk row back to the previous day (`domain/models/risk.py:25`);
* the state is checked once more before the fill but not held, so a kill that
  commits between that check and the fill's commit does not stop the fill
  (`docs/paper-trading.md:38-39`); `KillStopsPendingExecution` states what holds;
* every client object has its own limiter and every API request its own client
  (`api/dependencies.py:7`): the limit is per object, while
  `docs/nobitex-api.md:7-13` speaks of one local limit;
* a discovery with a market that cannot be mapped still commits the others, as
  `docs/market-data.md:5-6` says and `docs/nobitex-api.md:23-24` does not;
* of transport failures only ConnectError and TimeoutException are mapped
  (`client.py:145`); `docs/nobitex-api.md:26-28` promises all of them.

## 5. What is proved

TLAPS checks these for every value of the constants: any number of requests,
orders, symbols, prices, limits, periods, calls, candles, syncs and pages. The
theorems marked † are about requests that do not overlap (`MaxInFlight = 1`, any number
of them, with retries, crashes, alarms and operators), those marked ‡ also about one
traded symbol (`Symbols = {s}`); section 4 says why they are false otherwise.

| theorem | says |
|---|---|
| `TradingCycle_proofs!TypeCorrect` | `Spec => []TypeOK`: in particular no interleaving stores a negative balance or a short position |
| `TradingCycle_proofs!FilledAtMostOnce` | at most one fill per order |
| `TradingCycle_proofs!ExecutionIsAtomic` | fill, snapshot and FILLED go together |
| `TradingCycle_proofs!IntentsAreFinal` | an intent only goes from APPROVED to FILLED and keeps its price |
| `TradingCycle_proofs!FillsAreReviewed` | the request that made a fill was approved itself, and so was the stored intent |
| `TradingCycle_proofs!RetriesBookNothing` | once an order is filled, no request for it moves cash, positions, fills or intents |
| `Ledger_proofs!DivergenceIsReported` | however executions overlap: an account that disagrees with its fills was reported when all requests are answered |
| `Ledger_proofs!KillStopsPending` | after a kill that finds nobody past the executor's last look at the state, nothing is filled until an operator begins another transition |
| `Ledger_proofs!KillStays` † | KILLED is left only by reset-kill, for PAUSED |
| `Ledger_proofs!ImplementsLedger` † | every step of `TradingCycle` is a step of `PaperLedger` or leaves the account alone |
| `Ledger_proofs!LedgerIsExact` † | cash and positions are what the fills add up to |
| `Ledger_proofs!DailyPnlIsExact` † | the daily PnL is the sum of the day's realized profits |
| `Ledger_proofs!NoAlarmIsFalse` † | no reconciliation reports a failure |
| `Ledger_proofs!OpenIsCounted` ‡ | the risk row counts the open positions |
| `Ledger_proofs!EquityIsTheAccounts` ‡ | the equity the rules evaluate is the account's at a quoted price |
| `AccountBootstrap_proofs!ServedAfterCommit` | cycles and audits run on two committed rows and ask for a quote with nothing locked |
| `AccountBootstrap_proofs!RiskRowSurvives` | creating the account never replaces a risk row |
| `AccountBootstrap_proofs!ExecutionFromTheStart` | at most one fill, and atomic execution, from an empty database on |
| `AccountBootstrap_proofs!OnlyEarlyReset` | once the requests that were creating the account are through, the balance moves only with a fill |
| `LedgerRounding_proofs!RoundedTypes` | no stored amount is negative, with every amount rounded on its own and however large |
| `LedgerRounding_proofs!RoundingDrift` | while no sum exceeds 10^10 units, balance and fills drift apart by at most one quantum for each lossy fill |
| `LedgerRounding_proofs!RoundedPosition` | the position is the replayed one, and exact while no sum exceeds 10^10 units |
| `PublicClient_proofs!LimiterKeepsWindow` | the limiter respects every window |
| `PublicClient_proofs!ClientUsesLimiter` | the client, retries and cancellation included, implements the limiter |
| `PublicClient_proofs!ClientKeepsWindow` | hence it respects every window |
| `PublicClient_proofs!ClientHonoursRetryAfter` | no retry leaves before Retry-After has passed |
| `CandleSync_proofs!CandlesAreStoredOnce` | one candle for a time, on the grid, in a range a finished sync asked for |
| `CandleSync_proofs!NoCandleUncounted` | every stored candle was counted as inserted by a sync that ended |
| `CandleSync_proofs!EveryRowIsCounted` | every row received is inserted, updated or rejected, once |
| `CandleSync_proofs!ReportedGapsAreExact` | the reported gaps are disjoint and cover exactly the missing grid points |
| `CandleSync_proofs!PageBoundIsFair` | the page bound stops only an exchange that sent more rows than the range has |
| `CandleSync_proofs!NoSyncDeadlock` | overlapping syncs never wait for each other in a circle |
| `MarketDiscovery_proofs!NoMarketLost` | only a complete discovery that did not see a market deactivates it |
| `MarketDiscovery_proofs!CompleteDiscovery` | after a complete discovery exactly the listed markets are active |
| `Backtest_proofs!BacktestExplainsPnl` | the profit is explained within one quantum per entry (one more for an open position) |
| `Backtest_proofs!TradesAreSignals` | a trade executes one candle after a cross of the closes up to its signal; entries and exits alternate |
| `Backtest_proofs!NoCrossIsMissed` | after a cross upwards the run is in the market and after one downwards out of it; while a position is open, the fast average was not below the slow one at the close before |
| `Backtest_proofs!DrawdownIsTheWorstFall` | the reported drawdown is the largest fall from an equity to a later one |

**Assumptions.** Only those the modules name: `RiskSettings`, `PaperSettings`,
`CycleConstants`, `NoneIsNoRow` (a missing row is neither a row nor a value of a column),
`RoundingConstants` (a fee rate of at most 1, as the settings have it), `Decimals` (the
last digit's worth grows by powers of ten), `Products` (notional and fee come out of
the same decimal context), `LimiterConstants`, `ClientConstants`, `SyncConstants`, `DiscoveryConstants`, `StrategyConstants`,
`BacktestConstants`. They are the types and ranges that the settings and domain
models validate, and the arithmetic of decimals; TLC evaluates them in every run.

**Arguments.**

* *Types.* `TypeOK` is not inductive: `SetBalance` writes `NewCash`, which is
  natural only because the purchase was affordable. `TypeInv` adds `LocalsOK`: at
  the labels after `execPosition`, the cash and position the request READ cover
  the order. That is a fact about its own copies, so overlapping writers cannot
  disturb it, and it is why balances stay non-negative although they may be wrong.
* *Executions.* `ExecInv` is `AtMostOneFill`, `AtomicExecution`, what each
  transaction has buffered at each label (fill, then snapshot, then status), and
  `Apart`: no two open transactions hold a fill of the same order, which is the
  unique index with its lock. Every step either leaves intents, fills and snapshots
  alone and keeps the buffers apart, or is one of the few that fill or publish a
  buffer. `IntentsAreFinal` follows from the same invariant.
* *Review.* `ReviewInv` follows the approval: whoever is past the risk decision has
  left its `risk_approved` event, and the intent it holds in hand agrees with the
  stored one about `approved`, which the executor has looked at before it inserts
  a fill. It needs `ExecInv` to know that a committed intent's approval is never
  rewritten and that a fill always has its intent.
* *Books.* `BookInv`: a balance or a position is buffered together with a fill or not at
  all. With `ExecInv` (a committed fill keeps everyone else's buffer empty) a retry
  commits nothing to the account.
* *Divergence.* `WatchInv`: the account is balanced, or the failure was reported, or some
  request still watches: it has not read the fills yet, or has read what is committed
  now, or knows that something is wrong, or died unanswered. Whoever books goes on to
  reconcile in the same request, so a commit that unbalances the account is watched by
  the one that made it.
* *Kill.* While `Stopped` holds, nobody has passed the executor's look at the state and
  every copy of the risk row, in variables or buffers, says KILLED; so each save writes
  KILLED back, and only an operator that begins afterwards can change that.
* *No overlap.* `SerialInv`: one request is under way, what it has read is what is stored
  (`Reads`), and what it has buffered is what it computed from that (`RiskRow`,
  `Shelf`). Hence each step either leaves the account alone or books one fill on the
  account that it decided on, and that is a step of `PaperLedger`. `LedgerInv` adds the
  sums, the order of fills in time (so a day's sum restarts at a day reset) and that no
  prefix of the fills is short; `AlarmInv` follows reconciliation, which then
  replays exactly what is stored; `OneSymbolInv` ties the last snapshot to cash and
  the one position.
* *Sums.* `MapThenSumSet` is a recursive function over subsets, and operator induction is
  not available; `SmallestSubset` replaces it: among the subsets on which two sums
  differ there is a smallest, and taking one element out of it contradicts that.
* *Creation.* The risk row is looked for only after the balance was written, and the
  upsert of the balance locks its row until the commit. So whoever finds no risk row
  holds the only balance that can be committed next, and both rows become visible at
  once: `AccountOf` says this at each label, `OneWriter` is the lock. Steps that
  create the account touch no intent, fill or snapshot, so `ExecInv` survives them
  and the theorems about executions need no account to start from. The balance:
  `FirstOK` says that whoever is at the upsert of an account that exists, or holds a
  balance without a fill, was in `ensure_initialized` when it was created; everyone
  else has read the row, or books (`Books`).
* *Rounding.* While every sum is within `Limit`, its last digit is worth a quantum or
  less. A buy stores `cash - (notional + fee)`, rounded twice by Python and once by
  the column; where the last digit is worth less than a quantum it is worth a tenth or
  less, so Python's part is small (`TwiceRounded`), and where it is worth a quantum the
  column has nothing left to round. With the two amounts rounded for the fill's row the
  drift of one fill is below two quanta and, being an integer, at most one; when nothing
  was rounded off it is zero. The new cash is not negative, at any size, because
  affordability is checked before rounding and every rounding is monotone
  (`ContextAbove`). The position and its replay round the same sum; and equal
  signatures mean that the column kept every digit, so within `Limit` nothing is lost.
* *Limiter.* `AllAligned`: the deque is a suffix of the history of requests and
  what was pruned from it is a period old. A request is admitted when the deque is
  shorter than the limit, so the request `Limit` places back is outside the window.
* *Retry-After.* `RetryInv`: while a call pauses, the ticks passed and the ticks left
  add up to what was asked; once it is at the lock or sent, they have passed. A call
  is at one place of one queue at most (`Line`), so whoever is admitted has waited.
* *Candle sync.* `SyncInv` says what the variables of a sync are worth at each label: every
  page but the last is full, so the page bound is reached only after
  `MaxPages * PageSize` rows; the result is computed once, from what was kept; what is
  written comes before what is still to write. Only `Commit` changes the table. Who
  waits holds an earlier time than it waits for, so times grow along the waits
  and no circle closes. A gap is an interval of the grid; leading, internal and trailing
  gaps together are the complement of the times that were kept.
* *Discovery.* `DiscInv` says what the open transaction of a discovery holds at each
  statement: TRUE for what it mapped, FALSE only for markets that a complete
  discovery did not see, and at the commit a row for each market it knew. The
  commit writes them all, so it does not matter what overlapping discoveries wrote.
* *Backtest.* `AllInOrOut` (entries and exits alternate, cash or a position but
  not both) and `Balanced`: cash plus cost equals capital plus realized profit
  within one quantum per entry. A BUY moves it by at most one because gross and fee
  are each rounded to the nearest quantum and the fee is below the gross
  (`SpendsAll`); a SELL moves nothing.
* *Signals and drawdown.* Averages and scans are functions from 0..n; `FromZero` takes the
  place of induction. The average of a slice is the average of the whole series there, so
  `SignalInv` can say that what waits for the next open is the cross at the last
  close, computed from closes up to it. Every signal traded on is older than the loop's
  index, so the last candle is decided by the last trade: a trade made on its cross
  (`TradeDecides`), or none, because the run was already on that side
  (`NoTradeDecides`). The scan for the drawdown knows, after i
  equities, their peak and the largest fall between two of them (`Known`).

**Only model-checked.** Liveness: `EveryRequestEnds`, `EveryCallEnds` and
`EverySyncEnds` need fairness and ENABLED.

## 6. Plan

Done, in this order: the trading core, the client, sync and discovery, the
backtester, the creation of the account, and rounding, with the theorems above.

Next models:

1. Requests that overlap in `LedgerRounding`, where a lost update and a rounded
   balance have to be told apart.
2. Liveness of discovery: PostgreSQL ends one of two that wait for each other, and
   the scheduler repeats it.
3. The mock exchange's order book and idempotency, once something uses it.

Next proofs: the † theorems for requests that overlap as long as their executions do
not (an evaluation reads, but only an execution writes the account); abstract
specifications of the candle and market tables, merged one transaction at a time,
that `CandleSync` and `MarketDiscovery` implement; and that a position is never
bought beyond the limits it was approved under.

## 7. Running it

    tlc -config Overlap.cfg MCTradingCycle        # likewise the other .cfg files
    tlapm TradingCycle_proofs.tla                 # likewise the other *_proofs

`Backtest.cfg` runs on `Backtest`, `Client.cfg` on `MCPublicClient`, `Sync*.cfg` on
`MCCandleSync`, `Discovery.cfg` on `MCMarketDiscovery`, `Bootstrap.cfg` on
`MCAccountBootstrap`, `Rounding.cfg` on `MCLedgerRounding`, the rest on
`MCTradingCycle`. The longest run takes about two minutes.

## 8. Not modelled

* Settings, CLI, logging, application start and read-only routes change no state
  that the properties are about.
* n8n workflows and migrations are not program code of the application; the
  workflows' schedule is only used to say which requests overlap.
* The mock exchange: a stand-in for tests that no route or command builds.
* The persistence of signals and backtest results: an insert under a fresh id, or
  `ON CONFLICT DO NOTHING`, and never an update. `StrategyService.run` is called by
  nothing in the source, `update_status` and `transition_to` neither.
* Rounding of prices, average costs and equity, which nothing compares exactly.
* JSON and Decimal parsing: an answer or row is valid or not.
* Quantities of the order's quote beyond bid, ask, last and age; the text of
  reasons and events.
* PostgreSQL's own failures between commit and acknowledgement, and a process
  restart's effect on the in-memory limiter (it starts empty, as `ClientInit`).
