----------------------------- MODULE RateLimiter -----------------------------
(***************************************************************************)
(* InMemoryRateLimiter (infrastructure/exchanges/nobitex/rate_limit.py): a *)
(* sliding window per endpoint behind a FIFO asyncio.Lock.  The task that  *)
(* holds the lock keeps it while it sleeps until its slot.                 *)
(*                                                                         *)
(* Time is discrete and never stored: an event is kept by its age, which   *)
(* stops counting at Period because nothing looks at older ages.           *)
(***************************************************************************)
EXTENDS Integers, Sequences

CONSTANTS
    Tasks,    \* coroutines that call acquire
    Keys,     \* one per limiter object and endpoint: each has its own deque
    Limit,    \* requests per Period, by key
    Period    \* period_seconds

ASSUME LimiterConstants == /\ Period \in Nat \ {0}
                           /\ Limit \in [Keys -> Nat \ {0}]

VARIABLES
    queue,    \* tasks at the lock of each key; the first one holds it
    wait,     \* how long the holder still sleeps
    events,   \* the deque: ages of the admitted calls, oldest first
    recent    \* history: ages of the last Limit + 1 requests really made

limiterVars == <<queue, wait, events, recent>>

LimiterInit ==
    /\ queue = [k \in Keys |-> <<>>]
    /\ wait = [k \in Keys |-> 0]
    /\ events = [k \in Keys |-> <<>>]
    /\ recent = [k \in Keys |-> <<>>]

Ages == 0..Period

AtLock(t, k) == \E i \in DOMAIN queue[k] : queue[k][i] = t

\* Mutant of Expired: events[0] <= cutoff became <= cutoff + 1.
ExpiredTooSoon(s, n) == /\ \A i \in 1..n : s[i] >= Period - 1
                        /\ n < Len(s) => s[n + 1] < Period - 1

\* "while events and events[0] <= cutoff: popleft()" removes the n oldest.
Expired(s, n) == /\ \A i \in 1..n : s[i] >= Period
                 /\ n < Len(s) => s[n + 1] < Period

\* acquire up to "async with": a task waits behind those that came before.
Join(t, k) ==
    /\ \A j \in Keys : ~AtLock(t, j)
    /\ queue' = [queue EXCEPT ![k] = Append(@, t)]
    /\ UNCHANGED <<wait, events, recent>>

\* One more request is made under k; only the history takes notice.
Record(k) ==
    LET r == Append(recent[k], 0)
    IN  recent' = [recent EXCEPT ![k] = IF Len(r) > Limit[k] + 1 THEN Tail(r) ELSE r]

\* The holder finds a slot, takes it and releases the lock.
Admit(k) ==
    /\ queue[k] # <<>> /\ wait[k] = 0
    /\ \E n \in 0..Len(events[k]) :
          /\ Expired(events[k], n)
          /\ Len(events[k]) - n < Limit[k]
          /\ events' = [events EXCEPT ![k] = Append(SubSeq(@, n + 1, Len(@)), 0)]
    /\ queue' = [queue EXCEPT ![k] = Tail(@)]
    /\ Record(k)
    /\ UNCHANGED wait

\* The window is full: the holder sleeps until the oldest event leaves it.
Defer(k) ==
    /\ queue[k] # <<>> /\ wait[k] = 0
    /\ \E n \in 0..Len(events[k]) :
          /\ Expired(events[k], n)
          /\ Len(events[k]) - n >= Limit[k]
          /\ events' = [events EXCEPT ![k] = SubSeq(@, n + 1, Len(@))]
          /\ wait' = [wait EXCEPT ![k] = Period - events[k][n + 1]]
    /\ UNCHANGED <<queue, recent>>

\* A timer may fire up to one clock resolution early; the loop looks again.
WakeEarly(k) ==
    /\ wait[k] = 1
    /\ wait' = [wait EXCEPT ![k] = 0]
    /\ UNCHANGED <<queue, events, recent>>

\* A cancelled task leaves the queue; if it held the lock the next one gets it.
Leave(t, k) ==
    /\ \E i \in DOMAIN queue[k] :
          /\ queue[k][i] = t
          /\ queue' = [queue EXCEPT ![k] = SubSeq(@, 1, i - 1) \o SubSeq(@, i + 1, Len(@))]
    /\ wait' = [wait EXCEPT ![k] = IF Head(queue[k]) = t THEN 0 ELSE @]
    /\ UNCHANGED <<events, recent>>

Older(s) == [i \in DOMAIN s |-> IF s[i] < Period THEN s[i] + 1 ELSE Period]

Pass ==
    /\ events' = [k \in Keys |-> Older(events[k])]
    /\ recent' = [k \in Keys |-> Older(recent[k])]
    /\ wait' = [k \in Keys |-> IF wait[k] > 0 THEN wait[k] - 1 ELSE 0]
    /\ UNCHANGED queue

LimiterNext ==
    \/ \E t \in Tasks, k \in Keys : Join(t, k) \/ Leave(t, k)
    \/ \E k \in Keys : Admit(k) \/ Defer(k) \/ WakeEarly(k)
    \/ Pass

LimiterSpec == LimiterInit /\ [][LimiterNext]_limiterVars
-------------------------------------------------------------------------------
LimiterTypeOK ==
    /\ queue \in [Keys -> Seq(Tasks)]
    /\ wait \in [Keys -> Ages]
    /\ events \in [Keys -> Seq(Ages)]
    /\ recent \in [Keys -> Seq(Ages)]

\* In no window of Period are more than Limit requests made: the request
\* before the last Limit ones is at least a whole Period old (acquire, for any
\* arrivals, cancellations, early timers and late wake-ups).
WindowRespected ==
    \A k \in Keys : Len(recent[k]) > Limit[k] => recent[k][1] >= Period
===============================================================================
