-------------------------- MODULE PublicClient_proofs --------------------------
(***************************************************************************)
(* The limiter keeps its window for every limit, period and number of      *)
(* tasks, and the client, with its retries, never goes round it.           *)
(*                                                                         *)
(* The deque and the history of requests are tied together: the deque is   *)
(* the end of the history, and what precedes it there is too old to count. *)
(***************************************************************************)
EXTENDS PublicClient, SequenceTheorems, TLAPS

\* The deque ev is the end of the history re, whose other members are old.
Aligned(ev, re, limit) ==
    /\ ev \in Seq(Nat) /\ re \in Seq(Nat)
    /\ Len(ev) <= limit /\ Len(ev) <= Len(re) /\ Len(re) <= limit + 1
    /\ \A i \in 1..Len(ev) : ev[i] = re[Len(re) - Len(ev) + i]
    /\ \A i \in 1..(Len(re) - Len(ev)) : re[i] >= Period

AllAligned ==
    /\ events \in [Keys -> Seq(Nat)] /\ recent \in [Keys -> Seq(Nat)]
    /\ \A k \in Keys : Aligned(events[k], recent[k], Limit[k])

\* Dropping expired events from the deque keeps it aligned.
LEMMA PruneKeepsAligned ==
    ASSUME NEW ev, NEW re, NEW limit \in Nat, Aligned(ev, re, limit),
           NEW n \in 0..Len(ev), Expired(ev, n)
    PROVE  Aligned(SubSeq(ev, n + 1, Len(ev)), re, limit)
<1> DEFINE kept == SubSeq(ev, n + 1, Len(ev))
<1>1. ev \in Seq(Nat) /\ re \in Seq(Nat) /\ Len(ev) \in Nat /\ Len(re) \in Nat
  BY DEF Aligned
<1>2. kept \in Seq(Nat) /\ Len(kept) = Len(ev) - n
  BY <1>1
<1>3. \A i \in 1..Len(kept) : kept[i] = ev[n + i]
  BY <1>1, <1>2
<1> HIDE DEF kept
<1>4. \A i \in 1..Len(kept) : kept[i] = re[Len(re) - Len(kept) + i]
  <2> TAKE i \in 1..Len(kept)
  <2>1. n + i \in 1..Len(ev)
    BY <1>1, <1>2
  <2>2. ev[n + i] = re[Len(re) - Len(ev) + (n + i)]
    BY <2>1 DEF Aligned
  <2>3. Len(re) - Len(ev) + (n + i) = Len(re) - Len(kept) + i
    BY <1>1, <1>2
  <2> QED
    BY <1>3, <2>2, <2>3
<1>5. \A i \in 1..(Len(re) - Len(kept)) : re[i] >= Period
  <2> TAKE i \in 1..(Len(re) - Len(kept))
  <2>1. CASE i \in 1..(Len(re) - Len(ev))
    BY <2>1 DEF Aligned
  <2>2. CASE i \notin 1..(Len(re) - Len(ev))
    <3> DEFINE j == i - (Len(re) - Len(ev))
    <3>1. j \in 1..n /\ j \in 1..Len(ev) /\ Len(re) - Len(ev) + j = i
      BY <1>1, <1>2, <2>2 DEF Aligned
    <3>2. ev[j] = re[Len(re) - Len(ev) + j]
      BY <3>1 DEF Aligned
    <3>3. ev[j] >= Period
      BY <3>1 DEF Expired
    <3> QED
      BY <3>1, <3>2, <3>3
  <2> QED
    BY <2>1, <2>2
<1>6. Len(kept) <= limit /\ Len(kept) <= Len(re) /\ Len(re) <= limit + 1
  BY <1>1, <1>2 DEF Aligned
<1>7. Aligned(kept, re, limit)
  BY <1>1, <1>2, <1>4, <1>5, <1>6 DEF Aligned
<1> QED
  BY <1>7 DEF kept

\* A call that found a slot is the newest in the deque and in the history.
LEMMA AdmitKeepsAligned ==
    ASSUME NEW ev, NEW re, NEW limit \in Nat, Aligned(ev, re, limit), Len(ev) < limit,
           NEW r, r = Append(re, 0)
    PROVE  Aligned(Append(ev, 0), IF Len(r) > limit + 1 THEN Tail(r) ELSE r, limit)
<1> DEFINE e == Append(ev, 0)
<1>1. ev \in Seq(Nat) /\ re \in Seq(Nat) /\ Len(ev) \in Nat /\ Len(re) \in Nat
  BY DEF Aligned
<1>a. Len(ev) + 1 <= limit /\ Len(ev) <= Len(re) /\ Len(re) <= limit + 1
  BY <1>1 DEF Aligned
<1>2. /\ e \in Seq(Nat) /\ Len(e) = Len(ev) + 1
      /\ \A i \in 1..Len(ev) : e[i] = ev[i]
      /\ e[Len(ev) + 1] = 0
  BY <1>1
<1>3. /\ r \in Seq(Nat) /\ Len(r) = Len(re) + 1
      /\ \A i \in 1..Len(re) : r[i] = re[i]
      /\ r[Len(re) + 1] = 0
  BY <1>1
<1> HIDE DEF e
<1>b. Len(e) = Len(ev) + 1 /\ Len(r) = Len(re) + 1
  BY <1>2, <1>3
<1>4. \A i \in 1..Len(e) : e[i] = r[Len(r) - Len(e) + i]
  <2> TAKE i \in 1..Len(e)
  <2>1. CASE i = Len(e)
    BY <1>1, <1>2, <1>3, <2>1
  <2>2. CASE i # Len(e)
    <3>1. i \in 1..Len(ev)
      BY <1>1, <1>2, <2>2
    <3>2. Len(r) - Len(e) + i = Len(re) - Len(ev) + i /\ Len(re) - Len(ev) + i \in 1..Len(re)
      BY <1>1, <1>a, <1>b, <3>1
    <3>3. ev[i] = re[Len(re) - Len(ev) + i]
      BY <3>1 DEF Aligned
    <3> QED
      BY <1>2, <1>3, <3>1, <3>2, <3>3
  <2> QED
    BY <2>1, <2>2
<1>5. \A i \in 1..(Len(r) - Len(e)) : r[i] >= Period
  <2> TAKE i \in 1..(Len(r) - Len(e))
  <2>1. i \in 1..(Len(re) - Len(ev)) /\ i \in 1..Len(re)
    BY <1>1, <1>a, <1>b
  <2> QED
    BY <1>3, <2>1 DEF Aligned
<1>6. CASE Len(r) > limit + 1
  <2> DEFINE q == Tail(r)
  <2>1. /\ q \in Seq(Nat) /\ Len(q) = Len(r) - 1
        /\ \A i \in 1..Len(q) : q[i] = r[i + 1]
    BY <1>1, <1>3
  <2> HIDE DEF q
  <2>a. Len(q) = Len(re)
    BY <1>1, <1>b, <2>1
  <2>2. Len(e) <= limit /\ Len(e) <= Len(q) /\ Len(q) <= limit + 1
    BY <1>1, <1>a, <1>b, <1>6, <2>a
  <2>3. \A i \in 1..Len(e) : e[i] = q[Len(q) - Len(e) + i]
    <3> TAKE i \in 1..Len(e)
    <3>1. Len(q) - Len(e) + i \in 1..Len(q)
      BY <1>1, <1>a, <1>b, <2>a, <2>2
    <3>2. (Len(q) - Len(e) + i) + 1 = Len(r) - Len(e) + i
      BY <1>1, <1>b, <2>a
    <3> QED
      BY <1>4, <2>1, <3>1, <3>2
  <2>4. \A i \in 1..(Len(q) - Len(e)) : q[i] >= Period
    <3> TAKE i \in 1..(Len(q) - Len(e))
    <3>1. i \in 1..Len(q) /\ i + 1 \in 1..(Len(r) - Len(e))
      BY <1>1, <1>b, <2>a, <2>2
    <3> QED
      BY <1>5, <2>1, <3>1
  <2>5. Aligned(e, q, limit)
    BY <1>2, <2>1, <2>2, <2>3, <2>4 DEF Aligned
  <2> QED
    BY <1>6, <2>5 DEF e, q
<1>7. CASE ~(Len(r) > limit + 1)
  <2>1. Len(e) <= limit /\ Len(e) <= Len(r) /\ Len(r) <= limit + 1
    BY <1>1, <1>a, <1>b, <1>7
  <2>2. Aligned(e, r, limit)
    BY <1>2, <1>3, <1>4, <1>5, <2>1 DEF Aligned
  <2> QED
    BY <1>7, <2>2 DEF e
<1> QED
  BY <1>6, <1>7

\* Ageing the members of a sequence keeps its length and what is old in it.
LEMMA OlderIsAged ==
    ASSUME NEW s \in Seq(Nat), Period \in Nat
    PROVE  /\ Older(s) \in Seq(Nat) /\ Len(Older(s)) = Len(s)
           /\ \A i \in 1..Len(s) :
                 Older(s)[i] = IF s[i] < Period THEN s[i] + 1 ELSE Period
  BY DEF Older

\* Time leaves the deque aligned with the history.
LEMMA PassKeepsAligned ==
    ASSUME NEW ev, NEW re, NEW limit \in Nat, Aligned(ev, re, limit), Period \in Nat
    PROVE  Aligned(Older(ev), Older(re), limit)
<1>1. ev \in Seq(Nat) /\ re \in Seq(Nat) /\ Len(ev) \in Nat /\ Len(re) \in Nat
  BY DEF Aligned
<1>2. /\ Older(ev) \in Seq(Nat) /\ Len(Older(ev)) = Len(ev)
      /\ \A i \in 1..Len(ev) : Older(ev)[i] = IF ev[i] < Period THEN ev[i] + 1 ELSE Period
  BY <1>1, OlderIsAged
<1>3. /\ Older(re) \in Seq(Nat) /\ Len(Older(re)) = Len(re)
      /\ \A i \in 1..Len(re) : Older(re)[i] = IF re[i] < Period THEN re[i] + 1 ELSE Period
  BY <1>1, OlderIsAged
<1>4. \A i \in 1..Len(ev) : Older(ev)[i] = Older(re)[Len(re) - Len(ev) + i]
  <2> TAKE i \in 1..Len(ev)
  <2>1. Len(re) - Len(ev) + i \in 1..Len(re)
    BY <1>1 DEF Aligned
  <2>2. ev[i] = re[Len(re) - Len(ev) + i]
    BY DEF Aligned
  <2> QED
    BY <1>2, <1>3, <2>1, <2>2
<1>5. \A i \in 1..(Len(re) - Len(ev)) : Older(re)[i] >= Period
  <2> TAKE i \in 1..(Len(re) - Len(ev))
  <2>1. i \in 1..Len(re) /\ re[i] >= Period /\ re[i] \in Nat
    BY <1>1 DEF Aligned
  <2> QED
    BY <1>3, <2>1
<1> QED
  BY <1>1, <1>2, <1>3, <1>4, <1>5 DEF Aligned
-------------------------------------------------------------------------------
\* The bookkeeping and the history are aligned from the start.
LEMMA AlignedInit == LimiterInit => AllAligned
<1> SUFFICES ASSUME LimiterInit PROVE AllAligned
  OBVIOUS
<1>1. \A k \in Keys : events[k] = <<>> /\ recent[k] = <<>> /\ Limit[k] \in Nat
  BY LimiterConstants DEF LimiterInit
<1>2. <<>> \in Seq(Nat) /\ Len(<<>>) = 0
  OBVIOUS
<1>3. \A k \in Keys : Aligned(events[k], recent[k], Limit[k])
  <2> TAKE k \in Keys
  <2>1. 0 <= Limit[k] /\ 0 <= Limit[k] + 1 /\ 1..0 = {} /\ 0 - 0 = 0
    BY <1>1
  <2>2. Aligned(<<>>, <<>>, Limit[k])
    BY <1>2, <2>1 DEF Aligned
  <2> QED
    BY <1>1, <2>2
<1>4. events \in [Keys -> Seq(Nat)] /\ recent \in [Keys -> Seq(Nat)]
  BY <1>2 DEF LimiterInit
<1> QED
  BY <1>3, <1>4 DEF AllAligned

\* Every step of the limiter keeps them aligned.
LEMMA AlignedStep == AllAligned /\ [LimiterNext]_limiterVars => AllAligned'
<1> SUFFICES ASSUME AllAligned, [LimiterNext]_limiterVars PROVE AllAligned'
  OBVIOUS
<1> USE LimiterConstants
<1>0. /\ events \in [Keys -> Seq(Nat)] /\ recent \in [Keys -> Seq(Nat)]
      /\ \A k \in Keys : Aligned(events[k], recent[k], Limit[k]) /\ Limit[k] \in Nat
  BY DEF AllAligned
<1>1. ASSUME UNCHANGED <<events, recent>> PROVE AllAligned'
  BY <1>1, <1>0 DEF AllAligned, Aligned
<1>2. ASSUME NEW k \in Keys, Admit(k) PROVE AllAligned'
  <2>1. PICK n \in 0..Len(events[k]) :
            /\ Expired(events[k], n)
            /\ Len(events[k]) - n < Limit[k]
            /\ events' = [events EXCEPT ![k] =
                             Append(SubSeq(events[k], n + 1, Len(events[k])), 0)]
    BY <1>2 DEF Admit
  <2> DEFINE kept == SubSeq(events[k], n + 1, Len(events[k]))
             r == Append(recent[k], 0)
             newest == IF Len(r) > Limit[k] + 1 THEN Tail(r) ELSE r
  <2>2. Aligned(kept, recent[k], Limit[k])
    BY <1>0, <2>1, PruneKeepsAligned
  <2>3. Len(kept) = Len(events[k]) - n
    BY <1>0, <2>1
  <2>4. Aligned(Append(kept, 0), newest, Limit[k])
    <3> HIDE DEF kept
    <3> QED
      BY <1>0, <2>1, <2>2, <2>3, AdmitKeepsAligned
  <2>5. Append(kept, 0) \in Seq(Nat) /\ newest \in Seq(Nat)
    BY <2>4 DEF Aligned
  <2>6. recent' = [recent EXCEPT ![k] = newest]
    BY <1>2 DEF Admit, Record
  <2>7. events' = [events EXCEPT ![k] = Append(kept, 0)]
    BY <2>1
  <2> HIDE DEF kept, newest
  <2>8. events' \in [Keys -> Seq(Nat)] /\ recent' \in [Keys -> Seq(Nat)]
    BY <1>0, <2>5, <2>6, <2>7
  <2>9. \A j \in Keys : Aligned(events'[j], recent'[j], Limit[j])
    BY <1>0, <2>4, <2>6, <2>7
  <2> QED
    BY <2>8, <2>9 DEF AllAligned, Aligned
<1>3. ASSUME NEW k \in Keys, Defer(k) PROVE AllAligned'
  <2>1. PICK n \in 0..Len(events[k]) :
            /\ Expired(events[k], n)
            /\ events' = [events EXCEPT ![k] = SubSeq(events[k], n + 1, Len(events[k]))]
    BY <1>3 DEF Defer
  <2> DEFINE kept == SubSeq(events[k], n + 1, Len(events[k]))
  <2>2. Aligned(kept, recent[k], Limit[k])
    BY <1>0, <2>1, PruneKeepsAligned
  <2>3. kept \in Seq(Nat)
    BY <2>2 DEF Aligned
  <2>4. events' = [events EXCEPT ![k] = kept] /\ recent' = recent
    BY <1>3, <2>1 DEF Defer
  <2> HIDE DEF kept
  <2>5. \A j \in Keys : Aligned(events'[j], recent'[j], Limit[j])
    BY <1>0, <2>2, <2>4
  <2>6. events' \in [Keys -> Seq(Nat)] /\ recent' \in [Keys -> Seq(Nat)]
    BY <1>0, <2>3, <2>4
  <2> QED
    BY <2>5, <2>6 DEF AllAligned, Aligned
<1>4. ASSUME Pass PROVE AllAligned'
  <2>1. \A k \in Keys : events'[k] = Older(events[k]) /\ recent'[k] = Older(recent[k])
    BY <1>4 DEF Pass
  <2>2. \A k \in Keys : Aligned(Older(events[k]), Older(recent[k]), Limit[k])
    BY <1>0, PassKeepsAligned
  <2>3. \A k \in Keys : Older(events[k]) \in Seq(Nat) /\ Older(recent[k]) \in Seq(Nat)
    BY <2>2 DEF Aligned
  <2>4. events' \in [Keys -> Seq(Nat)] /\ recent' \in [Keys -> Seq(Nat)]
    BY <1>4, <2>3 DEF Pass
  <2>5. \A k \in Keys : Aligned(events'[k], recent'[k], Limit[k])
    BY <2>1, <2>2
  <2> QED
    BY <2>4, <2>5 DEF AllAligned, Aligned
<1>5. ASSUME NEW t \in Tasks, NEW k \in Keys, Join(t, k) \/ Leave(t, k) PROVE AllAligned'
  BY <1>1, <1>5 DEF Join, Leave
<1>6. ASSUME NEW k \in Keys, WakeEarly(k) PROVE AllAligned'
  BY <1>1, <1>6 DEF WakeEarly
<1>7. CASE UNCHANGED limiterVars
  BY <1>1, <1>7 DEF limiterVars
<1> QED
  BY <1>2, <1>3, <1>4, <1>5, <1>6, <1>7 DEF LimiterNext

\* Aligned deques bound the window: at most Limit requests are too young to
\* have been dropped.
LEMMA AlignedBoundsWindow == AllAligned => WindowRespected
<1> SUFFICES ASSUME AllAligned, NEW k \in Keys, Len(recent[k]) > Limit[k]
             PROVE  recent[k][1] >= Period
  BY DEF WindowRespected
<1>1. Aligned(events[k], recent[k], Limit[k]) /\ Limit[k] \in Nat
  BY LimiterConstants DEF AllAligned
<1>2. 1 \in 1..(Len(recent[k]) - Len(events[k]))
  BY <1>1 DEF Aligned
<1> QED
  BY <1>1, <1>2 DEF Aligned

\* InMemoryRateLimiter never admits more than Limit calls in any Period.
THEOREM LimiterKeepsWindow == LimiterSpec => []WindowRespected
  BY AlignedInit, AlignedStep, AlignedBoundsWindow, PTL DEF LimiterSpec

\* _get uses the limiter only through acquire: first attempts, retries and
\* cancelled calls are behaviours of the limiter.
THEOREM ClientUsesLimiter == ClientSpec => UsesLimiter
<1> USE ClientConstants
<1>1. ClientInit => LimiterInit
  BY DEF ClientInit
<1>2. [ClientNext]_clientVars => [LimiterNext]_limiterVars
  <2> SUFFICES ASSUME [ClientNext]_clientVars PROVE [LimiterNext]_limiterVars
    OBVIOUS
  <2>1. ASSUME NEW c \in Tasks, Progress(c) PROVE [LimiterNext]_limiterVars
    <3>1. KeyOf[c] \in Keys
      OBVIOUS
    <3>2. CASE Request(c) \/ NextAttempt(c)
      BY <3>1, <3>2 DEF Request, NextAttempt, LimiterNext
    <3>3. CASE Finish(c) \/ Retry(c)
      BY <3>3 DEF Finish, Retry
    <3>4. CASE Cancel(c)
      BY <3>1, <3>4 DEF Cancel, LimiterNext
    <3> QED
      BY <2>1, <3>2, <3>3, <3>4 DEF Progress
  <2>2. ASSUME NEW k \in Keys, Send(k) \/ WaitForSlot(k) PROVE [LimiterNext]_limiterVars
    BY <2>2 DEF Send, WaitForSlot, LimiterNext
  <2>3. CASE Tick
    BY <2>3 DEF Tick, LimiterNext
  <2>4. CASE UNCHANGED clientVars
    BY <2>4 DEF clientVars
  <2> QED
    BY <2>1, <2>2, <2>3, <2>4 DEF ClientNext
<1> QED
  BY <1>1, <1>2, PTL DEF ClientSpec, UsesLimiter, LimiterSpec

\* With retries and all, one client object stays within the window.
THEOREM ClientKeepsWindow == ClientSpec => []WindowRespected
  BY ClientUsesLimiter, LimiterKeepsWindow, PTL DEF UsesLimiter

-------------------------------------------------------------------------------
(***************************************************************************)
(* Retry-After.  What is left of the pause and what has passed of it add   *)
(* up to what the exchange asked for; and only a call that has waited it   *)
(* out can be at the lock, because nobody is in two places of a queue.     *)
(***************************************************************************)
\* A queue of calls of one key, each at one place.
Line(s, k) ==
    /\ s \in Seq(Tasks)
    /\ \A i \in 1..Len(s) : KeyOf[s[i]] = k
    /\ \A i, j \in 1..Len(s) : s[i] = s[j] => i = j

Lines == /\ queue \in [Keys -> Seq(Tasks)]
         /\ \A k \in Keys : Line(queue[k], k)
         /\ \A k \in Keys : \A i \in 1..Len(queue[k]) : phase[queue[k][i]] = "acquire"

Patient(c) ==
    /\ phase[c] = "backoff" /\ asked[c] > 0 =>
          delay[c] \in Nat /\ paused[c] + delay[c] >= AtMost(MaxDelay, asked[c])
    /\ phase[c] \in {"acquire", "sent"} /\ attempt[c] > 1 =>
          paused[c] >= AtMost(MaxDelay, asked[c])

RetryInv ==
    /\ phase \in [Tasks -> {"idle", "acquire", "sent", "backoff", "done"}]
    /\ attempt \in [Tasks -> Nat] /\ asked \in [Tasks -> Nat] /\ paused \in [Tasks -> Nat]
    /\ DOMAIN delay = Tasks
    /\ Lines
    /\ \A c \in Tasks : Patient(c)

\* r has the members of s but x; s without its n-th member.
Rest(r, s, x) == \A i \in 1..Len(r) : \E j \in 1..Len(s) : r[i] = s[j] /\ r[i] # x
Without(s, n) == SubSeq(s, 1, n - 1) \o SubSeq(s, n + 1, Len(s))

\* A queue without its head and without one of its members.
LEMMA LineTail ==
    ASSUME NEW k, NEW s, Line(s, k), s # <<>>
    PROVE  /\ Line(Tail(s), k) /\ Head(s) \in Tasks /\ KeyOf[Head(s)] = k
           /\ Rest(Tail(s), s, Head(s))
<1>1. s \in Seq(Tasks) /\ Len(s) \in Nat \ {0} /\ Head(s) = s[1] /\ 1 \in 1..Len(s)
  BY DEF Line
<1>2. Tail(s) \in Seq(Tasks) /\ Len(Tail(s)) = Len(s) - 1
  BY <1>1
<1>3. \A i \in 1..Len(Tail(s)) : i + 1 \in 1..Len(s) /\ Tail(s)[i] = s[i + 1]
  BY <1>1, <1>2
<1>4. \A i \in 1..Len(Tail(s)) : Tail(s)[i] # Head(s)
  BY <1>1, <1>3 DEF Line
<1>5. Line(Tail(s), k)
  BY <1>2, <1>3 DEF Line
<1> QED
  BY <1>1, <1>3, <1>4, <1>5 DEF Line, Rest

LEMMA LineShortened ==
    ASSUME NEW k, NEW s, Line(s, k), NEW n \in 1..Len(s),
           NEW r \in Seq(Tasks), Len(r) = Len(s) - 1,
           \A i \in 1..Len(r) : /\ i < n => r[i] = s[i]
                                /\ ~(i < n) => r[i] = s[i + 1]
    PROVE  /\ Line(r, k)
           /\ Rest(r, s, s[n])
<1> DEFINE at(i) == IF i < n THEN i ELSE i + 1
<1>1. s \in Seq(Tasks) /\ Len(s) \in Nat /\ Len(r) \in Nat
  BY DEF Line
<1>2. /\ \A i \in 1..Len(r) : at(i) \in 1..Len(s) /\ at(i) # n /\ r[i] = s[at(i)]
      /\ \A i, j \in 1..Len(r) : at(i) = at(j) => i = j
  <2>1. \A i \in 1..Len(r) : at(i) \in 1..Len(s) /\ at(i) # n
    BY <1>1
  <2>2. ASSUME NEW i \in 1..Len(r) PROVE r[i] = s[at(i)]
    <3>1. CASE i < n
      <4>1. at(i) = i
        BY <3>1
      <4> QED
        BY <3>1, <4>1
    <3>2. CASE ~(i < n)
      <4>1. at(i) = i + 1
        BY <3>2
      <4> QED
        BY <3>2, <4>1
    <3> QED
      BY <3>1, <3>2
  <2>3. \A i, j \in 1..Len(r) : at(i) = at(j) => i = j
    BY <1>1
  <2> QED
    BY <2>1, <2>2, <2>3
<1> HIDE DEF at
<1>3. \A i \in 1..Len(r) : KeyOf[r[i]] = k
  BY <1>2 DEF Line
<1>4. \A i, j \in 1..Len(r) : r[i] = r[j] => i = j
  BY <1>2 DEF Line
<1>5. \A i \in 1..Len(r) : r[i] # s[n]
  BY <1>2 DEF Line
<1> QED
  BY <1>2, <1>3, <1>4, <1>5 DEF Line, Rest

LEMMA LineWithout ==
    ASSUME NEW k, NEW s, Line(s, k), NEW n \in 1..Len(s)
    PROVE  Line(Without(s, n), k) /\ Rest(Without(s, n), s, s[n])
<1> DEFINE a == SubSeq(s, 1, n - 1)
           b == SubSeq(s, n + 1, Len(s))
           r == a \o b
<1>1. s \in Seq(Tasks) /\ Len(s) \in Nat /\ n \in Nat /\ n >= 1 /\ n <= Len(s)
  BY DEF Line
<1>2. a \in Seq(Tasks) /\ Len(a) = n - 1 /\ \A i \in 1..Len(a) : a[i] = s[i]
  BY <1>1
<1>3. b \in Seq(Tasks) /\ Len(b) = Len(s) - n /\ \A i \in 1..Len(b) : b[i] = s[n + i]
  BY <1>1
<1> HIDE DEF a, b
<1>4. /\ r \in Seq(Tasks) /\ Len(r) = Len(a) + Len(b)
      /\ \A i \in 1..Len(a) + Len(b) : r[i] = IF i <= Len(a) THEN a[i] ELSE b[i - Len(a)]
  BY <1>2, <1>3, ConcatProperties
<1> HIDE DEF r
<1>5. Len(r) = Len(s) - 1
  BY <1>1, <1>2, <1>3, <1>4
<1>6. ASSUME NEW i \in 1..Len(r) PROVE (i < n => r[i] = s[i]) /\ (~(i < n) => r[i] = s[i + 1])
  <2>1. i \in 1..Len(a) + Len(b) /\ i \in Nat /\ i >= 1 /\ i <= Len(s) - 1
    BY <1>1, <1>2, <1>3, <1>4
  <2>2. CASE i < n
    BY <1>1, <1>2, <1>4, <2>1, <2>2
  <2>3. CASE ~(i < n)
    <3>1. ~(i <= Len(a)) /\ i - Len(a) \in 1..Len(b) /\ n + (i - Len(a)) = i + 1
      BY <1>1, <1>2, <1>3, <2>1, <2>3
    <3> QED
      BY <1>3, <1>4, <2>1, <2>3, <3>1
  <2> QED
    BY <2>2, <2>3
<1>7. Line(r, k) /\ Rest(r, s, s[n])
  <2>1. \A i \in 1..Len(r) : (i < n => r[i] = s[i]) /\ (~(i < n) => r[i] = s[i + 1])
    BY <1>6
  <2>2. r \in Seq(Tasks)
    BY <1>4
  <2> QED
    BY <1>5, <2>1, <2>2, LineShortened
<1> QED
  BY <1>7 DEF Without, r, a, b

LEMMA RetryInit == ClientInit => RetryInv
<1> SUFFICES ASSUME ClientInit PROVE RetryInv
  OBVIOUS
<1>1. \A k \in Keys : queue[k] = <<>>
  BY DEF ClientInit, LimiterInit
<1>2. Lines
  BY <1>1 DEF ClientInit, LimiterInit, Lines, Line
<1>3. \A c \in Tasks : Patient(c)
  BY DEF ClientInit, Patient
<1> QED
  BY <1>2, <1>3 DEF ClientInit, RetryInv

\* A call that is at no lock may change its phase.
LEMMA OthersStayInLine ==
    ASSUME RetryInv, NEW c \in Tasks, phase[c] # "acquire", queue' = queue,
           NEW ph, phase' = [phase EXCEPT ![c] = ph]
    PROVE  Lines'
  BY DEF RetryInv, Lines

\* A call joins the queue of its key.
LEMMA JoinsLine ==
    ASSUME RetryInv, NEW c \in Tasks, Join(c, KeyOf[c]),
           phase' = [phase EXCEPT ![c] = "acquire"]
    PROVE  Lines'
<1> DEFINE k == KeyOf[c]
           s == queue[k]
           r == Append(s, c)
<1>1. k \in Keys
  BY ClientConstants
<1>2. Line(s, k) /\ s \in Seq(Tasks) /\ Len(s) \in Nat
  BY <1>1 DEF RetryInv, Lines
<1>3. queue' = [queue EXCEPT ![k] = r]
  BY DEF Join
<1>4. \A i \in 1..Len(s) : s[i] # c
  BY <1>1, <1>2 DEF Join, AtLock
<1>5. /\ r \in Seq(Tasks) /\ Len(r) = Len(s) + 1 /\ r[Len(r)] = c
      /\ \A i \in 1..Len(s) : r[i] = s[i]
  BY <1>2
<1>6. Line(r, k)
  <2>1. \A i \in 1..Len(r) : i \in 1..Len(s) \/ i = Len(r)
    BY <1>2, <1>5
  <2> HIDE DEF r
  <2>2. \A i \in 1..Len(r) : KeyOf[r[i]] = k
    BY <1>2, <1>5, <2>1 DEF Line
  <2>3. \A i, j \in 1..Len(r) : r[i] = r[j] => i = j
    BY <1>2, <1>4, <1>5, <2>1 DEF Line
  <2> QED
    BY <1>5, <2>2, <2>3 DEF Line
<1>7. \A i \in 1..Len(r) : phase'[r[i]] = "acquire"
  <2>1. \A i \in 1..Len(r) : i \in 1..Len(s) \/ i = Len(r)
    BY <1>2, <1>5
  <2>2. \A i \in 1..Len(s) : s[i] \in Tasks /\ phase[s[i]] = "acquire"
    BY <1>1, <1>2 DEF RetryInv, Lines
  <2>3. phase'[c] = "acquire" /\ \A i \in 1..Len(s) : phase'[s[i]] = "acquire"
    BY <2>2 DEF RetryInv
  <2> HIDE DEF r, s
  <2> QED
    BY <1>5, <2>1, <2>3
<1> HIDE DEF r
<1>8. queue' \in [Keys -> Seq(Tasks)]
  BY <1>3, <1>5 DEF RetryInv, Lines
<1>9. ASSUME NEW j \in Keys
      PROVE  Line(queue'[j], j) /\ \A i \in 1..Len(queue'[j]) : phase'[queue'[j][i]] = "acquire"
  <2>1. CASE j = k
    BY <1>1, <1>3, <1>6, <1>7, <2>1 DEF RetryInv, Lines
  <2>2. CASE j # k
    <3>1. queue'[j] = queue[j] /\ queue[j] \in Seq(Tasks)
      BY <1>3, <2>2 DEF RetryInv, Lines
    <3> QED
      BY <3>1 DEF RetryInv, Lines
  <2> QED
    BY <2>1, <2>2
<1> QED
  BY <1>8, <1>9 DEF Lines

\* The queue of one key loses a call, whose phase may then change.
LEMMA LeavesLine ==
    ASSUME RetryInv, NEW k \in Keys, NEW c \in Tasks, KeyOf[c] = k, NEW r, Line(r, k),
           Rest(r, queue[k], c),
           queue' = [queue EXCEPT ![k] = r],
           NEW ph, phase' = [phase EXCEPT ![c] = ph]
    PROVE  Lines'
<1>1. queue' \in [Keys -> Seq(Tasks)]
  BY DEF RetryInv, Lines, Line
<1>2. ASSUME NEW j \in Keys
      PROVE  Line(queue'[j], j) /\ \A i \in 1..Len(queue'[j]) : phase'[queue'[j][i]] = "acquire"
  <2>1. CASE j = k
    <3>1. queue'[j] = r
      BY <2>1 DEF RetryInv, Lines
    <3>2. \A i \in 1..Len(queue[k]) : phase[queue[k][i]] = "acquire"
      BY DEF RetryInv, Lines
    <3>3. \A i \in 1..Len(r) : r[i] \in Tasks /\ phase[r[i]] = "acquire" /\ r[i] # c
      BY <3>2 DEF Line, Rest
    <3> QED
      BY <2>1, <3>1, <3>3 DEF RetryInv
  <2>2. CASE j # k
    <3>1. queue'[j] = queue[j] /\ Line(queue[j], j)
      BY <2>2 DEF RetryInv, Lines
    <3>2. \A i \in 1..Len(queue[j]) : queue[j][i] # c
      BY <2>2, <3>1 DEF Line
    <3>3. \A i \in 1..Len(queue[j]) : queue[j][i] \in Tasks /\ phase[queue[j][i]] = "acquire"
      BY <3>1 DEF RetryInv, Lines, Line
    <3> QED
      BY <3>1, <3>2, <3>3 DEF RetryInv
  <2> QED
    BY <2>1, <2>2
<1> QED
  BY <1>1, <1>2 DEF Lines

LEMMA RetryStep == RetryInv /\ [ClientNext]_clientVars => RetryInv'
<1> SUFFICES ASSUME RetryInv, [ClientNext]_clientVars PROVE RetryInv'
  OBVIOUS
<1> USE ClientConstants
<1> DEFINE Typed == /\ phase \in [Tasks -> {"idle", "acquire", "sent", "backoff", "done"}]
                    /\ attempt \in [Tasks -> Nat] /\ asked \in [Tasks -> Nat]
                    /\ paused \in [Tasks -> Nat] /\ DOMAIN delay = Tasks
<1>0. Typed /\ Lines /\ \A c \in Tasks : Patient(c)
  BY DEF RetryInv
<1>1. ASSUME NEW c \in Tasks, Request(c) PROVE RetryInv'
  <2>1. Typed'
    BY <1>0, <1>1 DEF Request
  <2>2. Lines'
    BY <1>1, JoinsLine DEF Request
  <2>3. \A d \in Tasks : Patient(d)'
    BY <1>0, <1>1 DEF Request, Patient
  <2> QED
    BY <2>1, <2>2, <2>3 DEF RetryInv
<1>2. ASSUME NEW c \in Tasks, NextAttempt(c) PROVE RetryInv'
  <2>1. Typed'
    BY <1>0, <1>2 DEF NextAttempt
  <2>2. Lines'
    BY <1>2, JoinsLine DEF NextAttempt
  <2>3. paused[c] >= AtMost(MaxDelay, asked[c])
    BY <1>0, <1>2 DEF NextAttempt, Patient, AtMost
  <2>4. \A d \in Tasks : Patient(d)'
    BY <1>0, <1>2, <2>3 DEF NextAttempt, Patient
  <2> QED
    BY <2>1, <2>2, <2>4 DEF RetryInv
<1>3. ASSUME NEW c \in Tasks, Finish(c) PROVE RetryInv'
  <2>1. Typed'
    BY <1>0, <1>3 DEF Finish
  <2>2. Lines'
    BY <1>3, OthersStayInLine DEF Finish, limiterVars
  <2>3. \A d \in Tasks : Patient(d)'
    BY <1>0, <1>3 DEF Finish, Patient
  <2> QED
    BY <2>1, <2>2, <2>3 DEF RetryInv
<1>4. ASSUME NEW c \in Tasks, Retry(c) PROVE RetryInv'
  <2>1. PICK h \in RetryAfters \cup {NoHeader} :
            /\ \E d \in Pauses(c, h) : delay' = [delay EXCEPT ![c] = d]
            /\ asked' = [asked EXCEPT ![c] = IF h = NoHeader THEN 0 ELSE h]
    BY <1>4 DEF Retry
  <2>2. PICK d \in Pauses(c, h) : delay' = [delay EXCEPT ![c] = d]
    BY <2>1
  <2>3. Typed'
    BY <1>0, <1>4, <2>1, <2>2 DEF Retry
  <2>4. Lines'
    BY <1>4, OthersStayInLine DEF Retry, limiterVars
  <2>5. h # NoHeader => d = AtMost(MaxDelay, h) /\ d \in Nat
    BY <2>2 DEF Pauses, AtMost
  <2>6. Patient(c)'
    BY <1>0, <1>4, <2>1, <2>2, <2>5 DEF Retry, Patient
  <2>7. \A e \in Tasks : e # c => Patient(e)'
    BY <1>0, <1>4, <2>1, <2>2 DEF Retry, Patient
  <2> QED
    BY <2>3, <2>4, <2>6, <2>7 DEF RetryInv
<1>5. ASSUME NEW c \in Tasks, Cancel(c) PROVE RetryInv'
  <2>1. Typed'
    BY <1>0, <1>5 DEF Cancel
  <2>2. \A d \in Tasks : Patient(d)'
    BY <1>0, <1>5 DEF Cancel, Patient
  <2>3. CASE phase[c] = "acquire"
    <3> DEFINE k == KeyOf[c]
    <3>1. PICK n \in DOMAIN queue[k] :
              /\ queue[k][n] = c
              /\ queue' = [queue EXCEPT ![k] = SubSeq(@, 1, n - 1) \o SubSeq(@, n + 1, Len(@))]
      BY <1>5, <2>3 DEF Cancel, Leave
    <3>2. k \in Keys /\ Line(queue[k], k) /\ queue[k] \in Seq(Tasks)
      BY <1>0 DEF Lines
    <3>3. n \in 1..Len(queue[k])
      BY <3>1, <3>2
    <3> DEFINE r == Without(queue[k], n)
    <3>4. Line(r, k) /\ Rest(r, queue[k], c)
      <4> HIDE DEF k
      <4> QED
        BY <3>1, <3>2, <3>3, LineWithout
    <3>5. queue' = [queue EXCEPT ![k] = r] /\ phase' = [phase EXCEPT ![c] = "done"]
      BY <1>5, <3>1 DEF Cancel, Without
    <3> HIDE DEF r
    <3>6. Lines'
      BY <3>1, <3>2, <3>4, <3>5, LeavesLine
    <3> QED
      BY <2>1, <2>2, <3>6 DEF RetryInv
  <2>4. CASE phase[c] # "acquire"
    <3>1. Lines'
      BY <1>5, <2>4, OthersStayInLine DEF Cancel, limiterVars
    <3> QED
      BY <2>1, <2>2, <3>1 DEF RetryInv
  <2> QED
    BY <2>3, <2>4
<1>6. ASSUME NEW k \in Keys, Send(k) PROVE RetryInv'
  <2> DEFINE c == Head(queue[k])
  <2>1. /\ queue[k] # <<>> /\ queue' = [queue EXCEPT ![k] = Tail(queue[k])]
        /\ phase' = [phase EXCEPT ![c] = "sent"]
        /\ UNCHANGED <<attempt, delay, asked, paused>>
    BY <1>6 DEF Send, Admit
  <2>2. Line(queue[k], k) /\ queue[k] \in Seq(Tasks)
    BY <1>0 DEF Lines
  <2>3. Line(Tail(queue[k]), k) /\ c \in Tasks /\ KeyOf[c] = k /\ Rest(Tail(queue[k]), queue[k], c)
    BY <2>1, <2>2, LineTail
  <2>4. phase[c] = "acquire"
    <3>1. c = queue[k][1] /\ 1 \in 1..Len(queue[k])
      BY <2>1, <2>2
    <3> QED
      BY <1>0, <3>1 DEF Lines
  <2> HIDE DEF c
  <2>5. Lines'
    BY <2>1, <2>3, LeavesLine
  <2>6. Typed'
    BY <1>0, <2>1
  <2>7. \A d \in Tasks : Patient(d)'
    BY <1>0, <2>1, <2>3, <2>4 DEF Patient
  <2> QED
    BY <2>5, <2>6, <2>7 DEF RetryInv
<1>7. ASSUME NEW k \in Keys, WaitForSlot(k) PROVE RetryInv'
  <2>1. UNCHANGED <<queue, phase, attempt, delay, asked, paused>>
    BY <1>7 DEF WaitForSlot, Defer, WakeEarly, callVars
  <2> QED
    BY <1>0, <2>1 DEF RetryInv, Lines, Line, Patient
<1>8. CASE Tick
  <2>1. /\ UNCHANGED <<queue, phase, attempt, asked>>
        /\ delay' = [c \in Tasks |-> IF delay[c] > 0 THEN delay[c] - 1 ELSE 0]
        /\ paused' = [c \in Tasks |-> AtMost(MaxDelay, paused[c] + 1)]
    BY <1>8 DEF Tick, Pass
  <2>2. Typed'
    BY <1>0, <2>1 DEF AtMost
  <2>3. Lines'
    BY <1>0, <2>1 DEF Lines, Line
  <2>4. ASSUME NEW c \in Tasks PROVE Patient(c)'
    <3>1. /\ delay'[c] = IF delay[c] > 0 THEN delay[c] - 1 ELSE 0
          /\ paused'[c] = AtMost(MaxDelay, paused[c] + 1)
          /\ paused[c] \in Nat /\ asked[c] \in Nat /\ MaxDelay \in Nat
          /\ phase'[c] = phase[c] /\ attempt'[c] = attempt[c] /\ asked'[c] = asked[c]
      BY <1>0, <2>1
    <3>2. Patient(c)
      BY <1>0
    <3> QED
      BY <3>1, <3>2 DEF Patient, AtMost
  <2> QED
    BY <2>2, <2>3, <2>4 DEF RetryInv
<1>9. CASE UNCHANGED clientVars
  <2>1. UNCHANGED <<queue, phase, attempt, delay, asked, paused>>
    BY <1>9 DEF clientVars, callVars, limiterVars
  <2> QED
    BY <1>0, <2>1 DEF RetryInv, Lines, Line, Patient
<1> QED
  BY <1>1, <1>2, <1>3, <1>4, <1>5, <1>6, <1>7, <1>8, <1>9 DEF ClientNext, Progress

\* No attempt is repeated before the exchange's Retry-After has passed,
\* however many calls share the lock, wait in its queue or are cancelled.
THEOREM ClientHonoursRetryAfter == ClientSpec => []RetryAfterHonoured
<1>1. RetryInv => RetryAfterHonoured
  BY DEF RetryInv, RetryAfterHonoured, Patient
<1> QED
  BY <1>1, RetryInit, RetryStep, PTL DEF ClientSpec
===============================================================================
