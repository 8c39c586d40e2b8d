----------------------------- MODULE PublicClient -----------------------------
(***************************************************************************)
(* NobitexPublicClient._get: bounded retries with backoff, every attempt   *)
(* through the rate limiter.  A call is one coroutine; its key stands for  *)
(* the client object it uses and the endpoint.  The exchange and the       *)
(* network are external: any answer may come to any attempt.               *)
(***************************************************************************)
EXTENDS RateLimiter

CONSTANTS
    KeyOf,        \* the client object and endpoint of each call
    MaxAttempts, BaseDelay, MaxDelay,     \* RetryPolicy
    RetryAfters   \* values of a Retry-After header, in ticks

ASSUME ClientConstants ==
    /\ KeyOf \in [Tasks -> Keys]
    /\ MaxAttempts \in Nat \ {0} /\ BaseDelay \in Nat /\ MaxDelay \in Nat
    /\ RetryAfters \subseteq Nat

VARIABLES
    phase,     \* idle, acquire, sent, backoff, done
    attempt,   \* number of the attempt
    delay,     \* what is left of the pause before the next attempt
    outcome,   \* what _get returned or raised
    asked,     \* history: the Retry-After of the last answer, 0 if none
    paused     \* history: ticks since the last answer, at most MaxDelay

callVars == <<phase, attempt, delay, outcome, asked, paused>>
clientVars == <<limiterVars, callVars>>

\* What comes back: a JSON object; another body; a 4xx but 429; 429; 500, 502,
\* 503 or 504; another 5xx; ConnectError or TimeoutException; any other error
\* of httpx (the peer closes the connection, a malformed response).
Answers == {"ok", "bad_json", "client_error", "too_many", "retry_status",
            "server_error", "unreachable", "broken"}
Retryable == {"too_many", "retry_status", "unreachable"}

Raised == [ok |-> "payload", bad_json |-> "NobitexResponseError",
    client_error |-> "NobitexRequestError", too_many |-> "NobitexRateLimitError",
    retry_status |-> "NobitexTransportError", server_error |-> "NobitexTransportError",
    unreachable |-> "NobitexTransportError", broken |-> "httpx.TransportError"]

ClientInit ==
    /\ LimiterInit
    /\ phase = [c \in Tasks |-> "idle"]
    /\ attempt = [c \in Tasks |-> 0]
    /\ delay = [c \in Tasks |-> 0]
    /\ outcome = [c \in Tasks |-> "none"]
    /\ asked = [c \in Tasks |-> 0]
    /\ paused = [c \in Tasks |-> 0]

NoHeader == -1

AtMost(bound, n) == IF n > bound THEN bound ELSE n

\* RetryPolicy.delay: exponential with up to a fifth of jitter, capped.
Backoff(n) == LET base == AtMost(MaxDelay, BaseDelay * 2^(n - 1))
              IN  base .. AtMost(MaxDelay, base + base \div 5)

\* Mutant of Pauses: Retry-After is not looked at.
PausesOwn(c, h) == Backoff(attempt[c])

\* _wait_before_retry: Retry-After when there is one, else the backoff.
Pauses(c, h) == IF h = NoHeader THEN Backoff(attempt[c]) ELSE {AtMost(MaxDelay, h)}

Request(c) ==
    /\ phase[c] = "idle"
    /\ Join(c, KeyOf[c])
    /\ phase' = [phase EXCEPT ![c] = "acquire"]
    /\ attempt' = [attempt EXCEPT ![c] = 1]
    /\ UNCHANGED <<delay, outcome, asked, paused>>

\* acquire returns and the request leaves at once.
Send(k) ==
    /\ Admit(k)
    /\ phase' = [phase EXCEPT ![Head(queue[k])] = "sent"]
    /\ UNCHANGED <<attempt, delay, outcome, asked, paused>>

WaitForSlot(k) == (Defer(k) \/ WakeEarly(k)) /\ UNCHANGED callVars

\* An answer that ends the call.
Finish(c) ==
    /\ phase[c] = "sent"
    /\ \E a \in Answers :
          /\ a \in Retryable => attempt[c] = MaxAttempts
          /\ outcome' = [outcome EXCEPT ![c] = Raised[a]]
    /\ phase' = [phase EXCEPT ![c] = "done"]
    /\ UNCHANGED <<limiterVars, attempt, delay, asked, paused>>

\* An answer after which the call will try again; only a response has headers.
Retry(c) ==
    /\ phase[c] = "sent" /\ attempt[c] < MaxAttempts
    /\ \E a \in Retryable, h \in RetryAfters \cup {NoHeader} :
          /\ a = "unreachable" => h = NoHeader
          /\ \E d \in Pauses(c, h) : delay' = [delay EXCEPT ![c] = d]
          /\ asked' = [asked EXCEPT ![c] = IF h = NoHeader THEN 0 ELSE h]
    /\ phase' = [phase EXCEPT ![c] = "backoff"]
    /\ paused' = [paused EXCEPT ![c] = 0]
    /\ UNCHANGED <<limiterVars, attempt, outcome>>

\* Mutant of NextAttempt: the slot of the first attempt covers its retries.
NextAttemptWithoutSlot(c) ==
    /\ phase[c] = "backoff" /\ delay[c] = 0
    /\ phase' = [phase EXCEPT ![c] = "sent"]
    /\ attempt' = [attempt EXCEPT ![c] = @ + 1]
    /\ Record(KeyOf[c])
    /\ UNCHANGED <<queue, wait, events, delay, outcome, asked, paused>>

\* Mutant of NextAttempt: a retry counts as the same attempt.
NextAttemptUncounted(c) ==
    /\ phase[c] = "backoff" /\ delay[c] = 0
    /\ Join(c, KeyOf[c])
    /\ phase' = [phase EXCEPT ![c] = "acquire"]
    /\ UNCHANGED <<attempt, delay, outcome, asked, paused>>

NextAttempt(c) ==
    /\ phase[c] = "backoff" /\ delay[c] = 0
    /\ Join(c, KeyOf[c])
    /\ phase' = [phase EXCEPT ![c] = "acquire"]
    /\ attempt' = [attempt EXCEPT ![c] = @ + 1]
    /\ UNCHANGED <<delay, outcome, asked, paused>>

\* The caller is cancelled (its HTTP client went away).
Cancel(c) ==
    /\ phase[c] \in {"acquire", "sent", "backoff"}
    /\ IF phase[c] = "acquire" THEN Leave(c, KeyOf[c]) ELSE UNCHANGED limiterVars
    /\ phase' = [phase EXCEPT ![c] = "done"]
    /\ delay' = [delay EXCEPT ![c] = 0]
    /\ outcome' = [outcome EXCEPT ![c] = "cancelled"]
    /\ UNCHANGED <<attempt, asked, paused>>

Tick ==
    /\ Pass
    /\ delay' = [c \in Tasks |-> IF delay[c] > 0 THEN delay[c] - 1 ELSE 0]
    /\ paused' = [c \in Tasks |-> AtMost(MaxDelay, paused[c] + 1)]
    /\ UNCHANGED <<phase, attempt, outcome, asked>>

Progress(c) == Request(c) \/ Finish(c) \/ Retry(c) \/ NextAttempt(c) \/ Cancel(c)

ClientNext ==
    \/ \E c \in Tasks : Progress(c)
    \/ \E k \in Keys : Send(k) \/ WaitForSlot(k)
    \/ Tick

ClientSpec == ClientInit /\ [][ClientNext]_clientVars

\* Time passes, the event loop resumes what may run, and every attempt ends: by
\* httpx's timeout, which is for each read, if the exchange does not go on sending
\* one answer byte by byte.  Callers need not call and nobody need cancel.
ClientFairSpec ==
    /\ ClientSpec
    /\ WF_clientVars(Tick)
    /\ \A k \in Keys : WF_clientVars(Send(k) \/ WaitForSlot(k))
    /\ \A c \in Tasks : WF_clientVars(Finish(c) \/ Retry(c)) /\ WF_clientVars(NextAttempt(c))
-------------------------------------------------------------------------------
ClientTypeOK ==
    /\ LimiterTypeOK
    /\ phase \in [Tasks -> {"idle", "acquire", "sent", "backoff", "done"}]
    /\ attempt \in [Tasks -> 0..MaxAttempts]
    /\ delay \in [Tasks -> 0..MaxDelay]
    /\ paused \in [Tasks -> 0..MaxDelay]

\* Calls, retries and cancellations use the limiter only as a task may: nothing
\* is sent past it and nobody stays in its queue.
UsesLimiter == LimiterSpec

\* docs/nobitex-api.md:29-30.  A retry is not sent before the exchange's
\* Retry-After, as far as the maximum delay goes, has passed; the wait for the
\* limiter may only add to it.
RetryAfterHonoured ==
    \A c \in Tasks : phase[c] = "sent" /\ attempt[c] > 1
                        => paused[c] >= AtMost(MaxDelay, asked[c])

\* Every call ends, whatever the exchange answers and however many calls share
\* the lock: attempts are bounded and a sleeping holder lets go.
EveryCallEnds == \A c \in Tasks : phase[c] = "acquire" ~> phase[c] = "done"
===============================================================================
