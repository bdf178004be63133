------------------------------- MODULE RateLimit -------------------------------
(***************************************************************************)
(* internal/kernel/ratelimit: a token bucket for each API key.  Allow      *)
(* takes the time before it takes the mutex, so that requests come to the  *)
(* bucket with times out of order.                                         *)
(*                                                                         *)
(* Time is in ticks, TicksPerSecond of them in a second, and a bucket is   *)
(* counted in parts of a token, TicksPerSecond of them in a token: a tick  *)
(* refills Rate parts.  The code has float64 for them.                     *)
(***************************************************************************)
EXTENDS Integers, Sequences

CONSTANTS
    Rate,             \* RATE_LIMIT, requests per second; 0 is no limit
    Burst,            \* RATE_LIMIT_BURST
    TicksPerSecond,
    Visits,           \* requests of one API key
    Anonymous,        \* requests that carry no key
    MaxTicks          \* bound on the clock

ASSUME RateAssumption ==
    /\ Rate \in Nat /\ Burst \in Nat \ {0}
    /\ TicksPerSecond \in Nat \ {0} /\ MaxTicks \in Nat
    /\ Anonymous \subseteq Visits

NoBucket == [tokens |-> -1, last |-> 0]

VARIABLES
    ticks,      \* the clock
    visit,      \* request -> [step, now]
    bucket,     \* the bucket of the key
    admitted,   \* the requests that were counted, in their order: [now, at]
    retry       \* the last refusal, if nothing was admitted since: [at, wait]

rateVars == <<ticks, visit, bucket, admitted, retry>>

NoRetry == [at |-> -1, wait |-> 0]

CeilDiv(n, d) == (n + d - 1) \div d

Advance ==
    /\ ticks < MaxTicks
    /\ ticks' = ticks + 1
    /\ UNCHANGED <<visit, bucket, admitted, retry>>

Limited(v) == Rate > 0 /\ v \notin Anonymous

\* Middleware without a limit or a key.
PassThrough(v) ==
    /\ visit[v].step = "new"
    /\ ~Limited(v)
    /\ visit' = [visit EXCEPT ![v].step = "served"]
    /\ UNCHANGED <<ticks, bucket, admitted, retry>>

TakeTime(v) ==
    /\ visit[v].step = "new"
    /\ Limited(v)
    /\ visit' = [visit EXCEPT ![v] = [step |-> "timed", now |-> ticks]]
    /\ UNCHANGED <<ticks, bucket, admitted, retry>>

Full == Burst * TicksPerSecond

\* Mutant: the time of the bucket follows every request.
RefilledToNow(b, now) ==
    LET elapsed == now - b.last
    IN  [tokens |-> IF elapsed > 0 /\ b.tokens + elapsed * Rate > Full THEN Full
                    ELSE IF elapsed > 0 THEN b.tokens + elapsed * Rate ELSE b.tokens,
         last   |-> now]

\* A request that is older than the last one refills nothing.
Refilled(b, now) ==
    LET elapsed == now - b.last
        tokens  == b.tokens + elapsed * Rate
    IN  IF elapsed <= 0 THEN b ELSE [tokens |-> IF tokens > Full THEN Full ELSE tokens, last |-> now]

\* The bucket as Allow finds it; the first request of a key makes it.
BucketAt(now) == IF bucket = NoBucket THEN [tokens |-> Full, last |-> now] ELSE Refilled(bucket, now)

\* Mutant: the wait is cut down to whole seconds.
RetryAfterFloor(b) == ((TicksPerSecond - b.tokens) \div Rate) \div TicksPerSecond

\* The Duration of Allow is cut to whole ticks, the header rounded up to seconds.
RetryAfter(b) == CeilDiv((TicksPerSecond - b.tokens) \div Rate, TicksPerSecond)

\* Allow, under the mutex.
Admit(v) ==
    LET b == BucketAt(visit[v].now)
    IN  /\ visit[v].step = "timed"
        /\ b.tokens >= TicksPerSecond
        /\ bucket' = [b EXCEPT !.tokens = @ - TicksPerSecond]
        /\ visit' = [visit EXCEPT ![v] = [step |-> "served", now |-> 0]]
        /\ admitted' = Append(admitted, [now |-> visit[v].now, at |-> ticks])
        /\ retry' = NoRetry
        /\ UNCHANGED ticks

Deny(v) ==
    LET b == BucketAt(visit[v].now)
    IN  /\ visit[v].step = "timed"
        /\ b.tokens < TicksPerSecond
        /\ bucket' = b
        /\ visit' = [visit EXCEPT ![v] = [step |-> "limited", now |-> 0]]
        /\ retry' = [at |-> ticks, wait |-> RetryAfter(b)]
        /\ UNCHANGED <<ticks, admitted>>

RateInit ==
    /\ ticks = 0
    /\ visit = [v \in Visits |-> [step |-> "new", now |-> 0]]
    /\ bucket = NoBucket
    /\ admitted = <<>>
    /\ retry = NoRetry

RateStep == Advance \/ (\E v \in Visits : PassThrough(v) \/ TakeTime(v) \/ Admit(v) \/ Deny(v))

-------------------------------------------------------------------------------

\* From the moment a request has come, no more requests of its key are admitted than
\* the burst and what the rate allows until the last of them is, though requests wait
\* for the mutex and meet a bucket that is ahead of their time (Allow).  Counted from
\* the moment it is admitted there may be more: a bucket made at the time of a request
\* that has waited gives that time back to the next one.
AdmitsWithinRate ==
    \A i, j \in DOMAIN admitted :
        i <= j => (j - i + 1) * TicksPerSecond <= Full + Rate * (admitted[j].at - admitted[i].now)

\* A client that is refused and comes back when Retry-After has passed is admitted, if
\* its key has had no other request admitted since (Allow, Middleware).
RetryAfterSuffices ==
    [][\A v \in Visits :
        /\ retry # NoRetry
        /\ visit[v].step = "timed"
        /\ visit[v].now > retry.at
        /\ visit[v].now >= retry.at + retry.wait * TicksPerSecond
        => visit'[v].step # "limited"]_rateVars
===============================================================================
