------------------------------- MODULE Limits -------------------------------
(***************************************************************************)
(* What bounds the traffic of one process:                                 *)
(*  - the snowflake generator of message IDs (pkg/snowflake), whose mutex  *)
(*    is held while it waits out an exhausted millisecond;                 *)
(*  - the token buckets of the router's two rate limiters                  *)
(*    (internal/router/ratelimit.go, ratelimit_v2.go), of a comet          *)
(*    connection (pkg/ratelimit) and of a campaign (order_notify.go), each *)
(*    bucket with its own lock, so that requests interleave between the    *)
(*    dimensions they are checked against;                                 *)
(*  - the push client of the notify service and its circuit breaker        *)
(*    (internal/notify/service/push_client.go), used by many goroutines.   *)
(* All of them read the wall clock, which may be set back.                 *)
(* Tokens are counted in units of 1/Unit; a tick adds `rate` units.        *)
(***************************************************************************)
EXTENDS Integers, Sequences, FiniteSets, FiniteSetsExt

CONSTANTS
    MaxSequence,        \* maxSequence, 4095
    MaxWall,            \* bound: the wall clock
    MaxIds,             \* bound: IDs generated
    Users,              \* user IDs seen by the router's limiters
    Unit,               \* units of a token
    Rate, Burst,        \* rate in units per tick and burst in tokens, by dimension
    EventTypes,         \* event types with a configured limit
    Envelopes,          \* [evt, prio]: the envelopes of the requests
    Requesters,         \* goroutines that call the limiters
    MaxRequests,        \* bound: requests to the limiters
    Callers,            \* goroutines that call the push client
    Threshold,          \* failureThreshold
    MaxRetries,         \* maxRetries
    MaxCalls            \* bound: calls of the push client

\* The limiters a request passes; rates and bursts are configured, never negative.
Dimensions == {"global", "user", "event", "prio", "conn", "campaign"}

ASSUME LimitsAssumption ==
    /\ {MaxSequence, MaxIds, MaxRequests, MaxRetries, MaxCalls} \subseteq Nat
    /\ {Unit, Threshold, MaxWall} \subseteq Nat \ {0}
    /\ Rate \in [Dimensions -> Nat] /\ Burst \in [Dimensions -> Nat]

VARIABLES
    wall,       \* time.Now
    flake,      \* [sequence, lastTime, waiting]: the generator
    ids,        \* IDs handed out, in order
    buckets,    \* the buckets created so far, by key
    asks,       \* [Requesters -> buckets still to pass], <<>> when idle
    requests,   \* requests made so far
    breaker,    \* [state, failures, openedAt]
    calls,      \* [Callers -> [pc, attempt]]
    called,     \* calls made so far
    report      \* breaker results: failures recorded since the last success

limitsVars == <<wall, flake, ids, buckets, asks, requests, breaker, calls, called, report>>
flakeVars == <<flake, ids>>
bucketVars == <<buckets, asks, requests>>
clientVars == <<breaker, calls, called, report>>

\* The wall clock moves on, or is set back.
WallMoves ==
    /\ wall' \in {wall + 1, wall - 1} \cap 0..MaxWall
    /\ UNCHANGED <<flakeVars, bucketVars, clientVars>>

-----------------------------------------------------------------------------
\* Snowflake.Generate.  The ID of a millisecond and a sequence number; the
\* machine ID is the same in every ID of one process.

Id(now, sequence) == now * (MaxSequence + 1) + sequence

Mint(now, sequence) ==
    /\ flake' = [sequence |-> sequence, lastTime |-> now, waiting |-> FALSE]
    /\ ids' = Append(ids, Id(now, sequence))

\* A sequence that wraps within its millisecond.
GenerateUnwaited ==
    /\ ~flake.waiting /\ Len(ids) < MaxIds
    /\ wall >= flake.lastTime
    /\ Mint(wall, IF wall = flake.lastTime THEN (flake.sequence + 1) % (MaxSequence + 1) ELSE 0)
    /\ UNCHANGED <<wall, bucketVars, clientVars>>

\* ErrClockMovedBack leaves everything as it was: no step.
Generate ==
    /\ ~flake.waiting /\ Len(ids) < MaxIds
    /\ wall >= flake.lastTime
    /\ LET next == (flake.sequence + 1) % (MaxSequence + 1)
       IN  IF wall > flake.lastTime THEN Mint(wall, 0)
           ELSE IF next # 0 THEN Mint(wall, next)
           ELSE flake' = [flake EXCEPT !.sequence = 0, !.waiting = TRUE] /\ UNCHANGED ids
    /\ UNCHANGED <<wall, bucketVars, clientVars>>

\* The loop that waits for the next millisecond, holding the mutex.
NextMilli ==
    /\ flake.waiting /\ wall > flake.lastTime
    /\ Mint(wall, 0)
    /\ UNCHANGED <<wall, bucketVars, clientVars>>

-----------------------------------------------------------------------------
\* Token buckets.

NewBucket(dim) ==
    [dim |-> dim, tokens |-> Burst[dim] * Unit, last |-> wall, born |-> wall, peak |-> wall, passed |-> 0]

\* refill: the time since the last call, negative after the clock was set
\* back, never beyond the burst.
Refill(b) ==
    LET t == b.tokens + (wall - b.last) * Rate[b.dim]
    IN  [b EXCEPT !.tokens = IF t > Burst[b.dim] * Unit THEN Burst[b.dim] * Unit ELSE t,
                  !.last = wall, !.peak = IF wall > @ THEN wall ELSE @]

CanTake(b, n) == b.tokens >= n * Unit
AllowN(b, n) ==
    LET r == Refill(b)
    IN  IF CanTake(r, n) THEN [r EXCEPT !.tokens = @ - n * Unit, !.passed = @ + n] ELSE r

\* RateLimiter.AllowUser: the global bucket, then the user's.
AllowUser(uid) == << [key |-> <<"v1", "global">>, dim |-> "global"], [key |-> <<"v1", uid>>, dim |-> "user"] >>

\* MultiDimRateLimiter.CheckAll: user, event type, priority; an event type
\* without a limit passes, a missing priority counts as normal.
CheckAll(uid, evt, prio) ==
    <<[key |-> <<"user", uid>>, dim |-> "user"]>>
        \o (IF evt \in EventTypes THEN <<[key |-> <<"event", evt>>, dim |-> "event"]>> ELSE <<>>)
        \o <<[key |-> <<"prio", IF prio = "" THEN "normal" ELSE prio>>, dim |-> "prio"]>>

\* TokenBucket.Allow of a comet channel, and tryAcquireCampaignToken.
ConnAllow == <<[key |-> <<"conn", "c">>, dim |-> "conn"]>>
CampaignAllow == <<[key |-> <<"campaign", "c">>, dim |-> "campaign"]>>

Ask(q) ==
    /\ asks[q] = <<>> /\ requests < MaxRequests
    /\ requests' = requests + 1
    /\ \E uid \in Users, env \in Envelopes :
         asks' = [asks EXCEPT ![q] = AllowUser(uid) \o CheckAll(uid, env.evt, env.prio)]
    /\ UNCHANGED <<wall, buckets, flakeVars, clientVars>>

AskOne(q) ==
    /\ asks[q] = <<>> /\ requests < MaxRequests
    /\ requests' = requests + 1
    /\ \E chain \in {ConnAllow, CampaignAllow} : asks' = [asks EXCEPT ![q] = chain]
    /\ UNCHANGED <<wall, buckets, flakeVars, clientVars>>

\* One bucket under its lock, created on first use; the request goes on to
\* the next dimension or is refused.
Take(q) ==
    /\ asks[q] # <<>>
    /\ LET k == Head(asks[q])
           b == IF k.key \in DOMAIN buckets THEN buckets[k.key] ELSE NewBucket(k.dim)
           a == AllowN(b, 1)
       IN  /\ buckets' = [x \in DOMAIN buckets \cup {k.key} |-> IF x = k.key THEN a ELSE buckets[x]]
           /\ asks' = [asks EXCEPT ![q] = IF a.passed > b.passed THEN Tail(@) ELSE <<>>]
    /\ UNCHANGED <<wall, requests, flakeVars, clientVars>>

-----------------------------------------------------------------------------
\* The push client.

\* CircuitBreaker.Allow; `cool` says that openInterval has passed.
Allow(b, cool) == IF b.state = "open" /\ cool THEN [b EXCEPT !.state = "half_open"] ELSE b

RecordSuccess(b) == [state |-> "closed", failures |-> 0]

RecordFailure(b) ==
    LET n == b.failures + 1
    IN  [ failures |-> n,
          state |-> IF n >= Threshold \/ b.state = "half_open" THEN "open" ELSE b.state ]

\* doPostOnceDetailed: what Logic's answer, or its absence, is taken for.
Answers == {"ok", "timeout", "connection_refused", "unreadable", "http_5xx",
            "http_4xx", "bad_json", "logic_error", "bad_request"}
IsRetryable(answer) == answer \in {"timeout", "connection_refused", "unreadable", "http_5xx"}

Idle == [pc |-> "idle", attempt |-> 0]

\* doPostDetailedContext up to its loop: a refused call returns at once.
Post(c) ==
    /\ calls[c].pc = "idle" /\ called < MaxCalls
    /\ called' = called + 1
    /\ \E cool \in BOOLEAN :
         LET b == Allow(breaker, cool)
         IN  /\ breaker' = b
             /\ calls' = [calls EXCEPT ![c].pc = IF b.state = "open" THEN "idle" ELSE "post"]
    /\ UNCHANGED <<wall, flakeVars, bucketVars, report>>

\* One attempt, and what the loop does with its outcome.
Answer(c, answer) ==
    /\ calls[c].pc = "post"
    /\ LET again == IsRetryable(answer) /\ calls[c].attempt < MaxRetries
       IN  CASE answer = "ok" ->
                  /\ breaker' = RecordSuccess(breaker)
                  /\ report' = 0
                  /\ calls' = [calls EXCEPT ![c] = Idle]
             [] answer # "ok" /\ again ->
                  /\ calls' = [calls EXCEPT ![c].pc = "backoff"]
                  /\ UNCHANGED <<breaker, report>>
             [] answer # "ok" /\ ~again ->
                  /\ breaker' = RecordFailure(breaker)
                  /\ report' = report + 1
                  /\ calls' = [calls EXCEPT ![c] = Idle]
    /\ UNCHANGED <<wall, called, flakeVars, bucketVars>>

BackoffOver(c) ==
    /\ calls[c].pc = "backoff"
    /\ calls' = [calls EXCEPT ![c] = [pc |-> "post", attempt |-> calls[c].attempt + 1]]
    /\ UNCHANGED <<wall, breaker, called, report, flakeVars, bucketVars>>

\* The context ends during the wait: nothing is recorded.
Cancelled(c) ==
    /\ calls[c].pc = "backoff"
    /\ calls' = [calls EXCEPT ![c] = Idle]
    /\ UNCHANGED <<wall, breaker, called, report, flakeVars, bucketVars>>

-----------------------------------------------------------------------------
LimitsInit ==
    /\ wall = 1
    /\ flake = [sequence |-> 0, lastTime |-> 0, waiting |-> FALSE]
    /\ ids = <<>>
    /\ buckets = << >>
    /\ asks = [q \in Requesters |-> <<>>]
    /\ requests = 0
    /\ breaker = [state |-> "closed", failures |-> 0]
    /\ calls = [c \in Callers |-> Idle]
    /\ called = 0
    /\ report = 0

FlakeNext == WallMoves \/ Generate \/ NextMilli
BucketNext == WallMoves \/ \E q \in Requesters : Ask(q) \/ AskOne(q) \/ Take(q)
ClientNext ==
    \E c \in Callers :
        \/ Post(c) \/ BackoffOver(c) \/ Cancelled(c)
        \/ \E answer \in Answers : Answer(c, answer)

LimitsNext == FlakeNext \/ BucketNext \/ ClientNext
LimitsSpec == LimitsInit /\ [][LimitsNext]_limitsVars

-----------------------------------------------------------------------------
\* No ID is handed out twice and they only grow, though the clock is set
\* back and the sequence of a millisecond runs out (Generate).
IdsUnique == \A i \in 2..Len(ids) : ids[i - 1] < ids[i]

\* A bucket never lets more through than its burst and the refill of the
\* time it saw: a clock set back and forth again is not paid twice (allow,
\* AllowN).
WithinRate ==
    \A k \in DOMAIN buckets :
        LET b == buckets[k]
        IN  b.passed * Unit <= Burst[b.dim] * Unit + (b.peak - b.born) * Rate[b.dim]

\* The breaker is closed exactly while fewer than Threshold calls failed
\* since the last success, though calls that were admitted before it opened
\* end after it and cancelled ones report nothing (Allow, RecordSuccess,
\* RecordFailure).
BreakerAgrees == (breaker.state = "closed") = (report < Threshold)

\* The three limits of a process hold together.
WithinLimits == IdsUnique /\ WithinRate /\ BreakerAgrees

=============================================================================
