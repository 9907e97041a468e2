------------------------------- MODULE Limiter -------------------------------
(***************************************************************************)
(* FixedWindowLimiter (backend/app/services/rate_limit.py): requests of    *)
(* one key are counted in Redis by the bucket of the clock they arrive in. *)
(* The transaction (INCR, EXPIRE) reaches Redis after the bucket was       *)
(* chosen, possibly in a later second.  Time is in whole seconds.          *)
(***************************************************************************)
EXTENDS Naturals, FiniteSets

CONSTANTS
    Requests,      \* the requests with one key
    WindowLimit,   \* limit
    WindowSeconds, \* window_seconds
    CallSeconds,   \* the longest a transaction takes to reach Redis
    LastSecond     \* bound of the clock

\* EXPIRE's extra second covers a call that is at most a second late.
ASSUME LimiterAssumption ==
    /\ IsFiniteSet(Requests)
    /\ WindowLimit \in Nat /\ LastSecond \in Nat
    /\ WindowSeconds \in Nat \ {0}
    /\ CallSeconds \in {0, 1}

VARIABLES
    clock,     \* time.time()
    counters,  \* Redis, by bucket: the count and when its key expires
    checks     \* the requests: where they are, their bucket, when it was read

limiterVars == <<clock, counters, checks>>

Buckets == 0..(LastSecond \div WindowSeconds)
Bucket(t) == t \div WindowSeconds
NoCounter == [count |-> 0, expires |-> 0]
Verdicts == {"passed", "refused", "unchecked"}   \* unchecked: Redis was down

LimiterTypeOK ==
    /\ clock \in 0..LastSecond
    /\ counters \in [Buckets -> [count : 0..Cardinality(Requests), expires : Nat]]
    /\ checks \in [Requests -> [pc : {"new", "sent"} \cup Verdicts,
                                bucket : Buckets, at : 0..LastSecond]]

LimiterInit ==
    /\ clock = 0
    /\ counters = [b \in Buckets |-> NoCounter]
    /\ checks = [r \in Requests |-> [pc |-> "new", bucket |-> 0, at |-> 0]]

SendCheck(r) ==
    /\ checks[r].pc = "new"
    /\ checks' = [checks EXCEPT ![r] =
                    [pc |-> "sent", bucket |-> Bucket(clock), at |-> clock]]
    /\ UNCHANGED <<clock, counters>>

Live(c) == IF clock < c.expires THEN c.count ELSE 0
Incremented_ShortLived(c) ==                                         \* (mistake)
    [count |-> Live(c) + 1, expires |-> clock + WindowSeconds]
\* INCR, then EXPIRE in window + 1 seconds.
Incremented(c) ==
    [count |-> Live(c) + 1, expires |-> clock + WindowSeconds + 1]

RedisAnswers(r) ==
    /\ checks[r].pc = "sent"
    /\ LET b == checks[r].bucket
           c == Incremented(counters[b])
       IN /\ counters' = [counters EXCEPT ![b] = c]
          /\ checks' = [checks EXCEPT ![r].pc =
                          IF c.count > WindowLimit THEN "refused" ELSE "passed"]
    /\ UNCHANGED clock

\* Fail open: the request proceeds, counted or not.
RedisFails(r) ==
    /\ checks[r].pc = "sent"
    /\ \/ counters' = [counters EXCEPT ![checks[r].bucket] = Incremented(@)]
       \/ UNCHANGED counters
    /\ checks' = [checks EXCEPT ![r].pc = "unchecked"]
    /\ UNCHANGED clock

\* A call is never later than CallSeconds.
Second ==
    /\ clock < LastSecond
    /\ \A r \in Requests : checks[r].pc = "sent" => clock < checks[r].at + CallSeconds
    /\ clock' = clock + 1
    /\ UNCHANGED <<counters, checks>>

LimiterNext ==
    \/ \E r \in Requests : SendCheck(r) \/ RedisAnswers(r) \/ RedisFails(r)
    \/ Second

LimiterSpec == LimiterInit /\ [][LimiterNext]_limiterVars

-----------------------------------------------------------------------------
Passed(b) == {r \in Requests : checks[r].pc = "passed" /\ checks[r].bucket = b}

(* However late its transactions reach Redis, a window lets no more than   *)
(* its limit pass, and refuses nobody while fewer than the limit have been *)
(* counted (check, rate_limit.py:26-54).                                   *)
WindowRespected ==
    \A b \in Buckets :
        /\ Cardinality(Passed(b)) <= WindowLimit
        /\ (\E r \in Requests : checks[r].pc = "refused" /\ checks[r].bucket = b)
              => Cardinality({r \in Requests : checks[r].bucket = b /\
                       checks[r].pc \in {"passed", "unchecked"}}) >= WindowLimit
=============================================================================
